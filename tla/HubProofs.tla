----------------------------- MODULE HubProofs -----------------------------
(***************************************************************************)
(* Theorems about Hub for every set of channels, every assignment of       *)
(* directions and every bound.                                             *)
(***************************************************************************)
EXTENDS Hub, TLAPS

USE DEF System, Threads, Message, itemVars

\* TypeOK with what makes it inductive: popMessage() reaches front() only with a
\* message in the queue, and msgLoop() delivers only a message it has popped.
TypeInv ==
  /\ TypeOK
  /\ loop = "pop" => messages # <<>>
  /\ loop \in {"fan", "sending"} => taken > 0

LEMMA ListedIsSet ==
  ASSUME TypeOK
  PROVE  Listed(inputChannels) \subseteq Ins /\ Listed(outputChannels) \subseteq Outs
BY DEF TypeOK, Listed

LEMMA TypeInit == Init => TypeInv
<1> SUFFICES ASSUME Init PROVE TypeInv
  OBVIOUS
<1>1. /\ inputChannels \in Seq(Ins) /\ outputChannels \in Seq(Outs)
      /\ messages \in Seq(Message \cup {NoMessage})
      /\ accepted \in Seq(Message \cup {NoMessage})
  BY DEF Init
<1>2. handed \in [Outs -> SUBSET (Nat \ {0})]
  BY DEF Init
<1>3. activation \in [Channels -> {"idle", "starting", "ready", "failed"}]
  BY DEF Init
<1>4. /\ main = "setup" /\ ticking \in SUBSET Channels
      /\ loopRunning \in BOOLEAN /\ alive \in BOOLEAN /\ overlooked \in BOOLEAN
  BY DEF Init
<1>5. /\ mutex \in Threads \cup {"loop", "free"} /\ notifying \in SUBSET Threads
      /\ loop = "none" /\ item \in Message \cup {NoMessage}
  BY DEF Init
<1>6. next \in Nat \ {0} /\ taken \in Nat /\ late \in Nat
  BY DEF Init
<1>7. QED
  BY <1>1, <1>2, <1>3, <1>4, <1>5, <1>6 DEF TypeInv, TypeOK

LEMMA TypeStep == TypeInv /\ [Next]_vars => TypeInv'
<1> SUFFICES ASSUME TypeInv, [Next]_vars PROVE TypeInv'
  OBVIOUS
<1> USE DEF TypeInv, TypeOK
<1>0. CASE UNCHANGED vars
  BY <1>0 DEF vars, setupVars, flagVars, mainVars, queueVars, loopVars
<1>1. ASSUME NEW c \in Channels, AddChannel(c) PROVE TypeInv'
  <2>1. inputChannels' \in Seq(Ins) /\ outputChannels' \in Seq(Outs)
    <3>1. CASE Direction[c] = "input"
      <4>1. c \in Ins
        BY <3>1 DEF Ins
      <4>2. inputChannels' = Append(inputChannels, c) /\ outputChannels' = outputChannels
        BY <1>1, <3>1 DEF AddChannel
      <4>3. QED
        BY <4>1, <4>2
    <3>2. CASE Direction[c] # "input"
      <4>1. c \in Outs
        BY <3>2 DEF Outs
      <4>2. outputChannels' = Append(outputChannels, c) /\ inputChannels' = inputChannels
        BY <1>1, <3>2 DEF AddChannel
      <4>3. QED
        BY <4>1, <4>2
    <3>3. QED
      BY <3>1, <3>2
  <2>2. QED
    BY <1>1, <2>1 DEF AddChannel, flagVars, mainVars, queueVars, loopVars
<1>2. CASE ActivateOutputs
  BY <1>2 DEF ActivateOutputs, flagVars, queueVars, loopVars
<1>3. CASE ActivateInputs
  BY <1>3 DEF ActivateInputs, flagVars, queueVars, loopVars
<1>4. CASE StartLoop
  BY ZenonT(60), <1>4 DEF StartLoop, setupVars, queueVars
<1>5. CASE Tick
  BY <1>5, ListedIsSet DEF Tick, Ins, Outs, setupVars, flagVars, queueVars, loopVars
<1>6. CASE TickReturns
  BY <1>6 DEF TickReturns, setupVars, flagVars, queueVars, loopVars
<1>7. CASE StopLoop
  BY ZenonT(60), <1>7 DEF StopLoop, setupVars, queueVars, loopVars
<1>8. CASE ClearAlive
  BY ZenonT(60), <1>8 DEF ClearAlive, setupVars, queueVars, loopVars
<1>9. CASE Join
  BY <1>9 DEF Join, setupVars, flagVars, queueVars, loopVars
<1>10. ASSUME NEW c \in Channels, NEW r \in {"ready", "failed"}, FinishActivate(c, r)
       PROVE TypeInv'
  BY <1>10 DEF FinishActivate, flagVars, mainVars, queueVars, loopVars
<1>11. ASSUME NEW c \in Channels, TickTaskEnds(c) PROVE TypeInv'
  BY <1>11 DEF TickTaskEnds, setupVars, flagVars, queueVars, loopVars
<1>12. ASSUME NEW p \in Threads, LockToPush(p) PROVE TypeInv'
  BY <1>12 DEF LockToPush, setupVars, flagVars, loopVars
<1>13. ASSUME NEW p \in Threads, NEW m \in Pushable(p), Push(p, m) PROVE TypeInv'
  <2>1. m \in Message \cup {NoMessage}
    BY DEF Pushable
  <2>2. /\ messages' \in Seq(Message \cup {NoMessage}) /\ messages' # <<>>
        /\ accepted' \in Seq(Message \cup {NoMessage})
    BY <1>13, <2>1 DEF Push
  <2>3. QED
    BY <1>13, <2>2 DEF Push, setupVars, flagVars, mainVars, loopVars
<1>14. ASSUME NEW p \in Threads, Notify(p) PROVE TypeInv'
  BY <1>14 DEF Notify, setupVars, flagVars, mainVars
<1>15. CASE CheckRunning \/ PassGate \/ TestEmpty \/ Sleep \/ SpuriousWake
            \/ CrashOnPop \/ EndIncoming \/ FanOutDone
  BY ZenonT(60), <1>15 DEF CheckRunning, PassGate, TestEmpty, Sleep, SpuriousWake, CrashOnPop,
       EndIncoming, FanOutDone, LoopOnly, LoopGoes, setupVars, flagVars, mainVars, queueVars
<1>16. CASE Relock
  BY <1>16 DEF Relock, LoopGoes, setupVars, flagVars, mainVars
<1>17. CASE Pop
  BY <1>17 DEF Pop, LoopGoes, setupVars, flagVars, mainVars
<1>18. CASE SkipOutput
  BY <1>18 DEF SkipOutput, LoopGoes, setupVars, flagVars, mainVars, queueVars
<1>19. CASE StartIncoming
  BY <1>19 DEF StartIncoming, LoopGoes, setupVars, flagVars, mainVars, queueVars
<1>20. QED
  BY <1>0, <1>1, <1>2, <1>3, <1>4, <1>5, <1>6, <1>7, <1>8, <1>9, <1>10, <1>11,
     <1>12, <1>13, <1>14, <1>15, <1>16, <1>17, <1>18, <1>19
     DEF Next, Main, Task, Producer, LoopThread

\* Each variable keeps its type, whatever the threads do.
THEOREM TypeCorrect == Spec => []TypeOK
<1>1. Spec => []TypeInv
  BY TypeInit, TypeStep, PTL DEF Spec
<1>2. TypeInv => TypeOK
  BY DEF TypeInv
<1>3. QED
  BY <1>1, <1>2, PTL

-----------------------------------------------------------------------------
(* The queue.                                                              *)

LEMMA QueueChanges ==
  ASSUME [Next]_vars
  PROVE  \/ UNCHANGED <<messages, accepted, taken>>
         \/ \E p \in Threads : \E m \in Pushable(p) : Push(p, m)
         \/ Pop
BY DEF Next, Main, Task, Producer, LoopThread, vars, setupVars, flagVars, mainVars,
   queueVars, loopVars, AddChannel, ActivateOutputs, ActivateInputs, StartLoop, Tick,
   TickReturns, StopLoop, ClearAlive, Join, FinishActivate, TickTaskEnds, LockToPush,
   Notify, CheckRunning, PassGate, TestEmpty, Sleep, SpuriousWake, Relock, CrashOnPop,
   SkipOutput, StartIncoming, EndIncoming, FanOutDone, LoopOnly, LoopGoes

LEMMA BacklogInit == Init => QueueIsBacklog
BY DEF Init, QueueIsBacklog

LEMMA BacklogStep ==
  ASSUME TypeInv, QueueIsBacklog, [Next]_vars
  PROVE  QueueIsBacklog'
<1> USE DEF QueueIsBacklog
<1>1. CASE UNCHANGED <<messages, accepted, taken>>
  BY <1>1
<1>2. ASSUME NEW p \in Threads, NEW m \in Pushable(p), Push(p, m) PROVE QueueIsBacklog'
  <2>1. /\ messages' = Append(messages, m) /\ accepted' = Append(accepted, m)
        /\ taken' = taken
    BY <1>2 DEF Push, loopVars
  <2>2. /\ messages \in Seq(Message \cup {NoMessage}) /\ taken \in Nat
        /\ accepted \in Seq(Message \cup {NoMessage})
        /\ m \in Message \cup {NoMessage}
    BY DEF TypeInv, TypeOK, Pushable
  <2>3. Len(messages') = Len(messages) + 1 /\ Len(accepted') = Len(accepted) + 1
    BY <2>1, <2>2
  <2>4. ASSUME NEW i \in 1..Len(messages') PROVE messages'[i] = accepted'[taken' + i]
    <3>1. CASE i <= Len(messages)
      BY <2>1, <2>2, <2>3, <2>4, <3>1
    <3>2. CASE i = Len(messages) + 1
      BY <2>1, <2>2, <2>3, <2>4, <3>2
    <3>3. QED
      BY <2>2, <2>3, <3>1, <3>2
  <2>5. QED
    BY <2>1, <2>2, <2>3, <2>4
<1>3. CASE Pop
  <2>1. /\ messages' = Tail(messages) /\ accepted' = accepted
        /\ taken' = taken + 1 /\ messages # <<>>
    BY <1>3 DEF Pop, LoopGoes, TypeInv
  <2>2. /\ messages \in Seq(Message \cup {NoMessage}) /\ taken \in Nat
        /\ accepted \in Seq(Message \cup {NoMessage})
    BY DEF TypeInv, TypeOK
  <2>3. /\ Len(messages') = Len(messages) - 1
        /\ \A i \in 1..Len(messages') : messages'[i] = messages[i + 1]
    BY <2>1, <2>2
  <2>4. Len(messages) \in Nat /\ Len(messages') \in Nat /\ Len(accepted) \in Nat
    BY <2>2, <2>3
  <2>5. ASSUME NEW i \in 1..Len(messages') PROVE messages'[i] = accepted'[taken' + i]
    <3>1. i + 1 \in 1..Len(messages) /\ taken' + i = taken + (i + 1)
      BY <2>1, <2>2, <2>3, <2>4
    <3>2. QED
      BY <2>1, <2>3, <3>1
  <2>6. Len(accepted') = taken' + Len(messages')
    <3>1. Len(accepted) = taken + Len(messages)
      OBVIOUS
    <3>2. accepted' = accepted /\ taken' = taken + 1 /\ Len(messages') = Len(messages) - 1
      BY <2>1, <2>3
    <3>3. QED
      BY <2>2, <2>4, <3>1, <3>2
  <2>7. QED
    BY <2>5, <2>6
<1>4. QED
  BY <1>1, <1>2, <1>3, QueueChanges

\* However pushes, unlocked reads and the shutdown interleave, the queue holds
\* exactly the accepted messages not yet popped, in order.
THEOREM BacklogCorrect == Spec => []QueueIsBacklog
<1>1. Init => TypeInv /\ QueueIsBacklog
  BY TypeInit, BacklogInit
<1>2. TypeInv /\ QueueIsBacklog /\ [Next]_vars => (TypeInv /\ QueueIsBacklog)'
  BY TypeStep, BacklogStep
<1>3. QED
  BY <1>1, <1>2, PTL DEF Spec

-----------------------------------------------------------------------------
(* Where the loop thread is, and the list it walks.                        *)

\* No output is listed twice, and none is missing once the hub is activated.
ListInv ==
  /\ \A i, j \in 1..Len(outputChannels) : outputChannels[i] = outputChannels[j] => i = j
  /\ main # "setup" =>
       Outs \subseteq Listed(outputChannels) /\ Ins \subseteq Listed(inputChannels)

\* No loop before activate() is through; while msgLoop() walks the list, msg is
\* the last message popped.
WalkInv ==
  /\ main \in {"setup", "outputs", "inputs", "failed"} => loop = "none"
  /\ loop = "none" => taken = 0
  /\ loop \in {"fan", "sending"} =>
       item = accepted[taken] /\ next <= Len(outputChannels) + 1

LEMMA ListInit == Init => ListInv
BY DEF Init, ListInv

LEMMA ListChanges ==
  ASSUME [Next]_vars
  PROVE  \/ /\ outputChannels' = outputChannels /\ inputChannels' = inputChannels
            /\ (main' = "setup" <=> main = "setup")
         \/ \E c \in Channels : AddChannel(c)
         \/ ActivateOutputs
BY DEF Next, Main, Task, Producer, LoopThread, vars, setupVars, flagVars, mainVars,
   queueVars, loopVars, ActivateInputs, StartLoop, Tick,
   TickReturns, StopLoop, ClearAlive, Join, FinishActivate, TickTaskEnds, LockToPush, Push,
   Notify, CheckRunning, PassGate, TestEmpty, Sleep, SpuriousWake, Relock, CrashOnPop, Pop,
   SkipOutput, StartIncoming, EndIncoming, FanOutDone, LoopOnly, LoopGoes

LEMMA ListStep ==
  ASSUME TypeInv, ListInv, [Next]_vars
  PROVE  ListInv'
<1>1. CASE /\ outputChannels' = outputChannels /\ inputChannels' = inputChannels
           /\ (main' = "setup" <=> main = "setup")
  BY <1>1 DEF ListInv, Listed
<1>2. ASSUME NEW c \in Channels, AddChannel(c) PROVE ListInv'
  <2>1. main' = "setup" /\ c \notin Listed(outputChannels)
    BY <1>2 DEF AddChannel, mainVars
  <2>2. CASE outputChannels' = outputChannels
    BY <2>1, <2>2 DEF ListInv
  <2>3. CASE outputChannels' = Append(outputChannels, c)
    <3>1. outputChannels \in Seq(Outs)
      BY DEF TypeInv, TypeOK
    <3>2. /\ Len(outputChannels') = Len(outputChannels) + 1
          /\ \A k \in 1..Len(outputChannels) :
               outputChannels'[k] = outputChannels[k] /\ outputChannels[k] # c
          /\ outputChannels'[Len(outputChannels) + 1] = c
      BY <2>1, <2>3, <3>1 DEF Listed
    <3>3. QED
      BY <2>1, <3>1, <3>2 DEF ListInv
  <2>4. QED
    BY <1>2, <2>2, <2>3 DEF AddChannel
<1>3. CASE ActivateOutputs
  <2>1. outputChannels' = outputChannels /\ inputChannels' = inputChannels
    BY <1>3 DEF ActivateOutputs
  <2>2. Outs \subseteq Listed(outputChannels) /\ Ins \subseteq Listed(inputChannels)
    BY <1>3, ListedIsSet DEF ActivateOutputs, TypeInv, Ins, Outs
  <2>3. QED
    BY <2>1, <2>2 DEF ListInv, Listed
<1>4. QED
  BY <1>1, <1>2, <1>3, ListChanges

LEMMA WalkInit == Init => WalkInv
BY DEF Init, WalkInv

LEMMA WalkStep ==
  ASSUME TypeInv, ListInv, QueueIsBacklog, WalkInv, [Next]_vars
  PROVE  WalkInv'
<1> USE DEF WalkInv
<1>1. CASE Pop
  <2>1. /\ taken' = taken + 1 /\ accepted' = accepted /\ item' = Head(messages)
        /\ messages # <<>> /\ loop = "pop" /\ loop' = "fan" /\ next' = 1
        /\ outputChannels' = outputChannels /\ main' = main
    BY <1>1 DEF Pop, LoopGoes, TypeInv, setupVars, mainVars
  <2>2. Head(messages) = accepted[taken + 1] /\ Len(outputChannels) >= 0
    BY <2>1 DEF QueueIsBacklog, TypeInv, TypeOK
  <2>3. QED
    BY <2>1, <2>2 DEF TypeInv, TypeOK
<1>2. CASE SkipOutput \/ StartIncoming
  BY <1>2 DEF SkipOutput, StartIncoming, LoopGoes, setupVars, mainVars, queueVars,
     TypeInv, TypeOK
<1>3. ASSUME NEW p \in Threads, NEW m \in Pushable(p), Push(p, m) PROVE WalkInv'
  <2>1. accepted' = Append(accepted, m) /\ UNCHANGED <<setupVars, mainVars, loopVars>>
    BY <1>3 DEF Push
  <2>2. ASSUME taken > 0 PROVE accepted'[taken] = accepted[taken]
    BY <2>1, <2>2 DEF TypeInv, TypeOK, QueueIsBacklog
  <2>3. QED
    BY <2>1, <2>2 DEF setupVars, mainVars, loopVars, TypeInv
<1>4. ASSUME NEW c \in Channels, AddChannel(c) PROVE WalkInv'
  BY <1>4 DEF AddChannel, mainVars, queueVars, loopVars
<1>5. CASE StartLoop
  BY <1>5 DEF StartLoop, queueVars
<1>6. CASE CheckRunning \/ PassGate \/ TestEmpty \/ Sleep \/ SpuriousWake
             \/ CrashOnPop \/ EndIncoming \/ FanOutDone
  BY <1>6 DEF CheckRunning, PassGate, TestEmpty, Sleep, SpuriousWake, CrashOnPop,
     EndIncoming, FanOutDone, LoopOnly, LoopGoes, setupVars, mainVars, queueVars
<1>7. CASE Relock
  BY <1>7 DEF Relock, LoopGoes, setupVars, mainVars
<1>8. ASSUME NEW p \in Threads, LockToPush(p) \/ Notify(p) PROVE WalkInv'
  BY <1>8 DEF LockToPush, Notify, setupVars, mainVars, loopVars
<1>9. CASE ActivateOutputs \/ ActivateInputs \/ Tick \/ TickReturns \/ StopLoop
             \/ ClearAlive \/ Join
  BY <1>9 DEF ActivateOutputs, ActivateInputs, Tick, TickReturns, StopLoop, ClearAlive,
     Join, setupVars, queueVars, loopVars
<1>10. ASSUME NEW c \in Channels,
              TickTaskEnds(c) \/ \E r \in {"ready", "failed"} : FinishActivate(c, r)
       PROVE WalkInv'
  BY <1>10 DEF TickTaskEnds, FinishActivate, setupVars, mainVars, queueVars, loopVars
<1>11. CASE UNCHANGED vars
  BY <1>11 DEF vars, setupVars, mainVars, queueVars, loopVars
<1>12. QED
  BY <1>1, <1>2, <1>3, <1>4, <1>5, <1>6, <1>7, <1>8, <1>9, <1>10, <1>11
     DEF Next, Main, Task, Producer, LoopThread

-----------------------------------------------------------------------------
(* The cursors: how far msgLoop() has come for each output.                *)

\* Output o is offered the message in hand, and receives it if it is meant to.
Advance(o) ==
  /\ taken > 0 /\ taken' = taken /\ accepted' = accepted
  /\ CursorOf(o) = taken - 1 /\ CursorOf(o)' = taken
  /\ \A p \in Outs \ {o} : CursorOf(p)' = CursorOf(p)
  /\ handed' = IF accepted[taken] # NoMessage /\ accepted[taken] # o
                 THEN [handed EXCEPT ![o] = @ \cup {taken}] ELSE handed

Still == handed' = handed /\ \A o \in Outs : CursorOf(o)' = CursorOf(o)

LEMMA OfferAdvances ==
  ASSUME TypeInv, ListInv, WalkInv, SkipOutput \/ StartIncoming
  PROVE  \E o \in Outs : Advance(o)
<1>0. PICK o \in Outs : o = outputChannels[next] /\ next <= Len(outputChannels)
  BY DEF SkipOutput, StartIncoming, TypeInv, TypeOK
<1>1. /\ outputChannels \in Seq(Outs) /\ next \in 1..Len(outputChannels)
      /\ loop = "fan" /\ loop' \in {"fan", "sending"} /\ next' = next + 1
      /\ outputChannels' = outputChannels /\ taken' = taken /\ accepted' = accepted
  BY DEF SkipOutput, StartIncoming, LoopGoes, setupVars, queueVars, TypeInv, TypeOK
<1>2. taken > 0 /\ taken \in Nat /\ item = accepted[taken]
  BY <1>0, <1>1 DEF TypeInv, TypeOK, WalkInv
<1>3. ~Offered(o)
  BY <1>0, <1>1 DEF Offered, ListInv
<1>4. Offered(o)'
  BY <1>0, <1>1 DEF Offered
<1>5. ASSUME NEW p \in Outs \ {o} PROVE Offered(p)' <=> Offered(p)
  BY <1>0, <1>1 DEF Offered
<1>6. handed' = IF accepted[taken] # NoMessage /\ accepted[taken] # o
                  THEN [handed EXCEPT ![o] = @ \cup {taken}] ELSE handed
  <2>1. CASE SkipOutput
    BY <1>0, <1>2, <2>1 DEF SkipOutput, Receives
  <2>2. CASE StartIncoming
    BY <1>0, <1>2, <2>2 DEF StartIncoming, Receives
  <2>3. QED
    BY <2>1, <2>2
<1>7. QED
  BY <1>1, <1>2, <1>3, <1>4, <1>5, <1>6 DEF Advance, CursorOf

LEMMA CursorMoves ==
  ASSUME TypeInv, ListInv, WalkInv, [Next]_vars
  PROVE  Still \/ \E o \in Outs : Advance(o)
<1>1. ASSUME UNCHANGED <<outputChannels, next, taken, handed>>,
             \/ loop' = loop
             \/ loop = "sending" /\ loop' = "fan"
             \/ loop \notin {"fan", "sending"} /\ loop' \notin {"fan", "sending"}
      PROVE  Still
  BY <1>1 DEF Still, CursorOf, Offered
<1>2. CASE SkipOutput \/ StartIncoming
  BY <1>2, OfferAdvances
<1>3. CASE Pop
  <2>1. /\ loop = "pop" /\ loop' = "fan" /\ next' = 1 /\ taken' = taken + 1
        /\ handed' = handed /\ taken \in Nat
    BY <1>3 DEF Pop, LoopGoes, TypeInv, TypeOK
  <2>2. ASSUME NEW o \in Outs PROVE ~Offered(o)'
    BY <2>1 DEF Offered
  <2>3. QED
    BY <2>1, <2>2 DEF Still, CursorOf
<1>4. CASE FanOutDone
  <2>1. /\ loop = "fan" /\ loop' = "check" /\ next > Len(outputChannels)
        /\ taken' = taken /\ handed' = handed /\ next \in Nat
        /\ outputChannels \in Seq(Outs)
    BY <1>4 DEF FanOutDone, LoopOnly, LoopGoes, TypeInv, TypeOK
  <2>2. main # "setup"
    BY <2>1 DEF WalkInv
  <2>3. ASSUME NEW o \in Outs PROVE Offered(o)
    BY <2>1, <2>2 DEF Offered, ListInv, Listed
  <2>4. QED
    BY <2>1, <2>3 DEF Still, CursorOf
<1>5. ASSUME NEW c \in Channels, AddChannel(c) PROVE Still
  BY <1>5 DEF AddChannel, loopVars, WalkInv, Still, CursorOf
<1>6. CASE StartLoop
  BY <1>6, <1>1 DEF StartLoop, setupVars, WalkInv
<1>7. CASE CheckRunning \/ PassGate \/ TestEmpty \/ Sleep \/ SpuriousWake
             \/ CrashOnPop \/ EndIncoming
  BY <1>7, <1>1 DEF CheckRunning, PassGate, TestEmpty, Sleep, SpuriousWake, CrashOnPop,
     EndIncoming, LoopOnly, LoopGoes, setupVars
<1>8. CASE Relock
  BY <1>8, <1>1 DEF Relock, LoopGoes, setupVars
<1>9. ASSUME NEW p \in Threads,
             LockToPush(p) \/ (\E m \in Pushable(p) : Push(p, m)) \/ Notify(p)
      PROVE  Still
  BY <1>9, <1>1 DEF LockToPush, Push, Notify, setupVars, loopVars
<1>10. CASE ActivateOutputs \/ ActivateInputs \/ Tick \/ TickReturns \/ StopLoop
              \/ ClearAlive \/ Join
  BY <1>10, <1>1 DEF ActivateOutputs, ActivateInputs, Tick, TickReturns, StopLoop,
     ClearAlive, Join, setupVars, loopVars
<1>11. ASSUME NEW c \in Channels,
              TickTaskEnds(c) \/ \E r \in {"ready", "failed"} : FinishActivate(c, r)
       PROVE Still
  BY <1>11, <1>1 DEF TickTaskEnds, FinishActivate, setupVars, loopVars
<1>12. CASE UNCHANGED vars
  BY <1>12, <1>1 DEF vars, setupVars, loopVars
<1>13. QED
  BY <1>2, <1>3, <1>4, <1>5, <1>6, <1>7, <1>8, <1>9, <1>10, <1>11, <1>12
     DEF Next, Main, Task, Producer, LoopThread

-----------------------------------------------------------------------------
(* What each output receives.                                              *)

IInv == TypeInv /\ QueueIsBacklog /\ ListInv /\ WalkInv /\ HandedExactly

LEMMA CursorBound ==
  ASSUME TypeInv, QueueIsBacklog, NEW o \in Outs
  PROVE  CursorOf(o) \in 0..Len(accepted) /\ taken \in 0..Len(accepted)
BY DEF TypeInv, TypeOK, QueueIsBacklog, CursorOf

LEMMA AcceptedGrows ==
  ASSUME TypeInv, QueueIsBacklog, [Next]_vars
  PROVE  \A i \in 1..Len(accepted) : accepted'[i] = accepted[i]
<1>1. ASSUME NEW p \in Threads, NEW m \in Pushable(p), Push(p, m)
      PROVE  \A i \in 1..Len(accepted) : accepted'[i] = accepted[i]
  BY <1>1 DEF Push, TypeInv, TypeOK
<1>2. QED
  BY <1>1, QueueChanges DEF Pop

LEMMA HandedInit == Init => HandedExactly
BY DEF Init, HandedExactly, CursorOf

LEMMA HandedStep ==
  ASSUME TypeInv, QueueIsBacklog, ListInv, WalkInv, HandedExactly, [Next]_vars
  PROVE  HandedExactly'
<1>1. ASSUME Still, NEW o \in Outs
      PROVE  handed'[o] =
               {i \in 1..CursorOf(o)' : accepted'[i] # NoMessage /\ accepted'[i] # o}
  <2>1. CursorOf(o)' = CursorOf(o) /\ handed'[o] = handed[o]
    BY <1>1 DEF Still
  <2>2. CursorOf(o) \in 0..Len(accepted)
    BY CursorBound
  <2>3. \A i \in 1..CursorOf(o) : accepted'[i] = accepted[i]
    BY <2>2, AcceptedGrows
  <2>4. QED
    BY <2>1, <2>3 DEF HandedExactly
<1>2. ASSUME NEW q \in Outs, Advance(q), NEW o \in Outs
      PROVE  handed'[o] =
               {i \in 1..CursorOf(o)' : accepted'[i] # NoMessage /\ accepted'[i] # o}
  <2>1. CASE o # q
    <3>1. CursorOf(o)' = CursorOf(o) /\ accepted' = accepted /\ handed'[o] = handed[o]
      BY <1>2, <2>1 DEF Advance, TypeInv, TypeOK
    <3>2. QED
      BY <3>1 DEF HandedExactly
  <2>2. CASE o = q
    <3>1. /\ taken \in Nat /\ taken > 0 /\ CursorOf(o) = taken - 1 /\ CursorOf(o)' = taken
          /\ accepted' = accepted
      BY <1>2, <2>2 DEF Advance, TypeInv, TypeOK
    <3>2. handed'[o] = IF accepted[taken] # NoMessage /\ accepted[taken] # o
                         THEN handed[o] \cup {taken} ELSE handed[o]
      BY <1>2, <2>2 DEF Advance, TypeInv, TypeOK
    <3>3. handed[o] = {i \in 1..(taken - 1) : accepted[i] # NoMessage /\ accepted[i] # o}
      BY <3>1 DEF HandedExactly
    <3>4. 1..taken = (1..(taken - 1)) \cup {taken}
      BY <3>1
    <3>5. QED
      BY <3>1, <3>2, <3>3, <3>4
  <2>3. QED
    BY <2>1, <2>2
<1>3. QED
  BY <1>1, <1>2, CursorMoves DEF HandedExactly

LEMMA Inductive == (Init => IInv) /\ (IInv /\ [Next]_vars => IInv')
<1>1. Init => IInv
  BY TypeInit, BacklogInit, ListInit, WalkInit, HandedInit DEF IInv
<1>2. IInv /\ [Next]_vars => IInv'
  BY TypeStep, BacklogStep, ListStep, WalkStep, HandedStep DEF IInv
<1>3. QED
  BY <1>1, <1>2

\* Every output's incoming() is called exactly once for each non-null message it
\* was offered that is not its own, and for nothing else.
THEOREM DeliveryCorrect == Spec => []HandedExactly
<1>1. IInv => HandedExactly
  BY DEF IInv
<1>2. QED
  BY Inductive, <1>1, PTL DEF Spec

\* Every step of the hub is a step of the relay or invisible to it.
LEMMA RelayStep ==
  ASSUME IInv, [Next]_vars
  PROVE  [R!Next]_(R!vars)
<1> USE DEF IInv
<1>1. Still => [o \in Outs |-> CursorOf(o)]' = [o \in Outs |-> CursorOf(o)]
  BY DEF Still
<1>2. ASSUME NEW p \in Threads, NEW m \in Pushable(p), Push(p, m)
      PROVE  [R!Next]_(R!vars)
  <2>1. accepted' = Append(accepted, m) /\ UNCHANGED <<setupVars, loopVars>>
    BY <1>2 DEF Push
  <2>2. Still
    BY <2>1 DEF Still, CursorOf, Offered, setupVars, loopVars
  <2>3. m \in Message \cup {NoMessage}
    BY DEF Pushable
  <2>4. R!Accept(m)
    BY <1>1, <2>1, <2>2 DEF R!Accept, Still
  <2>5. QED
    BY <2>3, <2>4 DEF R!Next
<1>3. ASSUME Still, accepted' = accepted PROVE [R!Next]_(R!vars)
  BY <1>1, <1>3 DEF R!vars, Still
<1>4. ASSUME NEW o \in Outs, Advance(o) PROVE [R!Next]_(R!vars)
  <2>1. /\ taken \in Nat /\ taken > 0 /\ CursorOf(o) = taken - 1 /\ CursorOf(o)' = taken
        /\ taken <= Len(accepted) /\ accepted' = accepted
    BY <1>4, CursorBound DEF Advance
  <2>2. [p \in Outs |-> CursorOf(p)]' =
          [[p \in Outs |-> CursorOf(p)] EXCEPT ![o] = @ + 1]
    <3>1. \A p \in Outs : CursorOf(p)' = IF p = o THEN CursorOf(p) + 1 ELSE CursorOf(p)
      BY <1>4, <2>1 DEF Advance
    <3>2. QED
      BY <3>1
  <2>3. handed' = IF R!Addressed(accepted[CursorOf(o) + 1], o)
                    THEN [handed EXCEPT ![o] = @ \cup {CursorOf(o) + 1}] ELSE handed
    BY <1>4, <2>1 DEF Advance, R!Addressed
  <2>4. R!Offer(o)
    BY <2>1, <2>2, <2>3 DEF R!Offer
  <2>5. QED
    BY <2>4 DEF R!Next
<1>5. Still \/ \E o \in Outs : Advance(o)
  BY CursorMoves
<1>6. CASE UNCHANGED <<messages, accepted, taken>>
  BY <1>3, <1>4, <1>5, <1>6
<1>7. CASE Pop
  BY <1>3, <1>4, <1>5, <1>7 DEF Pop
<1>8. QED
  BY <1>2, <1>6, <1>7, QueueChanges

\* The hub implements the relay: all outputs see one common order of messages,
\* front to back, each once, without their own.
THEOREM HubImplementsRelay == Spec => RelaySpec
<1>1. Init => R!Init
  BY DEF Init, R!Init, CursorOf
<1>2. IInv /\ [Next]_vars => [R!Next]_(R!vars)
  BY RelayStep
<1>3. QED
  BY Inductive, <1>1, <1>2, PTL DEF Spec, RelaySpec, R!Spec

-----------------------------------------------------------------------------
(* Shutdown.                                                               *)

\* The flags follow the main thread; a message popped after _loopRunning was
\* cleared is the loop's last one; a popped exit notice was popped that late.
StopInv ==
  /\ loopRunning <=> main \in {"running", "ticking"}
  /\ ~alive => main \in {"notice", "joining", "stopped"}
  /\ main # "ticking" => ticking = {}
  /\ main = "stopped" => loop = "done"
  /\ mutex = System => main \in {"joining", "stopped"}
  /\ late # 0 =>
       /\ late = 1 /\ loop \in {"fan", "sending", "check", "done"}
       /\ main \in {"stopping", "notice", "joining", "stopped"}
  /\ \A k \in 1..Len(accepted) : accepted[k] = System =>
       main \in {"joining", "stopped"} /\ (k <= taken => late = 1 /\ taken = k)

LEMMA StopInit == Init => StopInv
BY HubAssumption DEF Init, StopInv

LEMMA StopStep ==
  ASSUME TypeInv, QueueIsBacklog, WalkInv, StopInv, [Next]_vars
  PROVE  StopInv'
<1> USE HubAssumption DEF StopInv
<1>1. CASE Pop
  <2>1. /\ taken' = taken + 1 /\ accepted' = accepted /\ loop = "pop" /\ loop' = "fan"
        /\ late' = IF loopRunning THEN late ELSE late + 1
        /\ UNCHANGED <<main, ticking, loopRunning, alive>>
        /\ mutex' = IF mutex = "loop" THEN "free" ELSE mutex
    BY <1>1 DEF Pop, LoopGoes, mainVars, flagVars
  <2>2. late = 0 /\ main \notin {"setup", "outputs", "inputs"} /\ main # "stopped"
    BY <2>1 DEF WalkInv
  <2>3. taken \in Nat /\ Len(accepted) \in Nat
    BY DEF TypeInv, TypeOK
  <2>4. ASSUME NEW k \in 1..Len(accepted'), accepted'[k] = System, k <= taken'
        PROVE  late' = 1 /\ taken' = k
    BY <2>1, <2>2, <2>3, <2>4
  <2>5. late' # 0 => late' = 1 /\ ~loopRunning
    BY <2>1, <2>2
  <2>6. main # "failed"
    BY <1>1, <2>1 DEF WalkInv
  <2>7. QED
    BY <2>1, <2>2, <2>4, <2>5, <2>6 DEF TypeInv, TypeOK
<1>2. ASSUME NEW p \in Threads, NEW m \in Pushable(p), Push(p, m) PROVE StopInv'
  <2>1. /\ accepted' = Append(accepted, m) /\ mutex = p /\ mutex' = "free"
        /\ UNCHANGED <<main, ticking, loopRunning, alive, loop, late, taken>>
    BY <1>2 DEF Push, mainVars, flagVars, loopVars
  <2>2. m = System => p = System
    BY DEF Pushable
  <2>3. taken \in 0..Len(accepted) /\ accepted \in Seq(Message \cup {NoMessage})
    BY DEF TypeInv, TypeOK, QueueIsBacklog
  <2>4. /\ Len(accepted') = Len(accepted) + 1
        /\ \A k \in 1..Len(accepted) : accepted'[k] = accepted[k]
        /\ accepted'[Len(accepted) + 1] = m
    BY <2>1, <2>3 DEF Pushable
  <2>5. QED
    BY <2>1, <2>2, <2>3, <2>4
<1>3. ASSUME NEW p \in Threads, LockToPush(p) \/ Notify(p) PROVE StopInv'
  BY <1>3 DEF LockToPush, Notify, setupVars, flagVars, mainVars, loopVars
<1>4. CASE StartLoop
  BY <1>4 DEF StartLoop, queueVars, WalkInv
<1>5. CASE ActivateOutputs \/ ActivateInputs \/ Tick \/ TickReturns
  BY <1>5 DEF ActivateOutputs, ActivateInputs, Tick, TickReturns, setupVars, flagVars,
     queueVars, loopVars
<1>6. CASE StopLoop
  BY <1>6 DEF StopLoop, setupVars, queueVars, loopVars
<1>7. CASE ClearAlive
  BY <1>7 DEF ClearAlive, setupVars, queueVars, loopVars
<1>8. CASE Join
  BY <1>8 DEF Join, setupVars, flagVars, queueVars, loopVars
<1>9. CASE CheckRunning \/ PassGate \/ TestEmpty \/ Sleep \/ SpuriousWake
             \/ CrashOnPop \/ EndIncoming \/ FanOutDone
  BY <1>9 DEF CheckRunning, PassGate, TestEmpty, Sleep, SpuriousWake, CrashOnPop,
     EndIncoming, FanOutDone, LoopOnly, LoopGoes, flagVars, mainVars, queueVars
<1>10. CASE Relock
  BY <1>10 DEF Relock, LoopGoes, flagVars, mainVars
<1>11. CASE SkipOutput \/ StartIncoming
  BY <1>11 DEF SkipOutput, StartIncoming, LoopGoes, flagVars, mainVars, queueVars
<1>12. ASSUME NEW c \in Channels,
              \/ AddChannel(c) \/ TickTaskEnds(c)
              \/ \E r \in {"ready", "failed"} : FinishActivate(c, r)
       PROVE StopInv'
  BY <1>12 DEF AddChannel, TickTaskEnds, FinishActivate, setupVars, flagVars, mainVars,
     queueVars, loopVars
<1>13. CASE UNCHANGED vars
  BY <1>13 DEF vars, flagVars, mainVars, queueVars, loopVars
<1>14. QED
  BY <1>1, <1>2, <1>3, <1>4, <1>5, <1>6, <1>7, <1>8, <1>9, <1>10, <1>11, <1>12, <1>13
     DEF Next, Main, Task, Producer, LoopThread

LEMMA StopInductive == Spec => [](IInv /\ StopInv)
<1>1. IInv /\ StopInv /\ [Next]_vars => (IInv /\ StopInv)'
  BY Inductive, StopStep DEF IInv
<1>2. QED
  BY Inductive, StopInit, <1>1, PTL DEF Spec

\* The exit notice is the last message handed to an output; no tick() task runs when
\* channels see the hub dead; at most one message is popped after _loopRunning was
\* cleared, and the loop thread has ended when deactivate() returns.
THEOREM StopOrderly == Spec => []StopsInOrder
<1>1. IInv /\ StopInv => NothingAfterNotice
  BY DEF IInv, TypeInv, TypeOK, StopInv, NothingAfterNotice
<1>2. IInv /\ StopInv => StopBound
  BY DEF StopInv, StopBound
<1>3. IInv /\ StopInv => DeadHubIsQuiet
  BY DEF IInv, TypeInv, TypeOK, StopInv, DeadHubIsQuiet
<1>4. IInv /\ StopInv => StopsInOrder
  BY <1>1, <1>2, <1>3 DEF StopsInOrder
<1>5. QED
  BY StopInductive, <1>4, PTL

-----------------------------------------------------------------------------
(* Where the loop thread can come to rest.                                 *)

\* The loop thread keeps _mutex only from its return from wait() to its next pop.
LockInv == mutex = "loop" => loop \in {"test", "lock", "pop"}

\* It sleeps beside a message only if it went to sleep beside one, or until the
\* thread that pushed the message has called notify_one().
WakeInv == loop = "asleep" /\ messages # <<>> => overlooked \/ notifying # {}

LEMMA RestInit == Init => LockInv /\ WakeInv
BY DEF Init, LockInv, WakeInv

LEMMA RestStep ==
  ASSUME TypeInv, WalkInv, LockInv, WakeInv, [Next]_vars
  PROVE  LockInv' /\ WakeInv'
<1> USE HubAssumption DEF LockInv, WakeInv
<1>1. ASSUME NEW p \in Threads, NEW m \in Pushable(p), Push(p, m)
      PROVE  LockInv' /\ WakeInv'
  BY <1>1 DEF Push, loopVars
<1>2. ASSUME NEW p \in Threads, LockToPush(p) PROVE LockInv' /\ WakeInv'
  BY <1>2 DEF LockToPush, loopVars
<1>3. ASSUME NEW p \in Threads, Notify(p) PROVE LockInv' /\ WakeInv'
  BY <1>3 DEF Notify
<1>4. CASE Sleep
  BY <1>4 DEF Sleep, LoopGoes, queueVars
<1>5. CASE Relock
  BY <1>5 DEF Relock, LoopGoes
<1>6. CASE Pop
  BY <1>6 DEF Pop, LoopGoes
<1>7. CASE CheckRunning \/ PassGate \/ TestEmpty \/ SpuriousWake \/ EndIncoming
             \/ FanOutDone \/ SkipOutput \/ StartIncoming
  BY <1>7 DEF CheckRunning, PassGate, TestEmpty, SpuriousWake, EndIncoming, FanOutDone,
     SkipOutput, StartIncoming, LoopOnly, LoopGoes, queueVars
<1>8. CASE CrashOnPop
  BY <1>8 DEF CrashOnPop, LoopOnly, LoopGoes, queueVars
<1>9. CASE StartLoop
  BY <1>9 DEF StartLoop, queueVars, itemVars, WalkInv
<1>10. CASE UNCHANGED <<mutex, messages, notifying, loop, overlooked>>
  BY <1>10
<1>11. QED
  BY <1>1, <1>2, <1>3, <1>4, <1>5, <1>6, <1>7, <1>8, <1>9, <1>10 DEF Next, Main, Task,
     Producer, LoopThread, vars, mainVars, queueVars, loopVars, itemVars, AddChannel,
     ActivateOutputs, ActivateInputs, FinishActivate, Tick, TickTaskEnds, TickReturns,
     StopLoop, ClearAlive, Join

\* The loop thread cannot go on by itself: it sleeps beside a message, wants a
\* _mutex that is taken, or waits for _loopRunning after it was cleared.
Waits ==
  \/ loop = "asleep" /\ messages # <<>>
  \/ loop \in {"lock", "woken"} /\ mutex # "free"
  \/ loop = "gate" /\ ~loopRunning

\* Some other thread is between lock() and notify_one(), which it will finish.
HelpComes == mutex \in Threads \/ notifying # {}

\* Wherever the loop thread waits, a thread in pushMessage() is about to unlock or
\* to notify, or popMessage() has come to rest in one of the three ways that are
\* named, and no other: a wakeup overlooked, its own lock, the cleared flag.
THEOREM HangsAreThree == Spec => [](Waits => HelpComes \/ Hung)
<1>1. TypeInv /\ LockInv /\ WakeInv => (Waits => HelpComes \/ Hung)
  <2> SUFFICES ASSUME TypeInv, LockInv, WakeInv, Waits PROVE HelpComes \/ Hung
    OBVIOUS
  <2>1. mutex \in Threads \cup {"loop", "free"}
    BY DEF TypeInv, TypeOK
  <2>2. CASE loop = "asleep" /\ messages # <<>>
    BY <2>1, <2>2 DEF LockInv, WakeInv, HelpComes, Hung, Overslept
  <2>3. CASE loop \in {"lock", "woken"} /\ mutex # "free"
    BY <2>1, <2>3 DEF LockInv, HelpComes, Hung, SelfLocked
  <2>4. CASE loop = "gate" /\ ~loopRunning
    BY <2>4 DEF Hung, GateTrapped
  <2>5. QED
    BY <2>2, <2>3, <2>4 DEF Waits
<1>2. IInv /\ LockInv /\ WakeInv /\ [Next]_vars => (IInv /\ LockInv /\ WakeInv)'
  BY Inductive, RestStep DEF IInv
<1>3. IInv /\ LockInv /\ WakeInv => (Waits => HelpComes \/ Hung)
  BY <1>1 DEF IInv
<1>4. QED
  BY Inductive, RestInit, <1>2, <1>3, PTL DEF Spec

\* Two of the three are for good, whatever the other threads do: the loop thread that
\* waits for its own lock, and the one that waits for a flag nobody sets again.  (The
\* third ends with the next message, or with a spurious wakeup.)
THEOREM HangsAreFinal ==
  Spec => [][(SelfLocked => SelfLocked') /\ (GateTrapped => GateTrapped')]_vars
<1>1. ASSUME IInv, [Next]_vars
      PROVE  (SelfLocked => SelfLocked') /\ (GateTrapped => GateTrapped')
  <2>1. CASE StartLoop
    BY <1>1, <2>1 DEF StartLoop, IInv, WalkInv, SelfLocked, GateTrapped
  <2>2. ASSUME loop = "lock" \/ loop = "gate",
               ~(loop = "lock" /\ mutex = "free"), ~(loop = "gate" /\ loopRunning)
        PROVE  ~LoopThread
    BY <2>2 DEF LoopThread, CheckRunning, PassGate, TestEmpty, Sleep, SpuriousWake,
       Relock, Pop, CrashOnPop, SkipOutput, StartIncoming, EndIncoming, FanOutDone,
       LoopOnly, LoopGoes
  <2>3. ASSUME mutex = "loop" \/ loop = "gate", Producer
        PROVE  /\ loop \in {"lock", "gate"} => loop' = loop
               /\ mutex = "loop" => mutex' = mutex
               /\ loopRunning' = loopRunning
    BY <2>3, HubAssumption DEF Producer, LockToPush, Push, Notify, flagVars, loopVars
  <2>4. CASE UNCHANGED <<loop, mutex>> /\ (loopRunning' => loopRunning)
    BY <2>4 DEF SelfLocked, GateTrapped
  <2>5. CASE Producer
    BY <2>3, <2>5 DEF SelfLocked, GateTrapped
  <2>6. CASE LoopThread
    BY <2>2, <2>6 DEF SelfLocked, GateTrapped
  <2>7. QED
    BY <1>1, <2>1, <2>4, <2>5, <2>6 DEF Next, Main, Task, vars, flagVars, queueVars,
       loopVars, AddChannel, ActivateOutputs, ActivateInputs, FinishActivate, Tick,
       TickTaskEnds, TickReturns, StopLoop, ClearAlive, Join
<1>2. QED
  BY Inductive, <1>1, PTL DEF Spec

-----------------------------------------------------------------------------
(* Activation.                                                             *)

StartInv ==
  /\ main = "setup" => \A c \in Channels : activation[c] = "idle"
  /\ main = "outputs" => \A c \in Ins : activation[c] = "idle"
  /\ main = "inputs" => \A o \in Outs : activation[o] = "ready"
  /\ ActivationOrder

LEMMA StartInit == Init => StartInv
BY DEF Init, StartInv, ActivationOrder, Ins

LEMMA StartStep ==
  ASSUME TypeInv, ListInv, WalkInv, StartInv, [Next]_vars
  PROVE  StartInv'
<1> USE DEF StartInv, ActivationOrder
<1>1. CASE ActivateOutputs
  <2>1. /\ main = "setup" /\ main' \in {"failed", "outputs"} /\ loop' = loop
        /\ \A c \in Ins : c \notin Listed(outputChannels)
        /\ activation' = [c \in Channels |->
             IF c \in Listed(outputChannels) THEN "starting" ELSE activation[c]]
    BY <1>1, ListedIsSet DEF ActivateOutputs, loopVars, TypeInv, Ins, Outs
  <2>2. QED
    BY <2>1 DEF WalkInv, Ins
<1>2. CASE ActivateInputs
  <2>1. /\ main = "outputs" /\ main' \in {"failed", "inputs"} /\ loop' = loop
        /\ loop = "none"
    BY <1>2 DEF ActivateInputs, loopVars, WalkInv
  <2>2. Listed(outputChannels) = Outs /\ Listed(inputChannels) \subseteq Ins
    BY <2>1, ListedIsSet DEF ListInv, TypeInv
  <2>3. CASE Failed(Outs)
    <3>1. activation' = activation /\ main' = "failed"
      BY <1>2, <2>2, <2>3 DEF ActivateInputs, TypeInv, TypeOK
    <3>2. QED
      BY <2>1, <3>1
  <2>4. CASE ~Failed(Outs)
    <3>1. \A o \in Outs : activation[o] = "ready"
      BY <1>2, <2>2, <2>4 DEF ActivateInputs, Settled, Failed
    <3>2. \A o \in Outs : activation'[o] = "ready"
      BY <1>2, <2>2, <3>1 DEF ActivateInputs, Ins, Outs
    <3>3. QED
      BY <2>1, <3>2
  <2>5. QED
    BY <2>3, <2>4
<1>3. CASE StartLoop
  <2>1. /\ main = "inputs" /\ main' \in {"failed", "running"} /\ activation' = activation
        /\ loop = "none"
    BY <1>3 DEF StartLoop, setupVars, WalkInv
  <2>2. CASE main' = "failed"
    BY <1>3, <2>1, <2>2 DEF StartLoop
  <2>3. CASE main' = "running"
    <3>1. \A c \in Listed(inputChannels) : activation[c] = "ready"
      BY <1>3, <2>3 DEF StartLoop, Settled, Failed
    <3>2. Ins \subseteq Listed(inputChannels)
      BY <2>1 DEF ListInv
    <3>3. \A c \in Channels : activation[c] = "ready"
      BY <2>1, <3>1, <3>2 DEF Ins, Outs
    <3>4. QED
      BY <2>1, <2>3, <3>3
  <2>4. QED
    BY <2>1, <2>2, <2>3
<1>4. ASSUME NEW c \in Channels, NEW r \in {"ready", "failed"}, FinishActivate(c, r)
      PROVE  StartInv'
  <2>1. /\ activation[c] = "starting" /\ activation' = [activation EXCEPT ![c] = r]
        /\ main' = main /\ loop' = loop
    BY <1>4 DEF FinishActivate, mainVars, loopVars
  <2>2. QED
    BY <2>1 DEF TypeInv, TypeOK, Ins, Outs
<1>5. CASE activation' = activation /\ (loop' = "none" <=> loop = "none")
             /\ (main' = main \/ main' \notin {"setup", "outputs", "inputs"})
  BY <1>5
<1>6. QED
  BY <1>1, <1>2, <1>3, <1>4, <1>5 DEF Next, Main, Task, Producer, LoopThread, vars,
     setupVars, flagVars, mainVars, queueVars, loopVars, AddChannel, Tick, TickReturns,
     StopLoop, ClearAlive, Join, TickTaskEnds, LockToPush, Push, Notify, CheckRunning,
     PassGate, TestEmpty, Sleep, SpuriousWake, Relock, CrashOnPop, Pop, SkipOutput,
     StartIncoming, EndIncoming, FanOutDone, LoopOnly, LoopGoes

\* Inputs start only after every output is ready, the loop only after everybody is.
THEOREM ActivationOrdered == Spec => []ActivationOrder
<1>1. IInv /\ StartInv /\ [Next]_vars => (IInv /\ StartInv)'
  BY Inductive, StartStep DEF IInv
<1>2. IInv /\ StartInv => ActivationOrder
  BY DEF StartInv
<1>3. QED
  BY Inductive, StartInit, <1>1, <1>2, PTL DEF Spec
=============================================================================
