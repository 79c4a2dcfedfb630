--------------------------- MODULE TelegramProofs ---------------------------
(***************************************************************************)
(* Theorems about Telegram for every limit, however many updates arrive    *)
(* and however often the program is started again.                         *)
(***************************************************************************)
EXTENDS Telegram, SequenceTheorems, TLAPS

Heard == {pushed[k] : k \in 1..Len(pushed)}

\* The reply being parsed starts behind what the server has forgotten, and is no
\* longer than what it has.
ReplyInv ==
  /\ pc \in {"each", "last"} => lo = acked + 1 /\ lo <= hi /\ hi <= Len(kinds)
  /\ pc = "each" => at <= hi
  /\ pc = "last" => at >= hi

TypeInv == TypeOK /\ ReplyInv

\* What the offset passes over was pushed, and so was what the loop has passed.
CoverInv ==
  /\ \A u \in 1..(offset - 1) : kinds[u] = "ours" => u \in Heard
  /\ pc \in {"each", "last"} => \A u \in lo..(at - 1) : kinds[u] = "ours" => u \in Heard

\* What this run pushed is behind the offset, and the offset is not ahead of the
\* loop; only the last update of a reply may have been pushed when it is parsed again.
OrderInv ==
  /\ \A k \in (runStart + 1)..Len(pushed) : pushed[k] < offset
  /\ pc = "asked" => offset <= acked + 1
  /\ pc = "each" => offset <= at
  /\ pc = "last" =>
       \A k \in (runStart + 1)..Len(pushed) :
         pushed[k] <= hi /\ (pushed[k] = hi => k = Len(pushed) /\ kinds[hi] = "ours")

-----------------------------------------------------------------------------
(* Types.                                                                  *)

LEMMA LongerSeq ==
  ASSUME NEW m \in Nat, NEW n \in Nat, m <= n, NEW s \in Seq(1..m)
  PROVE  s \in Seq(1..n)
<1>1. 1..m \subseteq 1..n
  OBVIOUS
<1>2. QED
  BY <1>1, SeqMonotonic

LEMMA TypeInit == Init => TypeInv
<1> SUFFICES ASSUME Init PROVE TypeInv
  OBVIOUS
<1>1. kinds \in Seq(Kinds) /\ pushed \in Seq(1..Len(kinds)) /\ Len(kinds) = 0 /\ Len(pushed) = 0
  BY DEF Init
<1>2. /\ acked = 0 /\ offset = 0 /\ lo = 1 /\ hi = 1 /\ at = 1 /\ pc = "new"
      /\ pipeRunning = FALSE /\ restarts = 0 /\ runStart = 0
  BY DEF Init
<1>3. QED
  <2>1. acked \in 0..Len(kinds) /\ offset \in 0..(Len(kinds) + 1) /\ runStart \in 0..Len(pushed)
    BY <1>1, <1>2
  <2>2. lo \in Nat \ {0} /\ hi \in Nat \ {0} /\ at \in lo..(hi + 1) /\ restarts \in 0..MaxRestarts
    BY <1>2, TelegramAssumption
  <2>3. QED
    BY <1>1, <1>2, <2>1, <2>2 DEF TypeInv, TypeOK, ReplyInv

\* Handling an update that the server has keeps the types.
LEMMA HandleType ==
  ASSUME TypeOK, NEW u \in 1..Len(kinds), Handle(u)
  PROVE  /\ pushed' \in Seq(1..Len(kinds)) /\ offset' \in 0..(Len(kinds) + 1)
         /\ Len(pushed') = Len(pushed) + 1 /\ pushed'[Len(pushed) + 1] = u
         /\ \A k \in 1..Len(pushed) : pushed'[k] = pushed[k]
<1>1. pushed \in Seq(1..Len(kinds)) /\ Len(kinds) \in Nat
  BY DEF TypeOK
<1>2. pushed' = Append(pushed, u) /\ offset' = u + 1
  BY DEF Handle
<1>3. /\ Append(pushed, u) \in Seq(1..Len(kinds))
      /\ Len(Append(pushed, u)) = Len(pushed) + 1 /\ Append(pushed, u)[Len(pushed) + 1] = u
      /\ \A k \in 1..Len(pushed) : Append(pushed, u)[k] = pushed[k]
  BY <1>1, AppendProperties
<1>4. QED
  BY <1>1, <1>2, <1>3

LEMMA TypeStep == TypeInv /\ [Next]_vars => TypeInv'
<1> SUFFICES ASSUME TypeInv, [Next]_vars PROVE TypeInv'
  OBVIOUS
<1> USE TelegramAssumption DEF TypeInv, TypeOK, ReplyInv
<1>1. CASE UNCHANGED vars
  BY <1>1 DEF vars, serverVars, replyVars, runVars
<1>2. ASSUME NEW kind \in Kinds, Arrive(kind) PROVE TypeInv'
  <2>1. kinds' \in Seq(Kinds) /\ Len(kinds') = Len(kinds) + 1
    BY <1>2 DEF Arrive
  <2>2. pushed' \in Seq(1..Len(kinds'))
    BY <1>2, <2>1, LongerSeq DEF Arrive
  <2>3. QED
    BY <1>2, <2>1, <2>2 DEF Arrive, replyVars, runVars
<1>3. CASE Activate
  BY <1>3 DEF Activate, serverVars, replyVars, runVars
<1>4. CASE Request
  BY <1>4 DEF Request, Acknowledged, replyVars, runVars
<1>5. CASE Reply
  BY <1>5 DEF Reply, serverVars, runVars
<1>6. CASE ReplyEmpty
  BY <1>6 DEF ReplyEmpty, serverVars, replyVars, runVars
<1>7. CASE Each
  <2>1. at \in 1..Len(kinds) /\ at + 1 \in lo..(hi + 1)
    BY <1>7 DEF Each
  <2>2. /\ pushed' \in Seq(1..Len(kinds)) /\ offset' \in 0..(Len(kinds) + 1)
        /\ Len(pushed') >= Len(pushed)
    BY <1>7, <2>1, HandleType DEF Each, Ignore
  <2>3. QED
    BY <1>7, <2>1, <2>2 DEF Each, serverVars, runVars
<1>8. CASE Last
  <2>1. hi \in 1..Len(kinds)
    BY <1>8 DEF Last
  <2>2. /\ pushed' \in Seq(1..Len(kinds)) /\ offset' \in 0..(Len(kinds) + 1)
        /\ Len(pushed') >= Len(pushed)
    BY <1>8, <2>1, HandleType DEF Last, Ignore
  <2>3. QED
    BY <1>8, <2>1, <2>2 DEF Last, serverVars, replyVars, runVars
<1>9. CASE Stop
  BY <1>9 DEF Stop, serverVars, replyVars, runVars
<1>10. CASE Die
  BY <1>10 DEF Die, serverVars, replyVars, runVars
<1>11. CASE Restart
  BY <1>11 DEF Restart, serverVars, replyVars
<1>12. QED
  BY <1>1, <1>2, <1>3, <1>4, <1>5, <1>6, <1>7, <1>8, <1>9, <1>10, <1>11 DEF Next, Poller

\* Every reachable state has the types that the declarations give: in particular the
\* offset is never more than one ahead of the updates, and a reply is within them.
THEOREM TypeCorrect == Spec => []TypeOK
<1>1. TypeInv => TypeOK
  BY DEF TypeInv
<1>2. QED
  BY TypeInit, TypeStep, <1>1, PTL DEF Spec

LEMMA TypeAlways == Spec => []TypeInv
BY TypeInit, TypeStep, PTL DEF Spec

-----------------------------------------------------------------------------
(* At least once.                                                          *)

LEMMA HandleHeard ==
  ASSUME TypeInv, NEW u \in 1..Len(kinds), Handle(u)
  PROVE  Heard' = Heard \cup {u} /\ offset' = u + 1
<1>1. /\ Len(pushed') = Len(pushed) + 1 /\ pushed'[Len(pushed) + 1] = u
      /\ \A k \in 1..Len(pushed) : pushed'[k] = pushed[k]
  BY HandleType DEF TypeInv
<1>2. Len(pushed) \in Nat
  BY DEF TypeInv, TypeOK
<1>3. QED
  BY <1>1, <1>2 DEF Heard, Handle

LEMMA NothingLostInit == Init => NothingLost /\ CoverInv
BY DEF Init, NothingLost, CoverInv

LEMMA NothingLostStep ==
  TypeInv /\ CoverInv /\ NothingLost /\ [Next]_vars => (CoverInv /\ NothingLost)'
<1> SUFFICES ASSUME TypeInv, CoverInv, NothingLost, [Next]_vars
             PROVE  (CoverInv /\ NothingLost)'
  OBVIOUS
<1> DEFINE Good == (CoverInv /\ NothingLost)'
<1> USE DEF CoverInv, NothingLost, Heard
<1>0. /\ acked \in Nat /\ offset \in Nat /\ lo \in Nat /\ hi \in Nat /\ at \in Nat
      /\ acked <= Len(kinds) /\ offset <= Len(kinds) + 1 /\ Len(kinds) \in Nat
  BY DEF TypeInv, TypeOK
<1>acked. \A u \in 1..acked : kinds[u] = "ours" => u \in Heard
  OBVIOUS
<1>1. CASE UNCHANGED vars
  BY <1>1 DEF vars, serverVars, replyVars, runVars
<1>2. ASSUME NEW kind \in Kinds, Arrive(kind) PROVE Good
  <2>1. \A u \in 1..Len(kinds) : kinds'[u] = kinds[u]
    BY <1>2 DEF Arrive, TypeInv, TypeOK
  <2>2. pc \in {"each", "last"} => lo >= 1 /\ at - 1 <= Len(kinds)
    BY <1>0 DEF TypeInv, TypeOK, ReplyInv
  <2>3. QED
    BY <1>0, <1>2, <2>1, <2>2 DEF Arrive, replyVars
<1>3. CASE Activate
  BY <1>3 DEF Activate, serverVars, replyVars
<1>4. CASE Request
  BY <1>0, <1>4 DEF Request, Acknowledged, replyVars
<1>5. CASE Reply
  BY <1>0, <1>5 DEF Reply, serverVars
<1>6. CASE ReplyEmpty
  BY <1>6 DEF ReplyEmpty, serverVars, replyVars
<1>7. CASE Each
  <2>0. at \in 1..Len(kinds) /\ lo = acked + 1 /\ acked < at
    BY <1>7 DEF Each, TypeInv, TypeOK, ReplyInv
  <2>1. UNCHANGED <<kinds, acked, lo, hi>> /\ at' = at + 1 /\ pc' \in {"each", "last"}
    BY <1>7 DEF Each, serverVars
  <2>2. \A u \in 1..(at - 1) : kinds[u] = "ours" => u \in Heard
    BY <1>0, <1>7, <2>0 DEF Each
  <2>3. CASE kinds[at] = "ours"
    <3>1. Handle(at)
      BY <1>7, <2>3 DEF Each, Matches
    <3> HIDE DEF Heard, NothingLost
    <3>2. Heard' = Heard \cup {at} /\ offset' = at + 1
      BY <2>0, <3>1, HandleHeard
    <3>3. \A u \in 1..at : kinds'[u] = "ours" => u \in Heard'
      <4> SUFFICES ASSUME NEW u \in 1..at, kinds[u] = "ours" PROVE u \in Heard'
        BY <2>1
      <4>1. u = at \/ u \in 1..(at - 1)
        BY <2>0
      <4>2. QED
        BY <2>2, <3>2, <4>1
    <3>4. CoverInv'
      BY <1>0, <2>0, <2>1, <3>2, <3>3
    <3>5. \A u \in 1..acked' : kinds'[u] = "ours" => u \in Heard'
      BY <1>0, <2>0, <2>1, <3>3
    <3>6. QED
      BY <3>4, <3>5 DEF NothingLost, Heard
  <2>4. CASE kinds[at] # "ours"
    <3>1. UNCHANGED <<offset, pushed>>
      BY <1>7, <2>4 DEF Each, Matches, Ignore
    <3>2. QED
      BY <1>0, <1>7, <2>0, <2>1, <2>4, <3>1 DEF Each
  <2>5. QED
    BY <2>3, <2>4
<1>8. CASE Last
  <2>0. hi \in 1..Len(kinds) /\ lo = acked + 1 /\ at >= hi /\ acked < hi
    BY <1>8 DEF Last, TypeInv, TypeOK, ReplyInv
  <2>1. UNCHANGED <<kinds, acked, lo, hi, at>> /\ pc' = "poll"
    BY <1>8 DEF Last, serverVars, replyVars
  <2>2. CASE HasMessage(hi)
    <3>1. Handle(hi)
      BY <1>8, <2>2 DEF Last
    <3> HIDE DEF Heard, NothingLost
    <3>2. Heard' = Heard \cup {hi} /\ offset' = hi + 1
      BY <2>0, <3>1, HandleHeard
    <3>3. \A u \in 1..hi : kinds[u] = "ours" => u \in Heard \/ u = hi
      BY <1>0, <1>acked, <1>8, <2>0 DEF Last
    <3>4. \A u \in 1..hi : kinds'[u] = "ours" => u \in Heard'
      BY <1>0, <2>0, <2>1, <3>2, <3>3
    <3>5. CoverInv' /\ \A u \in 1..acked' : kinds'[u] = "ours" => u \in Heard'
      BY <1>0, <2>0, <2>1, <3>2, <3>4
    <3>6. QED
      BY <3>5 DEF NothingLost, Heard
  <2>3. CASE ~HasMessage(hi)
    BY <1>8, <2>1, <2>3 DEF Last, Ignore
  <2>4. QED
    BY <2>2, <2>3
<1>9. CASE Stop
  BY <1>9 DEF Stop, serverVars, replyVars
<1>10. CASE Die
  BY <1>10 DEF Die, serverVars, replyVars
<1>11. CASE Restart
  BY <1>11 DEF Restart, serverVars, replyVars
<1>12. QED
  BY <1>1, <1>2, <1>3, <1>4, <1>5, <1>6, <1>7, <1>8, <1>9, <1>10, <1>11 DEF Next, Poller

\* At least once: the server forgets an update of the chat (by the offset of the next
\* getUpdates) only after it was given to newMessage(), over any number of deaths and
\* restarts of the process.
THEOREM FeedLosesNothing == Spec => []NothingLost
BY TypeAlways, NothingLostInit, NothingLostStep, PTL DEF Spec

-----------------------------------------------------------------------------
(* In order.                                                               *)

LEMMA OrderInit == Init => OrderInv /\ RunInOrder
BY DEF Init, OrderInv, RunInOrder

\* Handling an update that is not behind any pushed in this run keeps the order.
LEMMA HandleInOrder ==
  ASSUME TypeInv, RunInOrder, NEW u \in 1..Len(kinds), Handle(u), UNCHANGED <<kinds, runStart>>,
         HasMessage(u),
         \A k \in (runStart + 1)..Len(pushed) :
           pushed[k] <= u /\ (pushed[k] = u => k = Len(pushed) /\ kinds[u] = "ours")
  PROVE  RunInOrder' /\ \A k \in (runStart' + 1)..Len(pushed') : pushed'[k] < offset'
<1> DEFINE n == Len(pushed)
<1>1. /\ Len(pushed') = n + 1 /\ pushed'[n + 1] = u /\ offset' = u + 1
      /\ \A k \in 1..n : pushed'[k] = pushed[k]
  BY HandleType DEF TypeInv, Handle
<1>2. /\ n \in Nat /\ runStart \in 0..n /\ Len(kinds) \in Nat
      /\ \A k \in 1..n : pushed[k] \in 1..Len(kinds)
  BY DEF TypeInv, TypeOK
<1> HIDE DEF n
<1>3. ASSUME NEW k \in (runStart + 1)..(n + 1), NEW l \in (runStart + 1)..(n + 1), k < l
      PROVE  /\ pushed'[k] <= pushed'[l]
             /\ pushed'[k] = pushed'[l] => l = k + 1 /\ kinds[pushed'[k]] = "ours"
  <2>1. k \in (runStart + 1)..n /\ pushed'[k] = pushed[k]
    BY <1>1, <1>2, <1>3
  <2>2. CASE l \in (runStart + 1)..n
    BY <1>1, <1>2, <1>3, <2>1, <2>2 DEF RunInOrder, n
  <2>3. CASE l = n + 1
    BY <1>1, <1>2, <2>1, <2>3 DEF n
  <2>4. QED
    BY <1>2, <2>2, <2>3
<1>4. \A k \in 1..(n + 1) : kinds[pushed'[k]] # "other"
  <2>1. \A k \in 1..n : kinds[pushed'[k]] # "other"
    BY <1>1 DEF RunInOrder, n
  <2>2. QED
    BY <1>1, <1>2, <2>1 DEF HasMessage
<1>5. RunInOrder'
  BY <1>1, <1>3, <1>4 DEF RunInOrder
<1>6. \A k \in (runStart + 1)..(n + 1) : pushed'[k] <= u
  BY <1>1, <1>2 DEF n
<1>7. QED
  BY <1>1, <1>2, <1>5, <1>6

LEMMA OrderStep ==
  TypeInv /\ OrderInv /\ RunInOrder /\ [Next]_vars => (OrderInv /\ RunInOrder)'
<1> SUFFICES ASSUME TypeInv, OrderInv, RunInOrder, [Next]_vars
             PROVE  (OrderInv /\ RunInOrder)'
  OBVIOUS
<1> DEFINE Good == (OrderInv /\ RunInOrder)'
<1> USE DEF OrderInv
<1>0. /\ acked \in Nat /\ offset \in Nat /\ lo \in Nat /\ hi \in Nat /\ at \in Nat
      /\ Len(kinds) \in Nat /\ Len(pushed) \in Nat /\ runStart \in 0..Len(pushed)
      /\ \A k \in 1..Len(pushed) : pushed[k] \in 1..Len(kinds)
  BY DEF TypeInv, TypeOK
<1>1. CASE UNCHANGED vars
  BY <1>1 DEF vars, serverVars, replyVars, runVars, RunInOrder
<1>2. ASSUME NEW kind \in Kinds, Arrive(kind) PROVE Good
  <2>1. \A u \in 1..Len(kinds) : kinds'[u] = kinds[u]
    BY <1>2 DEF Arrive, TypeInv, TypeOK
  <2>2. UNCHANGED <<acked, offset, lo, hi, at, pc, pushed, runStart>>
    BY <1>2 DEF Arrive, replyVars, runVars
  <2>3. pc = "last" => hi \in 1..Len(kinds)
    BY <1>0 DEF TypeInv, TypeOK, ReplyInv
  <2>4. RunInOrder'
    <3>1. \A k \in 1..Len(pushed) : kinds'[pushed[k]] = kinds[pushed[k]]
      BY <1>0, <2>1
    <3>2. \A k \in (runStart + 1)..Len(pushed) : k \in 1..Len(pushed)
      BY <1>0
    <3>3. QED
      BY <2>2, <3>1, <3>2 DEF RunInOrder
  <2>5. QED
    BY <2>1, <2>2, <2>3, <2>4
<1>3. CASE Activate
  BY <1>3 DEF Activate, serverVars, replyVars, runVars, RunInOrder
<1>4. CASE Request
  <2>1. pc' = "asked" => offset' <= acked' + 1
    BY <1>0, <1>4 DEF Request, Acknowledged
  <2>2. QED
    BY <1>4, <2>1 DEF Request, replyVars, runVars, RunInOrder
<1>5. CASE Reply
  <2>1. /\ UNCHANGED <<kinds, offset, pushed, runStart>> /\ pc' \in {"each", "last"}
        /\ offset <= acked + 1 /\ at' = acked + 1
    BY <1>0, <1>5 DEF Reply, serverVars, runVars
  <2>ahead. hi' \in Nat /\ hi' >= acked + 1
    BY <1>0, <1>5, TelegramAssumption DEF Reply
  <2>2. \A k \in (runStart + 1)..Len(pushed) : pushed[k] < hi' /\ pushed[k] \in Nat
    BY <1>0, <2>1, <2>ahead
  <2>3. RunInOrder'
    BY <2>1 DEF RunInOrder
  <2>4. OrderInv'
    BY <1>0, <2>1, <2>ahead, <2>2
  <2>5. QED
    BY <2>3, <2>4
<1>6. CASE ReplyEmpty
  BY <1>6 DEF ReplyEmpty, serverVars, replyVars, runVars, RunInOrder
<1>7. CASE Each
  <2>1. /\ UNCHANGED <<kinds, hi, runStart>> /\ at' = at + 1
        /\ pc' \in {"each", "last"} /\ (pc' = "last" => at = hi)
        /\ at \in 1..Len(kinds) /\ offset <= at
    BY <1>0, <1>7 DEF Each, serverVars, runVars, TypeInv, TypeOK, ReplyInv
  <2>2. \A k \in (runStart + 1)..Len(pushed) : pushed[k] < at
    BY <1>0, <2>1
  <2>3. CASE Matches(at)
    <3>1. Handle(at) /\ HasMessage(at) /\ kinds[at] = "ours"
      BY <1>7, <2>3 DEF Each, Matches, HasMessage
    <3>2. \A k \in (runStart + 1)..Len(pushed) :
            pushed[k] <= at /\ (pushed[k] = at => k = Len(pushed) /\ kinds[at] = "ours")
      BY <1>0, <2>2
    <3>3. RunInOrder' /\ \A k \in (runStart' + 1)..Len(pushed') : pushed'[k] < offset'
      BY <2>1, <3>1, <3>2, HandleInOrder
    <3>4. /\ Len(pushed') = Len(pushed) + 1 /\ pushed'[Len(pushed) + 1] = at
          /\ \A k \in 1..Len(pushed) : pushed'[k] = pushed[k]
      BY <2>1, <3>1, HandleType DEF TypeInv
    <3>5. \A k \in (runStart + 1)..Len(pushed') :
            pushed'[k] <= at /\ (pushed'[k] = at => k = Len(pushed'))
      BY <1>0, <2>2, <3>4
    <3>6. offset' = at + 1
      BY <3>1 DEF Handle
    <3>7. QED
      BY <1>0, <2>1, <3>1, <3>3, <3>5, <3>6
  <2>4. CASE ~Matches(at)
    <3>1. UNCHANGED <<offset, pushed>>
      BY <1>7, <2>4 DEF Each, Ignore
    <3>2. QED
      BY <1>0, <2>1, <2>2, <3>1 DEF RunInOrder
  <2>5. QED
    BY <2>3, <2>4
<1>8. CASE Last
  <2>1. UNCHANGED <<kinds, runStart>> /\ pc' = "poll" /\ hi \in 1..Len(kinds)
    BY <1>0, <1>8 DEF Last, serverVars, runVars, TypeInv, TypeOK, ReplyInv
  <2>2. CASE HasMessage(hi)
    <3>1. Handle(hi)
      BY <1>8, <2>2 DEF Last
    <3>2. RunInOrder' /\ \A k \in (runStart' + 1)..Len(pushed') : pushed'[k] < offset'
      BY <1>8, <2>1, <2>2, <3>1, HandleInOrder DEF Last
    <3>3. QED
      BY <2>1, <3>2
  <2>3. CASE ~HasMessage(hi)
    BY <1>8, <2>1, <2>3 DEF Last, Ignore, RunInOrder
  <2>4. QED
    BY <2>2, <2>3
<1>9. CASE Stop
  BY <1>9 DEF Stop, serverVars, replyVars, runVars, RunInOrder
<1>10. CASE Die
  BY <1>10 DEF Die, serverVars, replyVars, runVars, RunInOrder
<1>11. CASE Restart
  BY <1>0, <1>11 DEF Restart, serverVars, replyVars, RunInOrder
<1>12. QED
  BY <1>1, <1>2, <1>3, <1>4, <1>5, <1>6, <1>7, <1>8, <1>9, <1>10, <1>11 DEF Next, Poller

\* In order: within one run of the program newMessage() gets updates in the order of
\* their ids, and one of them twice at most, next to each other, when parse() parses a
\* reply's last message of the chat again for its return value.
THEOREM FeedInOrder == Spec => []RunInOrder
BY TypeAlways, OrderInit, OrderStep, PTL DEF Spec

-----------------------------------------------------------------------------
(* The abstract feed.                                                      *)

LEMMA FeedInit == Init => F!Init
BY DEF Init, F!Init

\* Handling an update that the server still keeps is a delivery.
LEMMA HandleDelivers ==
  ASSUME NEW u \in (acked + 1)..Len(kinds), Handle(u), HasMessage(u), UNCHANGED serverVars
  PROVE  F!Next
<1>1. F!Deliver(u)
  BY DEF F!Deliver, Handle, HasMessage, serverVars
<1>2. QED
  BY <1>1 DEF F!Next

\* An offset that passes over updates forgets them, and the loop has pushed those of
\* the chat.
LEMMA RequestForgets ==
  ASSUME TypeInv, CoverInv, Request
  PROVE  F!Next \/ UNCHANGED F!vars
<1>1. /\ acked \in Nat /\ offset \in Nat /\ Len(kinds) \in Nat
      /\ acked <= Len(kinds) /\ offset <= Len(kinds) + 1
  BY DEF TypeInv, TypeOK
<1>2. CASE pipeRunning /\ offset > acked + 1
  <2>1. acked' = offset - 1 /\ UNCHANGED <<kinds, pushed>>
    BY <1>2 DEF Request, Acknowledged
  <2>2. offset - 1 \in (acked + 1)..Len(kinds)
    BY <1>1, <1>2
  <2>3. \A u \in (acked + 1)..(offset - 1) : kinds[u] \in {"ours"} => F!Heard(u)
    BY <1>1 DEF CoverInv, Heard, F!Heard
  <2>4. F!Forget(offset - 1)
    BY <2>1, <2>3 DEF F!Forget
  <2>5. QED
    BY <2>2, <2>4 DEF F!Next
<1>3. CASE ~(pipeRunning /\ offset > acked + 1)
  BY <1>3 DEF Request, Acknowledged, F!vars
<1>4. QED
  BY <1>2, <1>3

LEMMA FeedStep ==
  ASSUME TypeInv, CoverInv, [Next]_vars
  PROVE  F!Next \/ UNCHANGED F!vars
<1>0. acked \in Nat /\ Len(kinds) \in Nat
  BY DEF TypeInv, TypeOK
<1>1. ASSUME NEW kind \in Kinds, Arrive(kind) PROVE F!Next
  <2>1. F!Arrive(kind)
    BY <1>1 DEF Arrive, F!Arrive
  <2>2. QED
    BY <2>1 DEF F!Next
<1>2. CASE Request
  BY <1>2, RequestForgets
<1>3. CASE Each
  <2>1. at \in (acked + 1)..Len(kinds) /\ UNCHANGED serverVars
    BY <1>0, <1>3 DEF Each, TypeInv, TypeOK, ReplyInv
  <2>2. CASE Matches(at)
    BY <1>3, <2>1, <2>2, HandleDelivers DEF Each, Matches, HasMessage
  <2>3. CASE ~Matches(at)
    BY <1>3, <2>3 DEF Each, Ignore, serverVars, F!vars
  <2>4. QED
    BY <2>2, <2>3
<1>4. CASE Last
  <2>1. hi \in (acked + 1)..Len(kinds) /\ UNCHANGED serverVars
    BY <1>0, <1>4 DEF Last, TypeInv, TypeOK, ReplyInv
  <2>2. CASE HasMessage(hi)
    BY <1>4, <2>1, <2>2, HandleDelivers DEF Last
  <2>3. CASE ~HasMessage(hi)
    BY <1>4, <2>3 DEF Last, Ignore, serverVars, F!vars
  <2>4. QED
    BY <2>2, <2>3
<1>5. CASE UNCHANGED vars \/ Activate \/ Reply \/ ReplyEmpty \/ Stop \/ Die \/ Restart
  BY <1>5 DEF vars, serverVars, Activate, Reply, ReplyEmpty, Stop, Die, Restart, F!vars
<1>6. QED
  BY <1>1, <1>2, <1>3, <1>4, <1>5 DEF Next, Poller

\* Through every death and restart of the process, the polling thread and the server
\* implement the feed: what is wanted is pushed before it is forgotten, and nothing
\* that is forgotten is pushed.
THEOREM TelegramImplementsFeed == Spec => FeedSpec
<1>1. TypeInv /\ CoverInv /\ [Next]_vars => [F!Next]_(F!vars)
  BY FeedStep
<1>2. QED
  BY <1>1, FeedInit, TypeAlways, NothingLostInit, NothingLostStep, PTL DEF Spec, FeedSpec, F!Spec
=============================================================================
