---------------------------- MODULE StreamProofs ----------------------------
(***************************************************************************)
(* Theorems about the two components that take a connection's byte stream  *)
(* apart: HttpResponse, for every buffer size, every word size that the    *)
(* sizes of a response cannot exceed, and all sizes of header and body;    *)
(* and Irc, for every time-out and any number of lines, ticks and pieces.  *)
(***************************************************************************)
EXTENDS HttpResponse, Irc, SequenceTheorems, FiniteSetTheorems, WellFoundedInduction, TLAPS

(* HttpResponse.                                                           *)

Total == header + body

\* No byte is lost or doubled ...
Exact == size + unread + left = Total

\* ... unless a reset of a plain connection was counted as -1.  Then nothing follows.
Deficit ==
  /\ ~tls /\ pc = "length" /\ peer = "closed" /\ unread = 0
  /\ size < header + length

CountInv ==
  /\ size + unread + left <= Total
  /\ pc \in {"first", "parse"} => Exact
  /\ HeaderRead => Exact \/ Deficit
  /\ HeaderRead /\ tls => size >= header

\* The constructor's progress: what it knows and has allocated at each place.
StageInv ==
  /\ pc = "first" => size = 0
  /\ pc = "parse" => size \in 1..(MAX_BUF - 1)
  /\ pc \in {"first", "parse"} =>
       capacity = MAX_BUF /\ zeroed = MAX_BUF /\ length = NoLength /\ headerSize = 0
  /\ pc = "length" => length # NoLength /\ headerSize # 0 /\ (peer # "closed" => size >= 1)
  /\ pc \in {"timed", "timedRecv"} => length = NoLength
  /\ pc = "timed" => size < capacity
  /\ pc = "timedRecv" => size + pending < capacity /\ pending > 0
  /\ pc = "done" /\ length = NoLength => size < capacity
  /\ pc = "done" /\ length # NoLength /\ HeaderRead =>
       size = Total \/ (unread = 0 /\ peer = "closed")

\* With a header and an announced length in hand there is room for both, and for a
\* zero byte behind them unless they fill the first buffer exactly.
RoomInv ==
  HeaderRead /\ length # NoLength =>
    /\ length = body /\ Total <= capacity
    /\ Total < zeroed \/ (Total = MAX_BUF /\ zeroed = MAX_BUF)

HttpInv == HttpTypeOK /\ CountInv /\ StageInv /\ RoomInv /\ Fits

LEMMA ModSmall ==
  ASSUME NEW x \in Nat, x < W
  PROVE  x % W = x
BY HttpAssumption

\* The numbers of a state, and how far they are from overflowing.
LEMMA Sizes ==
  ASSUME HttpTypeOK
  PROVE  /\ MAX_BUF \in Nat /\ MAX_BUF >= 2 /\ W \in Nat
         /\ header \in Nat /\ header >= 1 /\ body \in Nat
         /\ header + body + 2 * MAX_BUF < W
         /\ left \in Nat /\ unread \in Nat /\ size \in Nat
         /\ capacity \in Nat /\ zeroed \in Nat /\ pending \in Nat
         /\ MAX_BUF <= zeroed /\ zeroed <= capacity
         /\ length \in Int /\ (length # NoLength => length \in Nat /\ length <= body)
         /\ Npos # header /\ Npos # 0 /\ NoLength # body
<1>1. /\ MAX_BUF \in Nat /\ MAX_BUF >= 2 /\ W \in Nat
      /\ header \in Nat /\ header >= 1 /\ body \in Nat
      /\ header + body + 2 * MAX_BUF < W
  BY HttpAssumption DEF HttpTypeOK
<1>2. QED
  BY <1>1 DEF HttpTypeOK, NoLength, Npos, Larger

\* What recv() does to the counts.
LEMMA ReceiveCounts ==
  ASSUME HttpTypeOK, CountInv, NEW count \in Int, Receive(count)
  PROVE  \E n \in Nat :
           /\ 1 <= n /\ n <= count /\ n <= unread
           /\ unread' = unread - n /\ size' = size + n
           /\ UNCHANGED <<left, peer, capacity, zeroed>>
<1>1. PICK n \in 1..Smaller(count, unread) :
        /\ unread' = unread - n
        /\ size' = (size + n) % W
        /\ UNCHANGED <<left, peer, capacity, zeroed>>
  BY DEF Receive
<1>2. n \in Nat /\ 1 <= n /\ n <= count /\ n <= unread
  BY <1>1, Sizes DEF Smaller
<1>3. size + n \in Nat /\ size + n < W
  BY <1>2, Sizes DEF CountInv, Total
<1>4. size' = size + n
  BY <1>1, <1>3, ModSmall
<1>5. QED
  BY <1>1, <1>2, <1>4

LEMMA HttpInvInit == HttpInit => HttpInv
<1> SUFFICES ASSUME HttpInit PROVE HttpInv
  OBVIOUS
<1>1. HttpTypeOK
  BY HttpAssumption DEF HttpInit, HttpTypeOK, NoLength, Npos, Larger
<1>2. QED
  BY <1>1, Sizes DEF HttpInit, HttpInv, CountInv, StageInv, RoomInv, Fits, Exact, Total,
     HeaderRead, NoLength, Npos

LEMMA SendStep == HttpInv /\ Send => HttpInv'
<1> SUFFICES ASSUME HttpInv, Send PROVE HttpInv'
  OBVIOUS
<1>1. PICK n \in 1..left : left' = left - n /\ unread' = unread + n
  BY DEF Send
<1>2. UNCHANGED <<replyVars, peer, pc, bufferVars, headerSize, length, pending>> /\ peer = "open"
  BY DEF Send
<1>3. QED
  BY <1>1, <1>2, Sizes DEF HttpInv, HttpTypeOK, CountInv, StageInv, RoomInv, Fits, Exact, Deficit,
     Total, HeaderRead, replyVars, bufferVars, NoLength, Npos

LEMMA LeaveStep == HttpInv /\ Leave => HttpInv'
BY DEF Leave, HttpInv, HttpTypeOK, CountInv, StageInv, RoomInv, Fits, Exact, Deficit,
   Total, HeaderRead, replyVars, bufferVars, NoLength, Npos

LEMMA FirstStep == HttpInv /\ First => HttpInv'
<1> SUFFICES ASSUME HttpInv, First PROVE HttpInv'
  OBVIOUS
<1>1. MAX_BUF - 1 \in Int /\ Receive(MAX_BUF - 1)
  BY Sizes DEF First, HttpInv
<1>2. PICK n \in Nat :
        /\ 1 <= n /\ n <= MAX_BUF - 1 /\ n <= unread
        /\ unread' = unread - n /\ size' = size + n
        /\ UNCHANGED <<left, peer, capacity, zeroed>>
  BY <1>1, ReceiveCounts DEF HttpInv
<1>3. UNCHANGED <<replyVars, headerSize, length, pending>> /\ pc = "first" /\ pc' = "parse"
  BY DEF First
<1>4. QED
  BY <1>2, <1>3, Sizes DEF HttpInv, HttpTypeOK, CountInv, StageInv, RoomInv, Fits, Exact, Deficit,
     Total, HeaderRead, replyVars, NoLength, Npos

LEMMA FailStep == HttpInv /\ Fail => HttpInv'
BY Sizes DEF Fail, HttpInv, HttpTypeOK, CountInv, StageInv, RoomInv, Fits, Exact, Deficit,
   Total, HeaderRead, replyVars, peerVars, bufferVars, NoLength, Npos

\* MakeRoom() on numbers.
LEMMA RoomArithmetic ==
  ASSUME NEW m \in Nat, NEW n \in Nat, NEW s \in Nat, NEW b \in Nat, NEW w \in Nat,
         s < m, n <= b, m >= 2, b + 2 * m < w
  PROVE  LET z == IF m < s + n + 1 THEN s + n + 1 ELSE m IN
         /\ z \in Nat /\ z >= m /\ z <= m + n + 1 /\ z >= s + n + 1
         /\ m + n + 1 \in Nat /\ m + n + 1 < w
OBVIOUS

LEMMA ParseStep == HttpInv /\ Parse => HttpInv'
<1> SUFFICES ASSUME HttpInv, Parse PROVE HttpInv'
  OBVIOUS
<1>0. HttpTypeOK
  BY DEF HttpInv
<1>1. /\ UNCHANGED <<tls, header, body, announced, left, unread, peer, size, pending>>
      /\ pc = "parse" /\ pc' = IF length' = NoLength THEN "timed" ELSE "length"
      /\ headerSize' = IF size >= header THEN header ELSE Npos
  BY DEF Parse, replyVars, peerVars
<1>2. /\ size \in 1..(MAX_BUF - 1) /\ Exact
      /\ capacity = MAX_BUF /\ zeroed = MAX_BUF
  BY <1>1 DEF HttpInv, StageInv, CountInv
<1>3. /\ length' = NoLength \/ length' \in 0..body
      /\ size >= header => length' \in {NoLength, body}
  BY <1>0, Sizes DEF Parse, Lengths
<1>4. size >= header => (MAX_BUF - header) % W = MAX_BUF - header
  <2>1. size >= header => MAX_BUF - header \in Nat /\ MAX_BUF - header < W
    BY <1>0, <1>2, Sizes
  <2>2. QED
    BY <2>1, ModSmall
<1>5. CASE length' # NoLength /\ (MAX_BUF - headerSize') % W < length'
  <2>1. capacity' = MAX_BUF + length' + 1 /\ zeroed' = Larger(zeroed, size + length' + 1)
    BY <1>5 DEF Parse, MakeRoom
  <2>2. length' \in 0..body
    BY <1>3, <1>5
  <2>3. /\ zeroed' \in Nat /\ zeroed' >= MAX_BUF /\ zeroed' <= capacity'
        /\ zeroed' >= size + length' + 1
        /\ capacity' \in Nat /\ capacity' < W
    <3>1. length' \in Nat /\ length' <= body /\ size \in Nat /\ size < MAX_BUF
      BY <1>0, <1>2, <2>2, Sizes
    <3>2. MAX_BUF \in Nat /\ W \in Nat /\ body \in Nat /\ body + 2 * MAX_BUF < W /\ MAX_BUF >= 2
      BY <1>0, Sizes
    <3>3. /\ zeroed' = IF MAX_BUF < size + length' + 1 THEN size + length' + 1 ELSE MAX_BUF
          /\ capacity' = MAX_BUF + length' + 1
      BY <1>2, <2>1 DEF Larger
    <3>4. QED
      BY <3>1, <3>2, <3>3, RoomArithmetic
  <2>4. HttpTypeOK'
    BY <1>0, <1>1, <2>2, <2>3, Sizes DEF HttpTypeOK
  <2>5. (CountInv /\ StageInv)'
    BY <1>0, <1>1, <1>2, <1>5, <2>2, Sizes DEF HttpInv, CountInv, StageInv, Exact, Deficit, Total, HeaderRead
  <2>6. (RoomInv /\ Fits)'
    BY <1>0, <1>1, <1>2, <1>3, <1>5, <2>1, <2>3, Sizes DEF RoomInv, Fits, HeaderRead, Total
  <2>7. QED
    BY <2>4, <2>5, <2>6 DEF HttpInv
<1>6. CASE ~(length' # NoLength /\ (MAX_BUF - headerSize') % W < length')
  <2>1. UNCHANGED <<capacity, zeroed>>
    BY <1>6 DEF Parse
  <2>2. HttpTypeOK'
    BY <1>0, <1>1, <1>3, <2>1, Sizes DEF HttpTypeOK
  <2>3. (CountInv /\ StageInv)'
    BY <1>0, <1>1, <1>2, <2>1, Sizes DEF HttpInv, CountInv, StageInv, Exact, Deficit, Total, HeaderRead
  <2>4. (RoomInv /\ Fits)'
    BY <1>0, <1>1, <1>2, <1>3, <1>4, <1>6, <2>1, Sizes DEF RoomInv, Fits, HeaderRead, Total
  <2>5. QED
    BY <2>2, <2>3, <2>4 DEF HttpInv
<1>7. QED
  BY <1>5, <1>6

\* With the header read, what the loop waits for is the total.
LEMMA MoreIsLess ==
  ASSUME HttpInv, HeaderRead, length # NoLength
  PROVE  More <=> size < Total
<1>1. headerSize + length = Total /\ Total \in Nat /\ Total < W
  BY Sizes DEF HttpInv, RoomInv, HeaderRead, Total
<1>2. QED
  BY <1>1, ModSmall DEF More

LEMMA LengthRecvStep == HttpInv /\ LengthRecv => HttpInv'
<1> SUFFICES ASSUME HttpInv, LengthRecv PROVE HttpInv'
  OBVIOUS
<1>1. /\ UNCHANGED <<tls, header, body, announced, pc, headerSize, length, pending>>
      /\ pc = "length" /\ length # NoLength /\ Receive(length)
  BY DEF LengthRecv, replyVars, HttpInv, StageInv
<1>2. PICK n \in Nat :
        /\ 1 <= n /\ n <= length /\ n <= unread
        /\ unread' = unread - n /\ size' = size + n
        /\ UNCHANGED <<left, peer, capacity, zeroed>>
  BY <1>1, Sizes, ReceiveCounts DEF HttpInv
<1>3. HttpTypeOK'
  BY <1>1, <1>2, Sizes DEF HttpInv, HttpTypeOK, CountInv, Total
<1>4. (CountInv /\ StageInv)'
  BY <1>1, <1>2, Sizes DEF HttpInv, CountInv, StageInv, Exact, Deficit, Total, HeaderRead
<1>5. (RoomInv /\ Fits)'
  BY <1>1, <1>2, <1>4, Sizes DEF HttpInv, HttpTypeOK, CountInv, StageInv, RoomInv, Fits, Total, HeaderRead
<1>6. QED
  BY <1>3, <1>4, <1>5 DEF HttpInv

LEMMA LengthEndStep == HttpInv /\ LengthEnd => HttpInv'
<1> SUFFICES ASSUME HttpInv, LengthEnd PROVE HttpInv'
  OBVIOUS
<1>1. /\ UNCHANGED <<tls, header, body, announced, left, unread, peer, size, capacity, zeroed>>
      /\ UNCHANGED <<headerSize, length, pending>>
      /\ pc = "length" /\ pc' = "done" /\ length # NoLength
  BY DEF LengthEnd, replyVars, peerVars, bufferVars, HttpInv, StageInv
<1>2. HeaderRead => ~More <=> size >= Total
  BY <1>1, MoreIsLess, Sizes DEF HttpInv, Total
<1>3. HeaderRead => Exact /\ (size = Total \/ (unread = 0 /\ peer = "closed"))
  BY <1>1, <1>2, Sizes DEF LengthEnd, HttpInv, CountInv, RoomInv, Exact, Deficit, Total, HeaderRead
<1>4. QED
  BY <1>1, <1>3, Sizes DEF HttpInv, HttpTypeOK, CountInv, StageInv, RoomInv, Fits, Exact, Deficit,
     Total, HeaderRead

LEMMA LengthResetStep == HttpInv /\ LengthReset => HttpInv'
<1> SUFFICES ASSUME HttpInv, LengthReset PROVE HttpInv'
  OBVIOUS
<1>1. /\ UNCHANGED <<tls, header, body, announced, left, unread, capacity, zeroed>>
      /\ UNCHANGED <<headerSize, length, pending>>
      /\ pc = "length" /\ More /\ unread = 0 /\ peer = "reset" /\ length # NoLength
  BY DEF LengthReset, replyVars, HttpInv, StageInv
<1>2. size >= 1 /\ size - 1 \in Nat /\ size - 1 < W
  BY <1>1, Sizes DEF HttpInv, StageInv, CountInv, Total
<1>3. CASE tls
  BY <1>1, <1>3, Sizes DEF LengthReset, HttpInv, HttpTypeOK, CountInv, StageInv, RoomInv, Fits, Exact,
     Deficit, Total, HeaderRead
<1>4. CASE ~tls
  <2>1. size' = size - 1 /\ peer' = "closed" /\ pc' = "length"
    BY <1>1, <1>2, <1>4, ModSmall DEF LengthReset
  <2>2. HeaderRead => size < Total /\ length = body
    BY <1>1, MoreIsLess DEF HttpInv, RoomInv
  <2>3. QED
    BY <1>1, <1>2, <1>4, <2>1, <2>2, Sizes DEF HttpInv, HttpTypeOK, CountInv, StageInv, RoomInv, Fits,
       Exact, Deficit, Total, HeaderRead
<1>5. QED
  BY <1>3, <1>4, Sizes DEF HttpInv, HttpTypeOK

LEMMA PendingStep == HttpInv /\ Pending => HttpInv'
<1> SUFFICES ASSUME HttpInv, Pending PROVE HttpInv'
  OBVIOUS
<1>1. PICK count \in 1..unread : Grow(count)
  BY DEF Pending
<1>2. /\ UNCHANGED <<tls, header, body, announced, left, unread, peer, size, headerSize, length>>
      /\ pc = "timed" /\ pc' = "timedRecv" /\ length = NoLength /\ size < capacity
  BY DEF Pending, replyVars, peerVars, HttpInv, StageInv
<1>3. size + count <= Total /\ count \in Nat /\ count >= 1
  BY <1>1, Sizes DEF HttpInv, CountInv, Total
<1>4. /\ capacity' \in Nat /\ capacity' < W /\ zeroed' \in Nat
      /\ capacity <= capacity' /\ zeroed <= zeroed' /\ zeroed' <= capacity'
      /\ pending' \in 1..Larger(MAX_BUF, Total) /\ size + pending' < capacity'
  <2>1. CASE capacity < size + count + 1
    BY <1>1, <1>2, <1>3, <2>1, Sizes DEF Grow, Larger, Total, HttpInv
  <2>2. CASE ~(capacity < size + count + 1)
    BY <1>1, <1>2, <1>3, <2>2, Sizes DEF Grow, Larger, Total, HttpInv, HttpTypeOK
  <2>3. QED
    BY <2>1, <2>2
<1>5. HttpTypeOK'
  BY <1>2, <1>4, Sizes DEF HttpInv, HttpTypeOK, Total
<1>6. QED
  BY <1>2, <1>4, <1>5, Sizes DEF HttpInv, CountInv, StageInv, RoomInv, Fits, Exact, Deficit,
     Total, HeaderRead

LEMMA TimedRecvStep == HttpInv /\ TimedRecv => HttpInv'
<1> SUFFICES ASSUME HttpInv, TimedRecv PROVE HttpInv'
  OBVIOUS
<1>1. /\ UNCHANGED <<tls, header, body, announced, headerSize, length, pending>>
      /\ pc = "timedRecv" /\ pc' = "timed" /\ length = NoLength /\ Receive(pending)
      /\ size + pending < capacity
  BY DEF TimedRecv, replyVars, HttpInv, StageInv
<1>2. PICK n \in Nat :
        /\ 1 <= n /\ n <= pending /\ n <= unread
        /\ unread' = unread - n /\ size' = size + n
        /\ UNCHANGED <<left, peer, capacity, zeroed>>
  BY <1>1, Sizes, ReceiveCounts DEF HttpInv
<1>3. QED
  BY <1>1, <1>2, Sizes DEF HttpInv, HttpTypeOK, CountInv, StageInv, RoomInv, Fits, Exact, Deficit,
     Total, HeaderRead

LEMMA TimedEndStep == HttpInv /\ (TimedOut \/ TimedEmpty) => HttpInv'
BY Sizes DEF TimedOut, TimedEmpty, HttpInv, HttpTypeOK, CountInv, StageInv, RoomInv, Fits, Exact,
   Deficit, Total, HeaderRead, replyVars, peerVars, bufferVars

LEMMA HttpStep == HttpInv /\ [HttpNext]_httpVars => HttpInv'
<1>1. HttpInv /\ UNCHANGED httpVars => HttpInv'
  BY DEF httpVars, replyVars, peerVars, bufferVars, HttpInv, HttpTypeOK, CountInv, StageInv, RoomInv,
     Fits, Exact, Deficit, Total, HeaderRead
<1>2. QED
  BY <1>1, SendStep, LeaveStep, FirstStep, FailStep, ParseStep, LengthRecvStep, LengthEndStep,
     LengthResetStep, PendingStep, TimedRecvStep, TimedEndStep DEF HttpNext, Receiver

LEMMA HttpAlways == HttpSpec => []HttpInv
BY HttpInvInit, HttpStep, PTL DEF HttpSpec

\* Every count stays in its range; in particular none of size_t's additions wraps, but
\* for the -1 of tellg().
THEOREM HttpTypeCorrect == HttpSpec => []HttpTypeOK
<1>1. HttpInv => HttpTypeOK
  BY DEF HttpInv
<1>2. QED
  BY HttpAlways, <1>1, PTL

\* Whatever the sizes of header, body and buffer, and however the peer cuts its bytes
\* into pieces: they are written inside the buffer that the code allocated, if the
\* header's end came with the first read.
THEOREM ResponseFits == HttpSpec => []Fits
<1>1. HttpInv => Fits
  BY DEF HttpInv
<1>2. QED
  BY HttpAlways, <1>1, PTL

\* An accepted response of announced length is complete if the peer sent it whole, and
\* a zero byte follows it unless it is exactly MAX_BUF long.
THEOREM ResponseIsWhole == HttpSpec => []ReplyIsWhole
<1>1. HttpInv => ReplyIsWhole
  BY Sizes DEF HttpInv, CountInv, StageInv, RoomInv, ReplyIsWhole, Exact, Deficit, Total, HeaderRead
<1>2. QED
  BY HttpAlways, <1>1, PTL

-----------------------------------------------------------------------------
(* The least element of a set of numbers, and the order in which Nth counts. *)

Below == {p \in Nat \X Nat : p[1] < p[2]}

LEMMA LeastNumber ==
  ASSUME NEW S \in SUBSET Nat, S # {}
  PROVE  \E x \in S : \A y \in S : x <= y
<1>1. IsWellFoundedOn(Below, Nat)
  BY NatLessThanWellFounded DEF OpToRel, Below
<1>2. PICK x \in S : \A y \in S : ~(<<y, x>> \in Below)
  BY <1>1, WFMin
<1>3. \A y \in S : ~(y < x)
  BY <1>2 DEF Below
<1>4. QED
  BY <1>3

\* How many elements of a set of places are no greater than i.
Rank(S, i) == Cardinality({j \in S : j <= i})

LEMMA RankGrows ==
  ASSUME NEW m \in Nat, NEW S, \A j \in S : j \in 1..m
  PROVE  /\ IsFiniteSet(S)
         /\ Rank(S, 0) = 0 /\ Rank(S, m) = Cardinality(S)
         /\ \A i \in 0..m : Rank(S, i) \in 0..Cardinality(S)
         /\ \A i \in 1..m : Rank(S, i) = IF i \in S THEN Rank(S, i - 1) + 1 ELSE Rank(S, i - 1)
         /\ \A i, j \in 0..m : i <= j => Rank(S, i) <= Rank(S, j)
<1> DEFINE Upto(i) == {j \in S : j <= i}
<1>0. \A j \in S : j \in Int /\ 1 <= j /\ j <= m
  OBVIOUS
<1>1. IsFiniteSet(1..m)
  BY FS_Interval
<1>2. IsFiniteSet(S)
  BY <1>1, FS_Subset
<1>3. \A i : Upto(i) \in SUBSET S
  OBVIOUS
<1>4. \A i : IsFiniteSet(Upto(i)) /\ Cardinality(Upto(i)) <= Cardinality(S)
  BY <1>2, <1>3, FS_Subset
<1>5. Cardinality(S) \in Nat /\ \A i : Cardinality(Upto(i)) \in Nat
  BY <1>2, <1>4, FS_CardinalityType
<1>6. Upto(0) = {} /\ Upto(m) = S
  BY <1>0
<1>7. Cardinality(Upto(0)) = 0 /\ Cardinality(Upto(m)) = Cardinality(S)
  BY <1>6, FS_EmptySet
<1>8. ASSUME NEW i \in 1..m
      PROVE  Cardinality(Upto(i)) =
               IF i \in S THEN Cardinality(Upto(i - 1)) + 1 ELSE Cardinality(Upto(i - 1))
  <2>1. CASE i \in S
    <3>0. i \notin Upto(i - 1) /\ \A j \in S : j <= i <=> j <= i - 1 \/ j = i
      BY <1>0
    <3>1. Upto(i) = Upto(i - 1) \cup {i} /\ i \notin Upto(i - 1)
      BY <2>1, <3>0
    <3> HIDE DEF Upto
    <3>2. Cardinality(Upto(i - 1) \cup {i}) = Cardinality(Upto(i - 1)) + 1
      BY <1>4, <3>1, FS_AddElement
    <3>3. QED
      BY <2>1, <3>1, <3>2
  <2>2. CASE i \notin S
    <3>1. Upto(i) = Upto(i - 1)
      BY <1>0, <2>2
    <3> HIDE DEF Upto
    <3>2. QED
      BY <2>2, <3>1
  <2>3. QED
    BY <2>1, <2>2
<1>9. ASSUME NEW i \in 0..m, NEW j \in 0..m, i <= j
      PROVE  Cardinality(Upto(i)) <= Cardinality(Upto(j))
  <2>1. Upto(i) \in SUBSET Upto(j)
    BY <1>0, <1>9
  <2> HIDE DEF Upto
  <2>2. QED
    BY <1>4, <2>1, FS_Subset
<1>10. \A i : Rank(S, i) = Cardinality(Upto(i))
  BY DEF Rank
<1> HIDE DEF Upto
<1>11. QED
  BY <1>2, <1>4, <1>5, <1>7, <1>8, <1>9, <1>10

\* Nth counts the elements of a set of places, from the lowest to the highest.
LEMMA NthCounts ==
  ASSUME NEW m \in Nat, NEW S, \A j \in S : j \in 1..m
  PROVE  /\ Cardinality(S) \in Nat
         /\ \A k \in 1..Cardinality(S) : Nth(S, k) \in S
         /\ \A k, l \in 1..Cardinality(S) : k < l => Nth(S, k) < Nth(S, l)
         /\ \A i \in S : \E k \in 1..Cardinality(S) : Nth(S, k) = i
<1> DEFINE N == Cardinality(S)
<1>0. \A j \in S : j \in Int /\ 1 <= j /\ j <= m
  OBVIOUS
<1>1. N \in Nat
  BY RankGrows, FS_CardinalityType
<1>2. \A i \in 0..m : Rank(S, i) \in 0..N
  BY RankGrows
<1>3. \A k : Nth(S, k) = CHOOSE i \in S : Rank(S, i) = k
  BY DEF Nth, Rank
<1> HIDE DEF N
<1>4. ASSUME NEW k \in 1..N PROVE \E i \in S : Rank(S, i) = k
  <2> DEFINE Enough == {i \in 1..m : k <= Rank(S, i)}
  <2>1. m \in Enough
    <3>1. Rank(S, m) = N /\ Rank(S, 0) = 0
      BY RankGrows DEF N
    <3>2. m # 0
      BY <1>1, <3>1
    <3>3. QED
      BY <1>1, <3>1, <3>2
  <2>2. Enough \in SUBSET Nat
    OBVIOUS
  <2>3. PICK i \in Enough : \A j \in Enough : i <= j
    BY <2>1, <2>2, LeastNumber
  <2>4. Rank(S, i - 1) < k
    <3>1. CASE i - 1 = 0
      <4>1. Rank(S, 0) = 0
        BY RankGrows
      <4>2. QED
        BY <1>1, <3>1, <4>1
    <3>2. CASE i - 1 \in 1..m
      BY <1>1, <1>2, <2>3, <3>2
    <3>3. QED
      BY <3>1, <3>2
  <2>5. Rank(S, i) = IF i \in S THEN Rank(S, i - 1) + 1 ELSE Rank(S, i - 1)
    BY RankGrows
  <2>6. Rank(S, i - 1) \in Nat /\ k <= Rank(S, i)
    BY <1>1, <1>2, <2>3
  <2>7. i \in S /\ Rank(S, i) = k
    BY <1>1, <2>4, <2>5, <2>6
  <2>8. QED
    BY <2>7
<1>5. ASSUME NEW i \in S, NEW j \in S, i < j PROVE Rank(S, i) < Rank(S, j)
  <2>1. i \in 0..m /\ j \in 1..m /\ j - 1 \in 0..m /\ i <= j - 1
    BY <1>5
  <2>2. Rank(S, i) <= Rank(S, j - 1)
    BY <2>1, RankGrows
  <2>3. Rank(S, j) = Rank(S, j - 1) + 1
    BY <2>1, RankGrows
  <2>4. QED
    BY <1>1, <1>2, <2>1, <2>2, <2>3
<1>6. \A k \in 1..N : Nth(S, k) \in S /\ Rank(S, Nth(S, k)) = k
  BY <1>3, <1>4
<1>7. ASSUME NEW k \in 1..N, NEW l \in 1..N, k < l PROVE Nth(S, k) < Nth(S, l)
  <2>1. Nth(S, k) \in S /\ Nth(S, l) \in S /\ Rank(S, Nth(S, k)) = k /\ Rank(S, Nth(S, l)) = l
    BY <1>6
  <2>2. ~(Nth(S, l) < Nth(S, k)) /\ Nth(S, k) # Nth(S, l)
    BY <1>5, <1>7, <2>1
  <2>3. QED
    BY <1>0, <2>1, <2>2
<1>8. ASSUME NEW i \in S PROVE \E k \in 1..N : Nth(S, k) = i
  <2> DEFINE k == Rank(S, i)
  <2>1. i \in 1..m /\ i - 1 \in 0..m
    OBVIOUS
  <2>2. k = Rank(S, i - 1) + 1
    BY <2>1, RankGrows
  <2>3. k \in 1..N
    BY <1>1, <1>2, <2>1, <2>2
  <2>4. Nth(S, k) \in S /\ Rank(S, Nth(S, k)) = k
    BY <1>6, <2>3
  <2>5. ~(Nth(S, k) < i) /\ ~(i < Nth(S, k))
    BY <1>5, <2>3, <2>4
  <2>6. QED
    BY <1>0, <2>3, <2>4, <2>5
<1>9. QED
  BY <1>1, <1>6, <1>7, <1>8 DEF N

-----------------------------------------------------------------------------
(* Irc: what parse() makes of a read.                                      *)

LEMMA PieceFacts ==
  ASSUME NEW s \in Seq(Piece)
  PROVE  /\ Len(s) \in Nat
         /\ \A i \in 1..Len(s) : s[i] \in Piece /\ s[i].line \in Line /\ s[i].ends \in BOOLEAN
<1>1. Len(s) \in Nat /\ \A i \in 1..Len(s) : s[i] \in Piece
  OBVIOUS
<1>2. \A p \in Piece : p.line \in Line /\ p.ends \in BOOLEAN
  BY Zenon DEF Piece
<1>3. QED
  BY <1>1, <1>2

LEMMA LineFacts == MaxLines \in Nat /\ \A l \in Line : l \in Int /\ 0 <= l /\ l <= MaxLines
BY IrcAssumption DEF Line

\* The messages are the chat lines that end in the read behind its first piece, in order.
LEMMA MessagesAre ==
  ASSUME NEW s \in Seq(Piece)
  PROVE  /\ Messages(s) \in Seq(1..MaxLines)
         /\ \A k \in 1..Len(Messages(s)) : \E i \in LineEnds(s) : Messages(s)[k] = s[i].line
         /\ \A i \in LineEnds(s) : \E k \in 1..Len(Messages(s)) : Messages(s)[k] = s[i].line
         /\ \A k, l \in 1..Len(Messages(s)) : k < l =>
              \E i, j \in LineEnds(s) :
                i < j /\ Messages(s)[k] = s[i].line /\ Messages(s)[l] = s[j].line
<1> DEFINE E == LineEnds(s)
<1> DEFINE N == Cardinality(E)
<1>1. \A i \in E : i \in 1..Len(s) /\ s[i].line \in 1..MaxLines
  BY PieceFacts, LineFacts DEF LineEnds, Line, Pong
<1> HIDE DEF E
<1>2. /\ N \in Nat /\ \A k \in 1..N : Nth(E, k) \in E
      /\ \A k, l \in 1..N : k < l => Nth(E, k) < Nth(E, l)
      /\ \A i \in E : \E k \in 1..N : Nth(E, k) = i
  BY <1>1, NthCounts, PieceFacts
<1>3. Messages(s) = [k \in 1..N |-> s[Nth(E, k)].line]
  BY DEF Messages, E
<1> HIDE DEF N
<1>4. \A k \in 1..N : s[Nth(E, k)].line \in 1..MaxLines
  BY <1>1, <1>2
<1>5. Messages(s) \in [1..N -> 1..MaxLines]
  BY <1>3, <1>4
<1>6. Messages(s) \in Seq(1..MaxLines)
  <2>1. Seq(1..MaxLines) = UNION {[1..n -> 1..MaxLines] : n \in Nat}
    BY SeqDef
  <2>2. N \in Nat
    BY <1>2
  <2>3. QED
    BY <1>5, <2>1, <2>2, Zenon
<1>7. Len(Messages(s)) = N
  BY <1>2, <1>5, <1>6, LenProperties
<1>8. \A k \in 1..N : Messages(s)[k] = s[Nth(E, k)].line
  BY <1>3
<1>9. QED
  BY <1>2, <1>6, <1>7, <1>8 DEF E

LEMMA PieceAdded ==
  ASSUME NEW s \in Seq(Piece), NEW l \in Line, NEW e \in BOOLEAN,
         NEW f \in BOOLEAN, NEW t, t = Append(s, [line |-> l, ends |-> e, lone |-> f])
  PROVE  /\ t \in Seq(Piece) /\ Len(t) = Len(s) + 1
         /\ t[Len(s) + 1].line = l /\ t[Len(s) + 1].ends = e
         /\ \A i \in 1..Len(s) : t[i] = s[i]
<1> DEFINE p == [line |-> l, ends |-> e, lone |-> f]
<1>1. p \in Piece /\ p.line = l /\ p.ends = e
  BY DEF Piece
<1> HIDE DEF p
<1>2. t = Append(s, p)
  BY DEF p
<1>3. QED
  BY <1>1, <1>2

\* Two sequences of chat lines, one behind the other.
LEMMA LinesJoined ==
  ASSUME NEW p \in Seq(1..MaxLines), NEW m \in Seq(1..MaxLines)
  PROVE  /\ p \o m \in Seq(1..MaxLines) /\ Len(p \o m) = Len(p) + Len(m)
         /\ Len(p) \in Nat /\ Len(m) \in Nat
         /\ \A k \in 1..Len(p) : (p \o m)[k] = p[k]
         /\ \A k \in 1..Len(m) : (p \o m)[Len(p) + k] = m[k]
OBVIOUS

-----------------------------------------------------------------------------
(* Irc: types.                                                             *)

LEMMA IrcTypeInit == IrcInit => IrcTypeOK
<1> SUFFICES ASSUME IrcInit PROVE IrcTypeOK
  OBVIOUS
<1>1. lines \in 0..MaxLines /\ pongAge \in 0..(Timeout + 1) /\ ticks \in 0..MaxTicks
  BY IrcAssumption DEF IrcInit
<1>2. <<>> \in Seq(Piece) /\ <<>> \in Seq(1..MaxLines) /\ 0 \in Nat
  OBVIOUS
<1>3. QED
  BY <1>1, <1>2, Zenon DEF IrcInit, IrcTypeOK

LEMMA ClosedType ==
  ASSUME IrcTypeOK, Closed PROVE /\ conn' = "down" /\ half' = <<>> /\ socket' = <<>> /\ pings' = 0
                                 /\ lost' \subseteq Line
<1>1. \A i \in 1..Len(socket) : socket[i].line \in Line
  BY PieceFacts DEF IrcTypeOK
<1>2. \A i \in 1..Len(half) : half[i] \in Line
  BY DEF IrcTypeOK
<1>3. QED
  BY <1>1, <1>2 DEF Closed, IrcTypeOK

LEMMA ReadType == ASSUME IrcTypeOK, Read PROVE IrcTypeOK'
<1>1. socket \in Seq(Piece) /\ Len(socket) \in Nat /\ Len(socket) > 0
  BY PieceFacts DEF IrcTypeOK, Read
<1>2. pushed' \in Seq(1..MaxLines)
  <2>1. Messages(socket) \in Seq(1..MaxLines)
    BY <1>1, MessagesAre
  <2>2. QED
    BY <2>1, LinesJoined DEF Read, IrcTypeOK
<1>3. cut' \subseteq Line
  BY <1>1, PieceFacts DEF Read, IrcTypeOK, Remainder, Fragment
<1>8. behind' \subseteq Line
  BY <1>1, PieceFacts DEF Read, IrcTypeOK, Behind
<1>4. pongAge' \in 0..(Timeout + 1)
  BY IrcAssumption DEF Read, GotPong, IrcTypeOK
<1>5. connectionIssue' \in BOOLEAN /\ excuse' \in BOOLEAN
  BY DEF Read, GotPong, IrcTypeOK
<1>6. socket' = <<>> /\ UNCHANGED <<conn, lines, pings, half, ticks, death, lost>>
  BY DEF Read, serverVars
<1>7. QED
  BY <1>2, <1>3, <1>4, <1>5, <1>6, <1>8 DEF IrcTypeOK

LEMMA IrcTypeStep == IrcTypeOK /\ [IrcNext]_ircVars => IrcTypeOK'
<1> SUFFICES ASSUME IrcTypeOK, [IrcNext]_ircVars PROVE IrcTypeOK'
  OBVIOUS
<1> USE DEF serverVars, healthVars, histVars
<1>0. CASE UNCHANGED ircVars
  BY <1>0 DEF ircVars, IrcTypeOK
<1>1. ASSUME NEW l \in Line, conn = "up", Begin(l)
      PROVE  half' \in {<<>>} \cup {<<n>> : n \in Line} /\ socket' \in Seq(Piece)
  <2>1. socket' = Append(socket, [line |-> l, ends |-> FALSE, lone |-> FALSE]) /\ half' = <<l>> /\ socket \in Seq(Piece)
    BY <1>1 DEF Begin, IrcTypeOK
  <2>2. socket' \in Seq(Piece)
    BY <2>1, PieceAdded
  <2>3. QED
    BY <2>1, <2>2
<1>2. CASE Chat
  <2>1. lines + 1 \in Line /\ lines + 1 \in 0..MaxLines
    BY <1>2, LineFacts DEF Chat, IrcTypeOK, Line
  <2>2. QED
    BY <1>1, <1>2, <2>1 DEF Chat, IrcTypeOK
<1>3. CASE AnswerPing
  <2>1. Pong \in Line /\ pings - 1 \in Nat
    BY <1>3, LineFacts DEF AnswerPing, IrcTypeOK, Line, Pong
  <2>2. QED
    BY <1>1, <1>3, <2>1 DEF AnswerPing, IrcTypeOK
<1>4. CASE EndLine
  <2>1. half[1] \in Line
    BY <1>4 DEF EndLine, IrcTypeOK
  <2>2. PICK lf \in BOOLEAN :
          socket' = Append(socket, [line |-> half[1], ends |-> TRUE, lone |-> lf])
    BY <1>4 DEF EndLine
  <2>4. socket' \in Seq(Piece)
    <3>1. socket \in Seq(Piece)
      BY DEF IrcTypeOK
    <3>2. [line |-> half[1], ends |-> TRUE, lone |-> lf] \in Piece
      BY <2>1 DEF Piece
    <3>3. QED
      BY <2>2, <3>1, <3>2
  <2>3. QED
    BY <1>4, <2>4 DEF EndLine, IrcTypeOK
<1>5. CASE Read
  BY <1>5, ReadType
<1>6. CASE ReadNoLine \/ Registered \/ Reconnect \/ CheckTimeout
  <2>1. UNCHANGED <<lines, half, socket, connectionIssue, pongAge, ticks, pushed, histVars, excuse>>
    BY <1>6 DEF ReadNoLine, Registered, Reconnect, CheckTimeout
  <2>2. conn' \in {"registering", "up", "down"} /\ (conn' # "up" => half = <<>> /\ socket = <<>>)
    BY <1>6 DEF ReadNoLine, Registered, Reconnect, CheckTimeout, IrcTypeOK
  <2>3. pings' \in Nat
    BY <1>6 DEF ReadNoLine, Registered, Reconnect, CheckTimeout, IrcTypeOK
  <2>4. death' \in BOOLEAN
    BY <1>6 DEF ReadNoLine, Registered, Reconnect, CheckTimeout, IrcTypeOK
  <2>5. QED
    BY <2>1, <2>2, <2>3, <2>4 DEF IrcTypeOK
<1>7. CASE PeerCloses
  <2>1. /\ conn' = "down" /\ half' = <<>> /\ socket' = <<>> /\ pings' = 0 /\ lost' \subseteq Line
        /\ UNCHANGED <<lines, healthVars, death, pushed, cut, behind, excuse>>
    BY <1>7, ClosedType DEF PeerCloses
  <2>2. QED
    BY <2>1 DEF IrcTypeOK
<1>8. ASSUME Passes
      PROVE  /\ ticks' \in 0..MaxTicks /\ pongAge' \in 0..(Timeout + 1) /\ excuse' \in BOOLEAN
             /\ UNCHANGED <<lines, death, pushed, cut, behind>>
  <2>1. ticks' \in 0..MaxTicks /\ pongAge' \in 0..(Timeout + 1)
    BY <1>8, IrcAssumption DEF Passes, Older, IrcTypeOK
  <2>2. excuse' \in BOOLEAN
    BY <1>8 DEF Passes, IrcTypeOK
  <2>3. QED
    BY <1>8, <2>1, <2>2 DEF Passes
<1>9. CASE TickQuiet
  BY <1>8, <1>9 DEF TickQuiet, IrcTypeOK
<1>10. CASE TickPings
  <2>1. pings' \in Nat
    BY <1>10 DEF TickPings, IrcTypeOK
  <2>2. QED
    BY <1>8, <1>10, <2>1 DEF TickPings, IrcTypeOK
<1>11. CASE TickDrops
  <2>1. /\ conn' = "down" /\ half' = <<>> /\ socket' = <<>> /\ pings' = 0 /\ lost' \subseteq Line
        /\ connectionIssue' = connectionIssue
    BY <1>11, ClosedType DEF TickDrops
  <2>2. QED
    BY <1>8, <1>11, <2>1 DEF TickDrops, IrcTypeOK
<1>12. QED
  BY <1>0, <1>2, <1>3, <1>4, <1>5, <1>6, <1>7, <1>9, <1>10, <1>11 DEF IrcNext, Server, Client

\* Each variable keeps its type: numbers their bounds, and without a connection nothing
\* waits to be read.
THEOREM IrcTypeCorrect == IrcSpec => []IrcTypeOK
BY IrcTypeInit, IrcTypeStep, PTL DEF IrcSpec

-----------------------------------------------------------------------------
(* Irc: what is on the wire.                                               *)

\* Lines come one after another, each in two pieces, and the server has begun no line
\* but the one it has sent the first piece of.
ShapeInv ==
  /\ \A i \in 1..Len(socket) : socket[i].line <= lines
  /\ \A i \in 1..Len(socket) : i > 1 /\ socket[i].ends =>
       ~socket[i - 1].ends /\ socket[i - 1].line = socket[i].line
  /\ \A i \in 1..Len(socket) : i > 1 /\ ~socket[i].ends => socket[i - 1].ends
  /\ \A l \in Line : half = <<l>> =>
       /\ l <= lines
       /\ Len(socket) > 0 => ~socket[Len(socket)].ends /\ socket[Len(socket)].line = l
  /\ half = <<>> /\ Len(socket) > 0 => socket[Len(socket)].ends

\* Chat lines go up along the wire, and what was pushed is behind.
AscendInv ==
  /\ \A k, l \in 1..Len(pushed) : k < l => pushed[k] < pushed[l]
  /\ \A k \in 1..Len(pushed) : pushed[k] <= lines
  /\ \A k \in 1..Len(pushed), i \in 1..Len(socket) :
       socket[i].line # Pong => pushed[k] < socket[i].line
  /\ \A k \in 1..Len(pushed), l \in Line : half = <<l>> /\ l # Pong => pushed[k] < l
  /\ \A i, j \in 1..Len(socket) :
       i < j /\ ~socket[j].ends /\ socket[j].line # Pong => socket[i].line < socket[j].line

\* A line whose beginning was read is known as cut, one whose beginning waits is neither
\* cut nor lost, and the rest is the property.
TornInv ==
  /\ Len(socket) > 0 /\ socket[1].ends => socket[1].line \in cut
  /\ \A l \in Line : half = <<l>> /\ Len(socket) = 0 => l \in cut
  /\ \A i \in 1..Len(socket) :
       ~socket[i].ends /\ socket[i].line # Pong => socket[i].line \notin cut \cup lost \cup behind
  /\ \A n \in cut \cup lost \cup behind : n <= lines
  /\ \A n \in 1..lines :
       (\E k \in 1..Len(pushed) : pushed[k] = n) <=>
         ~OnItsWay(n) /\ n \notin cut \cup lost \cup behind

\* What comes before a chat line on the wire is a PONG or the chat line before it.
FollowInv ==
  /\ Len(socket) > 0 => socket[Len(socket)].line \in {Pong, lines}
  /\ \A l \in Line : half = <<l>> => l \in {Pong, lines}
  /\ \A i \in 1..Len(socket) : i > 1 /\ ~socket[i].ends /\ socket[i].line # Pong =>
       socket[i - 1].line \in {Pong, socket[i].line - 1}
  /\ \A n \in behind : n - 1 \in cut \/ Pong \in cut

WireInv == ShapeInv /\ AscendInv /\ TornInv /\ FollowInv

LEMMA WireFacts ==
  ASSUME IrcTypeOK
  PROVE  /\ Len(socket) \in Nat /\ Len(pushed) \in Nat /\ lines \in Nat /\ 0 <= lines
         /\ \A i \in 1..Len(socket) : socket[i].line \in Int /\ 0 <= socket[i].line
                                    /\ socket[i].line \in Line
         /\ \A k \in 1..Len(pushed) : pushed[k] \in Int /\ 0 < pushed[k]
         /\ half = <<>> \/ \E l \in Line : half = <<l>>
         /\ \A l, n : (<<l>> = <<n>> => l = n) /\ <<l>> # <<>>
         /\ \A l \in Line : l \in Int /\ 0 <= l
         /\ cut \subseteq Line /\ lost \subseteq Line /\ behind \subseteq Line
<1>1. Len(socket) \in Nat /\ \A i \in 1..Len(socket) : socket[i].line \in Line
  BY PieceFacts DEF IrcTypeOK
<1>2. Len(pushed) \in Nat /\ \A k \in 1..Len(pushed) : pushed[k] \in 1..MaxLines
  <2>1. pushed \in Seq(1..MaxLines)
    BY DEF IrcTypeOK
  <2>2. QED
    BY <2>1, ElementOfSeq, LenProperties
<1>3. lines \in Nat
  BY LineFacts DEF IrcTypeOK
<1>4. half = <<>> \/ \E l \in Line : half = <<l>>
  BY DEF IrcTypeOK
<1>5. \A l, n : (<<l>> = <<n>> => l = n) /\ <<l>> # <<>>
  OBVIOUS
<1>6. cut \subseteq Line /\ lost \subseteq Line /\ behind \subseteq Line
  BY DEF IrcTypeOK
<1>7. QED
  BY <1>1, <1>2, <1>3, <1>4, <1>5, <1>6, LineFacts

LEMMA WireInit == IrcInit => WireInv
BY DEF IrcInit, WireInv, ShapeInv, AscendInv, TornInv, FollowInv, OnItsWay

LEMMA WireQuiet ==
  ASSUME WireInv, UNCHANGED <<lines, half, socket, pushed, cut, behind, lost>> PROVE WireInv'
BY DEF WireInv, ShapeInv, AscendInv, TornInv, FollowInv, OnItsWay

\* The server begins a PONG or the next chat line.
LEMMA WireBegin ==
  ASSUME IrcTypeOK, WireInv, half = <<>>, NEW l \in Line, Begin(l),
         UNCHANGED <<pushed, cut, behind, lost>>,
         (l = Pong /\ lines' = lines) \/ (l = lines + 1 /\ lines' = lines + 1)
  PROVE  WireInv'
<1> DEFINE N == Len(socket)
<1>1. /\ N \in Nat /\ Len(socket') = N + 1
      /\ socket'[N + 1].line = l /\ ~socket'[N + 1].ends
      /\ \A i \in 1..N : socket'[i] = socket[i]
  BY PieceAdded DEF Begin, IrcTypeOK
<1>2. half' = <<l>> /\ UNCHANGED <<pushed, cut, behind, lost>>
  BY DEF Begin
<1>3. l \in Int /\ 0 <= l /\ lines \in Nat /\ lines' \in Nat /\ lines <= lines' /\ l <= lines'
  BY WireFacts DEF Pong
<1> HIDE DEF N
<1>4. ShapeInv'
  <2>1. \A i \in 1..(N + 1) : socket'[i].line <= lines'
    <3>1. \A i \in 1..N : socket[i].line \in Int /\ socket[i].line <= lines
      BY WireFacts DEF WireInv, ShapeInv, N
    <3>2. ASSUME NEW i \in 1..(N + 1) PROVE socket'[i].line <= lines'
      <4>1. CASE i = N + 1
        BY <4>1, <1>1, <1>3
      <4>2. CASE i \in 1..N
        BY <4>2, <1>1, <1>3, <3>1
      <4>3. QED
        BY <4>1, <4>2, <1>1
    <3>3. QED
      BY <3>2
  <2>2. \A i \in 1..(N + 1) : i > 1 /\ socket'[i].ends =>
          ~socket'[i - 1].ends /\ socket'[i - 1].line = socket'[i].line
    BY <1>1 DEF WireInv, ShapeInv, N
  <2>3. \A i \in 1..(N + 1) : i > 1 /\ ~socket'[i].ends => socket'[i - 1].ends
    BY <1>1 DEF WireInv, ShapeInv, N
  <2>4. \A n \in Line : half' = <<n>> => n = l
    BY <1>2, WireFacts
  <2>5. half' # <<>>
    BY <1>2, WireFacts
  <2>6. QED
    BY <1>1, <1>3, <2>1, <2>2, <2>3, <2>4, <2>5 DEF ShapeInv
<1>5. AscendInv'
  <2>1. \A k \in 1..Len(pushed) : pushed[k] <= lines /\ pushed[k] \in Int
    BY WireFacts DEF WireInv, AscendInv
  <2>2. \A k \in 1..Len(pushed), i \in 1..(N + 1) :
          socket'[i].line # Pong => pushed[k] < socket'[i].line
    <3>1. \A k \in 1..Len(pushed), i \in 1..N :
            socket[i].line # Pong => pushed[k] < socket[i].line
      BY DEF WireInv, AscendInv, N
    <3>2. l # Pong => \A k \in 1..Len(pushed) : pushed[k] < l
      BY <1>3, <2>1
    <3>3. \A i \in 1..(N + 1) : i \in 1..N \/ i = N + 1
      BY <1>1
    <3>4. QED
      BY <1>1, <3>1, <3>2, <3>3
  <2>3. \A k \in 1..Len(pushed), n \in Line : half' = <<n>> /\ n # Pong => pushed[k] < n
    BY <1>2, <1>3, <2>1, WireFacts
  <2>4. \A i \in 1..N : socket[i].line <= lines /\ socket[i].line \in Int
    BY WireFacts DEF WireInv, ShapeInv, N
  <2>5. \A i, j \in 1..(N + 1) :
          i < j /\ ~socket'[j].ends /\ socket'[j].line # Pong => socket'[i].line < socket'[j].line
    <3>1. \A i, j \in 1..N : i < j /\ ~socket[j].ends /\ socket[j].line # Pong =>
            socket[i].line < socket[j].line
      BY DEF WireInv, AscendInv, N
    <3>2. l # Pong => \A i \in 1..N : socket[i].line < l
      BY <1>3, <2>4
    <3>3. \A i, j \in 1..(N + 1) : i < j => i \in 1..N /\ (j \in 1..N \/ j = N + 1)
      BY <1>1
    <3>4. QED
      BY <1>1, <3>1, <3>2, <3>3
  <2>6. \A k \in 1..Len(pushed) : pushed[k] <= lines'
    BY <1>3, <2>1
  <2>7. QED
    BY <1>1, <1>2, <2>2, <2>3, <2>5, <2>6 DEF WireInv, AscendInv
<1>6. TornInv'
  <2>1. socket'[1].ends => socket'[1].line \in cut
    BY <1>1 DEF WireInv, TornInv, N
  <2>2. \A n \in cut \cup lost \cup behind : n <= lines /\ n \in Int
    BY WireFacts DEF WireInv, TornInv
  <2>3. \A i \in 1..(N + 1) :
          ~socket'[i].ends /\ socket'[i].line # Pong => socket'[i].line \notin cut \cup lost \cup behind
    BY <1>1, <1>3, <2>2 DEF WireInv, TornInv, N
  <2>4. ASSUME NEW n \in 1..lines'
        PROVE  (\E k \in 1..Len(pushed) : pushed[k] = n) <=>
                 ~OnItsWay(n)' /\ n \notin cut \cup lost \cup behind
    <3>1. CASE n = l
      <4>1. OnItsWay(n)'
        BY <1>2, <3>1 DEF OnItsWay
      <4>2. \A k \in 1..Len(pushed) : pushed[k] # n
        BY <1>3, <2>4, <3>1, WireFacts DEF WireInv, AscendInv, Pong
      <4>3. QED
        BY <4>1, <4>2
    <3>2. CASE n # l
      <4>1. n \in 1..lines
        BY <1>3, <2>4, <3>2
      <4>2. OnItsWay(n)' <=> OnItsWay(n)
        <5>1. half # <<n>> /\ half' # <<n>>
          BY <1>2, <3>2, WireFacts
        <5>2. QED
          BY <1>1, <3>2, <5>1 DEF OnItsWay, N
      <4>3. QED
        BY <4>1, <4>2 DEF WireInv, TornInv
    <3>3. QED
      BY <3>1, <3>2
  <2>5. QED
    BY <1>1, <1>2, <1>3, <2>1, <2>2, <2>3, <2>4 DEF TornInv
<1>7. FollowInv'
  <2>1. l \in {Pong, lines'}
    BY <1>3
  <2>2. \A n \in Line : half' = <<n>> => n = l
    BY <1>2, WireFacts
  <2>3. l # Pong => l - 1 = lines
    BY <1>3
  <2>4. N > 0 => socket[N].line \in {Pong, lines}
    BY DEF WireInv, FollowInv, N
  <2>5. ASSUME NEW i \in 1..(N + 1), i > 1, ~socket'[i].ends, socket'[i].line # Pong
        PROVE  socket'[i - 1].line \in {Pong, socket'[i].line - 1}
    <3>1. CASE i = N + 1
      <4>1. i - 1 = N /\ N \in 1..N
        BY <1>1, <2>5, <3>1
      <4>2. QED
        BY <1>1, <2>3, <2>4, <2>5, <3>1, <4>1
    <3>2. CASE i # N + 1
      <4>1. i \in 1..N /\ i - 1 \in 1..N
        BY <1>1, <2>5, <3>2
      <4>2. QED
        BY <1>1, <2>5, <4>1 DEF WireInv, FollowInv, N
    <3>3. QED
      BY <3>1, <3>2
  <2>6. QED
    BY <1>1, <1>2, <2>1, <2>2, <2>5 DEF WireInv, FollowInv
<1>8. QED
  BY <1>4, <1>5, <1>6, <1>7 DEF WireInv

\* The second piece follows the first.
LEMMA WireEnd == ASSUME IrcTypeOK, WireInv, EndLine PROVE WireInv'
<1> DEFINE N == Len(socket)
<1>0. PICK l \in Line : half = <<l>>
  BY WireFacts DEF EndLine
<1>1. /\ N \in Nat /\ Len(socket') = N + 1
      /\ socket'[N + 1].line = l /\ socket'[N + 1].ends
      /\ \A i \in 1..N : socket'[i] = socket[i]
  <2>1. half[1] = l
    BY <1>0
  <2>2. QED
    BY <1>0, <2>1, PieceAdded DEF EndLine, IrcTypeOK
<1>2. half' = <<>> /\ UNCHANGED <<lines, pushed, cut, behind, lost>>
  BY DEF EndLine, histVars
<1>3. l <= lines /\ (N > 0 => ~socket[N].ends /\ socket[N].line = l)
  BY <1>0 DEF WireInv, ShapeInv
<1>4. \A n \in Line : half' # <<n>>
  BY <1>2, WireFacts
<1> HIDE DEF N
<1>5. ShapeInv'
  <2>1. \A i \in 1..(N + 1) : socket'[i].line <= lines
    BY <1>1, <1>3 DEF WireInv, ShapeInv, N
  <2>2. \A i \in 1..(N + 1) : i > 1 /\ socket'[i].ends =>
          ~socket'[i - 1].ends /\ socket'[i - 1].line = socket'[i].line
    <3>1. ASSUME NEW i \in 1..N, i > 1, socket'[i].ends
          PROVE  ~socket'[i - 1].ends /\ socket'[i - 1].line = socket'[i].line
      <4>1. i - 1 \in 1..N /\ socket'[i] = socket[i] /\ socket'[i - 1] = socket[i - 1]
        BY <1>1, <3>1
      <4>2. QED
        BY <3>1, <4>1 DEF WireInv, ShapeInv, N
    <3>2. N + 1 > 1 => ~socket'[N].ends /\ socket'[N].line = socket'[N + 1].line
      BY <1>1, <1>3
    <3>3. QED
      BY <1>1, <3>1, <3>2
  <2>3. \A i \in 1..(N + 1) : i > 1 /\ ~socket'[i].ends => socket'[i - 1].ends
    BY <1>1 DEF WireInv, ShapeInv, N
  <2>4. QED
    BY <1>1, <1>2, <1>4, <2>1, <2>2, <2>3 DEF ShapeInv
<1>6. AscendInv'
  <2>1. \A k \in 1..Len(pushed), i \in 1..(N + 1) :
          socket'[i].line # Pong => pushed[k] < socket'[i].line
    BY <1>0, <1>1 DEF WireInv, AscendInv, N
  <2>2. \A i, j \in 1..(N + 1) :
          i < j /\ ~socket'[j].ends /\ socket'[j].line # Pong => socket'[i].line < socket'[j].line
    <3>1. \A i, j \in 1..N : i < j /\ ~socket[j].ends /\ socket[j].line # Pong =>
            socket[i].line < socket[j].line
      BY DEF WireInv, AscendInv, N
    <3>2. \A i, j \in 1..(N + 1) : i < j => i \in 1..N /\ (j \in 1..N \/ j = N + 1)
      BY <1>1
    <3>3. QED
      BY <1>1, <3>1, <3>2
  <2>3. QED
    BY <1>1, <1>2, <1>4, <2>1, <2>2 DEF WireInv, AscendInv
<1>7. TornInv'
  <2>1. socket'[1].ends => socket'[1].line \in cut
    BY <1>0, <1>1 DEF WireInv, TornInv, N
  <2>2. \A i \in 1..(N + 1) :
          ~socket'[i].ends /\ socket'[i].line # Pong => socket'[i].line \notin cut \cup lost \cup behind
    BY <1>1 DEF WireInv, TornInv, N
  <2>3. ASSUME NEW n PROVE OnItsWay(n)' <=> OnItsWay(n)
    <3>1. half = <<n>> <=> n = l
      BY <1>0, WireFacts
    <3>2. half' # <<n>>
      BY <1>2, WireFacts
    <3>3. QED
      BY <1>1, <1>3, <3>1, <3>2 DEF OnItsWay, N
  <2>4. QED
    BY <1>1, <1>2, <1>4, <2>1, <2>2, <2>3 DEF WireInv, TornInv
<1>8. FollowInv'
  <2>1. l \in {Pong, lines}
    BY <1>0 DEF WireInv, FollowInv
  <2>2. ASSUME NEW i \in 1..(N + 1), i > 1, ~socket'[i].ends, socket'[i].line # Pong
        PROVE  socket'[i - 1].line \in {Pong, socket'[i].line - 1}
    <3>1. i \in 1..N /\ i - 1 \in 1..N
      BY <1>1, <2>2
    <3>2. QED
      BY <1>1, <2>2, <3>1 DEF WireInv, FollowInv, N
  <2>3. QED
    BY <1>1, <1>2, <1>4, <2>1, <2>2 DEF WireInv, FollowInv
<1>9. QED
  BY <1>5, <1>6, <1>7, <1>8 DEF WireInv

\* A closed connection: what was on its way is lost.
LEMMA WireClosed ==
  ASSUME IrcTypeOK, WireInv, Closed, UNCHANGED <<lines, pushed, cut, behind>> PROVE WireInv'
<1>1. half' = <<>> /\ socket' = <<>> /\ Len(socket') = 0
  BY DEF Closed
<1>2. \A n : half' # <<n>>
  BY <1>1, WireFacts
<1>3. \A n : n \in lost' <=> n \in lost \/ OnItsWay(n)
  <2>1. \A n : (\E i \in 1..Len(half) : half[i] = n) <=> half = <<n>>
    BY WireFacts
  <2>2. QED
    BY <2>1 DEF Closed, OnItsWay
<1>4. ShapeInv' /\ AscendInv'
  BY <1>1, <1>2 DEF WireInv, ShapeInv, AscendInv
<1>5. TornInv'
  <2>1. \A n \in lost' : n <= lines
    <3>1. \A n : OnItsWay(n) => n <= lines
      BY WireFacts DEF WireInv, ShapeInv, OnItsWay
    <3>2. QED
      BY <1>3, <3>1 DEF WireInv, TornInv
  <2>2. \A n : ~OnItsWay(n)'
    BY <1>1, <1>2 DEF OnItsWay
  <2>3. QED
    BY <1>1, <1>2, <1>3, <2>1, <2>2 DEF WireInv, TornInv
<1>6. FollowInv'
  BY <1>1, <1>2 DEF WireInv, FollowInv
<1>7. QED
  BY <1>4, <1>5, <1>6 DEF WireInv

\* A message's line began in this read, and the lines that ended before it are smaller.
LEMMA EndFacts ==
  ASSUME IrcTypeOK, WireInv, NEW j \in LineEnds(socket)
  PROVE  /\ j \in 2..Len(socket) /\ j - 1 \in 1..Len(socket) /\ ~Spoilt(socket, j)
         /\ socket[j].ends /\ socket[j].line # Pong
         /\ ~socket[j - 1].ends /\ socket[j - 1].line = socket[j].line
         /\ \A i \in 1..(j - 1) : socket[i].ends => socket[i].line < socket[j].line
<1>1. /\ Len(socket) \in Nat /\ j \in 1..Len(socket) /\ j > 1 /\ socket[j].ends
      /\ socket[j].line # Pong /\ ~Spoilt(socket, j)
  BY WireFacts DEF LineEnds, Whole
<1>2. j - 1 \in 1..Len(socket) /\ ~socket[j - 1].ends /\ socket[j - 1].line = socket[j].line
  BY <1>1 DEF WireInv, ShapeInv
<1>3. ASSUME NEW i \in 1..(j - 1), socket[i].ends PROVE socket[i].line < socket[j].line
  <2>1. i \in 1..Len(socket) /\ i < j - 1
    BY <1>1, <1>2, <1>3
  <2>2. socket[i].line < socket[j - 1].line
    BY <1>1, <1>2, <2>1 DEF WireInv, AscendInv
  <2>3. QED
    BY <1>2, <2>2
<1>4. QED
  BY <1>1, <1>2, <1>3

\* No such line is the one the server has begun, and no read tore it.
LEMMA EndIsWhole ==
  ASSUME IrcTypeOK, WireInv, NEW j \in LineEnds(socket), NEW n, n = socket[j].line
  PROVE  /\ n \notin cut \cup lost \cup behind /\ n \notin Remainder(socket) /\ n \notin Fragment(socket)
         /\ n \notin Behind(socket)
         /\ half # <<n>> /\ \A l \in Line : half = <<l>> /\ l # Pong => n < l
<1> DEFINE N == Len(socket)
<1>1. /\ N \in Nat /\ j \in 2..N /\ j - 1 \in 1..N /\ socket[j].ends /\ n # Pong
      /\ ~socket[j - 1].ends /\ socket[j - 1].line = n
      /\ \A i \in 1..(j - 1) : socket[i].ends => socket[i].line < n
      /\ n \in Int /\ n \in Line
  BY EndFacts, WireFacts
<1>2. n \notin cut \cup lost \cup behind
  BY <1>1 DEF WireInv, TornInv
<1>3. n \notin Remainder(socket)
  BY <1>1 DEF Remainder
<1>4. ~socket[N].ends /\ socket[N].line # Pong => n < socket[N].line
  <2>1. SUFFICES ASSUME ~socket[N].ends, socket[N].line # Pong PROVE n < socket[N].line
    OBVIOUS
  <2>2. N \in 1..N /\ j < N
    BY <1>1, <2>1
  <2>3. QED
    BY <1>1, <2>1, <2>2 DEF WireInv, AscendInv
<1>5. n \notin Fragment(socket)
  BY <1>1, <1>4 DEF Fragment
<1>6. \A l \in Line : half = <<l>> => ~socket[N].ends /\ socket[N].line = l
  BY <1>1 DEF WireInv, ShapeInv
<1>7. half # <<n>> /\ \A l \in Line : half = <<l>> /\ l # Pong => n < l
  BY <1>1, <1>4, <1>6
<1>8. n \notin Behind(socket)
  <2>1. SUFFICES ASSUME Lone(socket), 3 \in 1..N, socket[3].ends PROVE socket[3].line # n
    BY DEF Behind, Spoilt, Whole
  <2>2. socket[1].ends /\ j # 3
    BY <2>1, EndFacts DEF Lone, Spoilt
  <2>3. j # 2
    BY <1>1, <2>2
  <2>4. 3 \in 1..(j - 1)
    BY <1>1, <2>2, <2>3
  <2>5. socket[3].line < n
    BY <1>1, <2>1, <2>4
  <2>6. QED
    BY <1>1, <2>5
<1>9. QED
  BY <1>2, <1>3, <1>5, <1>7, <1>8

\* What is read behind a lone LF comes on the wire right behind the line torn there.
LEMMA BehindIsNext ==
  ASSUME IrcTypeOK, WireInv, NEW n \in Behind(socket)
  PROVE  n <= lines /\ (n - 1 \in cut \/ Pong \in cut)
<1>1. /\ Len(socket) \in Nat /\ 3 \in 1..Len(socket) /\ socket[3].ends /\ n = socket[3].line
      /\ n # Pong /\ socket[1].ends
  BY WireFacts DEF Behind, Spoilt, Whole, Lone
<1>2. 1 \in 1..Len(socket) /\ 2 \in 1..Len(socket)
  BY <1>1
<1>3. 3 - 1 = 2 /\ 2 - 1 = 1
  OBVIOUS
<1>4. ~socket[2].ends /\ socket[2].line = n
  BY <1>1, <1>3 DEF WireInv, ShapeInv
<1>5. socket[1].line \in {Pong, n - 1}
  BY <1>1, <1>2, <1>3, <1>4 DEF WireInv, FollowInv
<1>6. socket[1].line \in cut
  BY <1>1 DEF WireInv, TornInv
<1>7. n <= lines
  BY <1>1 DEF WireInv, ShapeInv
<1>8. QED
  BY <1>5, <1>6, <1>7

\* A piece of a line that ends not in this read, or began before it, tears the line.
LEMMA PieceIsTorn ==
  ASSUME IrcTypeOK, WireInv, NEW i \in 1..Len(socket), socket[i].line \notin WholeLines(socket)
  PROVE  socket[i].line \in Remainder(socket) \cup Fragment(socket)
<1> DEFINE N == Len(socket)
<1>1. N \in Nat /\ i \in 1..N
  BY WireFacts
<1>2. \A k \in 1..N : k > 1 /\ socket[k].ends => socket[k].line # socket[i].line
  BY DEF WholeLines, Whole
<1>3. CASE socket[i].ends
  BY <1>1, <1>2, <1>3 DEF Remainder
<1>4. CASE ~socket[i].ends
  <2>1. CASE i = N
    BY <1>4, <2>1 DEF Fragment
  <2>2. CASE i # N
    <3>1. i + 1 \in 1..N /\ i + 1 > 1 /\ (i + 1) - 1 = i
      BY <1>1, <2>2
    <3>2. socket[i + 1].ends
      BY <1>4, <3>1 DEF WireInv, ShapeInv
    <3>3. socket[i].line = socket[i + 1].line
      BY <3>1, <3>2 DEF WireInv, ShapeInv
    <3>4. QED
      BY <1>2, <3>1, <3>2, <3>3
  <2>3. QED
    BY <2>1, <2>2
<1>5. QED
  BY <1>3, <1>4

\* One read: what ends in it whole is pushed, and what it tears is known as cut.
LEMMA WireRead == ASSUME IrcTypeOK, WireInv, Read PROVE WireInv'
<1> DEFINE N == Len(socket)
<1> DEFINE M == Messages(socket)
<1> DEFINE P == Len(pushed)
<1> DEFINE Q == Len(M)
<1> DEFINE E == LineEnds(socket)
<1>0. N \in Nat /\ N > 0 /\ socket \in Seq(Piece)
  BY WireFacts DEF Read, IrcTypeOK
<1>1. /\ pushed' = pushed \o M /\ socket' = <<>> /\ Len(socket') = 0
      /\ cut' = cut \cup Remainder(socket) \cup Fragment(socket)
      /\ behind' = behind \cup Behind(socket)
      /\ UNCHANGED <<half, lines, lost>>
  BY DEF Read, serverVars
<1>2. /\ M \in Seq(1..MaxLines)
      /\ \A k \in 1..Q : \E i \in E : M[k] = socket[i].line
      /\ \A i \in E : \E k \in 1..Q : M[k] = socket[i].line
      /\ \A k, l \in 1..Q : k < l =>
           \E i, j \in E : i < j /\ M[k] = socket[i].line /\ M[l] = socket[j].line
  BY <1>0, MessagesAre
<1> HIDE DEF M
<1>3. /\ P \in Nat /\ Q \in Nat /\ Len(pushed') = P + Q
      /\ \A k \in 1..P : pushed'[k] = pushed[k]
      /\ \A k \in 1..Q : pushed'[P + k] = M[k]
  <2>1. pushed \in Seq(1..MaxLines) /\ pushed' = pushed \o M /\ M \in Seq(1..MaxLines)
    BY <1>1, <1>2 DEF IrcTypeOK
  <2>2. QED
    BY <2>1, LinesJoined
<1>4. \A k \in (P + 1)..(P + Q) : k - P \in 1..Q /\ pushed'[k] = M[k - P]
  <2>1. \A k \in (P + 1)..(P + Q) : k - P \in 1..Q /\ P + (k - P) = k
    BY <1>3
  <2>2. QED
    BY <1>3, <2>1
<1>5. \A i \in E : i \in 1..N /\ socket[i].line # Pong /\ socket[i].line <= lines
  BY EndFacts, <1>0 DEF WireInv, ShapeInv
<1>6. \A l \in Line : half = <<l>> => l <= lines /\ ~socket[N].ends /\ socket[N].line = l
  BY <1>0 DEF WireInv, ShapeInv
<1> HIDE DEF N, P, Q, E
<1>7. ShapeInv'
  <2>1. half = <<>> => Len(socket') = 0
    BY <1>1
  <2>2. QED
    BY <1>1, <1>6 DEF ShapeInv
<1>8. AscendInv'
  <2>1. ASSUME NEW k \in 1..(P + Q), NEW l \in 1..(P + Q), k < l PROVE pushed'[k] < pushed'[l]
    <3>1. CASE l <= P
      <4>1. k \in 1..P /\ l \in 1..P
        BY <1>3, <2>1, <3>1
      <4>2. QED
        BY <1>3, <2>1, <4>1 DEF WireInv, AscendInv, P
    <3>2. CASE k <= P /\ P < l
      <4>1. k \in 1..P /\ l \in (P + 1)..(P + Q)
        BY <1>3, <3>2
      <4>2. PICK i \in E : pushed'[l] = socket[i].line
        BY <1>2, <1>4, <4>1
      <4>3. pushed[k] < socket[i].line
        BY <1>5, <4>1 DEF WireInv, AscendInv, P, N
      <4>4. QED
        BY <1>3, <4>1, <4>2, <4>3
    <3>3. CASE P < k
      <4>1. k \in (P + 1)..(P + Q) /\ l \in (P + 1)..(P + Q)
        BY <1>3, <2>1, <3>3
      <4>2. k - P \in 1..Q /\ l - P \in 1..Q /\ k - P < l - P
        BY <1>3, <2>1, <4>1
      <4>3. PICK i \in E, j \in E :
              i < j /\ M[k - P] = socket[i].line /\ M[l - P] = socket[j].line
        BY <1>2, <4>2
      <4>4. socket[i].ends /\ i \in 1..(j - 1)
        BY <4>3, EndFacts DEF E
      <4>5. socket[i].line < socket[j].line
        BY <4>4, EndFacts DEF E
      <4>6. QED
        BY <1>4, <4>1, <4>3, <4>5
    <3>4. QED
      BY <1>3, <3>1, <3>2, <3>3
  <2>2. \A k \in 1..(P + Q) : pushed'[k] <= lines
    <3>1. \A k \in 1..P : pushed'[k] <= lines
      BY <1>3 DEF WireInv, AscendInv, P
    <3>2. ASSUME NEW k \in (P + 1)..(P + Q) PROVE pushed'[k] <= lines
      <4>1. k - P \in 1..Q /\ pushed'[k] = M[k - P]
        BY <1>4
      <4>2. \E i \in E : M[k - P] = socket[i].line
        BY <1>2, <4>1
      <4>3. QED
        BY <1>5, <4>1, <4>2
    <3>3. QED
      BY <1>3, <3>1, <3>2
  <2>3. ASSUME NEW k \in 1..(P + Q), NEW l \in Line, half = <<l>>, l # Pong PROVE pushed'[k] < l
    <3>1. CASE k <= P
      BY <1>3, <2>3, <3>1 DEF WireInv, AscendInv, P
    <3>2. CASE P < k
      <4>1. k \in (P + 1)..(P + Q)
        BY <1>3, <3>2
      <4>2. PICK i \in E : pushed'[k] = socket[i].line
        BY <1>2, <1>4, <4>1
      <4>3. QED
        BY <2>3, <4>2, EndIsWhole DEF E
    <3>3. QED
      BY <1>3, <3>1, <3>2
  <2>4. QED
    BY <1>1, <1>3, <2>1, <2>2, <2>3 DEF AscendInv
<1>9. TornInv'
  <2>1. \A l \in Line : half = <<l>> => l \in Fragment(socket)
    BY <1>6 DEF Fragment, N
  <2>2. \A n \in cut' \cup lost \cup behind' : n <= lines
    <3>1. 1 \in 1..N /\ N \in 1..N
      BY <1>0 DEF N
    <3>2. \A n \in Remainder(socket) \cup Fragment(socket) : n <= lines
      BY <3>1 DEF Remainder, Fragment, WireInv, ShapeInv, N
    <3>3. QED
      BY <1>1, <3>2, BehindIsNext DEF WireInv, TornInv
  <2>3. ASSUME NEW n \in 1..lines
        PROVE  (\E k \in 1..(P + Q) : pushed'[k] = n) <=>
                 half # <<n>> /\ n \notin cut' \cup lost \cup behind'
    <3>0. n # Pong /\ n \in Line
      BY LineFacts, WireFacts DEF Pong, IrcTypeOK, Line
    <3>1. (\E k \in 1..(P + Q) : pushed'[k] = n) <=>
            (\E k \in 1..P : pushed[k] = n) \/ (\E i \in E : socket[i].line = n)
      <4>1. ASSUME NEW k \in 1..(P + Q), pushed'[k] = n
            PROVE  (\E m \in 1..P : pushed[m] = n) \/ (\E i \in E : socket[i].line = n)
        <5>1. CASE k \in 1..P
          BY <1>3, <4>1, <5>1
        <5>2. CASE k \in (P + 1)..(P + Q)
          <6>1. k - P \in 1..Q /\ M[k - P] = n
            BY <1>4, <4>1, <5>2
          <6>2. QED
            BY <1>2, <6>1
        <5>3. QED
          BY <1>3, <5>1, <5>2
      <4>2. ASSUME NEW k \in 1..P, pushed[k] = n PROVE \E m \in 1..(P + Q) : pushed'[m] = n
        BY <1>3, <4>2
      <4>3. ASSUME NEW i \in E, socket[i].line = n PROVE \E m \in 1..(P + Q) : pushed'[m] = n
        <5>1. PICK k \in 1..Q : M[k] = n
          BY <1>2, <4>3
        <5>2. P + k \in 1..(P + Q) /\ pushed'[P + k] = n
          BY <1>3, <5>1
        <5>3. QED
          BY <5>2
      <4>4. QED
        BY <4>1, <4>2, <4>3
    <3>2. (\E k \in 1..P : pushed[k] = n) <=> ~OnItsWay(n) /\ n \notin cut \cup lost \cup behind
      BY DEF WireInv, TornInv, P
    <3>3. CASE \E i \in E : socket[i].line = n
      <4>1. n \notin cut' \cup lost \cup behind' /\ half # <<n>>
        BY <1>1, <3>3, EndIsWhole DEF E
      <4>2. QED
        BY <3>1, <3>3, <4>1
    <3>4. CASE ~\E i \in E : socket[i].line = n
      <4>1. CASE \E i \in 1..N : socket[i].line = n
        <5>1. n \in WholeLines(socket) => n \in Behind(socket)
          BY <3>0, <3>4 DEF WholeLines, LineEnds, Behind, E
        <5>2. n \in cut' \cup behind'
          BY <1>1, <4>1, <5>1, PieceIsTorn DEF N
        <5>3. OnItsWay(n)
          BY <4>1 DEF OnItsWay, N
        <5>4. QED
          BY <3>1, <3>2, <3>4, <5>2, <5>3
      <4>2. CASE ~\E i \in 1..N : socket[i].line = n
        <5>1. 1 \in 1..N /\ N \in 1..N
          BY <1>0 DEF N
        <5>2. n \notin Remainder(socket) \cup Fragment(socket) \cup Behind(socket)
          BY <4>2, <5>1 DEF Remainder, Fragment, Behind, N
        <5>3. half # <<n>>
          BY <1>6, <3>0, <4>2, <5>1
        <5>4. OnItsWay(n) <=> FALSE
          BY <4>2, <5>3 DEF OnItsWay, N
        <5>5. QED
          BY <1>1, <3>1, <3>2, <3>4, <5>2, <5>3, <5>4
      <4>3. QED
        BY <4>1, <4>2
    <3>5. QED
      BY <3>3, <3>4
  <2>4. \A n : OnItsWay(n)' <=> half = <<n>>
    BY <1>1 DEF OnItsWay
  <2>5. QED
    BY <1>1, <1>3, <2>1, <2>2, <2>3, <2>4 DEF TornInv
<1>10. FollowInv'
  <2>1. \A l \in Line : half = <<l>> => l \in {Pong, lines}
    BY DEF WireInv, FollowInv
  <2>2. \A n \in behind' : n - 1 \in cut' \/ Pong \in cut'
    BY <1>1, BehindIsNext DEF WireInv, FollowInv
  <2>3. QED
    BY <1>1, <2>1, <2>2 DEF FollowInv
<1>11. QED
  BY <1>7, <1>8, <1>9, <1>10 DEF WireInv

LEMMA WireStep == IrcTypeOK /\ WireInv /\ [IrcNext]_ircVars => WireInv'
<1> SUFFICES ASSUME IrcTypeOK, WireInv, [IrcNext]_ircVars PROVE WireInv'
  OBVIOUS
<1>1. CASE Chat
  <2>1. /\ half = <<>> /\ Begin(lines + 1) /\ lines' = lines + 1
        /\ UNCHANGED <<pushed, cut, behind, lost>>
    BY <1>1 DEF Chat, histVars
  <2>2. lines + 1 \in Line
    BY <1>1, LineFacts DEF Chat, IrcTypeOK, Line
  <2>3. QED
    BY <2>1, <2>2, WireBegin
<1>2. CASE AnswerPing
  <2>1. half = <<>> /\ Begin(Pong) /\ lines' = lines /\ UNCHANGED <<pushed, cut, behind, lost>>
    BY <1>2 DEF AnswerPing, histVars
  <2>2. Pong \in Line
    BY LineFacts DEF Line, Pong
  <2>3. QED
    BY <2>1, <2>2, WireBegin
<1>3. CASE EndLine
  BY <1>3, WireEnd
<1>4. CASE Read
  BY <1>4, WireRead
<1>5. CASE PeerCloses \/ TickDrops
  <2>1. Closed /\ UNCHANGED <<lines, pushed, cut, behind>>
    BY <1>5 DEF PeerCloses, TickDrops, Passes
  <2>2. QED
    BY <2>1, WireClosed
<1>6. CASE UNCHANGED <<lines, half, socket, pushed, cut, behind, lost>>
  BY <1>6, WireQuiet
<1>7. QED
  BY <1>1, <1>2, <1>3, <1>4, <1>5, <1>6
     DEF IrcNext, Server, Client, ircVars, serverVars, healthVars, histVars, ReadNoLine, Registered,
         Reconnect, CheckTimeout, TickQuiet, TickPings, Passes

\* Chat lines reach the hub in order and once, and none is missing but those that two
\* reads or a closed connection tore apart, and one behind each LF read without its CR.
THEOREM LinesArriveInOrder == IrcSpec => []LinesInOrder
<1>1. WireInv => LinesInOrder
  BY DEF WireInv, AscendInv, TornInv, FollowInv, LinesInOrder
<1>2. QED
  BY IrcTypeInit, IrcTypeStep, WireInit, WireStep, <1>1, PTL DEF IrcSpec

-----------------------------------------------------------------------------
(* Irc: the health check.                                                  *)

\* Once an issue is remembered, and nothing excuses a drop, a PING or its answer is still
\* to come.
IssueInv == connectionIssue /\ ~excuse => ~Settled

\* A read that finds no PONG, whole or torn, leaves the check as unsettled as it was.
LEMMA IssueRead == ASSUME IrcTypeOK, WireInv, IssueInv, Read PROVE IssueInv'
<1>1. CASE GotPong
  BY <1>1 DEF GotPong, IssueInv
<1>2. CASE /\ Pong \notin WholeLines(socket)
           /\ excuse' = (excuse \/ Pong \in Remainder(socket) \cup Fragment(socket))
           /\ UNCHANGED <<connectionIssue, pongAge>>
  <2>1. SUFFICES ASSUME connectionIssue, ~excuse, Pong \notin Remainder(socket) \cup Fragment(socket)
                 PROVE  ~Settled'
    BY <1>2 DEF IssueInv
  <2>2. \A i \in 1..Len(socket) : socket[i].line # Pong
    BY <1>2, <2>1, PieceIsTorn
  <2>3. half # <<Pong>>
    <3>1. Len(socket) > 0 /\ Len(socket) \in 1..Len(socket)
      BY WireFacts DEF Read
    <3>2. Pong \in Line
      BY LineFacts DEF Line, Pong
    <3>3. QED
      BY <2>2, <3>1, <3>2 DEF WireInv, ShapeInv
  <2>4. ~(conn = "up" /\ pings = 0)
    BY <2>1, <2>2, <2>3 DEF IssueInv, Settled
  <2>5. QED
    BY <2>4 DEF Read, serverVars, Settled
<1>3. QED
  BY <1>1, <1>2 DEF Read

LEMMA IssueStep == IrcTypeOK /\ WireInv /\ IssueInv /\ [IrcNext]_ircVars => IssueInv'
<1> SUFFICES ASSUME IrcTypeOK, WireInv, IssueInv, [IrcNext]_ircVars PROVE IssueInv'
  OBVIOUS
<1> USE DEF serverVars, healthVars, histVars
<1>0. CASE UNCHANGED ircVars
  BY <1>0 DEF ircVars, IssueInv, Settled
<1>1. ASSUME NEW l \in Line, Begin(l)
      PROVE  /\ \A i \in 1..Len(socket) : i \in 1..Len(socket') /\ socket'[i] = socket[i]
             /\ half' = <<l>>
  BY <1>1, PieceAdded DEF Begin, IrcTypeOK
<1>2. CASE Chat
  <2>1. lines + 1 \in Line
    BY <1>2, LineFacts DEF Chat, IrcTypeOK, Line
  <2>2. \A i \in 1..Len(socket) : i \in 1..Len(socket') /\ socket'[i] = socket[i]
    BY <1>1, <1>2, <2>1 DEF Chat
  <2>3. UNCHANGED <<conn, pings, connectionIssue, excuse>> /\ half = <<>>
    BY <1>2 DEF Chat
  <2>4. Settled' => Settled
    BY <2>2, <2>3, WireFacts DEF Settled
  <2>5. QED
    BY <2>3, <2>4 DEF IssueInv
<1>3. CASE AnswerPing
  <2>1. half' = <<Pong>>
    BY <1>3 DEF AnswerPing, Begin
  <2>2. QED
    BY <2>1 DEF IssueInv, Settled
<1>4. CASE EndLine
  <2>1. PICK l \in Line : half = <<l>>
    BY <1>4, WireFacts DEF EndLine
  <2>2. PICK lf \in BOOLEAN :
          socket' = Append(socket, [line |-> l, ends |-> TRUE, lone |-> lf])
    BY <1>4, <2>1 DEF EndLine
  <2>3. /\ \A i \in 1..Len(socket) : i \in 1..Len(socket') /\ socket'[i] = socket[i]
        /\ Len(socket) + 1 \in 1..Len(socket') /\ socket'[Len(socket) + 1].line = l
    BY <2>2, PieceAdded, WireFacts DEF IrcTypeOK
  <2>4. Settled' => Settled
    BY <1>4, <2>1, <2>3, WireFacts DEF EndLine, Settled
  <2>5. QED
    BY <1>4, <2>4 DEF EndLine, IssueInv
<1>5. CASE Read
  BY <1>5, IssueRead
<1>6. CASE ReadNoLine
  BY <1>6 DEF ReadNoLine, IssueInv, Settled
<1>7. CASE Registered \/ CheckTimeout
  <2>1. pings' # 0
    BY <1>7 DEF Registered, CheckTimeout, IrcTypeOK
  <2>2. QED
    BY <2>1 DEF IssueInv, Settled
<1>8. CASE Reconnect \/ PeerCloses \/ TickDrops
  <2>1. conn' # "up"
    BY <1>8 DEF Reconnect, PeerCloses, TickDrops, Closed
  <2>2. QED
    BY <2>1 DEF IssueInv, Settled
<1>9. CASE TickQuiet
  BY <1>9 DEF TickQuiet, Passes, IssueInv
<1>10. CASE TickPings
  <2>1. SUFFICES ASSUME Settled PROVE ~Settled'
    BY <1>10 DEF TickPings, Passes, IssueInv
  <2>2. pings' # 0
    BY <1>10, <2>1 DEF TickPings, Settled, IrcTypeOK
  <2>3. QED
    BY <2>2 DEF Settled
<1>11. QED
  BY <1>0, <1>2, <1>3, <1>4, <1>5, <1>6, <1>7, <1>8, <1>9, <1>10 DEF IrcNext, Server, Client

LEMMA DropStep ==
  ASSUME IssueInv, [IrcNext]_ircVars, ticks' # ticks, conn # "down", conn' = "down" PROVE excuse'
<1>1. TickDrops
  BY DEF IrcNext, Server, Client, ircVars, healthVars, Chat, AnswerPing, EndLine, PeerCloses, Read,
     ReadNoLine, Registered, Reconnect, CheckTimeout, TickQuiet, TickPings
<1>2. QED
  BY <1>1 DEF TickDrops, Passes, IssueInv

\* A tick drops no connection whose server answered every PING before the next tick with
\* PONGs that were read in one piece.
THEOREM HealthyConnectionStays == IrcSpec => HealthyStays
<1>1. IrcInit => IssueInv
  BY DEF IrcInit, IssueInv
<1>2. IssueInv /\ [IrcNext]_ircVars =>
        [ticks' # ticks /\ conn # "down" /\ conn' = "down" => excuse']_ircVars
  BY DropStep
<1>3. QED
  BY IrcTypeInit, IrcTypeStep, WireInit, WireStep, <1>1, IssueStep, <1>2, PTL DEF IrcSpec, HealthyStays
=============================================================================
