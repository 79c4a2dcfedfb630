---------------------------- MODULE HttpResponse ----------------------------
(***************************************************************************)
(* Receiving one HTTP response (http.cpp, HTTPResponse): the constructor's *)
(* first read, what parseHttp() leaves behind, the two loops of recvBody() *)
(* and the arithmetic of the buffer they fill, over a plain or a TLS       *)
(* connection (the recv() of net.cpp).                                     *)
(*                                                                         *)
(* Bytes are counted, not looked at.  The peer sends a header and a body,  *)
(* the size it announces if it announces one, in pieces of any size; it    *)
(* may close or reset the connection at any time.                          *)
(***************************************************************************)
EXTENDS Integers

CONSTANTS MAX_BUF,      \* 4096
          W,            \* size_t counts modulo W
          Headers,      \* the sizes of header a peer may send
          Bodies        \* the sizes of body

ASSUME HttpAssumption ==
  /\ MAX_BUF \in Nat /\ MAX_BUF >= 2 /\ W \in Nat
  /\ Headers \subseteq Nat \ {0} /\ Bodies \subseteq Nat
  /\ \A h \in Headers, b \in Bodies : h + b + 2 * MAX_BUF < W

NoLength == -1
Npos     == W - 1           \* size_t(-1): tellg() of a stream that has failed

VARIABLES
  tls,          \* is it an HTTPS connection?
  header, body, \* how much the peer sends
  announced,    \* does its header have a Content-Length?
  left,         \* how much of it the peer has still to send
  unread,       \* bytes that have arrived and were not read
  peer,         \* "open", "closed" or "reset"
  pc,           \* where the constructor is; "failed": it has thrown
  size,         \* _buffer_size: where the next byte goes
  capacity,     \* the allocated size of _buffer
  zeroed,       \* every byte from size up to here is zero
  headerSize,   \* _header_size
  length,       \* response_size
  pending       \* pending, as the timed loop read it

replyVars  == <<tls, header, body, announced>>
peerVars   == <<left, unread, peer>>
bufferVars == <<size, capacity, zeroed>>
httpVars == <<replyVars, peerVars, pc, bufferVars, headerSize, length, pending>>

Smaller(a, b) == IF a < b THEN a ELSE b
Larger(a, b)  == IF a < b THEN b ELSE a

HttpInit ==
  /\ tls \in BOOLEAN /\ header \in Headers /\ body \in Bodies /\ announced \in BOOLEAN
  /\ left = header + body /\ unread = 0 /\ peer = "open"
  /\ pc = "first"
  /\ size = 0 /\ capacity = MAX_BUF /\ zeroed = MAX_BUF
  /\ headerSize = 0 /\ length = NoLength /\ pending = 0

-----------------------------------------------------------------------------
(* The peer.                                                               *)

Send ==
  /\ peer = "open"
  /\ \E n \in 1..left : left' = left - n /\ unread' = unread + n
  /\ UNCHANGED <<replyVars, peer, pc, bufferVars, headerSize, length, pending>>

Leave ==
  /\ peer = "open"
  /\ peer' \in {"closed", "reset"}
  /\ UNCHANGED <<replyVars, left, unread, pc, bufferVars, headerSize, length, pending>>

-----------------------------------------------------------------------------
(* The constructor.                                                        *)

\* recv() delivers n of at most count bytes.
Receive(count) ==
  \E n \in 1..Smaller(count, unread) :
    /\ unread' = unread - n
    /\ size' = (size + n) % W
    /\ UNCHANGED <<left, peer, capacity, zeroed>>

\* No more bytes will come.
AtEnd == unread = 0 /\ peer # "open"

First ==
  /\ pc = "first"
  /\ Receive(MAX_BUF - 1)
  /\ pc' = "parse"
  /\ UNCHANGED <<replyVars, headerSize, length, pending>>

\* Nothing came, or parseHttp() throws: no HTTP, an error code, no number.
Fail ==
  /\ (pc = "first" /\ AtEnd) \/ pc = "parse"
  /\ pc' = "failed"
  /\ UNCHANGED <<replyVars, peerVars, bufferVars, headerSize, length, pending>>

\* What parseHttp() makes of the header when the first read brought n bytes of it: a
\* header cut off may lack the Content-Length line or the end of the number in it.
Lengths(n) ==
  IF ~announced THEN {NoLength} ELSE IF n >= header THEN {body} ELSE {NoLength} \cup 0..body

\* (mutant of MakeRoom: room for the body alone)
RoomForBody(n) ==
  /\ capacity' = Larger(MAX_BUF, n + 1)
  /\ zeroed' = Larger(zeroed, size + n + 1)

MakeRoom(n) ==
  /\ capacity' = MAX_BUF + n + 1
  /\ zeroed' = Larger(zeroed, size + n + 1)

\* The headers are read to their end, or the stream fails at the end of the data;
\* then recvBody() makes room for a body whose length it knows.
Parse ==
  /\ pc = "parse"
  /\ headerSize' = IF size >= header THEN header ELSE Npos
  /\ length' \in Lengths(size)
  /\ IF length' # NoLength /\ (MAX_BUF - headerSize') % W < length'
       THEN MakeRoom(length')
       ELSE UNCHANGED <<capacity, zeroed>>
  /\ pc' = IF length' = NoLength THEN "timed" ELSE "length"
  /\ UNCHANGED <<replyVars, peerVars, size, pending>>

-----------------------------------------------------------------------------
(* recvBody() with a Content-Length.                                       *)

\* (mutant of More: the header is not counted)
MoreThanLength == size < length

More == size < (headerSize + length) % W

LengthRecv ==
  /\ pc = "length" /\ More
  /\ Receive(length)
  /\ UNCHANGED <<replyVars, pc, headerSize, length, pending>>

\* (mutant of LengthEnd: the end of a TLS connection is not caught)
LengthOver ==
  /\ pc = "length" /\ ~More
  /\ pc' = "done"
  /\ UNCHANGED <<replyVars, peerVars, bufferVars, headerSize, length, pending>>

\* All is there, or TLS reports the peer's close or a read of nothing as error 0.
LengthEnd ==
  /\ pc = "length"
  /\ ~More \/ (tls /\ (length = 0 \/ (unread = 0 /\ peer = "closed")))
  /\ pc' = "done"
  /\ UNCHANGED <<replyVars, peerVars, bufferVars, headerSize, length, pending>>

\* A reset: TLS throws; a plain recv() returns -1, which is added like a count, and 0
\* ever after.
LengthReset ==
  /\ pc = "length" /\ More
  /\ length > 0 /\ unread = 0 /\ peer = "reset"
  /\ IF tls THEN pc' = "failed" /\ UNCHANGED <<size, peer>>
            ELSE size' = (size - 1) % W /\ peer' = "closed" /\ UNCHANGED pc
  /\ UNCHANGED <<replyVars, left, unread, capacity, zeroed, headerSize, length, pending>>

-----------------------------------------------------------------------------
(* recvBody() without one: read until nothing has come for 5 ms.           *)

\* Room for what is pending and a terminator, or one more block and all it takes.
Grow(count) ==
  IF capacity < size + count + 1
    THEN /\ capacity' = capacity + MAX_BUF
         /\ zeroed' = Larger(zeroed, size + MAX_BUF)
         /\ pending' = MAX_BUF
    ELSE /\ pending' = count
         /\ UNCHANGED <<capacity, zeroed>>

\* pending() tells what has arrived; over TLS, what of it is decrypted.
Pending ==
  /\ pc = "timed"
  /\ \E count \in 1..unread : (~tls => count = unread) /\ Grow(count)
  /\ pc' = "timedRecv"
  /\ UNCHANGED <<replyVars, peerVars, size, headerSize, length>>

TimedRecv ==
  /\ pc = "timedRecv"
  /\ Receive(pending)
  /\ pc' = "timed"
  /\ UNCHANGED <<replyVars, headerSize, length, pending>>

\* pending() is 0 and the 5 ms are over.
TimedOut ==
  /\ pc = "timed"
  /\ tls \/ unread = 0
  /\ pc' = "done"
  /\ UNCHANGED <<replyVars, peerVars, bufferVars, headerSize, length, pending>>

\* pending() is 0 and they are not: recv() of no bytes, which over TLS throws.
TimedEmpty ==
  /\ pc = "timed" /\ tls
  /\ pc' = "failed"
  /\ UNCHANGED <<replyVars, peerVars, bufferVars, headerSize, length, pending>>

-----------------------------------------------------------------------------
Receiver ==
  \/ First \/ Fail \/ Parse
  \/ LengthRecv \/ LengthEnd \/ LengthReset
  \/ Pending \/ TimedRecv \/ TimedOut \/ TimedEmpty

HttpNext == Send \/ Leave \/ Receiver

HttpSpec == HttpInit /\ [][HttpNext]_httpVars

\* The constructor runs on, and a peer that stays sends what it has to send.
HttpFairSpec == HttpSpec /\ WF_httpVars(Receiver) /\ WF_httpVars(Send)

-----------------------------------------------------------------------------
(* Properties.                                                             *)

HttpTypeOK ==
  /\ tls \in BOOLEAN /\ header \in Headers /\ body \in Bodies /\ announced \in BOOLEAN
  /\ left \in 0..(header + body) /\ unread \in 0..(header + body - left)
  /\ peer \in {"open", "closed", "reset"}
  /\ pc \in {"first", "parse", "length", "timed", "timedRecv", "done", "failed"}
  /\ size \in 0..(W - 1) /\ capacity \in MAX_BUF..(W - 1) /\ zeroed \in MAX_BUF..capacity
  /\ headerSize \in {0, header, Npos} /\ length \in {NoLength} \cup 0..body
  /\ pending \in 0..Larger(MAX_BUF, header + body)

\* The first read brought the whole header.
HeaderRead == headerSize = header

\* What a peer that keeps to its announcement sends fits into the buffer, however it
\* is cut into pieces, if the header came in one; and an end is not overrun.
Fits == headerSize # Npos => size <= capacity

\* A response of announced length that was accepted is all there once the peer has
\* sent it, and a zero byte follows it, on which those who parse it as a string rely,
\* unless it is exactly MAX_BUF long.  Without an announced length there is room for
\* that byte, but nobody cleared it.
ReplyIsWhole ==
  pc = "done" /\ HeaderRead =>
    IF length = NoLength THEN size < capacity
    ELSE /\ left = 0 => size = header + body
         /\ size < zeroed \/ (size = MAX_BUF /\ header + body = MAX_BUF)

\* The loops come to an end, except over a plain connection whose peer has left
\* before the announced end: there recv() returns 0 for ever.
Ends ==
  (pc \in {"length", "timed"} /\ HeaderRead)
    ~> (pc \in {"done", "failed"} \/ (~tls /\ length # NoLength /\ peer # "open"))
=============================================================================
