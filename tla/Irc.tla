--------------------------------- MODULE Irc ---------------------------------
(***************************************************************************)
(* One IRC connection after another (ircchannel.cpp): the byte stream that *)
(* pollThread() cuts into reads and parse() into lines, and the PING/PONG  *)
(* health check of tick().  How a dropped connection is opened again is in *)
(* Channel; here it comes back.                                            *)
(*                                                                         *)
(* The server sends chat lines, numbered, and PONGs.  A line travels in    *)
(* two pieces, so that reads can cut it: the second ends in CRLF, or is    *)
(* the LF alone and the CR came with the first.                            *)
(* Time passes at ticks: an age is a number of calls of tick().            *)
(***************************************************************************)
EXTENDS Integers, Sequences, FiniteSets

CONSTANTS Timeout,      \* max_timeout * 5, in ticks (25)
          MaxLines,     \* bound: chat lines the server sends
          MaxTicks,     \* bound: ticks
          MaxRead       \* bound: pieces waiting in the socket

ASSUME IrcAssumption ==
  Timeout \in Nat /\ MaxLines \in Nat /\ MaxTicks \in Nat /\ MaxRead \in Nat

Pong  == 0
Line  == 0..MaxLines            \* a chat line, by its number, or Pong

\* A piece of a line: is it the second, and is that the LF alone?
Piece == [line : Line, ends : BOOLEAN, lone : BOOLEAN]

VARIABLES
  conn,             \* "registering", "up", or "down" (_fd = -1)
  lines,            \* how many chat lines the server has sent
  pings,            \* PINGs it has not answered
  half,             \* the line it has sent the first piece of, or <<>>
  socket,           \* pieces that have arrived and were not read
  connectionIssue,  \* _connection_issue
  pongAge,          \* ticks since _last_pong_time, up to Timeout + 1
  ticks,            \* counts what MaxTicks bounds
  death,            \* back() of no lines
  pushed,           \* history: chat lines given to newMessage(), in order
  cut,              \* history: lines whose pieces came to different reads
  behind,           \* history: chat lines read behind the LF of such a line
  lost,             \* history: lines that a closed connection took with it
  excuse            \* history: since the last PONG, a tick found a PING or PONG on its
                    \*   way or no connection, or a PONG was cut

serverVars == <<lines, pings, half>>
healthVars == <<connectionIssue, pongAge, ticks>>
histVars   == <<cut, behind, lost>>
ircVars == <<conn, serverVars, socket, healthVars, death, pushed, histVars, excuse>>

IrcInit ==
  /\ conn = "registering" /\ lines = 0 /\ pings = 0 /\ half = <<>> /\ socket = <<>>
  /\ connectionIssue = FALSE /\ pongAge = 0 /\ ticks = 0 /\ death = FALSE
  /\ pushed = <<>> /\ cut = {} /\ behind = {} /\ lost = {} /\ excuse = FALSE

-----------------------------------------------------------------------------
(* The server.                                                             *)

Begin(l) ==
  /\ half' = <<l>>
  /\ socket' = Append(socket, [line |-> l, ends |-> FALSE, lone |-> FALSE])

Chat ==
  /\ conn = "up" /\ half = <<>> /\ lines < MaxLines /\ Len(socket) < MaxRead
  /\ lines' = lines + 1
  /\ Begin(lines + 1)
  /\ UNCHANGED <<conn, pings, healthVars, death, pushed, histVars, excuse>>

AnswerPing ==
  /\ conn = "up" /\ half = <<>> /\ pings > 0 /\ Len(socket) < MaxRead
  /\ pings' = pings - 1
  /\ Begin(Pong)
  /\ UNCHANGED <<conn, lines, healthVars, death, pushed, histVars, excuse>>

EndLine ==
  /\ conn = "up" /\ half # <<>>
  /\ \E lf \in BOOLEAN :
       socket' = Append(socket, [line |-> half[1], ends |-> TRUE, lone |-> lf])
  /\ half' = <<>>
  /\ UNCHANGED <<conn, lines, pings, healthVars, death, pushed, histVars, excuse>>

-----------------------------------------------------------------------------
(* The poll thread: one read, parse(), newMessage().                       *)

\* Piece i of a read completes a line that began in the same read.
Whole(s, i) == s[i].ends /\ i > 1

WholeLines(s) == {s[i].line : i \in {k \in 1..Len(s) : Whole(s, k)}}
Remainder(s)  == IF s[1].ends THEN {s[1].line} ELSE {}          \* begun in an earlier read
Fragment(s)   == IF s[Len(s)].ends THEN {} ELSE {s[Len(s)].line}  \* dropped

\* A read that begins with an LF, and the line behind it: parse() does not take the two
\* apart, and the expression for a chat line matches at the beginning only.
Lone(s)      == s[1].ends /\ s[1].lone
Spoilt(s, i) == Lone(s) /\ i = 3
Behind(s)    == {s[i].line : i \in {k \in 1..Len(s) : Whole(s, k) /\ Spoilt(s, k)}} \ {Pong}

\* Does a CRLF come in this read?
HasEnd(s) == \E i \in 1..Len(s) : s[i].ends /\ ~(i = 1 /\ Lone(s))

\* Where lines end that parse() makes messages of, and the k-th of such places.
LineEnds(s) == {i \in 1..Len(s) : Whole(s, i) /\ ~Spoilt(s, i) /\ s[i].line # Pong}
Nth(S, k)   == CHOOSE i \in S : Cardinality({j \in S : j <= i}) = k

\* (mutant of Messages: the last line, parse()'s return value, overtakes the others)
LastFirst(s) ==
  LET n == Cardinality(LineEnds(s))
  IN [k \in 1..n |-> s[Nth(LineEnds(s), IF k = 1 THEN n ELSE k - 1)].line]

\* The chat lines parse() makes messages of, in order.
Messages(s) == [k \in 1..Cardinality(LineEnds(s)) |-> s[Nth(LineEnds(s), k)].line]

\* (mutant of GotPong: the issue is not called off)
GotPongOnly == pongAge' = 0 /\ excuse' = FALSE /\ UNCHANGED connectionIssue

GotPong == pongAge' = 0 /\ connectionIssue' = FALSE /\ excuse' = FALSE

\* A PONG is found anywhere in an item, but not in an LF.
Seen(s) == WholeLines(s) \cup IF Lone(s) THEN {} ELSE Remainder(s)

\* A read of at least one CRLF.  A first item without its beginning is matched
\* against the same expressions: no message, but it may still be seen as a PONG.
Read ==
  /\ conn = "up" /\ socket # <<>> /\ HasEnd(socket)
  /\ pushed' = pushed \o Messages(socket)
  /\ \/ Pong \in Seen(socket) /\ GotPong
     \/ /\ Pong \notin WholeLines(socket)
        /\ excuse' = (excuse \/ Pong \in Remainder(socket) \cup Fragment(socket))
        /\ UNCHANGED <<connectionIssue, pongAge>>
  /\ cut' = cut \cup Remainder(socket) \cup Fragment(socket)
  /\ behind' = behind \cup Behind(socket)
  /\ socket' = <<>>
  /\ UNCHANGED <<conn, serverVars, ticks, death, lost>>

\* A read without any: the vector of lines is empty.
ReadNoLine ==
  /\ conn = "up" /\ socket # <<>> /\ ~HasEnd(socket)
  /\ death' = TRUE
  /\ UNCHANGED <<conn, serverVars, socket, healthVars, pushed, histVars, excuse>>

-----------------------------------------------------------------------------
(* Connections, ping() and tick().                                         *)

\* (mutant of Closed: bytes of the old connection are left for the new one)
ClosedLater == conn' = "down" /\ UNCHANGED <<half, socket, pings, lost>>

\* The connection goes and takes along what was on its way.
Closed ==
  /\ conn' = "down" /\ half' = <<>> /\ socket' = <<>> /\ pings' = 0
  /\ lost' = lost \cup {socket[i].line : i \in 1..Len(socket)} \cup {half[i] : i \in 1..Len(half)}

\* The end of activate(): registered, polled, and pinged.
Registered ==
  /\ conn = "registering"
  /\ conn' = "up" /\ pings' = pings + 1
  /\ UNCHANGED <<lines, half, socket, healthVars, death, pushed, histVars, excuse>>

\* Channel's reconnect() calls activate(); the health check's state stays as it was.
Reconnect ==
  /\ conn = "down"
  /\ conn' = "registering"
  /\ UNCHANGED <<serverVars, socket, healthVars, death, pushed, histVars, excuse>>

PeerCloses ==
  /\ conn # "down"
  /\ Closed
  /\ UNCHANGED <<lines, healthVars, death, pushed, cut, behind, excuse>>

\* incoming(): checkTimeout() sends a PING if the last is five seconds old.
CheckTimeout ==
  /\ conn = "up" /\ pings = 0
  /\ pings' = 1
  /\ UNCHANGED <<conn, lines, half, socket, healthVars, death, pushed, histVars, excuse>>

Older == IF pongAge > Timeout THEN pongAge ELSE pongAge + 1

\* Nothing of a health check is on its way, and there is a connection to check.
Settled ==
  /\ conn = "up" /\ pings = 0 /\ half # <<Pong>>
  /\ \A i \in 1..Len(socket) : socket[i].line # Pong

Passes ==
  /\ ticks < MaxTicks
  /\ ticks' = ticks + 1 /\ pongAge' = Older
  /\ excuse' = (excuse \/ ~Settled)
  /\ UNCHANGED <<lines, death, pushed, cut, behind>>

\* A PONG came within the time.
TickQuiet ==
  /\ Passes /\ Older <= Timeout
  /\ UNCHANGED <<conn, pings, half, socket, connectionIssue, lost>>

\* None did: remember it, and send a PING, which fails without a connection.
TickPings ==
  /\ Passes /\ Older > Timeout /\ ~connectionIssue
  /\ connectionIssue' = TRUE
  /\ pings' = IF conn = "down" THEN pings ELSE pings + 1
  /\ UNCHANGED <<conn, half, socket, lost>>

\* Still none: drop the connection, whichever it is by now.
TickDrops ==
  /\ Passes /\ Older > Timeout /\ connectionIssue
  /\ Closed
  /\ UNCHANGED connectionIssue

Server == Chat \/ AnswerPing \/ EndLine \/ PeerCloses
Client ==
  \/ Read \/ ReadNoLine \/ Registered \/ Reconnect \/ CheckTimeout
  \/ TickQuiet \/ TickPings \/ TickDrops

IrcNext == ~death /\ (Server \/ Client)

IrcSpec == IrcInit /\ [][IrcNext]_ircVars

-----------------------------------------------------------------------------
(* Properties.                                                             *)

IrcTypeOK ==
  /\ conn \in {"registering", "up", "down"}
  /\ lines \in 0..MaxLines /\ pings \in Nat
  /\ half \in {<<>>} \cup {<<l>> : l \in Line} /\ socket \in Seq(Piece)
  /\ conn # "up" => half = <<>> /\ socket = <<>>
  /\ connectionIssue \in BOOLEAN /\ pongAge \in 0..(Timeout + 1) /\ ticks \in 0..MaxTicks
  /\ death \in BOOLEAN /\ excuse \in BOOLEAN
  /\ pushed \in Seq(1..MaxLines)
  /\ cut \subseteq Line /\ behind \subseteq Line /\ lost \subseteq Line

OnItsWay(n) == half = <<n>> \/ \E i \in 1..Len(socket) : socket[i].line = n

\* Chat lines reach the hub in order and once, except those that two reads or a
\* closed connection tore apart, and the line behind one that was torn between its CR
\* and LF, though that came whole; no other is missing.
LinesInOrder ==
  /\ \A k, l \in 1..Len(pushed) : k < l => pushed[k] < pushed[l]
  /\ \A n \in 1..lines : (\E k \in 1..Len(pushed) : pushed[k] = n) <=>
                         ~OnItsWay(n) /\ n \notin cut \cup lost \cup behind
  /\ \A n \in behind : n - 1 \in cut \/ Pong \in cut

\* A tick drops no connection whose server has answered every PING before the next
\* tick, with PONGs that were read in one piece: however the time of the last PONG, the
\* issue remembered and the connection in use belong together.
HealthyStays ==
  [][ticks' # ticks /\ conn # "down" /\ conn' = "down" => excuse']_ircVars
=============================================================================
