------------------------------ MODULE Telegram ------------------------------
(***************************************************************************)
(* The input side of a Telegram channel (telegram.cpp): the polling thread *)
(* that asks the Bot API for updates, what parse() does with a reply, and  *)
(* the server, which keeps updates until a later request passes them over. *)
(*                                                                         *)
(* Updates are numbered 1, 2, ... by update_id; an update is known by its  *)
(* kind: a message of the group _chat, a message of any other chat, or an  *)
(* update that carries no message.  Output goes through incoming(), whose  *)
(* replies never move the offset, and is left out.                         *)
(***************************************************************************)
EXTENDS Naturals, Sequences

CONSTANTS Limit,        \* most updates in one reply (100 unless asked otherwise)
          MaxUpdates,   \* bound: updates that ever arrive
          MaxRestarts   \* bound: how often the program is started again

ASSUME TelegramAssumption ==
  Limit \in Nat \ {0} /\ MaxUpdates \in Nat /\ MaxRestarts \in Nat

Kinds == {"ours", "foreign", "other"}

VARIABLES
  kinds,        \* server: the kind of every update so far
  acked,        \* server: updates up to here are forgotten
  offset,       \* _last_update_id: the first update to ask for, 0 at the start
  lo, hi,       \* the reply being parsed holds updates lo..hi
  at,           \* the update of it that parse() is at
  pc,           \* where the polling thread is
  pipeRunning,  \* _pipeRunning
  pushed,       \* history: every update given to newMessage(), in order
  restarts,     \* history: how often the program was started again
  runStart      \* history: Len(pushed) when this run started

serverVars == <<kinds, acked>>
replyVars  == <<lo, hi, at>>
runVars    == <<restarts, runStart>>
vars == <<serverVars, offset, replyVars, pc, pipeRunning, pushed, runVars>>

Init ==
  /\ kinds = <<>> /\ acked = 0
  /\ offset = 0 /\ lo = 1 /\ hi = 1 /\ at = 1
  /\ pc = "new" /\ pipeRunning = FALSE
  /\ pushed = <<>> /\ restarts = 0 /\ runStart = 0

-----------------------------------------------------------------------------
(* The server.                                                             *)

Arrive(kind) ==
  /\ Len(kinds) < MaxUpdates
  /\ kinds' = Append(kinds, kind)
  /\ UNCHANGED <<acked, offset, replyVars, pc, pipeRunning, pushed, runVars>>

\* getUpdates forgets what comes before the offset asked for.
Acknowledged == IF offset > acked + 1 THEN offset - 1 ELSE acked

-----------------------------------------------------------------------------
(* The channel.                                                            *)

Activate ==
  /\ pc = "new"
  /\ pc' = "poll" /\ pipeRunning' = TRUE
  /\ UNCHANGED <<serverVars, offset, replyVars, pushed, runVars>>

\* while (_pipeRunning): send getUpdates with the offset.
Request ==
  /\ pc = "poll"
  /\ IF pipeRunning THEN pc' = "asked" /\ acked' = Acknowledged
                    ELSE pc' = "ended" /\ UNCHANGED acked
  /\ UNCHANGED <<kinds, offset, replyVars, pipeRunning, pushed, runVars>>

\* The reply has all updates kept, up to the limit; a single one is not looped over.
Reply ==
  /\ pc = "asked" /\ acked < Len(kinds)
  /\ lo' = acked + 1 /\ at' = acked + 1
  /\ hi' = IF acked + Limit < Len(kinds) THEN acked + Limit ELSE Len(kinds)
  /\ pc' = IF lo' < hi' THEN "each" ELSE "last"
  /\ UNCHANGED <<serverVars, offset, pipeRunning, pushed, runVars>>

\* The long poll times out: an empty array, parse_error(0).
ReplyEmpty ==
  /\ pc = "asked" /\ acked = Len(kinds)
  /\ pc' = "poll"
  /\ UNCHANGED <<serverVars, offset, replyVars, pipeRunning, pushed, runVars>>

\* messageMatch(), and what parseUpdate() needs to return rather than throw.
Matches(u)    == kinds[u] = "ours"
HasMessage(u) == kinds[u] # "other"

Handle(u) == offset' = u + 1 /\ pushed' = Append(pushed, u)
Ignore    == UNCHANGED <<offset, pushed>>

\* (mutant of Each: the offset passes over the whole reply at its first message)
EachJumps ==
  /\ pc = "each"
  /\ IF Matches(at) THEN offset' = hi + 1 /\ pushed' = Append(pushed, at) ELSE Ignore
  /\ at' = at + 1
  /\ pc' = IF at = hi THEN "last" ELSE IF Matches(at) THEN "poll" ELSE pc
  /\ UNCHANGED <<serverVars, lo, hi, pipeRunning, runVars>>

\* parse()'s loop over a reply of more than one update: messages of the chat.
Each ==
  /\ pc = "each"
  /\ IF Matches(at) THEN Handle(at) ELSE Ignore
  /\ at' = at + 1
  /\ pc' = IF at = hi THEN "last" ELSE pc
  /\ UNCHANGED <<serverVars, lo, hi, pipeRunning, runVars>>

\* (mutant of Last: the offset is set to the update, not behind it)
LastStays ==
  /\ pc = "last"
  /\ IF HasMessage(hi) THEN offset' = hi /\ pushed' = Append(pushed, hi) ELSE Ignore
  /\ pc' = "poll"
  /\ UNCHANGED <<serverVars, replyVars, pipeRunning, runVars>>

\* (mutant of Last: a message of another chat is skipped, and the offset with it)
LastForgets ==
  /\ pc = "last"
  /\ IF Matches(hi) THEN Handle(hi) ELSE Ignore
  /\ pc' = "poll"
  /\ UNCHANGED <<serverVars, replyVars, pipeRunning, runVars>>

\* The last update of a reply, looped over or not, is parsed for the return value
\* whatever its chat; without a message it is parse_error(1), and the offset stays.
Last ==
  /\ pc = "last"
  /\ IF HasMessage(hi) THEN Handle(hi) ELSE Ignore
  /\ pc' = "poll"
  /\ UNCHANGED <<serverVars, replyVars, pipeRunning, runVars>>

\* ~TgChannel() clears _pipeRunning and joins.
Stop ==
  /\ pipeRunning /\ pc \notin {"dead", "ended"}
  /\ pipeRunning' = FALSE
  /\ UNCHANGED <<serverVars, offset, replyVars, pc, pushed, runVars>>

\* The process dies: of a reply that is no reply or reports an error, of a failed
\* request (all of them leave the thread as exceptions), or of something else.
Die ==
  /\ pc \notin {"new", "dead", "ended"}
  /\ pc' = "dead" /\ pipeRunning' = FALSE
  /\ UNCHANGED <<serverVars, offset, replyVars, pushed, runVars>>

\* The program is started again: nothing of the channel was stored.
Restart ==
  /\ pc = "dead" /\ restarts < MaxRestarts
  /\ pc' = "new" /\ offset' = 0
  /\ restarts' = restarts + 1 /\ runStart' = Len(pushed)
  /\ UNCHANGED <<serverVars, replyVars, pipeRunning, pushed>>

Poller == Request \/ Reply \/ ReplyEmpty \/ Each \/ Last

Next ==
  \/ \E kind \in Kinds : Arrive(kind)
  \/ Activate \/ Poller \/ Stop \/ Die \/ Restart

Spec == Init /\ [][Next]_vars

\* The polling thread keeps running and every request is answered or times out.
FairSpec == Spec /\ WF_vars(Poller)

-----------------------------------------------------------------------------
(* Properties.                                                             *)

TypeOK ==
  /\ kinds \in Seq(Kinds) /\ acked \in 0..Len(kinds) /\ offset \in 0..(Len(kinds) + 1)
  /\ lo \in Nat \ {0} /\ hi \in Nat \ {0} /\ at \in lo..(hi + 1)
  /\ pc \in {"new", "poll", "asked", "each", "last", "ended", "dead"}
  /\ pipeRunning \in BOOLEAN /\ pushed \in Seq(1..Len(kinds))
  /\ restarts \in 0..MaxRestarts /\ runStart \in 0..Len(pushed)

\* At least once: an update of the chat is forgotten by the server only after it was
\* pushed into the hub, whenever the process dies and however replies are cut up.
NothingLost ==
  \A u \in 1..acked : kinds[u] = "ours" => \E k \in 1..Len(pushed) : pushed[k] = u

\* In order: one run of the program pushes updates in the order of their ids, and
\* what it pushes again, it pushes twice running: a message of the chat that ends a
\* reply of several.  An update without a message is never pushed.
RunInOrder ==
  /\ \A k, l \in (runStart + 1)..Len(pushed) : k < l =>
       /\ pushed[k] <= pushed[l]
       /\ pushed[k] = pushed[l] => l = k + 1 /\ kinds[pushed[k]] = "ours"
  /\ \A k \in 1..Len(pushed) : kinds[pushed[k]] # "other"

\* The server's first Limit updates hold no message of the chat and end in an update
\* without a message: they are asked for again and again.
Stuck ==
  /\ acked + Limit <= Len(kinds) /\ kinds[acked + Limit] = "other" /\ offset <= acked + 1
  /\ \A u \in (acked + 1)..(acked + Limit) : kinds[u] # "ours"

\* A message of the chat is pushed in the end, unless the channel is stopped, the
\* process dies, or the channel is stuck before it.
EventuallyPushed ==
  \A u \in 1..MaxUpdates :
    (u <= Len(kinds) /\ kinds[u] = "ours" /\ pipeRunning)
      ~> (~pipeRunning \/ (\E k \in 1..Len(pushed) : pushed[k] = u) \/ []Stuck)

(* The channel and its server implement the feed: through every death and  *)
(* restart, newMessage() is given only what the server still keeps, and    *)
(* the offset passes over a message of the chat only when it was pushed.   *)
F == INSTANCE Feed WITH
       Wanted <- {"ours"}, Mute <- {"other"},
       updates <- kinds, forgotten <- acked, heard <- pushed

\* At least once before it is forgotten, and never after: what parse() and the
\* offset of getUpdates make of the server's updates is a feed.
FeedSpec == F!Spec
=============================================================================
