-------------------------------- MODULE Feed --------------------------------
(***************************************************************************)
(* What a channel that polls a server promises, without offsets, replies   *)
(* or restarts: every update that is wanted is delivered at least once     *)
(* before the server forgets it, and none after.  (Telegram implements it.)*)
(***************************************************************************)
EXTENDS Naturals, Sequences

CONSTANTS Kinds,    \* of updates
          Wanted,   \* the kinds that must be delivered
          Mute      \* the kinds that never are

VARIABLES updates,    \* the kind of every update so far, in the order they arrived
          forgotten,  \* updates up to here are no longer at the server
          heard       \* the updates delivered, in the order they were

vars == <<updates, forgotten, heard>>

Heard(u) == \E k \in 1..Len(heard) : heard[k] = u

Init == updates = <<>> /\ forgotten = 0 /\ heard = <<>>

Arrive(kind) ==
  /\ updates' = Append(updates, kind)
  /\ UNCHANGED <<forgotten, heard>>

\* Once or again, while the server has it.
Deliver(u) ==
  /\ updates[u] \notin Mute
  /\ heard' = Append(heard, u)
  /\ UNCHANGED <<updates, forgotten>>

Forget(n) ==
  /\ \A u \in (forgotten + 1)..n : updates[u] \in Wanted => Heard(u)
  /\ forgotten' = n
  /\ UNCHANGED <<updates, heard>>

Next ==
  \/ \E kind \in Kinds : Arrive(kind)
  \/ \E u \in (forgotten + 1)..Len(updates) : Deliver(u) \/ Forget(u)

Spec == Init /\ [][Next]_vars
=============================================================================
