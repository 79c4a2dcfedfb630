------------------------------- MODULE Relay -------------------------------
(***************************************************************************)
(* What a hub promises its channels, without threads, locks or queue: one  *)
(* log of accepted messages, and for every output a cursor that visits the *)
(* log front to back, one entry at a time.  A message is known by its      *)
(* origin.  An output receives every entry its cursor passes, except null  *)
(* entries and the output's own messages.  (Hub.tla implements it.)        *)
(***************************************************************************)
EXTENDS Naturals, Sequences

CONSTANTS Outputs,      \* the channels messages are delivered to
          Origins,      \* who a message can come from
          NoMessage     \* a null entry: nothing to deliver

VARIABLES log,          \* the entries accepted so far, in the order accepted
          cursor,       \* [Outputs -> Nat]: how many entries the output was offered
          got           \* [Outputs -> SUBSET Nat]: the entries it received

vars == <<log, cursor, got>>

Addressed(entry, o) == entry # NoMessage /\ entry # o

Init ==
  /\ log = <<>>
  /\ cursor = [o \in Outputs |-> 0]
  /\ got = [o \in Outputs |-> {}]

Accept(entry) ==
  /\ log' = Append(log, entry)
  /\ UNCHANGED <<cursor, got>>

Offer(o) ==
  /\ cursor[o] < Len(log)
  /\ cursor' = [cursor EXCEPT ![o] = @ + 1]
  /\ got' = IF Addressed(log[cursor[o] + 1], o)
              THEN [got EXCEPT ![o] = @ \cup {cursor[o] + 1}]
              ELSE got
  /\ UNCHANGED log

Next ==
  \/ \E entry \in Origins \cup {NoMessage} : Accept(entry)
  \/ \E o \in Outputs : Offer(o)

Spec == Init /\ [][Next]_vars
=============================================================================
