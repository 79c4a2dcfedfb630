------------------------------- MODULE MCHub -------------------------------
(* Instances of Hub for TLC: two channels in both directions and one input. *)
EXTENDS Hub

CONSTANTS irc, tox, file

MCDirection == [c \in Channels |-> IF c = file THEN "input" ELSE "inout"]
=============================================================================
