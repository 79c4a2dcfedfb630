------------------------------ MODULE MCLogger ------------------------------
(* Instances of Logger for TLC. *)
EXTENDS Logger

CONSTANTS main, poll, cerr, other
=============================================================================
