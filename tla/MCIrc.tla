------------------------------- MODULE MCIrc -------------------------------
(* Instances of Irc for TLC; the .cfg gives the numbers.                    *)
EXTENDS Irc
=============================================================================
