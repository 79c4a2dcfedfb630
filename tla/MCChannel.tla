----------------------------- MODULE MCChannel -----------------------------
(* Instances of Channel for TLC: one IRC channel, or two that share the     *)
(* descriptor table.                                                        *)
EXTENDS Channel

CONSTANTS irc, tox
=============================================================================
