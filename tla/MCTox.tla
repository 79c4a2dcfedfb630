------------------------------- MODULE MCTox -------------------------------
(* An instance of Tox for TLC: a buffer of 3, texts below, at and above it, *)
(* and one that the older library's lengths wrap.                          *)
EXTENDS Tox

CONSTANTS ann, bob

MCNicks == {"chatsync", "bot"}
MCLengths == {2, 3, 6}
=============================================================================
