----------------------------- MODULE MCTelegram -----------------------------
(* Instances of Telegram for TLC; the .cfg gives the numbers.               *)
EXTENDS Telegram
=============================================================================
