----------------------------- MODULE MCArenaWait -----------------------------
(* Small instances of the wait protocol. *)
EXTENDS ArenaWait
=============================================================================
