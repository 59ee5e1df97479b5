----------------------- MODULE MCArenaReconfiguration -----------------------
(* Small instances of the arena with replaceable allocations. *)
EXTENDS ArenaReconfiguration
=============================================================================
