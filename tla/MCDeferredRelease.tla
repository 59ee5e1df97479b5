-------------------------- MODULE MCDeferredRelease --------------------------
(* Small instances of the two owners of a deferred release. *)
EXTENDS DeferredRelease
=============================================================================
