--------------------------- MODULE MCAdmissionBook ---------------------------
(* A small ledger for TLC: room for two allocations only after a cleanup. *)
EXTENDS AdmissionBook
=============================================================================
