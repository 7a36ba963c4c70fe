----------------------------- MODULE MCPlayBilling -----------------------------
(* Small instances of PlayBilling for TLC. *)
EXTENDS PlayBilling, TLC
=============================================================================
