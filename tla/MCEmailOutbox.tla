---------------------------- MODULE MCEmailOutbox ----------------------------
(***************************************************************************)
(* Small instances of EmailOutbox for TLC.                                 *)
(***************************************************************************)
EXTENDS EmailOutbox, TLC

CONSTANTS m1, r1, r2

MCOneMail == {m1}
MCWorkers == {r1, r2}
=============================================================================
