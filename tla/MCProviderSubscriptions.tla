------------------------ MODULE MCProviderSubscriptions ------------------------
(* Small instances of ProviderSubscriptions for TLC. *)
EXTENDS ProviderSubscriptions, TLC

CONSTANTS r1, r2, t1, t2, s1, s2

TwoRefs == {r1, r2}
TwoTxs == {t1, t2}
TwoSessions == {s1, s2}
OneOrThree == {1, 3}
=============================================================================
