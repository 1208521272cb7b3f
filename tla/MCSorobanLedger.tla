--------------------------- MODULE MCSorobanLedger ---------------------------
(* One persistent and one temporary key; one content of size 1 and one    *)
(* larger than the entry size limit.                                      *)
EXTENDS SorobanLedger, TLC

CONSTANTS p1, t1, a, big, none, noTTL, omit

MCKeys == {p1, t1}
MCTemporary == {t1}
MCValues == {a, big}
MCVSize == (a :> 1) @@ (big :> 2)
MCInitValues == {a}
=============================================================================
