---------------------------- MODULE MCSorobanTTL ----------------------------
EXTENDS SorobanTTL, TLC

CONSTANTS k1, k2, k3, k4, v1, v2, v3, none, noTTL

\* k1: persistent; k2: temporary; k3: persistent, larger than the entry
\* size limit; k4: no entry
MCKeys == {k1, k2, k3, k4}
MCPersistent == {k1, k3, k4}
MCValues == {v1, v2, v3}
MCVSize == (v1 :> 1) @@ (v2 :> 2) @@ (v3 :> 3)
MCInitEntry == (k1 :> v1) @@ (k2 :> v2) @@ (k3 :> v3) @@ (k4 :> none)
=============================================================================
