--------------------------- MODULE MCAdvertEngine ---------------------------
EXTENDS AdvertEngine

CONSTANTS h1, h2, h3

MCHashes == {h1, h2, h3}
MCPool == {h1}
MCBanned == {h2}
=============================================================================
