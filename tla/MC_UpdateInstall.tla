--------------------------- MODULE MC_UpdateInstall ---------------------------
\* Three attempts out of two downloads into one directory, overlapping or not,
\* and two installations of what is there.
EXTENDS UpdateInstall

CONSTANTS d1, d2, i1, i2

MC_Downloads == {d1, d2}
MC_Installs == {i1, i2}
===============================================================================
