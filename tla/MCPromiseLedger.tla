--------------------------- MODULE MCPromiseLedger --------------------------
EXTENDS PromiseLedger
CONSTANTS s1, s2, c1
\* The page takes promises; one scheduler and a chase that interleaves with its sweeps, or
\* two schedulers.
ChasedOrPair == {{s1, c1, "page"}, {s1, s2, "page"}}
=============================================================================
