--------------------------- MODULE MC_ProfileStore ---------------------------
(* Small instances of ProfileStore for TLC.                                *)
EXTENDS ProfileStore, TLC

CONSTANTS t1, t2, t3, p1, p2

MCThreads2 == {t1, t2}
MCThreads3 == {t1, t2, t3}
MCPaths1 == {p1}
MCPaths2 == {p1, p2}

\* The update handler builds every ProfileEntry with Version 0.
MCEntryVersions == {0}
MCCasValues == {-1, 0}

Symmetry2 == Permutations(MCThreads2)
Symmetry3 == Permutations(MCThreads3)
=============================================================================
