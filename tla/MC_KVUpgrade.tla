---------------------------- MODULE MC_KVUpgrade ----------------------------
(* KVUpgrade on two unversioned keys.  The keys are interchangeable, so   *)
(* the safety runs reduce by their permutations.                          *)
EXTENDS KVUpgrade, TLC

CONSTANTS k1, k2

MCKeys == {k1, k2}

MCSymmetry == Permutations(MCKeys)

=============================================================================
