---------------------------- MODULE MCCertBundle ----------------------------
EXTENDS CertBundle, TLC

CONSTANTS b1, b2, s1, s2

SameBundle == (s1 :> b1) @@ (s2 :> b1)
PairsAlike == Permutations(Pairs)
=============================================================================
