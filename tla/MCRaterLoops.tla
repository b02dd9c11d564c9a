---------------------------- MODULE MCRaterLoops ----------------------------
(* TLC instance of RaterLoops: fingerprints are interchangeable. *)
EXTENDS RaterLoops, TLC

FingerprintSymmetry == Permutations(Fingerprints)
=============================================================================
