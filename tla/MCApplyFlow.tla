---------------------------- MODULE MCApplyFlow ----------------------------
(* Instances of ApplyFlow for TLC. *)
EXTENDS ApplyFlow, TLC

CONSTANTS p1, p2, p3, s1, s2, s3, c1, c2

MCStates    == {s1, s2, s3}
MCGenerable == {s1, s2}
MCVirgin    == {s3}

(* Profile names, and callers, are interchangeable. *)
Symmetry == Permutations(Profiles) \cup Permutations(Callers)
=============================================================================
