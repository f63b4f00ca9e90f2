---------------------------- MODULE MCSutHandle ----------------------------
(* Small instances of SutHandle: c1, c2 and c3 are interchangeable callers. *)
EXTENDS SutHandle, TLC

CONSTANTS c1, c2, c3

MCSymmetry == Permutations({c1, c2, c3})

=============================================================================
