---------------------------- MODULE MCReplacement ----------------------------
(***************************************************************************)
(* Replacement of one device's identity.                                   *)
(***************************************************************************)
EXTENDS Replacement, TLC

CONSTANTS d1, o1, o2, k1, p1

MCParent == [u \in Users |-> d1]
MCKeyOf == [c \in Candidates |-> p1]
Interchangeable == Permutations({o1, o2})
=============================================================================
