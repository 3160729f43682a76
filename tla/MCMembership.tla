---------------------------- MODULE MCMembership ----------------------------
(* Small instances of Membership for TLC. *)
EXTENDS Membership, TLC

\* Calls differ only in what they are asked to do.
Symmetry == Permutations(Calls)
============================================================================
