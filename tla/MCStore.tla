------------------------------ MODULE MCStore ------------------------------
(* Small instances of Store for TLC. *)
EXTENDS Store, TLC

\* Keys and values are interchangeable.
Symmetry == Permutations(Keys)
============================================================================
