----------------------------- MODULE MCLimiter -----------------------------
(* Small instances of Limiter for TLC. *)
EXTENDS Limiter, TLC

CONSTANTS nodeA, nodeB

\* nodeA is the primary until it learns of nodeB, and forwards to it then;
\* nodeB has joined and takes itself for the primary from the start.
TwoAddrs == <<nodeA, nodeB>>

Symmetry == Permutations(Reqs)
============================================================================
