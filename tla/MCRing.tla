------------------------------- MODULE MCRing -------------------------------
(* Small instances of Ring for TLC: every placement of the virtual nodes of  *)
(* a few nodes on a small circle, so that collisions and wrap-around happen. *)
EXTENDS Ring
============================================================================
