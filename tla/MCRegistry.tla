----------------------------- MODULE MCRegistry -----------------------------
(***************************************************************************)
(* Registry on small instances.  Clients are interchangeable, and so are    *)
(* the names of sessions and locks: the one chosen for a new one is as     *)
(* unused as any other that could have been.                               *)
(***************************************************************************)
EXTENDS Registry, TLC

Symmetry == Permutations(Clients) \union Permutations(Sessions) \union Permutations(Locks)
=============================================================================
