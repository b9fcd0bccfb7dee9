---------------------------- MODULE MCNetworkLog ----------------------------
(***************************************************************************)
(* NetworkLog on small instances: more ids than the log may hold, tables of *)
(* early answers that hold one, a channel that overflows.                   *)
(***************************************************************************)
EXTENDS NetworkLog, TLC

\* Ids are interchangeable, and so are URLs.
Symmetry == Permutations(Ids) \union Permutations(Urls)
=============================================================================
