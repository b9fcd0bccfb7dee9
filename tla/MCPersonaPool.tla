---------------------------- MODULE MCPersonaPool ----------------------------
(***************************************************************************)
(* PersonaPool on small instances: seeds select two identities or each its  *)
(* own, and callers and domains are interchangeable.                        *)
(***************************************************************************)
EXTENDS PersonaPool, TLC

TwoIdentities == [s \in 1..(MaxSeed + Tries) |-> IF s % 3 = 0 THEN "q" ELSE "p"]

OwnIdentities == [s \in 1..(MaxSeed + Tries) |-> s]

Symmetry == Permutations(Callers) \union Permutations(Domains)
=============================================================================
