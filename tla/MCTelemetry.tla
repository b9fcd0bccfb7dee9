----------------------------- MODULE MCTelemetry ------------------------------
(***************************************************************************)
(* Telemetry on a small instance.                                          *)
(***************************************************************************)
EXTENDS Telemetry, TLC

\* Tasks of one kind are interchangeable, and so are engines.
Symmetry == Permutations(Users) \union Permutations(Adopters)
            \union Permutations(Closers) \union Permutations(Engines)
=============================================================================
