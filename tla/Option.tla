------------------------------- MODULE Option -------------------------------
(***************************************************************************)
(* Rust's Option::None, one value for the modules that are checked together. *)
(***************************************************************************)
CONSTANT None
=============================================================================
