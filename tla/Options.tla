------------------------------ MODULE Options -------------------------------
(***************************************************************************)
(* Rust's Option: a value, or None, which is no value of any type.         *)
(***************************************************************************)
CONSTANT None           \* Option::None
=============================================================================
