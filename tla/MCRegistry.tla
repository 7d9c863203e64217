----------------------------- MODULE MCRegistry -----------------------------
(***************************************************************************)
(* The instance of SchemaRegistry that is model-checked.  The names of     *)
(* tables are interchangeable: no step and no property tells them apart.   *)
(***************************************************************************)
EXTENDS SchemaRegistry, TLC

NameSymmetry == Permutations(Names)
=============================================================================
