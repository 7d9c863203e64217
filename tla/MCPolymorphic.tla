---------------------------- MODULE MCPolymorphic ----------------------------
(***************************************************************************)
(* Instances to model-check PolymorphicKeys with.                          *)
(***************************************************************************)
EXTENDS PolymorphicKeys

\* Target tables whose index dtype is as wide as that of the keys.
SameWidth == [ty \in Types |-> Missing]

OneEach == [ty \in Types |-> 1]

\* Two rows of the first table, one of the second.
TwoAndOne == [ty \in Types |-> IF ty = 0 THEN 2 ELSE 1]
=============================================================================
