--------------------------- MODULE MCTrackedSchema ---------------------------
(***************************************************************************)
(* Two names without a schema and the name of one of them in main, tables  *)
(* of at most two columns.                                                 *)
(***************************************************************************)
EXTENDS TrackedSchema

CONSTANTS a, b

ThreeNames == {[schema |-> Bare, table |-> "t"], [schema |-> Bare, table |-> "u"],
               [schema |-> MainSchema, table |-> "t"]}

Symmetric == Permutations(Column)
=============================================================================
