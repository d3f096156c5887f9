----------------------------- MODULE MCDataPath -----------------------------
(***************************************************************************)
(* A planned and another path, batches of two statements.                  *)
(***************************************************************************)
EXTENDS DataPath, TLC

CONSTANTS p, q

TwoPaths == {p, q}
=============================================================================
