-------------------------- MODULE MCDuckLakeClient --------------------------
(***************************************************************************)
(* One client that commits up to five snapshots in any order.              *)
(***************************************************************************)
EXTENDS DuckLakeClient
=============================================================================
