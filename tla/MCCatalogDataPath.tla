------------------------- MODULE MCCatalogDataPath -------------------------
(***************************************************************************)
(* Two creations of one id that want different buckets, a request for      *)
(* credentials, batches of two statements.                                 *)
(***************************************************************************)
EXTENDS CatalogDataPath, TLC

CONSTANTS r1, r2, p, q

TwoRequests == {r1, r2}
TwoPaths == {p, q}
PathOfEach == r1 :> p @@ r2 :> q

Symmetric == {r1 :> r2 @@ r2 :> r1 @@ p :> q @@ q :> p}
=============================================================================
