-------------------------- MODULE MCCatalogCreation --------------------------
(***************************************************************************)
(* Three creations of one id, two of them for the same bucket, and two     *)
(* requests for credentials.                                               *)
(***************************************************************************)
EXTENDS CatalogCreation, TLC

CONSTANTS r1, r2, r3, p, q

ThreeRequests == {r1, r2, r3}
TwoPaths == {p, q}
PathOfEach == r1 :> p @@ r2 :> p @@ r3 :> q

Symmetric == Permutations(Issue) \cup {r1 :> r2 @@ r2 :> r1}
=============================================================================
