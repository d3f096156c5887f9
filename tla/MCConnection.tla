---------------------------- MODULE MCConnection ----------------------------
(***************************************************************************)
(* Two clients connect with two credentials, one for each of two catalogs, *)
(* while an administrator issues and revokes them and replaces policies.   *)
(***************************************************************************)
EXTENDS Connection, TLC

CONSTANTS c1, c2, k1, k2

TwoCredentials == {c1, c2}
TwoCatalogs == {k1, k2}
CatalogOfEach == c1 :> k1 @@ c2 :> k2

Symmetric ==
    Permutations(Attempt) \cup Permutations(Document)
        \cup {c1 :> c2 @@ c2 :> c1 @@ k1 :> k2 @@ k2 :> k1}
=============================================================================
