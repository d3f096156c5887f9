---------------------------- MODULE MCResultFetch ----------------------------
(***************************************************************************)
(* Two sessions, of which one loses requests and answers; results of up to *)
(* five chunks in batches of two: empty, less than one batch, one, two,    *)
(* and a last batch that is not full.                                      *)
(***************************************************************************)
EXTENDS ResultFetch, TLC

CONSTANTS s1, s2

TwoSessions == {s1, s2}
LossyClient == s1 :> 2 @@ s2 :> 0
=============================================================================
