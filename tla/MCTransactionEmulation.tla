----------------------- MODULE MCTransactionEmulation -----------------------
(***************************************************************************)
(* Two sessions on two keyed tables that can hold text and a name the      *)
(* wildcard of userTables hides.                                           *)
(***************************************************************************)
EXTENDS TransactionEmulation, TLC

CONSTANTS main, aux

TwoSchemas == {main, aux}

EachSchemaOf == 1 :> main @@ 2 :> aux @@ 3 :> main
EachMaxRows == 1 :> 2 @@ 2 :> 2 @@ 3 :> 1

\* Bound: as long as both sessions are connected, the tables and the snapshots are
\* small: the second table is empty, the third is not there, nobody writes text.
Small(copy) ==
    /\ 3 \notin copy.tables \cup copy.tracked
    /\ copy.rows[1] \cap Plain = {}
    /\ copy.rows[2] = {}

\* Bound: the rows of the hidden table are looked at beside those of the first only.
SizeBound ==
    /\ rows[3] # {} => rows[2] = {} /\ tracked \subseteq {1}
    /\ open = Session =>
          /\ Small([tables |-> tables, rows |-> rows, tracked |-> tracked])
          /\ \A s \in Session : snapshot[s] # NoSnapshot => Small(snapshot[s])

Symmetric == Permutations(Session) \cup Permutations(Blob)
=============================================================================
