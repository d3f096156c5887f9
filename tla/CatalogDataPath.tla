--------------------------- MODULE CatalogDataPath ---------------------------
(***************************************************************************)
(* One catalog from its creation on: what the registry does with its row,  *)
(* its object and its credentials (CatalogCreation), and what clients do   *)
(* with its data path (DataPath).  The two share the row of the registry   *)
(* and the configuration of the object, and both go on at the same time: a *)
(* client can reach the object as soon as the row is there, before the     *)
(* object knows its path and when it will never know it.                   *)
(***************************************************************************)
EXTENDS Naturals

CONSTANTS Request, Path, PathOf, Issue, MaxRows, MaxBatch, Nothing

ASSUME PathOfAssumption == PathOf \in [Request -> Path]
ASSUME NothingAssumption == Nothing \notin Path
ASSUME CallsAreDistinct == Request \cap Issue = {}
ASSUME BoundsAreNaturals == {MaxRows, MaxBatch} \subseteq Nat

VARIABLES row, config, credentials, creation, issue, calls, metadata, answer, saved

creating == <<credentials, creation, issue, calls>>
using == <<metadata, answer, saved>>

Registry == INSTANCE CatalogCreation
Client == INSTANCE DataPath

Init == Registry!Init /\ Client!UseInit

\* POST /admin/catalogs and POST .../credentials.
Administer ==
    /\ Registry!Next
    /\ UNCHANGED using

\* A token resolves to the catalog only through the row of the registry.
Use ==
    /\ row # Nothing
    /\ Client!UseNext
    /\ UNCHANGED creating

Next == Administer \/ Use

Spec == Init /\ [][Next]_<<row, config, creating, using>>

-----------------------------------------------------------------------------
(* Correctness                                                             *)

\* The variables of both parts hold what their columns say.
TypeOK == Registry!TypeOK /\ Client!TypeOK

\* Creations of the same id that race past the Worker's check have one winner: only
\* one is ever answered 201, and all that is under way is the winner's.
OneWinner == Registry!OneWinner

\* What a creation answered 201 promised is there and stays, whatever clients do:
\* the row and the object have the path of its bucket, and its JWT has a row.
CreatedIsWhole == Registry!CreatedIsWhole

\* Registry and object never plan different paths, whichever creations failed,
\* were repeated with another bucket, or are still on their way.
ConfigAgreesWithRow == Registry!ConfigAgreesWithRow

\* What a batch is answered is what became of it: one with a literal that names
\* another path than the object's in a text that begins with INSERT or UPDATE, or any
\* such literal while the object has no path, changes nothing ("rejects mismatched
\* DuckLake bootstrap before creating catalog tables"); one whose last change is followed
\* by the check succeeds only if every data_path row is the one the registry planned
\* then, in a table that was wrong before it too.
AnswersAreTrue == Client!AnswersAreTrue

\* Into a catalog that names its own path everywhere, one that the registry did not plan
\* comes by an APPEND, by a batch one of whose own statements neither check recognises
\* (it begins with WITH, REPLACE or a comment), or with an error answer: not by a
\* transaction that was rolled back, not by a computed path, and not by a write before
\* the object has its path.
OtherPathsComeUnseen == Client!OtherPathsComeUnseen
=============================================================================
