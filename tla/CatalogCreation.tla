--------------------------- MODULE CatalogCreation ---------------------------
(***************************************************************************)
(* POST /admin/catalogs for one catalog id: the Worker asks the registry   *)
(* whether the id is taken, the registry inserts the row with the planned  *)
(* DATA_PATH, tells the catalog object its path over RPC, and signs and    *)
(* stores a credential.  Several administrators may do so at once; the     *)
(* registry can be restarted between two of its steps, and calls fail.     *)
(*                                                                         *)
(* The registry runs from one await to the next without yielding, and what *)
(* it has written stays when the rest of createCatalog throws.             *)
(***************************************************************************)
CONSTANTS Request,    \* creations, each with the bucket it asks for
          Path,       \* planned data paths, one for every bucket
          PathOf,     \* the path of a request's bucket
          Issue,      \* POST .../credentials
          Nothing

VARIABLES
    row,           \* data_path of the catalog's row in catalogs, or Nothing
    config,        \* __dq_catalog_config of the catalog object, or Nothing
    credentials,   \* credential rows, by the call that made them
    creation,      \* how far every creation is
    issue,         \* how far every POST .../credentials is
    calls          \* configureCatalog calls the object has not received yet

vars == <<row, config, credentials, creation, issue, calls>>

\* 201 is "created", 409 is "conflict", and any other end is "failed".
Creation == {"idle", "asked", "configuring", "signing", "created", "conflict", "failed"}
Issuing == {"idle", "signing", "issued", "failed"}

Init ==
    /\ row = Nothing
    /\ config = Nothing
    /\ credentials = {}
    /\ creation = [r \in Request |-> "idle"]
    /\ issue = [i \in Issue |-> "idle"]
    /\ calls = {}

At(r, from, to) ==
    /\ creation[r] = from
    /\ creation' = [creation EXCEPT ![r] = to]

\* The Worker's catalogExists.
Precheck(r) ==
    /\ At(r, "idle", IF row = Nothing THEN "asked" ELSE "conflict")
    /\ UNCHANGED <<row, config, credentials, issue, calls>>

\* Mistaken: the object is configured before the id is looked up.
ConfigureDuplicate(r) ==
    /\ row # Nothing
    /\ At(r, "asked", "conflict")
    /\ calls' = calls \cup {r}
    /\ UNCHANGED <<row, config, credentials, issue>>

\* "Catalog <id> already exists", found by the registry itself.
CreateDuplicate(r) ==
    /\ row # Nothing
    /\ At(r, "asked", "conflict")
    /\ UNCHANGED <<row, config, credentials, issue, calls>>

\* Mistaken: the Worker's check is taken for enough.
CreateUnchecked(r) ==
    /\ At(r, "asked", "configuring")
    /\ row' = PathOf[r]
    /\ calls' = calls \cup {r}
    /\ UNCHANGED <<config, credentials, issue>>

\* The check and the INSERT, up to the await on the catalog object.
CreateCatalog(r) ==
    /\ row = Nothing
    /\ At(r, "asked", "configuring")
    /\ row' = PathOf[r]
    /\ calls' = calls \cup {r}
    /\ UNCHANGED <<config, credentials, issue>>

\* The object stores the path; the registry may have gone since the call.
ConfigureCatalog(r) ==
    /\ r \in calls
    /\ calls' = calls \ {r}
    /\ config' = PathOf[r]
    /\ IF creation[r] = "configuring" THEN At(r, "configuring", "signing") ELSE UNCHANGED creation
    /\ UNCHANGED <<row, credentials, issue>>

\* Mistaken: the error of the call is swallowed.
ConfigureFailureIgnored(r) ==
    /\ r \in calls
    /\ calls' = calls \ {r}
    /\ IF creation[r] = "configuring" THEN At(r, "configuring", "signing") ELSE UNCHANGED creation
    /\ UNCHANGED <<row, config, credentials, issue>>

\* The call is lost or the object throws.
ConfigureFails(r) ==
    /\ r \in calls
    /\ calls' = calls \ {r}
    /\ IF creation[r] = "configuring" THEN At(r, "configuring", "failed") ELSE UNCHANGED creation
    /\ UNCHANGED <<row, config, credentials, issue>>

\* createCredentialSync after the signature; the answer may not arrive.
InsertCredential(r) ==
    /\ \E end \in {"created", "failed"} : At(r, "signing", end)
    /\ credentials' = credentials \cup {r}
    /\ UNCHANGED <<row, config, issue, calls>>

\* POST .../credentials: the Worker and then the registry look the catalog up.  No
\* row is ever deleted, so one look stands for both.
AskForCredential(i) ==
    /\ issue[i] = "idle"
    /\ issue' = [issue EXCEPT ![i] = IF row = Nothing THEN "failed" ELSE "signing"]
    /\ UNCHANGED <<row, config, credentials, creation, calls>>

IssueCredential(i) ==
    /\ issue[i] = "signing"
    /\ issue' = [issue EXCEPT ![i] = "issued"]
    /\ credentials' = credentials \cup {i}
    /\ UNCHANGED <<row, config, creation, calls>>

\* The registry is evicted or deployed anew: what it had under way is gone, what
\* it had written is not, and a call it had made may still arrive.
Restart ==
    /\ creation' = [r \in Request |->
          IF creation[r] \in {"configuring", "signing"} THEN "failed" ELSE creation[r]]
    /\ issue' = [i \in Issue |-> IF issue[i] = "signing" THEN "failed" ELSE issue[i]]
    /\ UNCHANGED <<row, config, credentials, calls>>

Next ==
    \/ \E r \in Request :
          \/ Precheck(r)
          \/ CreateDuplicate(r)
          \/ CreateCatalog(r)
          \/ ConfigureCatalog(r)
          \/ ConfigureFails(r)
          \/ InsertCredential(r)
    \/ \E i \in Issue : AskForCredential(i) \/ IssueCredential(i)
    \/ Restart

Spec == Init /\ [][Next]_vars

-----------------------------------------------------------------------------
(* Correctness                                                             *)

\* The rows hold what their columns say, and every creation is at one of its steps.
TypeOK ==
    /\ {row, config} \subseteq Path \cup {Nothing}
    /\ credentials \subseteq Request \cup Issue
    /\ creation \in [Request -> Creation]
    /\ issue \in [Issue -> Issuing]
    /\ calls \subseteq Request

\* Creations of the same id that race past the Worker's check have one winner: only
\* one is ever answered 201, and all that is under way is the winner's.
OneWinner == \A r, q \in Request :
    /\ creation[r] \in {"configuring", "signing", "created"} \/ r \in calls \cup credentials
    /\ creation[q] \in {"configuring", "signing", "created"} \/ q \in calls \cup credentials
    => r = q

\* What a creation answered 201 promised is there: the row and the object have the
\* path of its bucket, and its JWT has a row.
CreatedIsWhole == \A r \in Request : creation[r] = "created" =>
    /\ row = PathOf[r]
    /\ config = PathOf[r]
    /\ r \in credentials

\* Registry and object never plan different paths, whichever creations failed,
\* were repeated with another bucket, or are still on their way.
ConfigAgreesWithRow == config \in {Nothing, row}

\* "Every new catalog receives a fixed planned DuckLake DATA_PATH"
\* (guides/quack-ducklake.md): a catalog nobody is creating any more has its path.
EveryCatalogReceivesItsPath ==
    /\ row # Nothing
    /\ calls = {}
    /\ \A r \in Request : creation[r] \notin {"configuring", "signing"}
    => config = row
=============================================================================
