# A verification project for quacklake

quacklake is a Cloudflare Worker with two kinds of Durable Object that speaks
DuckDB's Quack protocol and keeps DuckLake catalogs in SQLite. This directory
holds TLA+ models of its core, translated from `src/src/*.ts`, the TLC runs that
check them on small instances, and proofs, checked by TLAPS, that hold for every
instance.

    tlc -config ConnectionGrants.cfg MCConnection     # a run
    tlapm Connection_proofs.tla                       # the proofs of a module

`PROJECT.json` lists the components, every run, the source lines of every
definition, the hazards of the code and, for every property, a plausible mistake
(a definition marked "Mistaken" in the module) that the property catches.

## 1. The system

### How the platform runs the code

This decides what a step of a model is.

- A Durable Object is one thread. `sql.exec` is synchronous, so code between two
  awaits is atomic. An await on Web Crypto, `fetch` or an RPC lets other requests
  of the same object in. An await on a promise that is already settled (all the
  awaits of `QuackCatalogObject.prepare`) does not.
- An exception that is caught (`handleMessage`, the Worker's handlers) does not
  undo what `sql.exec` wrote before it.
- An object can be evicted or redeployed between two requests or awaits. Its SQL
  storage stays and its promises are lost.
- The Worker has no state. Each request is its own sequence of RPC calls.

### Components

| Component | Source | State | Operations | What makes it correct |
|---|---|---|---|---|
| Worker | `index.ts` | none | `/quack` messages, `/admin/*`, `/data-lease` | Routes by the signed id; a session is opened only for a resolved principal |
| CatalogRegistry | `registry.ts` | `catalogs`, `credentials`, `oidc_providers`, `catalog_auth_mappings`, `catalog_auth_policies` | create and list catalogs, issue and revoke credentials, providers, mappings, policies, `resolveAuthString`, `createDataLease` | One row for an id; revocation and expiry are honoured; a policy version names one policy; references between providers and mappings hold |
| QuackCatalogObject | `catalog.ts` | `__dq_sessions`, `__dq_session_auth`, `__dq_results`, `__dq_catalog_config` | open, PREPARE, FETCH, APPEND, DISCONNECT, configure | A result is read once, in order and whole; nothing outlives its session |
| SqlCompatibilityLayer | `sql-compat.ts`, `sql-rewrite.ts`, `sql-names.ts` | user tables, `__dq_schemas`, `__dq_table_columns`, `__dq_table_versions`, `__dq_tx_snapshots` | statements, transactions, appends, metadata reads | ROLLBACK restores what BEGIN saw; tracked columns agree with the tables |
| DATA_PATH enforcement | `ducklake-data-path.ts`, `sql-compat.ts` | `data_path` rows of `ducklake_metadata` | check before, check after, lease | Another path than the planned one comes only where no check is made, or with an error |
| Authorization | `authz.ts`, `auth.ts` | none (the policy is stored with the session) | classify SQL, evaluate the policy | Default deny, deny before allow |
| DuckLakeMetadataCompat | `ducklake-metadata.ts` | none (reads and migrates the `ducklake_*` tables) | tables, views, macros, sizes, deletions, files for compaction, superseded inlined tables, migration | A snapshot reads back as it was committed; nothing that is still needed is reported as superseded |
| Conversions | `sql-text.ts`, `quack-values.ts`, `crypto.ts`, `file-listing.ts`, `r2-temp-credentials.ts` | none | text, values, signatures, listings | Function by function |

The Worker, the registry and the catalog objects interact only by RPC; no two of
them share storage. The registry alone calls catalog objects, in `createCatalog`
and `createDataLease`. The Worker calls both in one request, which is where their
states can come apart.

### What is hard here

- Authentication and the opening of a session are three calls to three parties;
  revocations, expiries and new policies come between them.
- Transactions are emulated on a shared database without isolation: a ROLLBACK
  rebuilds every table, under the sessions of others.
- A ROLLBACK can fail half-way, after it has dropped everything.
- FETCH is not idempotent and HTTP requests are lost, late and repeated.
- A catalog is created in three steps with two awaits, which fail, race and are
  cut short.
- The path check is partly made after the statement took effect, and which statements
  are checked is decided by the word their text begins with.
- What SQLite has and what is recorded of it change in separate statements, and
  not every statement that changes the one is recognised as changing the other.
- DuckLake's answers are queries over intervals of snapshots that later snapshots
  end, replace and compact.
- Which tables a query reads depends on the WITH clauses around every name in it.

`hazards` in `PROJECT.json` gives each of them its line and its properties.

## 2. The plan

In this order, the most important behaviour first:

| | Module | Composes / refines | Status |
|---|---|---|---|
| 1 | `TransactionEmulation` | refines `Savepoints` | checked and proved |
| 2 | `Connection` | Worker, registry and object; refines `AtomicGrant` | checked and proved |
| 3 | `ResultFetch` | object, Worker and client | checked and proved |
| 4 | `CatalogDataPath`, of `CatalogCreation` and `DataPath` | the registry's creations, the object's configuration, statements and appends | checked and proved |
| 5 | `OidcResolution` | providers, mappings, key fetches in `resolveOidcJwt`, `deleteOidcProvider` against `replaceCatalogAuthMapping` | checked and proved |
| 6 | `Authorization` | `evaluatePolicy` and its helpers as operators, against the documented rules, over sessions | checked and proved |
| 7 | `SqlClassification`, composed with 6 in `ExplainAuthz` | what a statement requires, from its syntax tree; `explainAuthz` | checked |
| 8 | `TrackedSchema` | CREATE, ALTER, RENAME, DROP and APPEND against the record of columns and versions | checked and proved |
| 9 | `DuckLakeMetadata`, used by `DuckLakeClient` | the answers, against the history of a client that commits snapshots | checked and proved |
| 10 | `ResultFetch_proofs`, `CatalogDataPath_proofs`, `TrackedSchema_proofs` | inductive invariants of 3, 4 and 8 | done |
| 11 | composition of 1, 2, 5 and 6 | a session's statements are authorized by the policy that was granted, whichever way its token was resolved | to do |
| 12 | `DuckLakeClient_proofs` | of inlined data: the listed tables are those that exist, and hold together what the lake knows | done |
| 13 | more in `DuckLakeClient_proofs` | of files: the schema versions of a table begin where its history changes; the delete files of a file replace each other and their rows grow | done |
| 14 | more in `DuckLakeClient_proofs` | of what a snapshot reads back: tables with their columns in order and comments, views, macros, numbers and sums of sizes; partition columns through the migration | done |

`SqlClassification` follows a syntax tree with RECURSIVE operators and stays with
TLC; no other module that has something to prove reaches one. A composed module
instantiates its parts, each of which stays a specification of its own.

## 3. The modules

Every module is translated from the code; the comments of a definition say which
function it is when the name does not.

### TransactionEmulation, Savepoints

One catalog object with several sessions. A table is a set of rows and a row is
one value. Values differ by what JSON keeps of them: `Plain` survives, a `Blob`
becomes `Mangled`, the text "[object Object]", because `JSON.stringify` of an
ArrayBuffer is `{}` and `normalizeSnapshotValue` makes text of an object. `Keyed`
tables have a UNIQUE or PRIMARY KEY column, so that two rows that are the same
after JSON clash. `Hidden` names are the user tables that
`NOT LIKE '__dq_%'` leaves out, since `_` is a wildcard in LIKE.

| Action | Code |
|---|---|
| `Connect`, `Disconnect` | `createSession`, `deleteSession` |
| `Begin`, `Commit`, `Rollback` | `beginTransaction`, `commitTransaction`, `rollbackTransaction` |
| `RollbackFails(s, f, R)` | the same, when the re-insertion into `f` throws: tables before `f` are back, those after are gone, the snapshot stays |
| `CreateTable`, `CreateExistingTable`, `CreateTableAs`, `DropTable`, `Mutate`, `CreateSchema`, `DropSchema` | what `executeOne` and `appendChunk` do to tables, rows, tracked names and schemas |

`Savepoints` is the promise: a shared database with one savepoint per session.
`BEGIN` saves, a `ROLLBACK` that succeeds restores exactly that, anything else
may only write. The mapping takes as the database what a JSON copy of the visible
tables shows (`Visible`), so what the emulation loses of BLOBs is a property of
its own.

Left out: ALTER TABLE and columns, which are `TrackedSchema`'s, references between tables, and
`__dq_table_versions`, which is only read into a snapshot and written back. Values
other than BLOBs that JSON cannot write (infinities) are not told from those it can.
Views, indexes and triggers are not made by clients: the classifier knows no such
statement and the policy denies it.

### Connection, AtomicGrant

A CONNECTION_REQUEST goes through the phases `verifying` (the registry awaits the
signature check), `opening` (the Worker has the answer), `signing` (the catalog
object has stored the session, the Worker awaits the HMAC of the id), `connected`
and `closed`, or ends `failed`. In between the administrator issues credentials
(in two steps: sign, then insert), revokes them, puts and deletes policies, and
credentials expire. `doomed` and `deleted` are history variables.

`AtomicGrant` is the promise: principal and policy of a session were valid
together at one instant of its attempt, and an attempt opens at most one session.
It says on purpose no more: a session outlives its credential, and keeps an old
policy.

Left out: OIDC tokens, which `OidcResolution` resolves, and the failure of the signature itself, which is
`Deny`.

### ResultFetch

`Prepare` stores a result and takes the place of the session's former one; `Fetch`
moves the stored offset and answers a batch. Chunks are numbers. The client is not
under `src/`: it is modelled from the protocol the code speaks (batch indexes are
contiguous, and an empty batch with the index of the one before ends the result)
and marked external in the map. It sends one request at a time, can give each up
and send it again; the request it gave up stays on its way and is served late or
never waited for.

### CatalogCreation

Creations of one catalog id, each for the bucket it names, from the Worker's
`catalogExists` to the credential, with the RPC to the catalog object as a message
in `calls` that arrives, fails, or arrives after `Restart` of the registry.

### DataPath

A PREPARE is a batch of statements. Three things are told of a statement that writes
`data_path`: it has the path as a literal, which is checked before the batch runs; or
computes it, or is a DELETE, which is only seen by the check that follows; or
neither check recognises it. The patterns of both look at how a text begins
(`isMutation`, `insertDataPathValues`), so that `WITH ... INSERT`, `REPLACE INTO` and a
write after a comment run unchecked. `Run` folds `RunStatement` over the batch and
stops at the first failure, as `execute` does. BEGIN, COMMIT and ROLLBACK return
before the check that follows the others. `AppendRows` is APPEND_REQUEST, without a
check.

`OtherPathsComeUnseen` therefore does not say that a catalog names its planned path
only. It names the ways in which another comes: an APPEND, a batch one of whose own
statements neither check recognises, or an error answer; and excludes the rest. Every
batch that could have made the step must have such a statement: one with another outcome
does not excuse it.

Bound: the statements after the first of a batch insert a path that is not computed or
change another table; a transaction takes several batches. Left out: how a literal is
recognised in a text that begins with INSERT or UPDATE, and leases, which compare the
registry's row with the first path of the object and sign: nothing else depends on them.

### CatalogDataPath

One catalog from its creation on. `Registry`, an instance of `CatalogCreation`, and
`Client`, one of `DataPath`, share the registry's row and the object's
configuration; a step is one of either. A client can reach the object from the
INSERT of the row on, so that batches and appends meet an object that has
no path yet, or never gets one.

### OidcResolution

The registry's providers and mappings, and the resolution of a token over its
awaits. A provider's configuration is what it makes of every token: a user, or
`Refused`; and whether its keys are fetched, in which case a turn can fail. `Start`
is the synchronous read of the list; `Verify` is one turn of the loop, with the
configuration that was listed and whether or not the provider still has it;
`Resolve` and `Refuse` are the last turn together with everything after it, which
has no further await: one success, the mappings as they are now, one catalog. The
PUT of a mapping is two calls, `CheckMapping` by the Worker and
`ReplaceCatalogAuthMapping` by the registry.

`GrantsAreUnambiguous` says exactly how far "a token must verify against exactly
one configured provider" (`openapi.ts:1366`) reaches: a second provider whose keys
could not be fetched, or that was asked after the token expired, does not count.
A grant can also follow a configuration that was replaced during the awaits; no
document says otherwise, and `GrantsAreMapped` says what is certain nevertheless.

Left out: the clock tolerance of a provider (a token expires for all at once) and
the policy of a grant, which is read in the same step and is `Connection`'s.

### Authorization

A session's principal and stored policy, and the decisions about its requests. The
searches of `evaluatePolicy` are sets of rule numbers, of which `find` takes the
least (`Min`), and the rules a decision names are those its searches pushed before
they stopped. A statement is what the classifier makes of it. Attributes of a
principal are sets of words; a row predicate is the claims it refers to, which is
all that the code looks at.

`DecisionsFollowTheRules` holds the evaluator against `Permitted`, which is written from
`guides/authn-authz.md` and not from the code's matching: an allow rule must name all that a
permission asks for, a deny rule some of it. The two disagree in one case, which the
property names (`Overlooked`): `SELECT *` requires the column `*`, and a rule that
denies single columns does not match it.

### SqlClassification, ExplainAuthz

`classifySqlStatement`, from the syntax tree on. A tree has the nodes that the
classifier tells apart: selects with their CTEs, projections, FROM and the rest,
UNIONs, tables, derived tables, functions, aliases, stars, columns. Whatever else the
parser makes is one of these: a join is a further member of `from`, a WHERE,
HAVING or ORDER BY is in `nested`. `CollectSourceTables` is the walk over
everything below a node, `RelationFromExpression` and `RelationMap` are the names
that a FROM clause introduces, the rest is which columns a projection shows. The
lineage of an output column is the parser library's and external. An INSERT, UPDATE or
DELETE has `nested` besides its target and an INSERT's query: what is in VALUES, SET,
FROM, USING, WHERE and RETURNING. The classifier does not look there (`Passed`).

`ExplainAuthz` is `explainAuthz`: it resolves a token, classifies one statement and
has the evaluator of `Authorization` decide. The same run so checks the evaluator on
statements the classifier makes. `QueriesRequireTheTablesTheyRead` holds the answer
against `TablesRead`, a reference definition of scope that takes no notice of how
the classifier walks. It speaks of queries: of a select, and of the query of a CREATE
TABLE AS or an INSERT. The tables that are read in what `Passed` has are its exception;
the code requires no permission for them.

Left out: texts of several statements; the parser; the wording of reasons.

### TrackedSchema

Tables as SQLite has them (`tables`) beside what is recorded of them (`tracked`,
`versions`). A name is stored with a schema or without; `main.t` and `t` are two
stored tables and one identity. The record tells upper from lower case and SQLite
does not, and not every statement is recognised, so that a statement may change
SQLite without the record: the `Unrecorded` actions and `CreateTableAs`. A table's columns are
a sequence, from which DROP COLUMN takes the one of that name. `declared` is a history variable: the tables that were made by
CREATE TABLE and altered only by statements that are recorded. For these
`RecordFollowsTheTable` says that every reader of the record is right.

`ErrorsLeaveTheSchema` names the exception the code has: a rename onto a name that a
dropped table left columns or a version for is answered with an error when SQLite
has renamed the table.

Left out: types of columns, and how a statement is recognised.

### DuckLakeMetadata, DuckLakeClient

`DuckLakeMetadata` has one operator for every query that DuckLakeMetadataCompat
answers, over the rows of the metadata tables, and the migration of format 0.3.
`DuckLakeClient` is the client that writes these tables; it is not under `src/` and is
modelled from the statements of `test/quack-worker.test.ts`, and marked external. It
commits snapshots of tables, columns (also nested), comments, views, macros, data
files, delete files, inlined rows and deletes, partitions, and keeps in `history`
the lake as it knew it at each snapshot. Every property holds an answer against
the history. Names and comments stand for the snapshot that wrote them.

`CompactionSeesTheSchemaOfTheWriter` compares the whole answer: which files, a row for each
delete file of one, the schema version of its first snapshot, and the keys it was
written with, in order. `DeletionsAreReported` compares what is told of a range of
snapshots as a set: a row that is told twice, or for another snapshot of the range, would
not be noticed. `InlinedDataStaysReachable` is about inserts, flushes and the cleanup; the
deletion of an inlined row is not modelled. While partition columns are positions,
a column after them can be dropped, and one before them cannot (`StaysInPlace`): what the
upstream client does then is not in this repository. The schema versions of a 0.3
catalog have their tables from the start, while the catalog that
`test/quack-worker.test.ts:408` migrates has them without: the statements that fill
`table_id` are plain SQL, which the code hands to SQLite.

Left out: schemas of the lake, statistics, the recognition of a statement by its text and the
conversion of its values.

## 4. The runs

| Run | Instance | Shows |
|---|---|---|
| `transactions` | 2 sessions, 3 tables of 2 schemas, one of them hidden, two keyed and with BLOBs | Transactions that overlap, fail half-way and disconnect keep flag and snapshot together, lose no table and implement savepoints |
| `transaction_blobs` | 1 session, the same tables | Violated: a BLOB is text after a ROLLBACK |
| `connection_grants` | 2 attempts, 2 credentials of 2 catalogs, 2 documents, 2 versions | Every property of a connection, and the refinement |
| `connection_revocation` | the same | Violated: a session is opened after the revocation was answered |
| `result_fetch` | 2 sessions, batches of 2, up to 5 chunks, 2 results, 2 requests given up | Prefix, wholeness, and that reading ends |
| `catalog_data_path` | 2 creations with 2 buckets, 1 credential, 2 rows, batches of 2 | One winner; registry and object agree; a batch's answer is what became of it; another path comes only by APPEND, by a text neither check recognises, or with an error |
| `catalog_without_path` | 3 creations with 2 buckets, 2 credentials | Violated: a failed call leaves a catalog without a path for good |
| `data_path_writes` | 2 paths, 3 rows, batches of 2 | Violated: an APPEND of another path succeeds |
| `authorization` | policies of up to 2 of 10 rules, 3 principals, up to 2 of 6 classified statements, `SELECT *` among them; questions about some 9000 trees | The searches decide by the documented rules, with the one exception; a batch is its statements; the named rules explain a decision; every table a query reads is required |
| `oidc_resolution` | 2 providers with 4 configurations, 2 catalogs, 2 documents, 1 attempt, 1 administrator | Mappings name providers; grants are unambiguous and mapped; every token is answered |
| `duck_lake` | 5 snapshots in any order, files of 2 rows, both formats | Every snapshot reads back; deletions, compaction, inlined data and migrated partitions agree with the history |
| `tracked_schema` | `t`, `u` and `main.t`, 2 columns, ordinals to 2 | The record follows the table; a statement that fails leaves tables and record alone |

Why the bounds are enough. Each is the smallest at which the case of interest
happens and one more: two sessions for one ROLLBACK under the other; two tables that
clash around a third for a failure in the middle; two grants of each catalog for
versions to be compared across a PUT, and a DELETE followed by a PUT; results of 0
to 5 chunks in batches of 2, so that a result is empty, ends with a batch, ends
within one, and has three batches of which the middle one can be lost; three
creations, so that a retry follows a failed one while a third has passed the
Worker's check; two rows of which only the second is wrong; two
rules, since a decision is about one that denies and one that allows, and two
statements for a first that hides a second; two providers, so that a token is
accepted by none, one or both, by one in between a change of the other. Attempts to
resolve a token do not touch each other's state, so one is enough; five snapshots, so
that a column or file is made, replaced twice and compared with the state before
each; three names, so that two have one identity and a rename can meet a name that was
dropped; CTEs that are shadowed, that refer to each other and to unknown tables, in
every position. The proofs of section 5 have no bounds.

Two runs have a state constraint besides. `SizeBound` of `transactions` keeps the
second and third table small as long as both sessions are connected: what one session
does to several tables and what two do to one is explored in full, not
their product. `OneQuestion` of `authorization` stops after a question, which
changes nothing that a later step reads.

`result_fetch` turns deadlock checking off: when both clients have left and
nothing is on its way, the model has come to its end. `duck_lake` does so because
its snapshots are bounded.

### Fairness

Two modules have any. In `OidcResolution` a resolution that was begun goes on: the
fetch of keys has a time-out and the rest is computation. In `ResultFetch` the request a client waits for is served if it can be,
a client that reads a result asks for its next batch, and a client does not wait
for ever. The first is the platform's (an object that gets requests runs, one at a
time, and `handleMessage` answers errors too); the second and third are what the
property is about: it speaks of a client that reads to the end. Nothing is assumed
of requests that were given up: they may stay on their way for ever. No fairness
is assumed of the other modules; their properties are safety.

### What disagrees with the documentation

The four violated properties are findings (`PROJECT.json`, with the quotation):
ROLLBACK does not restore BLOBs; a revocation does not stop an attempt that is
already resolved; a catalog whose configuration call fails never receives its path
and cannot be created again; APPEND introduces any `data_path`. More that was met
while modelling is part of the models and breaks no documented sentence: a
statement whose computed path is wrong is answered as an error and its effect
stays; ROLLBACK is not followed by the check; DROP TABLE leaves the columns and the
version of its table behind, so that a rename onto its name fails half-way; `ADD
COLUMN IF NOT EXISTS` trusts a record that may be stale; `CREATE TABLE ... AS` records
no columns; an UPDATE or DELETE requires nothing for the tables its conditions read, nor
an INSERT for those in its VALUES.

One more does disagree with a document and has no run of its own, since the property that
would fail is the same as one that holds but for it: `guides/authn-authz.md:1154` has a deny
rule for the column `salary` block it, and a principal who may read the table sees it with
`SELECT *` (`authz.ts:916`).

### What the properties leave open

Of the hazards in `PROJECT.json`, some have no property or are covered in part:

- A DELETE of a policy and a PUT give another document the same version
  (`registry.ts:351`). `VersionNamesPolicy` excepts catalogs whose policy was deleted.
- A session whose answer was lost, or whose id could not be signed, stays
  (`index.ts:119`). `AnsweredClientsHaveOneSession` speaks of clients that were answered.
- Of the names that are one identity, `main.t` and `t` are modelled, a name with `__`
  inside (`a.b__c` and `a__b.c`) is not.

## 5. The proofs

`TransactionEmulation_proofs` (any sessions, tables, schemas, values; assumptions:
tables are numbered, the value classes are disjoint, `Main` is a schema, the
sentinel is none of the values)

- `TypeCorrect`: `TypeOK` is inductive.
- `OneSnapshotAlways`: the flag agrees with the snapshot. Inductive with `TypeOK`,
  since a stored snapshot is never the sentinel.
- `NoTableIsLostEver`: an action property. A table goes by a DROP that names it, by the
  ROLLBACK of a session whose own snapshot is restored and does not have it, or by a
  ROLLBACK that stops at a clash and keeps every snapshot; the snapshot of another
  session is no excuse. That what is restored is what the session saved
  (`RollbackRestores`) needs `SnapshotsAreVisible`, which is below.
- `EmulationImplementsSavepoints`: needs `SnapshotsAreVisible` as well: what is
  stored has no hidden table, no BLOB and no rows of absent tables, so that going
  through JSON a second time, when the restored tables are looked at, changes
  nothing.

`Connection_proofs` (any attempts, credentials, catalogs, documents and version
bound; assumptions: every credential has a catalog, the bound is a number, the
sentinels are none of the values)

- `Typed`, stronger than `TypeOK`: a grant comes with the phases after `verifying`.
- `HeldAlwaysRevocable`: from `Rows`: a JWT that is signed and not inserted has no
  row, so that only the INSERT hands one out.
- `DoomedNeverConnect`: a credential that has a row and is unusable stays so
  (`SpentStep`; `Rows` excludes the INSERT that would revive it), so a doomed
  attempt is never granted anything (`DoomedStayDoomed`).
- `OneSessionAlways`: from `SessionsOK`: a session holds the grant of its attempt,
  whose phase says that it opened one.
- `VersionsNamePolicies`: from `GrantsAgree`, which speaks of all grants, opened or
  not: a session is opened later under the policy of its grant.
- `ConnectionImplementsAtomicGrant`: every step is a step of `AtomicGrant` or
  changes nothing it sees, under `Typed` and `SessionsOK`.

`OidcResolution_proofs` (any providers, configurations, tokens, catalogs and
documents; assumptions: provider ids are ordered, a configuration answers every
token, the sentinels are none of the values)

- `ResolutionIsExact`, the invariant: types, references, and `Verifying`: a success
  is what the listed configuration says, and a provider that had its turn, accepts
  the token and needs no fetch is among the successes unless the token expired
  (`TurnIsExact`, one turn of the loop). References are kept by each action of the
  administrator alone (`AdministrationKeepsReferences`).
- `ReferencedProvidersAlwaysExist`, `GrantsAlwaysUnambiguous` and
  `GrantsAlwaysMapped` (an action property: the references of the state give the
  provider of a grant) follow from it.

`Authorization_proofs` (any principals, rules, statements, tables and bounds;
assumptions: a rule allows or denies, `Undefined` is neither a policy nor `"*"`)

- `SearchesFind`: what the searches of `evaluatePolicy` have found when they end.
  From it `EvaluationFollowsTheRules`, without induction over the batch, because
  the permissions are positions and not a concatenated sequence. `RulesApply` and
  `MatchingNamesAll` say what the code's matching comes to in the document's terms: an
  allow rule matches where it names all of a permission, a deny rule where it names some
  of it and is not overlooked (`PermittedByRulesThatApply`).
- `DecisionsAreEvaluated`, the invariant: a decision is the evaluator's of what the
  session stores now. `DecisionsAlwaysFollowTheRules`, `StatementsAlwaysIndependent`
  and `AuthorizationTypeCorrect` follow.
- `NamedRulesAlwaysSuffice`: the rules a decision names can be listed, each once
  (`NamedRulesCanBeListed`: a bijection with a finite set), and a policy of these
  decides the same (`NamedRulesSuffice`): a deny rule that was found is among them, an
  allow rule for every permission is if none was missing, and fewer rules neither deny
  more nor allow more.

`CatalogDataPath_proofs` (any creations, buckets, credentials, paths, batches and bounds; assumptions: every creation has the path of its bucket, the sentinel is no
path, and no call is both a creation and an issue, since credentials are named after
the call that made them)

- `Inductive`, the invariant of the composition. `RegistryInv` says more than
  `OneWinner`, which is not inductive by itself: whoever has something under way or
  left something behind has made the row (`Busy`), so that a second INSERT fails; the
  object has the winner's path before the winner signs, and the credential is there
  before the 201. Of the object (`ClientInv`): an answer "checked" is still true, and
  nobody has used the object before the INSERT, so that the only write of the row
  disturbs none of it (`AdministerStep`).
- `TypeCorrect`, `CreationHasOneWinner`, `CreatedCatalogsAreWhole` and
  `ConfigurationAgrees` follow.
- `BatchesAreAnsweredTruly` and `OtherPathsComeUnseenOnly` are action properties
  about a whole batch in one step. `Run` is a recursive function: that one exists is
  `RunExists`, that it is its last state `RunUnfolds`, both by induction over a set of
  lengths (`UpTo`), since an induction theorem with an operator cannot be used.
  `RunInv` is carried along the batch the same way (`BatchKeepsRunInv`), one kind of
  statement at a time.

`ResultFetch_proofs` (any sessions, sizes of batches and results, numbers of results
and of requests given up; assumptions: a batch holds a chunk at least, the bounds are
numbers)

- `Inductive`. What a client has read is a prefix only because of where the stored
  offset is: it is a whole number of batches or the end (`Aligned`), and at the client's
  position or ahead of it (`Sound`), at it exactly unless the client gave something up
  (`InStep`); and what is on its way, a session that gave nothing up has sent last
  (`RequestsInv`). `InStep` gives `OnlyLossBreaks`, `Sound` the other two.
- `CeilingIsLeast` to `OffsetsGoOnByBatches` are the arithmetic of `batchIndex`, a
  ceiling of a quotient; `IndexTellsGaps` is what the protocol rests on: an index that
  follows the client's tells that no batch was lost between, and the same index with an
  empty batch that none is left.
- The steps of the client (`SendStep`, `TimeOutStep`) and of the server (`ServeStep`,
  with `PrepareStep`, `FetchStep` and `ToldStep`) each concern one session;
  `SessionFrame` disposes of the others. `TypeCorrect`, `ResultsHaveSessions`,
  `ClientsReadPrefixes`, `CompleteResultsAreWhole` and `OnlyLossBreaksReading` follow.

`TrackedSchema_proofs` (any stored names, columns and bounds; assumptions: a stored
name has a schema and a table, the bounds are positive)

- `Inductive`: a declared table's record is its columns with ordinals that go up
  (`Records`). Not that they are 0 to n - 1: DROP COLUMN leaves a gap, and
  ADD COLUMN takes one more than the greatest, which keeps them going up and would not
  keep the next column after the others were it a count. Readers only sort by them.
- `TheRecordFollows`: the i-th of a reader's rows is the one that has i - 1 before it,
  which for ordinals that go up is the i-th column (`CountedSet`).
- `ErrorsChangeNothing`: an action property, one statement at a time; the only one that can
  fail after a change is the rename, and then the name it was given has columns or a
  version, which is the exception the property names.

`DuckLakeClient_proofs` (any numbers of snapshots, tables, columns and rows of a file;
assumptions: NULL is no number, the bounds are numbers)

- `IInv`. `InlinedDataStaysReachable` asks what a client of the current snapshot gets,
  so that the invariant says of the rows of `ducklake_table` that those which have not
  ended are of tables of the lake, and that the others ended before the snapshot that
  comes next (`TableRowsInv`). Of the inlined tables (`InlinedInv`): the listed ones are
  those that exist, a table that is dropped included, which is why an id is never used
  again (`LakeInv`: ids are below the next one); and no row is in two of them, since
  otherwise the flush of one would take a row away that the lake still has in another.
- `LakeAgreesWithInlinedTables`: one step per action. Most commit something else
  (`Elsewhere`); an insert and a flush change one inlined table (`InlinedChanged`); the
  cleanup takes the list's entry and the table together (`DropSupersededStep`).
- `InlinedDataAlwaysReachable` follows.
- `FInv` is the invariant of files. What `DeletionsAreReported` compares is the history
  with an answer that the relations give, so that `HistoryInv` says what ties them: each
  snapshot reads as the data files visible in it (begun, and not ended), less the rows
  that a delete file or an inlined delete has taken by then (`GoneBy`). That is kept only
  because a delete file has all the rows of the one it replaces, and every row a delete
  file or an inlined delete took was still there in the snapshot before (`DeletesInv`):
  otherwise an answer would tell of a row twice, or in a snapshot that it did not leave in.
  `FileRowsInv` has the ids and the bounds of begin and end.
- Of compaction: a snapshot's version of a table has a row in `ducklake_schema_versions`,
  and it is the last of the table's rows up to that snapshot (`VersionsInv`); a file has
  the keys of the partition that its table had in the snapshot that wrote it, or none when
  it was flushed or written before (`KeysInv`, `WrittenBy`).
- A step is proved for what it does to files, not for who does it: nothing (`FilesKeptStep`),
  a file is added, files end, a delete file replaces another, a row is taken inline
  (`FileAddedStep` to `RowDeletedInlineStep`); beside it the versions and the keys
  (`VersionsStep`, `KeysStep`). The actions are then cases of these, up to `NextKeepsFiles`.
  `SnapshotsReadTheirFiles` is the theorem.
- `LatestIsLast` says what `ORDER BY begin_snapshot DESC LIMIT 1` finds, by the
  well-foundedness of the order of numbers; from it, `PreviousDeleteHasAll` and
  `VersionOfWriter`. `DeletionsAlwaysReported` is then the two directions `ToldRowsLeft` and
  `RowsLeftAreTold`; `CompactionAlwaysSeesTheSchemaOfTheWriter` follows with `CompactionFiles`,
  which files the answer has and with which rows, and `KeysInOrder`, that keys numbered from 1
  are read back in their order.
- `RInv` is the invariant of what a snapshot reads. The property compares answers with the
  history, and a later commit ends rows that the earlier snapshots still read, so that the
  invariant has one part for every relation that is read, each of the same two halves. The
  rows have these fields, and begin and end before the snapshot that comes next (`Timed`).
  And for every snapshot, what is read of the rows visible in it, without begin and end
  (`Seen`), is what that snapshot's lake has: `TablesInv` to `DeleteSizesInv`. Of
  columns it says besides that the lake has them in the order that the statement sorts by,
  top-level ones first, that no two rows read the same (a rename ends one row of an id and
  begins another), and that their ids stay below the one `AddColumn` takes next. Of delete
  files: a data file has one at most in a snapshot, without which a sum would count one
  twice. Of macros: rows of implementations never end, and ids are not used again.
- `PartitionInv` says what a partition column means. Before the migration it is the position
  of a top-level column; that stays true because columns are added after the top-level
  ones there are and, while partitions are positions, are dropped only after the columns of
  the partition; what is picked of a sequence starts as the sequence does, if its first
  positions are all picked (`PickedColumns`). `ColumnAtPosition` is that the statement of the migration, which counts the columns
  up to each one, finds the column of the position.
- A commit is again proved for what it does to a relation: some rows end and others are
  added (`SeenAfter`: the snapshots there were read what they read, and the next one that,
  less what ended, with what is new), or nothing happens (`SeenKept`). The actions are cases, from
  `CommentOnTableReads` to `MigrateReads`. `SnapshotsReadTheirLake` is the theorem, and
  `MigrationAlwaysKeepsPartitions` follows.
- `EverySnapshotAlwaysReadsBack` needs what `ORDER BY`, `COUNT` and `SUM` compute. `InOrder`
  says that rows which an order goes through are found where it has them, by the number of
  rows before them; `ColumnsReadBack` and `ImplementationsReadBack` use it. A sum is taken by
  one element after the other (`SumsUp`), which exists for a finite set (`SumExists`) and
  does not depend on the order (`SumAdds`), so that two sets of equal weights have the
  same sum (`SameSum`). Induction up to a number (`UpTo`) is not an induction theorem, which
  the provers cannot instantiate, but the least number outside a set.
- `TopLevel` and `Nested` pick by positions (`Picked`) and not with `SelectSeq`, which is
  recursive: `PickedInOrder` says what is picked.

Only model-checked:

- liveness under fairness, which is beyond the prover: `ReadingEnds` and
  `AttemptsAreAnswered`;
- `QueriesRequireTheTablesTheyRead`: `SqlClassification` follows a syntax tree with RECURSIVE
  operators, which the prover cannot reason about.

`RollbackFails` and the other violated properties have nothing to prove.

## 6. Not modelled

- The text of SQL: its splitting, rewriting and parsing, the recognition of
  statements by regular expressions, and how a literal path is found in it. Functions
  of strings, without state; what a model needs of them (which writes have a literal
  path, which statements are recorded, the syntax tree) is in it as data.
- The conversion of values (`quack-values.ts`): functions of one value, without state.
  Whether a value reads back as it was written depends on what the platform's binding
  and SQLite's column affinity make of it between the two, which the source does not
  say. Read against each other, some do not agree whatever these do: a `TIMESTAMP_S`, `_MS` or `_NS` is
  stored as ISO text that is read with `BigInt`, a `TIMESTAMP` loses its
  microseconds, and a TIME in a LIST is a struct of texts. What JSON
  makes of a stored value on the way through a snapshot is in `TransactionEmulation`.
- References between tables: a `ROLLBACK` that fails on one ends like the clash that
  `RollbackFails` models.
- `DROP COLUMN` and `RENAME` of a name that is spelled otherwise leave the record
  stale. `TrackedSchema` has these steps, but no property of it speaks of a table after one.
- Routing, CORS, the OpenAPI document, R2 listings and temporary credentials: no
  state that a step could leave wrong.
- Data leases (`createDataLease`): one comparison of the registry's row with the object's
  first path, and a signature. A path written between the two is not seen, and no document
  says that a lease is withdrawn then.
- That a repeated PREPARE runs its statement twice: nothing in the protocol tells a
  retry from a new request, and no document promises otherwise.
