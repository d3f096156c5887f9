------------------------------ MODULE DataPath ------------------------------
(***************************************************************************)
(* The planned DATA_PATH of a catalog: what sql-compat.ts checks of the    *)
(* data_path rows of ducklake_metadata before and after it runs the        *)
(* statements of a PREPARE_REQUEST, which texts neither check sees, and    *)
(* what an APPEND_REQUEST does not check.                                  *)
(*                                                                         *)
(* The object serves a request in one step.                                *)
(***************************************************************************)
EXTENDS Naturals, Sequences

CONSTANTS Path,
          Nothing,
          MaxRows,      \* bound: data_path rows
          MaxBatch      \* bound: statements of a PREPARE_REQUEST

VARIABLES
    row,        \* data_path of the catalog's row in the registry
    config,     \* __dq_catalog_config of the object, or Nothing
    metadata,   \* the data_path rows of ducklake_metadata, in rowid order
    answer,     \* what the last PREPARE or APPEND was answered: "checked" is a success
                \* whose last change was followed by the check
    saved       \* the rows in the session's transaction snapshot, or Nothing

paths == <<row, config>>
use == <<metadata, answer, saved>>
vars == <<paths, use>>

(* Statements.  A literal one is an INSERT ... VALUES or an UPDATE whose    *)
(* data_path stands in it as a string; a plain one gets it from a SELECT or *)
(* an expression, or writes none.  The patterns of both checks look at how  *)
(* the text begins: one that begins with WITH, REPLACE or a comment is not  *)
(* recognised, whatever it writes.  "other" changes a different table,      *)
(* "query" none.                                                            *)
Writes == [kind : {"insert", "update"}, form : {"literal", "plain", "unrecognised"}, path : Path]
Changes == [kind : {"delete", "other"}, form : {"plain", "unrecognised"}, path : {Nothing}]
Statement == Writes \cup Changes
    \cup [kind : {"query", "begin", "commit", "rollback"}, form : {"plain"}, path : {Nothing}]

\* Bound: the statements after the first insert a path that is not computed, or change
\* another table.
Batch == {batch \in UNION {[1..n -> Statement] : n \in 1..MaxBatch} :
             \A i \in DOMAIN batch \ {1} :
                \/ batch[i].kind = "insert" /\ batch[i].form # "plain"
                \/ batch[i].kind = "other" /\ batch[i].form = "plain"}

\* duckLakeDataPathValuesFromMetadataWrite and assertPlannedDuckLakeDataPath: without
\* a configured path every value is refused.
RejectedBefore(batch) ==
    \E i \in DOMAIN batch : batch[i].form = "literal" /\ batch[i].path # config

\* Mistaken: only the first row is checked.
FirstPlanned(rows) == rows = <<>> \/ rows[1] = config

\* validateExistingDuckLakeDataPaths
AllPlanned(rows) == \A i \in DOMAIN rows : rows[i] = config

\* Mistaken: a deleted path is an empty one.
EffectWithEmptyPaths(rows, statement) ==
    CASE statement.kind = "insert" -> Append(rows, statement.path)
      [] statement.kind = "update" -> [i \in DOMAIN rows |-> statement.path]
      [] statement.kind = "delete" -> [i \in DOMAIN rows |-> Nothing]
      [] OTHER                     -> rows

Effect(rows, statement) ==
    CASE statement.kind = "insert" -> Append(rows, statement.path)
      [] statement.kind = "update" -> [i \in DOMAIN rows |-> statement.path]
      [] statement.kind = "delete" -> <<>>
      [] OTHER                     -> rows

\* The statements of a transaction: a second BEGIN and a ROLLBACK without one fail.
Control(run, statement) ==
    CASE statement.kind = "begin" /\ run.saved = Nothing ->
              [run EXCEPT !.saved = run.rows]
      [] statement.kind = "commit" ->
              [run EXCEPT !.saved = Nothing]
      [] statement.kind = "rollback" /\ run.saved # Nothing ->
              [run EXCEPT !.rows = run.saved, !.saved = Nothing, !.checked = FALSE]
      [] OTHER ->
              [run EXCEPT !.failed = TRUE]

\* Mistaken: inside a transaction the check is left to its end.
RunStatementUnchecked(run, statement) ==
    IF run.failed \/ statement.kind = "query" THEN run
    ELSE IF statement.kind \in {"begin", "commit", "rollback"} THEN Control(run, statement)
    ELSE LET rows == Effect(run.rows, statement)
         IN  IF statement.form = "unrecognised" \/ run.saved # Nothing
             THEN [run EXCEPT !.rows = rows, !.checked = FALSE]
             ELSE [run EXCEPT !.rows = rows, !.checked = TRUE, !.failed = ~AllPlanned(rows)]

\* executeOne: a statement isMutation recognises, or that begins with CREATE, is followed
\* by the check, which ends the batch and undoes nothing.
RunStatement(run, statement) ==
    IF run.failed \/ statement.kind = "query" THEN run
    ELSE IF statement.kind \in {"begin", "commit", "rollback"} THEN Control(run, statement)
    ELSE LET rows == Effect(run.rows, statement)
         IN  IF statement.form = "unrecognised" THEN [run EXCEPT !.rows = rows, !.checked = FALSE]
             ELSE [run EXCEPT !.rows = rows, !.checked = TRUE, !.failed = ~AllPlanned(rows)]

Run(batch) ==
    LET run[n \in 0..Len(batch)] ==
            IF n = 0 THEN [rows |-> metadata, saved |-> saved, checked |-> FALSE, failed |-> FALSE]
            ELSE RunStatement(run[n - 1], batch[n])
    IN  run[Len(batch)]

UseInit ==
    /\ metadata = <<>>
    /\ answer = "ok"
    /\ saved = Nothing

Init ==
    /\ row \in Path
    /\ config = Nothing
    /\ UseInit

\* configureCatalog, once createCatalog comes to it.
ConfigureCatalog ==
    /\ config' = row
    /\ UNCHANGED <<row, use>>

\* Mistaken: a literal is checked when its turn comes.
PrepareRejectedLate(batch) ==
    /\ RejectedBefore(batch)
    /\ LET bad == CHOOSE i \in DOMAIN batch :
                     /\ batch[i].form = "literal" /\ batch[i].path # config
                     /\ \A j \in 1..(i - 1) :
                           ~(batch[j].form = "literal" /\ batch[j].path # config)
           run == Run(SubSeq(batch, 1, bad - 1))
       IN  Len(run.rows) <= MaxRows /\ metadata' = run.rows
    /\ answer' = "rejected"
    /\ UNCHANGED <<paths, saved>>

PrepareRejected(batch) ==
    /\ RejectedBefore(batch)
    /\ answer' = "rejected"
    /\ UNCHANGED <<paths, metadata, saved>>

Prepare(batch) ==
    /\ ~RejectedBefore(batch)
    /\ LET run == Run(batch)
       IN  /\ Len(run.rows) <= MaxRows
           /\ metadata' = run.rows
           /\ saved' = run.saved
           /\ answer' = IF run.failed THEN "failed" ELSE IF run.checked THEN "checked" ELSE "ok"
    /\ UNCHANGED paths

\* APPEND_REQUEST to ducklake_metadata: neither check is made.
AppendRows(p) ==
    /\ Len(metadata) < MaxRows
    /\ metadata' = Append(metadata, p)
    /\ answer' = "ok"
    /\ UNCHANGED <<paths, saved>>

UseNext ==
    \/ \E p \in Path : AppendRows(p)
    \/ \E batch \in Batch : PrepareRejected(batch) \/ Prepare(batch)

Next == ConfigureCatalog \/ UseNext

Spec == Init /\ [][Next]_vars

-----------------------------------------------------------------------------
(* Correctness                                                             *)

\* The rows hold what their columns say.
TypeOK ==
    /\ {row, config} \subseteq Path \cup {Nothing}
    /\ DOMAIN metadata \subseteq 1..MaxRows
    /\ \A i \in DOMAIN metadata : metadata[i] \in Path
    /\ answer \in {"ok", "checked", "rejected", "failed"}
    /\ saved # Nothing => /\ DOMAIN saved \subseteq 1..MaxRows
                         /\ \A i \in DOMAIN saved : saved[i] \in Path

\* What a batch is answered is what became of it.  One of whose literals names
\* another path, in a text that begins with INSERT or UPDATE, is rejected and changes
\* nothing, whatever stands before that literal
\* ("rejects mismatched DuckLake bootstrap before creating catalog tables"); one whose
\* last change is followed by the check is a success only if every data_path row is
\* the planned one then, in a table that was wrong before it too.
AnswersAreTrue ==
    [][/\ answer' = "rejected" => UNCHANGED <<metadata, saved>>
       /\ answer' = "checked" => \A i \in DOMAIN metadata' : metadata'[i] = row]_vars

\* All data_path rows are the planned one, and those a ROLLBACK would bring back.
OnlyPlanned ==
    /\ \A i \in DOMAIN metadata : metadata[i] = row
    /\ saved # Nothing => \A i \in DOMAIN saved : saved[i] = row

\* A statement that names another path where neither check sees it.
Unseen(statement) == statement.form = "unrecognised" /\ statement.path \notin {Nothing, row}

\* Into a catalog that names its own path everywhere, another comes by an APPEND, by a
\* batch one of whose own statements neither check recognises, or with an error answer:
\* not by what a transaction did that was rolled back, not by a computed path, and not
\* by a write before the object has its path.
OtherPathsComeUnseen ==
    [][answer' # "failed" /\ OnlyPlanned /\ ~OnlyPlanned' =>
          /\ \A batch \in Batch : Prepare(batch) => \E i \in DOMAIN batch : Unseen(batch[i])
          /\ \/ \E p \in Path \ {row} : AppendRows(p)
             \/ \E batch \in Batch : Prepare(batch)]_vars

\* "quacklake rejects DuckLake metadata writes that introduce a data_path different
\* from the catalog's planned path" (guides/quack-ducklake.md): a write that is
\* answered with success adds no such row to a catalog that has its path.
UnplannedPathsAreRejected ==
    [][/\ config = row
       /\ answer' \in {"ok", "checked"}
       /\ \A i \in DOMAIN metadata : metadata[i] = row
       => \A i \in DOMAIN metadata' : metadata'[i] = row]_vars
=============================================================================
