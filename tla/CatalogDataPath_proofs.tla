----------------------- MODULE CatalogDataPath_proofs ------------------------
(***************************************************************************)
(* What holds of a catalog's data path for every set of creations, paths   *)
(* and batches.                                                            *)
(***************************************************************************)
EXTENDS CatalogDataPath, Sequences, WellFoundedInduction, TLAPS

-----------------------------------------------------------------------------
(* The registry                                                            *)

\* Induction up to n, over a set and not over an operator: the least number outside S
\* would follow one inside.
LEMMA UpTo ==
    ASSUME NEW n \in Nat, NEW S, 0 \in S, \A k \in 0 .. n - 1 : k \in S => k + 1 \in S
    PROVE  \A k \in 0 .. n : k \in S
  <1> DEFINE Outside == {k \in 0 .. n : k \notin S}
  <1> SUFFICES ASSUME Outside # {} PROVE FALSE
    OBVIOUS
  <1>1. Outside \in SUBSET Nat
    OBVIOUS
  <1>2. PICK m \in Outside : \A k \in Outside : <<k, m>> \notin OpToRel(<, Nat)
    BY <1>1, WFMin, NatLessThanWellFounded, Zenon
  <1>3. m \in 0 .. n /\ m \notin S
    OBVIOUS
  <1>4. m \in 1 .. n /\ m - 1 \in 0 .. n - 1
    <2> HIDE <1>2
    <2>1. m # 0
      BY <1>3
    <2>2. QED
      BY <1>3, <2>1
  <1>5. m - 1 \notin Outside
    <2>1. <<m - 1, m>> \in OpToRel(<, Nat)
      <3> HIDE <1>2
      <3>1. m - 1 \in Nat /\ m \in Nat /\ m - 1 < m
        BY <1>4
      <3>2. QED
        BY <3>1 DEF OpToRel
    <2>2. QED
      BY <1>2, <2>1, Zenon
  <1>6. m - 1 \in 0 .. n /\ (m - 1) + 1 = m
    BY <1>4
  <1>7. m - 1 \in S
    BY <1>5, <1>6
  <1>8. QED
    BY <1>3, <1>4, <1>6, <1>7

\* A creation that has something under way, or has left something.
Busy(r) == creation[r] \in {"configuring", "signing", "created"} \/ r \in calls \cup credentials

\* Whoever is busy has made the row, so that nobody else is; the object has the
\* winner's path before the winner signs, and the credential is there before the 201.
RegistryInv ==
    /\ row \in Path \cup {Nothing}
    /\ config \in {Nothing, row}
    /\ credentials \subseteq Request \cup Issue
    /\ creation \in [Request -> Registry!Creation]
    /\ issue \in [Issue -> Registry!Issuing]
    /\ calls \subseteq Request
    /\ \A r \in Request : Busy(r) => row = PathOf[r]
    /\ \A r, q \in Request : Busy(r) /\ Busy(q) => r = q
    /\ \A r \in Request : creation[r] \in {"signing", "created"} => config = PathOf[r]
    /\ \A r \in Request : creation[r] = "created" => r \in credentials

\* The row is written once.
RowStays == row # Nothing => row' = row

LEMMA PathsAreSomething ==
    \A r \in Request : PathOf[r] \in Path /\ PathOf[r] # Nothing
  BY PathOfAssumption, NothingAssumption

LEMMA RegistryStep ==
    ASSUME RegistryInv, Registry!Next
    PROVE  RegistryInv' /\ RowStays
  <1> USE PathsAreSomething DEF RegistryInv, Busy, RowStays
  <1>1. ASSUME NEW r \in Request, Registry!Precheck(r) \/ Registry!CreateDuplicate(r)
        PROVE  RegistryInv' /\ RowStays
    BY <1>1 DEF Registry!Precheck, Registry!CreateDuplicate, Registry!At, Registry!Creation
  <1>2. ASSUME NEW r \in Request, Registry!CreateCatalog(r)
        PROVE  RegistryInv' /\ RowStays
    BY <1>2 DEF Registry!CreateCatalog, Registry!At, Registry!Creation
  <1>3. ASSUME NEW r \in Request, Registry!ConfigureCatalog(r)
        PROVE  RegistryInv' /\ RowStays
    BY <1>3 DEF Registry!ConfigureCatalog, Registry!At, Registry!Creation
  <1>4. ASSUME NEW r \in Request, Registry!ConfigureFails(r)
        PROVE  RegistryInv' /\ RowStays
    BY <1>4 DEF Registry!ConfigureFails, Registry!At, Registry!Creation
  <1>5. ASSUME NEW r \in Request, Registry!InsertCredential(r)
        PROVE  RegistryInv' /\ RowStays
    BY <1>5 DEF Registry!InsertCredential, Registry!At, Registry!Creation
  <1>6. ASSUME NEW i \in Issue, Registry!AskForCredential(i) \/ Registry!IssueCredential(i)
        PROVE  RegistryInv' /\ RowStays
    BY <1>6, CallsAreDistinct
       DEF Registry!AskForCredential, Registry!IssueCredential, Registry!Issuing
  <1>7. ASSUME Registry!Restart
        PROVE  RegistryInv' /\ RowStays
    BY <1>7 DEF Registry!Restart, Registry!Creation, Registry!Issuing
  <1>8. QED
    BY <1>1, <1>2, <1>3, <1>4, <1>5, <1>6, <1>7 DEF Registry!Next

-----------------------------------------------------------------------------
(* The statements of a batch                                               *)

Rows == Seq(Path)

RunState == [rows : Rows, saved : Rows \cup {Nothing}, checked : BOOLEAN, failed : BOOLEAN]

\* The state of a batch's run before its first statement, and the run as a function
\* of the statements done.
Before == [rows |-> metadata, saved |-> saved, checked |-> FALSE, failed |-> FALSE]

Runs(batch, n, f) ==
    f = [k \in 0 .. n |-> IF k = 0 THEN Before ELSE Client!RunStatement(f[k - 1], batch[k])]

\* The recursion that defines a run has a solution, for a batch of any length.
LEMMA RunExists ==
    ASSUME NEW batch, Len(batch) \in Nat
    PROVE  \E f : Runs(batch, Len(batch), f)
  <1> DEFINE N == Len(batch)
             S == {n \in 0 .. N : \E f : Runs(batch, n, f)}
  <1>1. 0 \in S
    <2> DEFINE f == [k \in 0 .. 0 |-> Before]
    <2>1. Runs(batch, 0, f)
      BY DEF Runs
    <2>2. QED
      BY <2>1
  <1>2. ASSUME NEW n \in 0 .. N - 1, n \in S
        PROVE  n + 1 \in S
    <2>1. PICK f : Runs(batch, n, f)
      BY <1>2
    <2> DEFINE g == [k \in 0 .. n + 1 |->
                       IF k = n + 1 THEN Client!RunStatement(f[n], batch[n + 1]) ELSE f[k]]
    <2>2. \A k \in 0 .. n : f[k] = IF k = 0 THEN Before
                                   ELSE Client!RunStatement(f[k - 1], batch[k])
      BY <2>1 DEF Runs
    <2>3. ASSUME NEW k \in 0 .. n + 1
          PROVE  g[k] = IF k = 0 THEN Before ELSE Client!RunStatement(g[k - 1], batch[k])
      <3>1. CASE k = n + 1
        BY <3>1
      <3>2. CASE k \in 0 .. n /\ k # 0
        BY <2>2, <3>2
      <3>3. CASE k = 0
        BY <2>2, <3>3
      <3>4. QED
        BY <3>1, <3>2, <3>3
    <2>4. Runs(batch, n + 1, g)
      BY <2>3 DEF Runs
    <2>5. QED
      BY <2>4
  <1>3. \A n \in 0 .. N : n \in S
    <2> HIDE DEF S
    <2>1. QED
      BY <1>1, <1>2, UpTo
  <1>4. QED
    BY <1>3

\* Run is the last state of it.
LEMMA RunUnfolds ==
    ASSUME NEW batch, Len(batch) \in Nat
    PROVE  \E f : Runs(batch, Len(batch), f) /\ Client!Run(batch) = f[Len(batch)]
  <1> DEFINE run[n \in 0 .. Len(batch)] ==
                 IF n = 0 THEN Before ELSE Client!RunStatement(run[n - 1], batch[n])
  <1>1. \E f : Runs(batch, Len(batch), f)
    BY RunExists
  <1>2. run = [n \in 0 .. Len(batch) |->
                 IF n = 0 THEN Before ELSE Client!RunStatement(run[n - 1], batch[n])]
    BY <1>1 DEF Runs
  <1>3. Runs(batch, Len(batch), run)
    BY <1>2 DEF Runs
  <1>4. Client!Run(batch) = run[Len(batch)]
    BY DEF Client!Run, Before
  <1>5. QED
    BY <1>3, <1>4

\* What a run keeps, statement by statement: a success that ends checked is one, and a
\* run that has not failed brings no other path into rows that had none, as long as no
\* statement writes one unseen.
AllOf(rows) == \A i \in DOMAIN rows : rows[i] = row

RunInv(run, unseen) ==
    /\ run \in RunState
    /\ run.checked /\ ~run.failed => AllOf(run.rows)
    /\ Client!OnlyPlanned /\ ~run.failed /\ unseen = FALSE =>
          AllOf(run.rows) /\ (run.saved # Nothing => AllOf(run.saved))

LEMMA PlannedRows ==
    ASSUME config \in {Nothing, row}, NEW rows \in Rows, Client!AllPlanned(rows)
    PROVE  AllOf(rows)
  <1>1. \A i \in DOMAIN rows : rows[i] \in Path
    BY DEF Rows
  <1>2. QED
    BY <1>1, NothingAssumption DEF AllOf, Client!AllPlanned

LEMMA EffectIsRows ==
    ASSUME NEW rows \in Rows, NEW statement \in Client!Statement
    PROVE  Client!Effect(rows, statement) \in Rows
  <1>1. CASE statement.kind \in {"insert", "update"}
    <2>1. statement.path \in Path
      BY <1>1 DEF Client!Statement, Client!Writes, Client!Changes
    <2>2. QED
      BY <1>1, <2>1 DEF Client!Effect, Rows
  <1>2. CASE statement.kind \notin {"insert", "update"}
    BY <1>2 DEF Client!Effect, Rows
  <1>3. QED
    BY <1>1, <1>2

\* A statement that is not recognised but writes no other path leaves none behind.
LEMMA UnrecognisedEffect ==
    ASSUME NEW rows \in Rows, NEW statement \in Client!Statement, AllOf(rows),
           statement.form = "unrecognised", ~Client!Unseen(statement)
    PROVE  AllOf(Client!Effect(rows, statement))
  <1>1. CASE statement.kind \in {"insert", "update"}
    <2>1. statement.path \in Path
      BY <1>1 DEF Client!Statement, Client!Writes, Client!Changes
    <2>2. statement.path = row
      BY <2>1, NothingAssumption DEF Client!Unseen
    <2>3. CASE statement.kind = "insert"
      <3>1. Client!Effect(rows, statement) = Append(rows, row)
        BY <2>2, <2>3 DEF Client!Effect
      <3>2. \A i \in DOMAIN Append(rows, row) : Append(rows, row)[i] = row
        BY DEF Rows, AllOf
      <3>3. QED
        BY <3>1, <3>2 DEF AllOf
    <2>4. CASE statement.kind = "update"
      BY <2>2, <2>4 DEF Client!Effect, AllOf
    <2>5. QED
      BY <1>1, <2>3, <2>4
  <1>2. CASE statement.kind = "delete"
    BY <1>2 DEF Client!Effect, AllOf
  <1>3. CASE statement.kind \notin {"insert", "update", "delete"}
    BY <1>3 DEF Client!Effect
  <1>4. QED
    BY <1>1, <1>2, <1>3

LEMMA ControlKeepsRunInv ==
    ASSUME NEW run, NEW statement, NEW unseen \in BOOLEAN, RunInv(run, unseen)
    PROVE  RunInv(Client!Control(run, statement), unseen)
  <1>1. CASE statement.kind = "begin" /\ run.saved = Nothing
    <2>1. Client!Control(run, statement) = [run EXCEPT !.saved = run.rows]
      BY <1>1 DEF Client!Control
    <2>2. QED
      BY <2>1 DEF RunInv, RunState
  <1>2. CASE statement.kind = "commit"
    <2>1. Client!Control(run, statement) = [run EXCEPT !.saved = Nothing]
      BY <1>2 DEF Client!Control
    <2>2. QED
      BY <2>1 DEF RunInv, RunState
  <1>3. CASE statement.kind = "rollback" /\ run.saved # Nothing
    <2>1. Client!Control(run, statement)
              = [run EXCEPT !.rows = run.saved, !.saved = Nothing, !.checked = FALSE]
      BY <1>3 DEF Client!Control
    <2>2. QED
      BY <1>3, <2>1 DEF RunInv, RunState
  <1>4. CASE /\ ~(statement.kind = "begin" /\ run.saved = Nothing)
             /\ statement.kind # "commit"
             /\ ~(statement.kind = "rollback" /\ run.saved # Nothing)
    <2>1. Client!Control(run, statement) = [run EXCEPT !.failed = TRUE]
      BY <1>4 DEF Client!Control
    <2>2. QED
      BY <2>1 DEF RunInv, RunState
  <1>5. QED
    BY <1>1, <1>2, <1>3, <1>4

LEMMA StatementKeepsRunInv ==
    ASSUME config \in {Nothing, row}, NEW run, NEW unseen \in BOOLEAN, RunInv(run, unseen),
           NEW statement \in Client!Statement, Client!Unseen(statement) => unseen
    PROVE  RunInv(Client!RunStatement(run, statement), unseen)
  <1>1. CASE run.failed \/ statement.kind = "query"
    BY <1>1 DEF Client!RunStatement
  <1>2. CASE /\ ~(run.failed \/ statement.kind = "query")
             /\ statement.kind \in {"begin", "commit", "rollback"}
    BY <1>2, ControlKeepsRunInv DEF Client!RunStatement
  <1>3. CASE /\ ~(run.failed \/ statement.kind = "query")
             /\ statement.kind \notin {"begin", "commit", "rollback"}
             /\ statement.form # "unrecognised"
    <2> DEFINE rows == Client!Effect(run.rows, statement)
               after == [run EXCEPT !.rows = rows, !.checked = TRUE,
                                    !.failed = ~Client!AllPlanned(rows)]
    <2>1. Client!RunStatement(run, statement) = after
      BY <1>3 DEF Client!RunStatement
    <2>2. rows \in Rows
      BY EffectIsRows DEF RunInv, RunState
    <2>3. Client!AllPlanned(rows) => AllOf(rows)
      BY <2>2, PlannedRows
    <2> HIDE DEF rows
    <2>4. Client!AllPlanned(rows) \in BOOLEAN
      BY DEF Client!AllPlanned
    <2>5. /\ after \in RunState
          /\ after.rows = rows
          /\ after.saved = run.saved
          /\ after.failed = ~Client!AllPlanned(rows)
      BY <2>2, <2>4 DEF RunInv, RunState
    <2>6. RunInv(after, unseen)
      BY <1>3, <2>3, <2>5 DEF RunInv
    <2>7. QED
      BY <2>1, <2>6
  <1>4. CASE /\ ~(run.failed \/ statement.kind = "query")
             /\ statement.kind \notin {"begin", "commit", "rollback"}
             /\ statement.form = "unrecognised"
    <2> DEFINE rows == Client!Effect(run.rows, statement)
               after == [run EXCEPT !.rows = rows, !.checked = FALSE]
    <2>1. Client!RunStatement(run, statement) = after
      BY <1>4 DEF Client!RunStatement
    <2>2. rows \in Rows
      BY EffectIsRows DEF RunInv, RunState
    <2>3. unseen = FALSE /\ AllOf(run.rows) => AllOf(rows)
      BY <1>4, UnrecognisedEffect DEF RunInv, RunState
    <2> HIDE DEF rows
    <2>4. /\ after \in RunState
          /\ after.rows = rows
          /\ after.saved = run.saved
          /\ after.failed = run.failed
          /\ after.checked = FALSE
      BY <2>2 DEF RunInv, RunState
    <2>5. RunInv(after, unseen)
      BY <1>4, <2>3, <2>4 DEF RunInv
    <2>6. QED
      BY <2>1, <2>5
  <1>5. QED
    BY <1>1, <1>2, <1>3, <1>4

\* Where a statement takes the snapshot from.
LEMMA SnapshotOfStatement ==
    ASSUME NEW run \in RunState, NEW statement
    PROVE  /\ Client!RunStatement(run, statement).saved \in {Nothing, run.saved, run.rows}
           /\ statement.kind \in {"insert", "other"} =>
                 Client!RunStatement(run, statement).saved = run.saved
  <1>1. CASE statement.kind \in {"begin", "commit", "rollback"}
    <2>1. Client!Control(run, statement).saved \in {Nothing, run.saved, run.rows}
      <3>1. CASE statement.kind = "begin" /\ run.saved = Nothing
        BY <3>1 DEF Client!Control, RunState
      <3>2. CASE statement.kind = "commit"
        BY <3>2 DEF Client!Control, RunState
      <3>3. CASE statement.kind = "rollback" /\ run.saved # Nothing
        BY <3>3 DEF Client!Control, RunState
      <3>4. CASE /\ ~(statement.kind = "begin" /\ run.saved = Nothing)
                 /\ statement.kind # "commit"
                 /\ ~(statement.kind = "rollback" /\ run.saved # Nothing)
        BY <3>4 DEF Client!Control, RunState
      <3>5. QED
        BY <3>1, <3>2, <3>3, <3>4
    <2>2. QED
      BY <1>1, <2>1 DEF Client!RunStatement
  <1>2. CASE statement.kind \notin {"begin", "commit", "rollback"}
    BY <1>2 DEF Client!RunStatement, RunState
  <1>3. QED
    BY <1>1, <1>2

LEMMA BatchType ==
    ASSUME NEW batch \in Client!Batch
    PROVE  /\ Len(batch) \in Nat
           /\ DOMAIN batch = 1 .. Len(batch)
           /\ \A k \in 1 .. Len(batch) : batch[k] \in Client!Statement
           /\ \A k \in 2 .. Len(batch) : batch[k].kind \in {"insert", "other"}
  <1>1. PICK n \in 1 .. MaxBatch : batch \in [1 .. n -> Client!Statement]
    BY DEF Client!Batch
  <1>2. n \in Nat
    BY BoundsAreNaturals
  <1>3. batch \in Seq(Client!Statement) /\ Len(batch) = n /\ DOMAIN batch = 1 .. n
    BY <1>1, <1>2
  <1>4. \A k \in DOMAIN batch \ {1} : batch[k].kind \in {"insert", "other"}
    BY DEF Client!Batch
  <1>5. QED
    BY <1>1, <1>2, <1>3, <1>4

\* What a whole batch keeps: its run, and the snapshot, which only its first statement
\* can have taken or given up.
LEMMA BatchKeepsRunInv ==
    ASSUME config \in {Nothing, row}, metadata \in Rows, saved \in Rows \cup {Nothing},
           NEW batch \in Client!Batch
    PROVE  /\ RunInv(Client!Run(batch), \E i \in DOMAIN batch : Client!Unseen(batch[i]))
           /\ Client!Run(batch).saved \in {Nothing, saved, metadata}
  <1> DEFINE N == Len(batch)
             unseen == \E i \in DOMAIN batch : Client!Unseen(batch[i])
  <1>1. /\ N \in Nat
        /\ DOMAIN batch = 1 .. N
        /\ \A k \in 1 .. N : batch[k] \in Client!Statement
        /\ \A k \in 2 .. N : batch[k].kind \in {"insert", "other"}
    BY BatchType
  <1>2. unseen \in BOOLEAN /\ \A k \in 1 .. N : Client!Unseen(batch[k]) => unseen
    BY <1>1
  <1> HIDE DEF N, unseen
  <1>run. PICK f : Runs(batch, N, f) /\ Client!Run(batch) = f[N]
    BY <1>1, RunUnfolds DEF N
  <1>3. f[0] = Before
    BY <1>1, <1>run DEF Runs
  <1>4. \A n \in 0 .. N - 1 : f[n + 1] = Client!RunStatement(f[n], batch[n + 1])
    BY <1>1, <1>run DEF Runs
  <1>5. Before \in RunState /\ Before.rows = metadata /\ Before.saved = saved
    BY DEF Before, RunState
  <1>6. RunInv(Before, unseen)
    BY <1>5 DEF RunInv, Before, AllOf, Client!OnlyPlanned
  <1> DEFINE Kept(n) == /\ RunInv(f[n], unseen)
                        /\ f[n].saved \in {Nothing, saved, metadata}
             S == {n \in 0 .. N : Kept(n)}
  <1>7. 0 \in S
    BY <1>1, <1>3, <1>5, <1>6
  <1>8. ASSUME NEW n \in 0 .. N - 1, n \in S
        PROVE  n + 1 \in S
    <2>1. /\ n + 1 \in 0 .. N
          /\ batch[n + 1] \in Client!Statement
          /\ n # 0 => batch[n + 1].kind \in {"insert", "other"}
      BY <1>1
    <2>2. Kept(n)
      BY <1>8
    <2>3. RunInv(f[n + 1], unseen)
      <3>1. Client!Unseen(batch[n + 1]) => unseen
        BY <1>1, <1>2
      <3>2. QED
        BY <1>4, <1>2, <2>1, <2>2, <3>1, StatementKeepsRunInv
    <2>4. f[n] \in RunState
      BY <2>2 DEF RunInv
    <2>5. QED
      <3>1. f[n + 1].saved \in {Nothing, saved, metadata}
        <4>1. CASE n = 0
          <5>1. f[1] = Client!RunStatement(Before, batch[1])
            BY <1>3, <1>4, <4>1
          <5>2. QED
            BY <1>5, <4>1, <5>1, SnapshotOfStatement
        <4>2. CASE n # 0
          BY <1>4, <2>1, <2>2, <2>4, <4>2, SnapshotOfStatement
        <4>3. QED
          BY <4>1, <4>2
      <3>2. QED
        BY <2>1, <2>3, <3>1
  <1>9. \A n \in 0 .. N : n \in S
    <2> HIDE DEF S
    <2>1. QED
      BY <1>1, <1>7, <1>8, UpTo
  <1>10. QED
    <2>1. N \in 0 .. N
      BY <1>1
    <2>2. RunInv(f[N], unseen) /\ f[N].saved \in {Nothing, saved, metadata}
      BY <1>9, <2>1
    <2>3. RunInv(Client!Run(batch), unseen)
      BY <1>run, <2>2
    <2>4. QED
      BY <1>run, <2>2, <2>3 DEF unseen

-----------------------------------------------------------------------------
(* The clients                                                             *)

\* Nobody uses a catalog that has no row, and an answer "checked" is still true when a
\* creation goes on.
ClientInv ==
    /\ metadata \in Rows /\ Len(metadata) =< MaxRows
    /\ saved \in Rows \cup {Nothing} /\ (saved # Nothing => Len(saved) =< MaxRows)
    /\ answer \in {"ok", "checked", "rejected", "failed"}
    /\ row = Nothing => metadata = <<>> /\ saved = Nothing /\ answer # "checked"
    /\ answer = "checked" => AllOf(metadata)

IInv == RegistryInv /\ ClientInv

\* The two things a step of a client promises.
Truthful ==
    /\ answer' = "rejected" => UNCHANGED <<metadata, saved>>
    /\ answer' = "checked" => \A i \in DOMAIN metadata' : metadata'[i] = row

KeepsOut ==
    answer' # "failed" /\ Client!OnlyPlanned /\ ~Client!OnlyPlanned' =>
        /\ \A batch \in Client!Batch :
              Client!Prepare(batch) => \E i \in DOMAIN batch : Client!Unseen(batch[i])
        /\ \/ \E p \in Path \ {row} : Client!AppendRows(p)
           \/ \E batch \in Client!Batch : Client!Prepare(batch)

\* What a batch leaves: a true answer, and the planned path everywhere unless it failed
\* or a statement of its own is unseen.
LEMMA BatchOutcome ==
    ASSUME IInv, row # Nothing, NEW batch \in Client!Batch, Client!Prepare(batch)
    PROVE  /\ ClientInv' /\ Truthful
           /\ answer' # "failed" /\ Client!OnlyPlanned /\ ~Client!OnlyPlanned' =>
                  \E i \in DOMAIN batch : Client!Unseen(batch[i])
  <1> DEFINE run == Client!Run(batch)
  <1> DEFINE unseen == \E i \in DOMAIN batch : Client!Unseen(batch[i])
  <1>1. RunInv(run, unseen) /\ run.saved \in {Nothing, saved, metadata}
    BY BatchKeepsRunInv DEF IInv, RegistryInv, ClientInv
  <1>2. /\ Len(run.rows) =< MaxRows
        /\ metadata' = run.rows
        /\ saved' = run.saved
        /\ answer' = IF run.failed THEN "failed" ELSE IF run.checked THEN "checked" ELSE "ok"
        /\ UNCHANGED <<row, config>>
    BY DEF Client!Prepare, Client!paths
  <1> HIDE DEF run, unseen
  <1>3. run \in RunState
    BY <1>1 DEF RunInv
  <1>4. answer' = "checked" => AllOf(metadata')
    BY <1>1, <1>2, <1>3 DEF RunInv, RunState
  <1>5. metadata' \in Rows /\ saved' \in Rows \cup {Nothing}
    BY <1>2, <1>3 DEF RunState
  <1>6. ClientInv'
    BY <1>1, <1>2, <1>4, <1>5 DEF IInv, ClientInv, AllOf
  <1>7. Truthful
    BY <1>2, <1>4 DEF Truthful, AllOf
  <1>8. answer' # "failed" /\ Client!OnlyPlanned /\ unseen = FALSE => Client!OnlyPlanned'
    BY <1>1, <1>2, <1>3 DEF RunInv, RunState, AllOf, Client!OnlyPlanned
  <1>9. unseen \in BOOLEAN
    BY DEF unseen
  <1>10. QED
    BY <1>6, <1>7, <1>8, <1>9 DEF unseen

LEMMA BatchStep ==
    ASSUME IInv, row # Nothing, NEW batch \in Client!Batch,
           Client!PrepareRejected(batch) \/ Client!Prepare(batch)
    PROVE  ClientInv' /\ Truthful /\ KeepsOut
  <1>1. CASE Client!PrepareRejected(batch)
    BY <1>1
       DEF Client!PrepareRejected, Client!paths, IInv, RegistryInv, ClientInv, Truthful,
           KeepsOut, Client!OnlyPlanned, AllOf
  <1>2. CASE Client!Prepare(batch)
    BY <1>2, BatchOutcome DEF KeepsOut
  <1>3. QED
    BY <1>1, <1>2

LEMMA AppendStep ==
    ASSUME IInv, row # Nothing, NEW p \in Path, Client!AppendRows(p)
    PROVE  ClientInv' /\ Truthful /\ KeepsOut
  <1>1. /\ Len(metadata) < MaxRows
        /\ metadata' = Append(metadata, p)
        /\ answer' = "ok"
        /\ UNCHANGED <<row, config, saved>>
    BY DEF Client!AppendRows, Client!paths
  <1>2. metadata' \in Rows /\ Len(metadata') = Len(metadata) + 1
    BY <1>1 DEF IInv, ClientInv, Rows
  <1>3. Len(metadata) \in Nat /\ MaxRows \in Nat
    BY BoundsAreNaturals DEF IInv, ClientInv, Rows
  <1>4. ClientInv'
    BY <1>1, <1>2, <1>3 DEF IInv, ClientInv
  <1>5. p = row /\ Client!OnlyPlanned => Client!OnlyPlanned'
    <2>1. p = row /\ AllOf(metadata) => AllOf(Append(metadata, p))
      BY DEF AllOf, IInv, ClientInv, Rows
    <2>2. QED
      BY <1>1, <2>1 DEF AllOf, Client!OnlyPlanned
  <1>6. KeepsOut
    BY <1>5, BatchOutcome DEF KeepsOut
  <1>7. Truthful
    BY <1>1 DEF Truthful
  <1>8. QED
    BY <1>4, <1>6, <1>7

LEMMA UseStep ==
    ASSUME IInv, Use
    PROVE  IInv' /\ Truthful /\ KeepsOut
  <1>1. UNCHANGED <<row, config>>
    BY DEF Use, Client!UseNext, Client!PrepareRejected, Client!Prepare, Client!AppendRows,
           Client!paths
  <1>2. RegistryInv'
    BY <1>1 DEF Use, creating, IInv, RegistryInv, Busy
  <1>3. ClientInv' /\ Truthful /\ KeepsOut
    BY BatchStep, AppendStep DEF Use, Client!UseNext
  <1>4. QED
    BY <1>2, <1>3 DEF IInv

\* The registry writes the row when nobody uses the catalog yet, and never again.
LEMMA AdministerStep ==
    ASSUME IInv, Administer
    PROVE  IInv' /\ Truthful /\ KeepsOut
  <1>1. RegistryInv' /\ RowStays
    BY RegistryStep DEF IInv, Administer
  <1>2. UNCHANGED <<metadata, answer, saved>>
    BY DEF Administer, using
  <1>3. ClientInv'
    <2>1. row # Nothing => row' = row
      BY <1>1 DEF RowStays
    <2>2. AllOf(metadata) => AllOf(metadata)' \/ row = Nothing
      BY <1>2, <2>1 DEF AllOf
    <2>3. QED
      BY <1>2, <2>1, <2>2 DEF IInv, ClientInv, RegistryInv
  <1>4. Truthful
    BY <1>2 DEF Truthful, IInv, ClientInv, AllOf
  <1>5. KeepsOut
    <2>1. CASE row = Nothing
      BY <1>2, <2>1 DEF KeepsOut, IInv, ClientInv, Client!OnlyPlanned
    <2>2. CASE row # Nothing
      BY <1>1, <1>2, <2>2 DEF KeepsOut, RowStays, Client!OnlyPlanned
    <2>3. QED
      BY <2>1, <2>2
  <1>6. QED
    BY <1>1, <1>3, <1>4, <1>5 DEF IInv

LEMMA Inductive ==
    Spec => []IInv
  <1>1. Init => IInv
    <2> SUFFICES ASSUME Init PROVE IInv
      OBVIOUS
    <2>1. RegistryInv
      BY DEF Init, Registry!Init, RegistryInv, Busy, Registry!Creation, Registry!Issuing
    <2>2. ClientInv
      BY BoundsAreNaturals DEF Init, Registry!Init, Client!UseInit, ClientInv, Rows
    <2>3. QED
      BY <2>1, <2>2 DEF IInv
  <1>2. IInv /\ [Next]_<<row, config, creating, using>> => IInv'
    <2> SUFFICES ASSUME IInv, [Next]_<<row, config, creating, using>> PROVE IInv'
      OBVIOUS
    <2>1. CASE Next
      BY <2>1, AdministerStep, UseStep DEF Next
    <2>2. CASE UNCHANGED <<row, config, creating, using>>
      BY <2>2 DEF IInv, RegistryInv, ClientInv, Busy, AllOf, creating, using
    <2>3. QED
      BY <2>1, <2>2
  <1>3. QED
    BY <1>1, <1>2, PTL DEF Spec

-----------------------------------------------------------------------------
(* Theorems                                                                *)

\* The variables of the registry, of the object and of its clients hold what their
\* columns say (CatalogDataPath!TypeOK).
THEOREM TypeCorrect ==
    Spec => []TypeOK
  <1>1. IInv => TypeOK
    <2> SUFFICES ASSUME IInv PROVE TypeOK
      OBVIOUS
    <2>1. Registry!TypeOK
      BY DEF IInv, RegistryInv, Registry!TypeOK
    <2>2. Len(metadata) \in Nat /\ MaxRows \in Nat
      BY BoundsAreNaturals DEF IInv, ClientInv, Rows
    <2>3. DOMAIN metadata \subseteq 1 .. MaxRows /\ \A i \in DOMAIN metadata : metadata[i] \in Path
      BY <2>2 DEF IInv, ClientInv, Rows
    <2>4. saved # Nothing => /\ DOMAIN saved \subseteq 1 .. MaxRows
                            /\ \A i \in DOMAIN saved : saved[i] \in Path
      <3>1. SUFFICES ASSUME saved # Nothing
                     PROVE  /\ DOMAIN saved \subseteq 1 .. MaxRows
                            /\ \A i \in DOMAIN saved : saved[i] \in Path
        OBVIOUS
      <3>2. saved \in Seq(Path) /\ Len(saved) =< MaxRows
        BY <3>1 DEF IInv, ClientInv, Rows
      <3>3. QED
        BY <2>2, <3>2
    <2>5. Client!TypeOK
      BY <2>3, <2>4 DEF IInv, RegistryInv, ClientInv, Client!TypeOK
    <2>6. QED
      BY <2>1, <2>5 DEF TypeOK
  <1>2. QED
    BY <1>1, Inductive, PTL

\* Of any number of creations of one catalog id, one at most is answered 201, and what
\* is under way or stored is that one's (CatalogRegistry.createCatalog).
THEOREM CreationHasOneWinner ==
    Spec => []OneWinner
  <1>1. IInv => OneWinner
    BY DEF IInv, RegistryInv, Busy, OneWinner, Registry!OneWinner
  <1>2. QED
    BY <1>1, Inductive, PTL

\* What a 201 promised is there, and stays whatever clients do: the row, the path of the
\* object and the credential (createCatalog, configureCatalog, createCredentialSync).
THEOREM CreatedCatalogsAreWhole ==
    Spec => []CreatedIsWhole
  <1>1. IInv => CreatedIsWhole
    BY DEF IInv, RegistryInv, Busy, CreatedIsWhole, Registry!CreatedIsWhole
  <1>2. QED
    BY <1>1, Inductive, PTL

\* The object never plans another path than the registry, whichever creations failed or
\* are still on their way (configureCatalog).
THEOREM ConfigurationAgrees ==
    Spec => []ConfigAgreesWithRow
  <1>1. IInv => ConfigAgreesWithRow
    BY DEF IInv, RegistryInv, ConfigAgreesWithRow, Registry!ConfigAgreesWithRow
  <1>2. QED
    BY <1>1, Inductive, PTL

LEMMA StepsKeepTheirPromises ==
    ASSUME IInv, [Next]_<<row, config, creating, using>>
    PROVE  [Truthful /\ KeepsOut]_Client!vars
  <1>1. CASE Next
    BY <1>1, AdministerStep, UseStep DEF Next
  <1>2. CASE UNCHANGED <<row, config, creating, using>>
    BY <1>2 DEF creating, using, Client!vars, Client!paths, Client!use
  <1>3. QED
    BY <1>1, <1>2

\* A batch that is answered "rejected" has changed nothing, and one whose success was
\* checked leaves only the planned path, however long it is and wherever its statements
\* stand (assertPlannedDuckLakeDataPath, validateExistingDuckLakeDataPaths).
THEOREM BatchesAreAnsweredTruly ==
    Spec => AnswersAreTrue
  <1>1. IInv /\ [Next]_<<row, config, creating, using>> =>
           [/\ answer' = "rejected" => UNCHANGED <<metadata, saved>>
            /\ answer' = "checked" => \A i \in DOMAIN metadata' : metadata'[i] = row]_Client!vars
    BY StepsKeepTheirPromises DEF Truthful
  <1>2. QED
    BY <1>1, Inductive, PTL DEF Spec, AnswersAreTrue, Client!AnswersAreTrue

\* Another path comes into a catalog only by an APPEND, by a statement whose text neither
\* check recognises, or with an error answer, whatever a transaction kept and brings back
\* (executeOne, isMutation, duckLakeDataPathValuesFromMetadataWrite).
THEOREM OtherPathsComeUnseenOnly ==
    Spec => OtherPathsComeUnseen
  <1>1. IInv /\ [Next]_<<row, config, creating, using>> => [KeepsOut]_Client!vars
    BY StepsKeepTheirPromises
  <1>2. QED
    BY <1>1, Inductive, PTL
       DEF Spec, OtherPathsComeUnseen, Client!OtherPathsComeUnseen, KeepsOut
=============================================================================
