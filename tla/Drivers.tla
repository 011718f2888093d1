------------------------------ MODULE Drivers -------------------------------
(***************************************************************************)
(* The drivers of the release storage (internal/release), as two tasks.    *)
(*                                                                         *)
(* SQL (sql_storage.go): several clients open the database at once, each   *)
(* creates or migrates the schema (ensureSchema) and then stores the next  *)
(* revision of a release.  The releases table has the primary key          *)
(* (namespace, name, revision); the version table has none.  In some       *)
(* databases a CREATE TABLE is not part of the transaction.                *)
(*                                                                         *)
(* The four drivers side by side (Secret, ConfigMap, SQL and memory): one  *)
(* caller makes, changes, stores and deletes the revisions of a release,   *)
(* the same calls go to every driver, and another client may write between *)
(* the read and the write of an update.  A record is its status and        *)
(* whether it is larger than a Secret may be; what else it holds goes with *)
(* it.  A record that does not decode is "torn".  Other objects of keramos *)
(* carry one of the labels and are not selected or skipped: they are left  *)
(* out.                                                                    *)
(***************************************************************************)
EXTENDS ClusterTask

CONSTANTS SqlClient,     \* who opens the SQL database
          MaxRevision    \* bound: the revisions the four drivers are given
ASSUME DriversAssumption == IsFiniteSet(SqlClient) /\ MaxRevision \in Nat

SchemaVersion == 1       \* sqlSchemaVersion

(* rows: status by revision; each client: where it is, the version it read *)
(* and the revision it works on; made: who was told it created a revision; *)
(* pruned: the revisions whose row was deleted.                            *)
SqlTask(tables, transactional) ==
    [kind |-> "sql", pc |-> "run", meta |-> "meta" \in tables, table |-> "table" \in tables,
     versions |-> IF "version" \in tables THEN 1 ELSE 0, transactional |-> transactional,
     rows |-> <<>>, at |-> [c \in SqlClient |-> "meta"], read |-> [c \in SqlClient |-> 0],
     rev |-> [c \in SqlClient |-> 0], made |-> {}, pruned |-> {}]

Goes(c, at) == [task EXCEPT !.at[c] = at]
SqlFails(c, from) == task.at[c] = from /\ task' = Goes(c, "failed") /\ TFault

CreateMeta(c) ==
    \/ task.at[c] = "meta" /\ task' = [Goes(c, "version") EXCEPT !.meta = TRUE] /\ TNoFault
    \/ SqlFails(c, "meta")

(* SELECT COALESCE(MAX(version), 0); the rows all hold 1.                  *)
MaxVersion == IF task.versions > 0 THEN 1 ELSE 0

ReadVersion(c) ==
    \/ /\ task.at[c] = "version" /\ TNoFault
       /\ task' = [Goes(c, IF MaxVersion >= SchemaVersion THEN "last" ELSE "migrate") EXCEPT !.read[c] = MaxVersion]
    \/ SqlFails(c, "version")

(* A transaction: the migration, the version and the commit.  What fails   *)
(* or crashes before the commit leaves at most the table behind.           *)
Migrate(c) ==
    /\ task.at[c] = "migrate"
    /\ \/ task' = [Goes(c, "version") EXCEPT !.table = TRUE, !.versions = @ + 1] /\ TNoFault
       \/ /\ TFault
          /\ \E t \in IF task.transactional THEN {task.table} ELSE {task.table, TRUE} :
               task' = [Goes(c, "failed") EXCEPT !.table = t]

(* History and Last: the row of the highest revision.                      *)
ReadLast(c) ==
    \/ /\ task.at[c] = "last" /\ task.table /\ TNoFault
       /\ task' = [Goes(c, "create") EXCEPT !.rev[c] = 1 + Max({0} \cup DOMAIN task.rows)]
    \/ SqlFails(c, "last")

Insert(c) == [r \in DOMAIN task.rows \cup {task.rev[c]} |->
                IF r = task.rev[c] THEN "pending" ELSE task.rows[r]]
(* Mutant: a row that is there is replaced.                                *)
UpsertRow(c) ==
    /\ task.at[c] = "create" /\ TNoFault
    /\ task' = [Goes(c, "update") EXCEPT !.rows = Insert(c), !.made = @ \cup {<<c, task.rev[c]>>}]
(* Create: refused by the primary key when the row is there; an error      *)
(* leaves open whether it was inserted.                                    *)
CreateRow(c) ==
    /\ task.at[c] = "create"
    /\ \/ /\ task.rev[c] \notin DOMAIN task.rows /\ TNoFault
          /\ task' = [Goes(c, "update") EXCEPT !.rows = Insert(c), !.made = @ \cup {<<c, task.rev[c]>>}]
       \/ task.rev[c] \in DOMAIN task.rows /\ task' = Goes(c, "failed") /\ TNoFault
       \/ /\ TFault
          /\ \E rows \in {task.rows} \cup (IF task.rev[c] \notin DOMAIN task.rows THEN {Insert(c)} ELSE {}) :
               task' = [Goes(c, "failed") EXCEPT !.rows = rows]

(* Update of the row one has created; no row is an error.                  *)
UpdateRow(c) ==
    \/ /\ task.at[c] = "update" /\ TNoFault
       /\ task' = IF task.rev[c] \in DOMAIN task.rows
                  THEN [Goes(c, "done") EXCEPT !.rows[task.rev[c]] = "deployed"] ELSE Goes(c, "failed")
    \/ SqlFails(c, "update")

(* Delete, by a client that prunes the older revisions.                    *)
DeleteRow(c) ==
    /\ task.at[c] = "done" /\ TNoFault
    /\ \E r \in DOMAIN task.rows :
         /\ r < task.rev[c]
         /\ task' = [task EXCEPT !.rows = [x \in DOMAIN @ \ {r} |-> @[x]], !.pruned = @ \cup {r}]

SqlEnds ==
    /\ \A c \in SqlClient : task.at[c] \in {"done", "failed"}
    /\ task' = [task EXCEPT !.pc = "ok"] /\ TNoFault

SqlTables == {{}, {"meta"}, {"meta", "table"}, {"meta", "table", "version"}}

SqlStep ==
    /\ task.kind = "sql" /\ task.pc = "run"
    /\ \/ SqlEnds
       \/ \E c \in SqlClient : CreateMeta(c) \/ ReadVersion(c) \/ Migrate(c) \/ ReadLast(c)
                               \/ CreateRow(c) \/ UpdateRow(c) \/ DeleteRow(c)

SqlSpec == /\ \E tables \in SqlTables, transactional \in BOOLEAN : task = SqlTask(tables, transactional)
           /\ tfaults = MaxTaskFaults /\ [][SqlStep]_taskVars

-----------------------------------------------------------------------------
(* ensureSchema and Create: a recorded version means the table is there,   *)
(* whoever opened the database first and whatever failed; a client with a  *)
(* storage can use it; and no two clients are told they created the same   *)
(* revision, unless its row was deleted in between: a client that read the *)
(* history before it was pruned creates the old revision again.            *)
SchemaBeforeRecords ==
    task.kind = "sql" =>
        /\ task.versions > 0 => task.meta /\ task.table
        /\ \A c \in SqlClient : task.at[c] \in {"last", "create", "update", "done"} => task.table
        /\ \A p, q \in task.made : p[2] = q[2] => p = q \/ p[2] \in task.pruned

-----------------------------------------------------------------------------
(* The drivers side by side.                                               *)

ClusterDriver == {"secret", "configmap"}
SharedDriver == ClusterDriver \cup {"sql"}
Driver == SharedDriver \cup {"memory"}
Limited == Driver \ {"sql"}                 \* Create and Update check maxSecretSize
Place == {"here", "there"}                  \* the namespace of the storage, and another
Revisions == 1..MaxRevision

NoRecord == [status |-> "none", large |-> FALSE]
Row(status, large) == [status |-> status, large |-> large]

(* rows: by place and revision; memory starts empty.  version: which of    *)
(* the writes, counted in writes, stored the row (resourceVersion); held:  *)
(* the caller's record; read: the versions an update has read; said: the   *)
(* last answers; told: the records by the answers.                         *)
DriverTask(rows, turns) ==
    [kind |-> "drivers", pc |-> "run", turns |-> turns,
     store |-> [d \in Driver |-> IF d = "memory" THEN <<>> ELSE [k \in DOMAIN rows |-> [row |-> rows[k], version |-> 0]]],
     held |-> NoRecord, rev |-> 0, updating |-> FALSE, read |-> [d \in ClusterDriver |-> -1],
     said |-> [d \in Driver |-> "nothing"],
     told |-> [d \in Driver |-> IF d = "memory" THEN <<>>
                                ELSE [k \in {x \in DOMAIN rows : rows[x].status # "torn"} |-> rows[k]]],
     raced |-> "never", large |-> FALSE, writes |-> 0]
Later == IF task.raced = "now" THEN "before" ELSE task.raced

Here(r) == <<"here", r>>
Takes(d) == d \notin Limited \/ ~task.held.large
Stored(store, k, row) ==
    [x \in DOMAIN store \cup {k} |-> IF x = k THEN [row |-> row, version |-> task.writes + 1] ELSE store[x]]
Without(f, k) == [x \in DOMAIN f \ {k} |-> f[x]]
(* What every answer says of a write of the held record.                   *)
Answer(ok, stores) ==
    [task EXCEPT !.turns = @ - 1, !.writes = @ + 1, !.said = [d \in Driver |-> IF ok[d] THEN "ok" ELSE "error"],
                 !.store = [d \in Driver |-> IF ok[d] THEN stores[d] ELSE @[d]],
                 !.told = [d \in Driver |-> IF ok[d] THEN [x \in DOMAIN @[d] \cup {Here(task.rev)} |->
                                               IF x = Here(task.rev) THEN task.held ELSE @[d][x]] ELSE @[d]],
                 !.large = @ \/ task.held.large]

Able == task.pc = "run" /\ ~task.updating /\ task.turns > 0

(* A caller builds a record, or changes the one it holds: the status of a  *)
(* release moves before it is written.                                     *)
NewRecord ==
    /\ Able /\ TNoFault
    /\ \E r \in Revisions, large \in BOOLEAN :
         task' = [task EXCEPT !.held = Row("pending", large), !.rev = r, !.raced = Later]
Move(row) == [row EXCEPT !.status = "deployed"]
(* Mutant: the memory driver keeps the caller's record.                    *)
ChangeShared ==
    /\ Able /\ task.held.status = "pending" /\ TNoFault
    /\ task' = [task EXCEPT !.held = Move(@),
                  !.store["memory"] = [k \in DOMAIN @ |-> IF k = Here(task.rev) THEN [@[k] EXCEPT !.row = Move(@)] ELSE @[k]]]
(* cloneRelease and Encode: the record stored is a copy.                   *)
ChangeHeld ==
    /\ Able /\ task.held.status = "pending" /\ TNoFault
    /\ task' = [task EXCEPT !.held = Move(@)]

(* Create, by name and revision.                                           *)
CreateRecord ==
    /\ Able /\ task.held # NoRecord /\ TNoFault
    /\ task' = [Answer([d \in Driver |-> Takes(d) /\ Here(task.rev) \notin DOMAIN task.store[d]],
                       [d \in Driver |-> Stored(task.store[d], Here(task.rev), task.held)]) EXCEPT !.raced = Later]

(* Update: the cluster drivers read the object and write it back, and the  *)
(* API server refuses the write of an older object; the others write.      *)
UpdateReads ==
    /\ Able /\ task.held # NoRecord /\ TNoFault
    /\ task' = [task EXCEPT !.updating = TRUE, !.raced = Later,
                  !.read = [d \in ClusterDriver |-> IF Takes(d) /\ Here(task.rev) \in DOMAIN task.store[d]
                                              THEN task.store[d][Here(task.rev)].version ELSE -1]]
(* Mutant: the write is not checked against what was read.                 *)
UpdateBlind(d) == IF d \in ClusterDriver THEN task.read[d] # -1 ELSE Takes(d) /\ Here(task.rev) \in DOMAIN task.store[d]
Updates(d) ==
    IF d \in ClusterDriver
    THEN /\ task.read[d] # -1 /\ Here(task.rev) \in DOMAIN task.store[d]
         /\ task.store[d][Here(task.rev)].version = task.read[d]
    ELSE Takes(d) /\ Here(task.rev) \in DOMAIN task.store[d]
UpdateWrites ==
    /\ task.pc = "run" /\ task.updating /\ TNoFault
    /\ task' = [Answer([d \in Driver |-> Updates(d)], [d \in Driver |-> Stored(task.store[d], Here(task.rev), task.held)])
                  EXCEPT !.updating = FALSE]

(* Another client updates or deletes the revision in between.              *)
OtherWrites ==
    /\ task.pc = "run" /\ task.updating /\ TFault
    /\ \E d \in SharedDriver : Here(task.rev) \in DOMAIN task.store[d]
    /\ \E gone \in BOOLEAN :
         task' = [task EXCEPT !.raced = "now", !.writes = @ + 1,
           !.store = [d \in Driver |->
              IF d = "memory" \/ Here(task.rev) \notin DOMAIN @[d] THEN @[d]
              ELSE IF gone THEN Without(@[d], Here(task.rev))
              ELSE [@[d] EXCEPT ![Here(task.rev)] = [row |-> Row("superseded", FALSE), version |-> task.writes + 1]]],
           !.told = [d \in Driver |->
              IF d = "memory" \/ Here(task.rev) \notin DOMAIN task.store[d] THEN @[d]
              ELSE IF gone THEN Without(@[d], Here(task.rev))
              ELSE [x \in DOMAIN @[d] \cup {Here(task.rev)} |->
                      IF x = Here(task.rev) THEN Row("superseded", FALSE) ELSE @[d][x]]]]

(* Delete: what is not there is deleted.                                   *)
DeleteRecord ==
    /\ Able /\ TNoFault
    /\ \E r \in Revisions :
         task' = [task EXCEPT !.turns = @ - 1, !.raced = Later, !.said = [d \in Driver |-> "ok"],
                    !.store = [d \in Driver |-> Without(@[d], Here(r))],
                    !.told = [d \in Driver |-> Without(@[d], Here(r))]]

(* Get or Last, to change a record that was stored before.                 *)
TakeRecord ==
    /\ Able /\ TNoFault
    /\ \E r \in Revisions :
         /\ \A d \in SharedDriver : Here(r) \in DOMAIN task.store[d] /\ task.store[d][Here(r)].row.status # "torn"
         /\ task' = [task EXCEPT !.rev = r, !.raced = Later, !.held = task.store["secret"][Here(r)].row]

DriversEnd == task.pc = "run" /\ ~task.updating /\ task' = [task EXCEPT !.pc = "ok"] /\ TNoFault

DriverStep ==
    /\ task.kind = "drivers"
    /\ \/ NewRecord \/ ChangeHeld \/ CreateRecord \/ UpdateReads \/ UpdateWrites
       \/ OtherWrites \/ DeleteRecord \/ TakeRecord \/ DriversEnd

(* What the shared stores may hold when the caller begins.                 *)
StoredRow == [status : {"pending", "deployed", "superseded", "torn"}, large : BOOLEAN]
DriverInputs == UNION {[keys -> StoredRow] : keys \in SUBSET (Place \X Revisions)}

DriverSpec == /\ \E rows \in DriverInputs, turns \in Nat : task = DriverTask(rows, turns)
              /\ tfaults = MaxTaskFaults /\ [][DriverStep]_taskVars

-----------------------------------------------------------------------------
(* History: what decodes, by revision.                                     *)
ByRevision(rows) ==
    LET revs == {r \in Revisions : Here(r) \in DOMAIN rows}
    IN [i \in 1..Cardinality(revs) |-> rows[Here(CHOOSE r \in revs : Cardinality({x \in revs : x <= r}) = i)]]
Decoded(d) ==
    [k \in {x \in DOMAIN task.store[d] : task.store[d][x].row.status # "torn"} |-> task.store[d][k].row]
HistoryOf(d) == ByRevision(Decoded(d))
(* Last                                                                    *)
LastOf(d) == IF HistoryOf(d) = <<>> THEN NoRecord ELSE Last(HistoryOf(d))
(* List of a namespace, or of all: the Secret driver merges what its two   *)
(* label queries find by the name of the Secret; memory knows no           *)
(* namespace.                                                              *)
Selected(d, places) == {k \in DOMAIN task.store[d] : k[1] \in places \/ d = "memory"}
Hidden(d, places) ==
    IF d # "secret" THEN {} ELSE {k \in Selected(d, places) : k[1] = "there" /\ Here(k[2]) \in Selected(d, places)}
ListedBy(d, places) == (Selected(d, places) \ Hidden(d, places)) \cap DOMAIN Decoded(d)

(* Storage: what a driver was told to keep is what it lists and what its   *)
(* history holds, in the order of the revisions, and a call it refused     *)
(* changed nothing; over all namespaces no revision of a release is lost   *)
(* in every one of them.                                                   *)
KeepsWhatItWasTold(d) ==
    LET mine == {k \in DOMAIN task.told[d] : k[1] = "here"} IN
    /\ ListedBy(d, {"here"}) = mine
    /\ HistoryOf(d) = ByRevision(task.told[d])
    /\ LastOf(d) = (IF mine = {} THEN NoRecord ELSE task.told[d][Here(Max({k[2] : k \in mine}))])
    /\ \A k \in DOMAIN task.told[d] : task.store[d][k].row = task.told[d][k]
                                     /\ (Here(k[2]) \notin DOMAIN task.store[d] => k \in ListedBy(d, Place))

(* Update: a cluster driver never undoes what another client wrote while   *)
(* it was updating; and the drivers answer alike unless a record is too    *)
(* large for all but one or an update was raced.                           *)
StoresAgree ==
    task.kind = "drivers" =>
        /\ \A d \in Driver : KeepsWhatItWasTold(d)
        /\ task.raced = "now" /\ ~task.updating =>
             \A d \in ClusterDriver : Here(task.rev) \notin DOMAIN task.store[d]
                               \/ task.store[d][Here(task.rev)].row.status = "superseded"
        /\ task.raced = "never" /\ ~task.large =>
             \A d, e \in SharedDriver : task.said[d] = task.said[e] /\ HistoryOf(d) = HistoryOf(e)

(* One driver at its schema, or the four side by side.                     *)
RecordsSpec == SqlSpec \/ DriverSpec

(* Storage: no driver serves a record before its tables are there, and all *)
(* keep what they were told to keep.                                       *)
RecordsAreKept == SchemaBeforeRecords /\ StoresAgree
=============================================================================
