---------------------------- MODULE DriverProofs ----------------------------
(***************************************************************************)
(* Proofs about the drivers of the release storage (Drivers): the schema   *)
(* of the SQL driver with any number of clients, and the four drivers side *)
(* by side under any sequence of calls.                                    *)
(***************************************************************************)
EXTENDS Drivers, FiniteSetTheorems, NaturalsInduction, WellFoundedInduction, TLAPS

(* A record of these fields: what an EXCEPT of it is can be computed.      *)
Fields(t, names) == t = [f \in names |-> t[f]]

-----------------------------------------------------------------------------
(* The schema of the SQL driver.                                           *)

SqlFields == {"kind", "pc", "meta", "table", "versions", "transactional", "rows", "at", "read", "rev", "made",
              "pruned"}
WithTable == {"last", "create", "update", "done"}

SqlShape == /\ Fields(task, SqlFields) /\ task.kind = "sql" /\ task.versions \in Nat
            /\ task.at = [c \in SqlClient |-> task.at[c]] /\ task.rows = [r \in DOMAIN task.rows |-> task.rows[r]]
            /\ \A c \in SqlClient : task.at[c] \in {"meta", "version", "migrate", "failed"} \cup WithTable
(* ensureSchema: the version table is made before anything else, and the   *)
(* releases table with the first version.                                  *)
SchemaReady == /\ task.versions > 0 => task.meta /\ task.table
               /\ \A c \in SqlClient : /\ task.at[c] \in WithTable \cup {"version", "migrate"} => task.meta
                                       /\ task.at[c] \in WithTable => task.table
(* Create: a revision somebody was told of is a row, or was one.           *)
RowsOfMade == /\ \A p \in task.made : p[2] \in DOMAIN task.rows \cup task.pruned
              /\ \A p, q \in task.made : p[2] = q[2] => p = q \/ p[2] \in task.pruned
SqlInv == SqlShape /\ SchemaReady /\ RowsOfMade

(* A step of a client: it makes no table go away, and no row but for good. *)
LEMMA SqlMoves ==
  ASSUME SqlInv, NEW c \in SqlClient, NEW s \in {"version", "migrate", "failed"} \cup WithTable,
         NEW new, Fields(task', SqlFields), task'.kind = task.kind, task'.at = [task.at EXCEPT ![c] = s],
         task.meta => task'.meta, task.table => task'.table, task'.versions \in Nat,
         task'.versions > 0 => task'.meta /\ task'.table,
         s \in WithTable \cup {"version", "migrate"} => task'.meta, s \in WithTable => task'.table,
         task'.rows = [r \in DOMAIN task'.rows |-> task'.rows[r]], task'.pruned = task.pruned,
         DOMAIN task.rows \subseteq DOMAIN task'.rows, task'.made = task.made \cup new,
         \A p \in new : p = <<c, task.rev[c]>> /\ p[2] \in DOMAIN task'.rows /\ p[2] \notin DOMAIN task.rows
  PROVE  SqlInv'
<1>1. task'.at[c] = s /\ \A d \in SqlClient : d # c => task'.at[d] = task.at[d]
  BY DEF SqlInv, SqlShape
<1>2. SqlShape'
  BY <1>1 DEF SqlInv, SqlShape
<1>3. SchemaReady'
  BY <1>1 DEF SqlInv, SchemaReady
<1>4. RowsOfMade'
  <2>1. \A p \in task.made : p[2] \in DOMAIN task.rows \cup task.pruned
    BY DEF SqlInv, RowsOfMade
  <2>2. \A p, q \in task.made : p[2] = q[2] => p = q \/ p[2] \in task.pruned
    BY DEF SqlInv, RowsOfMade
  <2>3. \A p \in task.made, q \in new : p[2] = q[2] => p[2] \in task.pruned
    BY <2>1
  <2>4. \A p, q \in new : p = q
    OBVIOUS
  <2> QED BY <2>1, <2>2, <2>3, <2>4 DEF RowsOfMade
<1> QED BY <1>2, <1>3, <1>4 DEF SqlInv

(* What every step of a client leaves as it is.                            *)
SameRows == task'.rows = task.rows /\ task'.pruned = task.pruned /\ task'.made = task.made
SameSchema == task'.meta = task.meta /\ task'.table = task.table /\ task'.versions = task.versions
Moves(c, s) == Fields(task', SqlFields) /\ task'.kind = task.kind /\ task'.at = [task.at EXCEPT ![c] = s]

(* A step of a client that leaves the rows alone.                          *)
LEMMA MovesOnly ==
  ASSUME SqlInv, NEW c \in SqlClient, NEW s \in {"version", "migrate", "failed"} \cup WithTable,
         Moves(c, s), SameRows, task.meta => task'.meta, task.table => task'.table, task'.versions \in Nat,
         task'.versions > 0 => task'.meta /\ task'.table,
         s \in WithTable \cup {"version", "migrate"} => task'.meta, s \in WithTable => task'.table
  PROVE  SqlInv'
<1> DEFINE new == {}
<1>1. task'.made = task.made \cup new
  BY DEF SameRows
<1>2. \A p \in new : p = <<c, task.rev[c]>> /\ p[2] \in DOMAIN task'.rows /\ p[2] \notin DOMAIN task.rows
  OBVIOUS
<1>3. task'.rows = [r \in DOMAIN task'.rows |-> task'.rows[r]] /\ DOMAIN task.rows \subseteq DOMAIN task'.rows
  BY DEF SqlInv, SqlShape, SameRows
<1> HIDE DEF new
<1> QED BY <1>1, <1>2, <1>3, SqlMoves DEF Moves, SameRows

(* A client whose call failed stops.                                       *)
LEMMA FailsSql ==
  ASSUME SqlInv, NEW c \in SqlClient, task' = Goes(c, "failed")
  PROVE  SqlInv'
<1>1. Moves(c, "failed") /\ SameSchema /\ SameRows
  BY DEF Goes, Moves, SameSchema, SameRows, SqlInv, SqlShape, Fields, SqlFields
<1>2. task.versions \in Nat /\ (task.versions > 0 => task.meta /\ task.table)
  BY DEF SqlInv, SqlShape, SchemaReady
<1> QED BY <1>1, <1>2, MovesOnly DEF SameSchema, WithTable

(* ensureSchema.                                                           *)
LEMMA EnsuresSchema ==
  ASSUME SqlInv, NEW c \in SqlClient, CreateMeta(c) \/ ReadVersion(c) \/ Migrate(c)
  PROVE  SqlInv'
<1>1. task.versions \in Nat /\ (task.versions > 0 => task.meta /\ task.table)
  BY DEF SqlInv, SqlShape, SchemaReady
<1>2. CASE task.at[c] = "meta" /\ task' = [Goes(c, "version") EXCEPT !.meta = TRUE]
  <2>1. /\ Moves(c, "version") /\ SameRows
        /\ task'.meta /\ task'.table = task.table /\ task'.versions = task.versions
    BY <1>2 DEF Goes, Moves, SameRows, SqlInv, SqlShape, Fields, SqlFields
  <2> HIDE <1>2
  <2> QED BY <1>1, <2>1, MovesOnly DEF WithTable
<1>3. ASSUME NEW s \in {"last", "migrate"}, s = (IF MaxVersion >= SchemaVersion THEN "last" ELSE "migrate"),
             task.at[c] = "version", task' = [Goes(c, s) EXCEPT !.read[c] = MaxVersion]
      PROVE  SqlInv'
  <2>1. Moves(c, s) /\ SameRows /\ SameSchema
    BY <1>3 DEF Goes, Moves, SameRows, SameSchema, SqlInv, SqlShape, Fields, SqlFields
  <2>2. task.meta /\ (s = "last" => task.table)
    BY <1>1, <1>3 DEF SqlInv, SchemaReady, MaxVersion, SchemaVersion
  <2> HIDE <1>3
  <2> QED BY <1>1, <2>1, <2>2, MovesOnly DEF SameSchema, WithTable
<1>4. CASE task.at[c] = "migrate" /\ task' = [Goes(c, "version") EXCEPT !.table = TRUE, !.versions = @ + 1]
  <2>1. /\ Moves(c, "version") /\ SameRows
        /\ task'.meta = task.meta /\ task'.table /\ task'.versions = task.versions + 1
    BY <1>4 DEF Goes, Moves, SameRows, SqlInv, SqlShape, Fields, SqlFields
  <2>2. task.meta
    BY <1>4 DEF SqlInv, SchemaReady
  <2> HIDE <1>4
  <2> QED BY <1>1, <2>1, <2>2, MovesOnly DEF WithTable
<1>5. ASSUME NEW t \in {task.table, TRUE}, task' = [Goes(c, "failed") EXCEPT !.table = t]
      PROVE  SqlInv'
  <2>1. /\ Moves(c, "failed") /\ SameRows
        /\ task'.meta = task.meta /\ task'.table = t /\ task'.versions = task.versions
    BY <1>5 DEF Goes, Moves, SameRows, SqlInv, SqlShape, Fields, SqlFields
  <2>2. task.table => t
    OBVIOUS
  <2> HIDE <1>5
  <2> QED BY <1>1, <2>1, <2>2, MovesOnly DEF WithTable
<1>6. CASE CreateMeta(c)
  BY <1>2, <1>6, FailsSql, Zenon DEF CreateMeta, SqlFails
<1>7. CASE ReadVersion(c)
  <2>1. (IF MaxVersion >= SchemaVersion THEN "last" ELSE "migrate") \in {"last", "migrate"}
    OBVIOUS
  <2> QED BY <1>3, <1>7, <2>1, FailsSql, Zenon DEF ReadVersion, SqlFails
<1>8. CASE Migrate(c)
  BY <1>4, <1>5, <1>8, Zenon DEF Migrate
<1> QED BY <1>6, <1>7, <1>8

(* Create, Update and Delete.                                              *)
LEMMA StoresRow ==
  ASSUME SqlInv, NEW c \in SqlClient, ReadLast(c) \/ CreateRow(c) \/ UpdateRow(c)
  PROVE  SqlInv'
<1>1. task.versions \in Nat /\ (task.versions > 0 => task.meta /\ task.table)
  BY DEF SqlInv, SqlShape, SchemaReady
<1>a. task.at[c] \in WithTable => task.meta /\ task.table
  BY DEF SqlInv, SchemaReady
<1>2. ASSUME NEW n, task.at[c] = "last", task' = [Goes(c, "create") EXCEPT !.rev[c] = n]
      PROVE  SqlInv'
  <2>1. Moves(c, "create") /\ SameRows /\ SameSchema
    BY <1>2 DEF Goes, Moves, SameRows, SameSchema, SqlInv, SqlShape, Fields, SqlFields
  <2>2. task.meta /\ task.table
    BY <1>a, <1>2 DEF WithTable
  <2> HIDE <1>2
  <2> QED BY <1>1, <2>1, <2>2, MovesOnly DEF SameSchema, WithTable
<1> DEFINE rows == Insert(c)
<1>3. task.rev[c] \notin DOMAIN task.rows =>
        /\ rows = [r \in DOMAIN rows |-> rows[r]] /\ DOMAIN task.rows \subseteq DOMAIN rows
        /\ task.rev[c] \in DOMAIN rows
  BY DEF Insert
<1> HIDE DEF rows
<1>4. CASE /\ task.at[c] = "create" /\ task.rev[c] \notin DOMAIN task.rows
           /\ task' = [Goes(c, "update") EXCEPT !.rows = rows, !.made = @ \cup {<<c, task.rev[c]>>}]
  <2> DEFINE new == {<<c, task.rev[c]>>}
  <2>1. /\ Moves(c, "update") /\ SameSchema /\ task'.pruned = task.pruned
        /\ task'.rows = rows /\ task'.made = task.made \cup new
    BY <1>4 DEF Goes, Moves, SameSchema, SqlInv, SqlShape, Fields, SqlFields
  <2>2. task.meta /\ task.table /\ task.rev[c] \notin DOMAIN task.rows
    BY <1>a, <1>4 DEF WithTable
  <2> HIDE <1>4
  <2>3. \A p \in new : p = <<c, task.rev[c]>> /\ p[2] \in DOMAIN task'.rows /\ p[2] \notin DOMAIN task.rows
    BY <1>3, <2>1, <2>2
  <2>4. task'.rows = [r \in DOMAIN task'.rows |-> task'.rows[r]] /\ DOMAIN task.rows \subseteq DOMAIN task'.rows
    BY <1>3, <2>1, <2>2
  <2>5. task'.meta /\ task'.table /\ task'.versions \in Nat
    BY <1>1, <2>1, <2>2 DEF SameSchema
  <2> HIDE DEF new
  <2> QED BY <2>1, <2>3, <2>4, <2>5, SqlMoves DEF Moves, WithTable
<1>5. CASE /\ task.rev[c] \notin DOMAIN task.rows
           /\ task' = [Goes(c, "failed") EXCEPT !.rows = rows]
  <2> DEFINE new == {}
  <2>1. /\ Moves(c, "failed") /\ SameSchema /\ task'.pruned = task.pruned
        /\ task'.rows = rows /\ task'.made = task.made \cup new
    BY <1>5 DEF Goes, Moves, SameSchema, SqlInv, SqlShape, Fields, SqlFields
  <2>2. \A p \in new : p = <<c, task.rev[c]>> /\ p[2] \in DOMAIN task'.rows /\ p[2] \notin DOMAIN task.rows
    OBVIOUS
  <2>3. task.rev[c] \notin DOMAIN task.rows
    BY <1>5
  <2>4. task'.rows = [r \in DOMAIN task'.rows |-> task'.rows[r]] /\ DOMAIN task.rows \subseteq DOMAIN task'.rows
    BY <1>3, <2>1, <2>3
  <2>5. /\ task'.versions \in Nat /\ (task.meta => task'.meta) /\ (task.table => task'.table)
        /\ task'.versions > 0 => task'.meta /\ task'.table
    BY <1>1, <2>1 DEF SameSchema
  <2> HIDE <1>5 DEF new
  <2> QED BY <2>1, <2>2, <2>4, <2>5, SqlMoves DEF Moves, WithTable
<1>6. CASE task' = [Goes(c, "failed") EXCEPT !.rows = task.rows]
  <2>1. Moves(c, "failed") /\ SameRows /\ SameSchema
    BY <1>6 DEF Goes, Moves, SameRows, SameSchema, SqlInv, SqlShape, Fields, SqlFields
  <2> HIDE <1>6
  <2> QED BY <1>1, <2>1, MovesOnly DEF SameSchema, WithTable
<1>7. CASE /\ task.at[c] = "update" /\ task.rev[c] \in DOMAIN task.rows
           /\ task' = [Goes(c, "done") EXCEPT !.rows[task.rev[c]] = "deployed"]
  <2> DEFINE new == {}
             updated == [task.rows EXCEPT ![task.rev[c]] = "deployed"]
  <2>1. /\ Moves(c, "done") /\ SameSchema /\ task'.pruned = task.pruned
        /\ task'.rows = updated /\ task'.made = task.made \cup new
    BY <1>7 DEF Goes, Moves, SameSchema, SqlInv, SqlShape, Fields, SqlFields
  <2>2. \A p \in new : p = <<c, task.rev[c]>> /\ p[2] \in DOMAIN task'.rows /\ p[2] \notin DOMAIN task.rows
    OBVIOUS
  <2>3. task.meta /\ task.table
    BY <1>a, <1>7 DEF WithTable
  <2>4. task'.rows = [r \in DOMAIN task'.rows |-> task'.rows[r]] /\ DOMAIN task.rows \subseteq DOMAIN task'.rows
    BY <2>1 DEF SqlInv, SqlShape
  <2>5. task'.meta /\ task'.table /\ task'.versions \in Nat
    BY <1>1, <2>1, <2>3 DEF SameSchema
  <2> HIDE <1>7 DEF new, updated
  <2> QED BY <2>1, <2>2, <2>4, <2>5, SqlMoves DEF Moves, WithTable
<1>8. CASE ReadLast(c)
  BY <1>2, <1>8, FailsSql, Zenon DEF ReadLast, SqlFails
<1>9. CASE CreateRow(c)
  <2>1. \A r \in {task.rows} \cup (IF task.rev[c] \notin DOMAIN task.rows THEN {Insert(c)} ELSE {}) :
           r = task.rows \/ (task.rev[c] \notin DOMAIN task.rows /\ r = Insert(c))
    OBVIOUS
  <2> QED BY <1>4, <1>5, <1>6, <1>9, <2>1, FailsSql, Zenon DEF CreateRow, rows
<1>10. CASE UpdateRow(c)
  <2>1. CASE task.rev[c] \in DOMAIN task.rows
    BY <1>7, <1>10, <2>1, FailsSql, Zenon DEF UpdateRow, SqlFails
  <2>2. CASE task.rev[c] \notin DOMAIN task.rows
    BY <1>10, <2>2, FailsSql, Zenon DEF UpdateRow, SqlFails
  <2> QED BY <2>1, <2>2
<1> QED BY <1>8, <1>9, <1>10

(* Delete, by a client that prunes.                                        *)
LEMMA PrunesRow ==
  ASSUME SqlInv, NEW c \in SqlClient, DeleteRow(c)
  PROVE  SqlInv'
<1> DEFINE Pruned(r) == [x \in DOMAIN task.rows \ {r} |-> task.rows[x]]
<1>1. PICK r \in DOMAIN task.rows : task' = [task EXCEPT !.rows = Pruned(r), !.pruned = @ \cup {r}]
  BY Zenon DEF DeleteRow
<1> HIDE DEF Pruned
<1>2. /\ Fields(task', SqlFields) /\ task'.kind = task.kind /\ task'.at = task.at /\ SameSchema
      /\ task'.made = task.made /\ task'.rows = Pruned(r)
      /\ task'.pruned = task.pruned \cup {r}
  BY <1>1 DEF SameSchema, SqlInv, SqlShape, Fields, SqlFields
<1> HIDE <1>1
<1>3. SqlShape' /\ SchemaReady'
  BY <1>2 DEF Pruned, SameSchema, SqlInv, SqlShape, SchemaReady
<1>4. RowsOfMade'
  BY <1>2 DEF Pruned, SqlInv, RowsOfMade
<1> QED BY <1>3, <1>4 DEF SqlInv

(* Every step keeps the invariant.                                         *)
LEMMA SqlNext == SqlInv /\ [SqlStep]_taskVars => SqlInv'
<1> SUFFICES ASSUME SqlInv, [SqlStep]_taskVars PROVE SqlInv'
  OBVIOUS
<1>1. CASE UNCHANGED taskVars
  BY <1>1 DEF taskVars, SqlInv, SqlShape, SchemaReady, RowsOfMade
<1>2. CASE SqlEnds
  <2>1. /\ Fields(task', SqlFields) /\ task'.kind = task.kind /\ task'.at = task.at /\ SameSchema /\ SameRows
    BY <1>2 DEF SqlEnds, SameSchema, SameRows, SqlInv, SqlShape, Fields, SqlFields
  <2> QED BY <2>1 DEF SameSchema, SameRows, SqlInv, SqlShape, SchemaReady, RowsOfMade
<1> QED BY <1>1, <1>2, EnsuresSchema, StoresRow, PrunesRow DEF SqlStep

(* A version is in the database only with its tables.                      *)
LEMMA SqlBegin ==
  ASSUME NEW tables \in SqlTables, NEW transactional \in BOOLEAN, task = SqlTask(tables, transactional)
  PROVE  SqlInv
<1>1. Fields(task, SqlFields) /\ task.kind = "sql"
  BY DEF SqlTask, Fields, SqlFields
<1>2. /\ task.versions = (IF "version" \in tables THEN 1 ELSE 0) /\ task.rows = <<>> /\ task.made = {}
      /\ task.at = [c \in SqlClient |-> "meta"]
      /\ "version" \in tables => task.meta /\ task.table
  BY DEF SqlTask, SqlTables
<1> QED BY <1>1, <1>2 DEF SqlInv, SqlShape, SchemaReady, RowsOfMade, WithTable

(* It holds from the first step on.                                        *)
LEMMA SqlAlways == SqlSpec => []SqlInv
<1>1. (\E tables \in SqlTables, transactional \in BOOLEAN : task = SqlTask(tables, transactional)) => SqlInv
  BY SqlBegin
<1> QED BY <1>1, SqlNext, PTL DEF SqlSpec

(* The invariant is enough.                                                *)
LEMMA SqlPromise == SqlInv => SchemaBeforeRecords
BY DEF SqlInv, SchemaReady, RowsOfMade, SchemaBeforeRecords, WithTable

(* ensureSchema, Create, Update: however many clients open the database at *)
(* once, and whatever fails, no client works on a database without its     *)
(* tables and no revision is handed out twice.                             *)
THEOREM SchemaFirst == SqlSpec => []SchemaBeforeRecords
BY SqlAlways, SqlPromise, PTL

-----------------------------------------------------------------------------
(* The drivers side by side.                                               *)

DriverFields == {"kind", "pc", "turns", "store", "held", "rev", "updating", "read", "said", "told", "raced",
                 "large", "writes"}
IsRow(row) == Fields(row, {"status", "large"})
Keys == Place \X Revisions

(* What of a store decodes.                                                *)
Dec(store) == [k \in {x \in DOMAIN store : store[x].row.status # "torn"} |-> store[k].row]
Also(f, k, row) == [x \in DOMAIN f \cup {k} |-> IF x = k THEN row ELSE f[x]]
(* A store of one driver: its keys, its rows and the writes they are from. *)
GoodStore(d, store, writes) ==
    /\ store = [k \in DOMAIN store |-> store[k]]
    /\ \A k \in DOMAIN store : /\ k \in Keys /\ IsRow(store[k].row)
                               /\ store[k].version \in Nat /\ store[k].version <= writes
                               /\ d = "memory" => k[1] = "here"

DriversShape ==
    /\ Fields(task, DriverFields) /\ task.kind = "drivers" /\ task.writes \in Nat
    /\ task.store = [d \in Driver |-> task.store[d]] /\ task.told = [d \in Driver |-> task.told[d]]
    /\ \A d \in Driver : GoodStore(d, task.store[d], task.writes)
    /\ IsRow(task.held) /\ task.held.status # "torn"
    /\ task.held # NoRecord => task.rev \in Revisions
(* What the answers said is what is stored and decodes.                    *)
ToldDecoded == \A d \in Driver : task.told[d] = Dec(task.store[d])
(* What another client has written is newer than what the update read.     *)
OthersNewer ==
    /\ task.updating => task.held # NoRecord
                        /\ \A d \in ClusterDriver : task.read[d] = -1 \/ task.read[d] \in 0 .. task.writes
    /\ task.raced = "now" => \A d \in ClusterDriver : Here(task.rev) \in DOMAIN task.store[d] =>
         /\ task.store[d][Here(task.rev)].row.status = "superseded"
         /\ task.store[d][Here(task.rev)].version # task.read[d]
(* The drivers answer alike.                                               *)
SameRecords(s, t) == DOMAIN s = DOMAIN t /\ \A k \in DOMAIN s : s[k].row = t[k].row
Alike ==
    /\ task.raced = "never" /\ ~task.large => \A d, e \in SharedDriver :
         task.said[d] = task.said[e] /\ SameRecords(task.store[d], task.store[e])
    /\ task.raced = "never" /\ task.updating => \A d \in ClusterDriver :
         task.read[d] = IF Takes(d) /\ Here(task.rev) \in DOMAIN task.store[d]
                        THEN task.store[d][Here(task.rev)].version ELSE -1
DriversInv == DriversShape /\ ToldDecoded /\ OthersNewer /\ Alike

(* What a write and a deletion do to what decodes.                         *)
LEMMA DecStored ==
  ASSUME NEW f, NEW k, NEW row, row.status # "torn"
  PROVE  Dec(Stored(f, k, row)) = Also(Dec(f), k, row)
<1> DEFINE g == Stored(f, k, row)
<1>1. DOMAIN g = DOMAIN f \cup {k} /\ g[k].row = row /\ \A x \in DOMAIN f : x # k => g[x] = f[x]
  BY DEF Stored
<1> HIDE DEF g
<1>2. DOMAIN Dec(g) = DOMAIN Dec(f) \cup {k} /\ \A x \in DOMAIN Dec(g) : Dec(g)[x] = IF x = k THEN row ELSE Dec(f)[x]
  BY <1>1 DEF Dec
<1>3. Dec(g) = [x \in DOMAIN Dec(g) |-> Dec(g)[x]]
  BY DEF Dec
<1> QED BY <1>2, <1>3 DEF g, Also

(* A write leaves a store of the same form.                                *)
LEMMA StoredWell ==
  ASSUME NEW d \in Driver, NEW f, GoodStore(d, f, task.writes), NEW k \in Keys, k[1] = "here",
         NEW row, IsRow(row), task.writes \in Nat
  PROVE  GoodStore(d, Stored(f, k, row), task.writes + 1) /\ GoodStore(d, f, task.writes + 1)
<1> DEFINE g == Stored(f, k, row)
<1>1. /\ DOMAIN g = DOMAIN f \cup {k} /\ g[k].row = row /\ g[k].version = task.writes + 1
      /\ \A x \in DOMAIN f : x # k => g[x] = f[x]
  BY DEF Stored
<1>a. g = [x \in DOMAIN g |-> g[x]]
  BY DEF Stored
<1> HIDE DEF g
<1>2. GoodStore(d, f, task.writes + 1)
  BY DEF GoodStore
<1>3. GoodStore(d, g, task.writes + 1)
  BY <1>1, <1>a, <1>2 DEF GoodStore
<1> QED BY <1>2, <1>3 DEF g

(* A deleted row does not decode, whatever it held.                        *)
LEMMA DecWithout ==
  ASSUME NEW f, NEW k
  PROVE  Dec(Without(f, k)) = Without(Dec(f), k)
BY DEF Dec, Without

(* A row that is replaced decodes as what replaced it.                     *)
LEMMA DecReplaced ==
  ASSUME NEW f, NEW k \in DOMAIN f, NEW new, f = [x \in DOMAIN f |-> f[x]], new.row.status # "torn"
  PROVE  Dec([f EXCEPT ![k] = new]) = Also(Dec(f), k, new.row)
<1> DEFINE g == [f EXCEPT ![k] = new]
<1>1. DOMAIN g = DOMAIN f /\ g[k] = new /\ \A x \in DOMAIN f : x # k => g[x] = f[x]
  OBVIOUS
<1> HIDE DEF g
<1>2. DOMAIN Dec(g) = DOMAIN Dec(f) \cup {k} /\ \A x \in DOMAIN Dec(g) : Dec(g)[x] = IF x = k THEN new.row ELSE Dec(f)[x]
  BY <1>1 DEF Dec
<1>3. Dec(g) = [x \in DOMAIN Dec(g) |-> Dec(g)[x]]
  BY DEF Dec
<1> QED BY <1>2, <1>3 DEF g, Also

(* A revision of this storage is one of its keys.                          *)
LEMMA HereIsKey == ASSUME NEW r \in Revisions PROVE Here(r) \in Keys /\ Here(r)[1] = "here" /\ Here(r)[2] = r
BY DEF Here, Keys, Place

(* A step that touches no store.                                           *)
LEMMA KeepsStores ==
  ASSUME DriversInv, Fields(task', DriverFields), task'.kind = task.kind, task'.store = task.store,
         task'.told = task.told, task'.said = task.said, task'.writes = task.writes, task'.large = task.large,
         IsRow(task'.held), task'.held.status # "torn", task'.held # NoRecord => task'.rev \in Revisions,
         task'.updating => task'.held # NoRecord
                        /\ \A d \in ClusterDriver : task'.read[d] = -1 \/ task'.read[d] \in 0 .. task.writes,
         task'.raced = "now" => task.raced = "now" /\ task'.rev = task.rev /\ task'.read = task.read,
         task'.raced = "never" => task.raced = "never",
         task'.raced = "never" /\ task'.updating => \A d \in ClusterDriver :
           task'.read[d] = IF (d \notin Limited \/ ~task'.held.large) /\ Here(task'.rev) \in DOMAIN task.store[d]
                           THEN task.store[d][Here(task'.rev)].version ELSE -1
  PROVE  DriversInv'
<1>1. DriversShape'
  BY DEF DriversInv, DriversShape
<1>2. ToldDecoded'
  BY DEF DriversInv, ToldDecoded
<1>3. OthersNewer'
  BY DEF DriversInv, OthersNewer
<1>4. Alike'
  BY DEF DriversInv, Alike, Takes
<1> QED BY <1>1, <1>2, <1>3, <1>4 DEF DriversInv

(* Get, Last, a new record, a changed one: no store changes.               *)
LEMMA CallerMoves ==
  ASSUME DriversInv, NewRecord \/ ChangeHeld \/ TakeRecord \/ DriversEnd
  PROVE  DriversInv'
<1>1. Later # "now" /\ (Later = "never" => task.raced = "never")
  BY DEF Later
<1>2. CASE NewRecord
  <2>1. ~task.updating
    BY <1>2 DEF NewRecord, Able
  <2>2. PICK r \in Revisions, large \in BOOLEAN :
          task' = [task EXCEPT !.held = Row("pending", large), !.rev = r, !.raced = Later]
    BY <1>2, Zenon DEF NewRecord
  <2> DEFINE row == Row("pending", large)
  <2>3. IsRow(row) /\ row.status # "torn"
    BY DEF IsRow, Row, Fields
  <2> HIDE DEF row
  <2>4. /\ Fields(task', DriverFields) /\ task'.kind = task.kind /\ task'.store = task.store
        /\ task'.told = task.told /\ task'.said = task.said /\ task'.writes = task.writes
        /\ task'.large = task.large /\ task'.updating = task.updating /\ task'.held = row
        /\ task'.rev = r /\ task'.raced = Later
    BY <2>2 DEF row, DriversInv, DriversShape, Fields, DriverFields
  <2> HIDE <2>2
  <2> QED BY <1>1, <2>1, <2>3, <2>4, KeepsStores
<1>3. CASE ChangeHeld
  <2>1. ~task.updating /\ task.held.status = "pending"
    BY <1>3 DEF ChangeHeld, Able
  <2> DEFINE row == Move(task.held)
  <2>2. IsRow(row) /\ row.status # "torn"
    BY DEF DriversInv, DriversShape, IsRow, Move, Fields
  <2>3. task.rev \in Revisions
    BY <2>1 DEF DriversInv, DriversShape, NoRecord
  <2> HIDE DEF row
  <2>4. /\ Fields(task', DriverFields) /\ task'.kind = task.kind /\ task'.store = task.store
        /\ task'.told = task.told /\ task'.said = task.said /\ task'.writes = task.writes
        /\ task'.large = task.large /\ task'.updating = task.updating /\ task'.held = row
        /\ task'.rev = task.rev /\ task'.raced = task.raced /\ task'.read = task.read
    BY <1>3 DEF row, ChangeHeld, DriversInv, DriversShape, Fields, DriverFields
  <2> QED BY <2>1, <2>2, <2>3, <2>4, KeepsStores
<1>4. CASE TakeRecord
  <2>1. ~task.updating
    BY <1>4 DEF TakeRecord, Able
  <2>2. PICK r \in Revisions :
          /\ \A d \in SharedDriver : Here(r) \in DOMAIN task.store[d] /\ task.store[d][Here(r)].row.status # "torn"
          /\ task' = [task EXCEPT !.rev = r, !.raced = Later, !.held = task.store["secret"][Here(r)].row]
    BY <1>4, Zenon DEF TakeRecord
  <2> DEFINE row == task.store["secret"][Here(r)].row
  <2>3. "secret" \in SharedDriver /\ "secret" \in Driver
    BY DEF SharedDriver, ClusterDriver, Driver
  <2>4. IsRow(row) /\ row.status # "torn"
    BY <2>2, <2>3 DEF DriversInv, DriversShape, GoodStore
  <2> HIDE DEF row
  <2>5. /\ Fields(task', DriverFields) /\ task'.kind = task.kind /\ task'.store = task.store
        /\ task'.told = task.told /\ task'.said = task.said /\ task'.writes = task.writes
        /\ task'.large = task.large /\ task'.updating = task.updating /\ task'.held = row
        /\ task'.rev = r /\ task'.raced = Later
    BY <2>2 DEF row, DriversInv, DriversShape, Fields, DriverFields
  <2> HIDE <2>2
  <2> QED BY <1>1, <2>1, <2>4, <2>5, KeepsStores
<1>5. CASE DriversEnd
  <2>1. ~task.updating
    BY <1>5 DEF DriversEnd
  <2>2. /\ Fields(task', DriverFields) /\ task'.kind = task.kind /\ task'.store = task.store
        /\ task'.told = task.told /\ task'.said = task.said /\ task'.writes = task.writes
        /\ task'.large = task.large /\ task'.updating = task.updating /\ task'.held = task.held
        /\ task'.rev = task.rev /\ task'.raced = task.raced /\ task'.read = task.read
    BY <1>5 DEF DriversEnd, DriversInv, DriversShape, Fields, DriverFields
  <2>3. IsRow(task.held) /\ task.held.status # "torn" /\ (task.held # NoRecord => task.rev \in Revisions)
    BY DEF DriversInv, DriversShape
  <2> QED BY <2>1, <2>2, <2>3, KeepsStores
<1> QED BY <1>2, <1>3, <1>4, <1>5

(* Update of a cluster driver reads the object first.                      *)
LEMMA UpdateBegins ==
  ASSUME DriversInv, UpdateReads
  PROVE  DriversInv'
<1>1. task.held # NoRecord /\ ~task.updating
  BY DEF UpdateReads, Able
<1>2. Later # "now" /\ (Later = "never" => task.raced = "never")
  BY DEF Later
<1> DEFINE read == [d \in ClusterDriver |-> IF Takes(d) /\ Here(task.rev) \in DOMAIN task.store[d]
                                            THEN task.store[d][Here(task.rev)].version ELSE -1]
<1>3. \A d \in ClusterDriver : read[d] = -1 \/ read[d] \in 0 .. task.writes
  <2>1. \A d \in ClusterDriver : Here(task.rev) \in DOMAIN task.store[d] =>
           task.store[d][Here(task.rev)].version \in 0 .. task.writes
    <3>1. task.writes \in Nat /\ \A d \in Driver : GoodStore(d, task.store[d], task.writes)
      BY DEF DriversInv, DriversShape
    <3>2. \A d \in ClusterDriver : d \in Driver
      BY DEF ClusterDriver, SharedDriver, Driver
    <3>3. \A d \in Driver : \A k \in DOMAIN task.store[d] :
             task.store[d][k].version \in Nat /\ task.store[d][k].version <= task.writes
      BY <3>1 DEF GoodStore
    <3> QED BY <3>1, <3>2, <3>3
  <2> QED BY <2>1
<1>4. \A d \in ClusterDriver :
        read[d] = IF (d \notin Limited \/ ~task.held.large) /\ Here(task.rev) \in DOMAIN task.store[d]
                  THEN task.store[d][Here(task.rev)].version ELSE -1
  BY DEF Takes
<1>5. task' = [task EXCEPT !.updating = TRUE, !.raced = Later, !.read = read]
  BY Zenon DEF UpdateReads
<1> HIDE DEF read
<1>6. /\ Fields(task', DriverFields) /\ task'.kind = task.kind /\ task'.store = task.store
      /\ task'.told = task.told /\ task'.said = task.said /\ task'.writes = task.writes
      /\ task'.large = task.large /\ task'.updating /\ task'.held = task.held
      /\ task'.rev = task.rev /\ task'.raced = Later /\ task'.read = read
  BY <1>5 DEF DriversInv, DriversShape, Fields, DriverFields
<1> HIDE <1>5
<1>7. IsRow(task.held) /\ task.held.status # "torn" /\ (task.held # NoRecord => task.rev \in Revisions)
  BY DEF DriversInv, DriversShape
<1> QED BY <1>1, <1>2, <1>3, <1>4, <1>6, <1>7, KeepsStores

(* A call that stores the held record, in the drivers that let it.         *)
LEMMA Answers ==
  ASSUME DriversInv, task.held # NoRecord, NEW ok,
         Fields(task', DriverFields), task'.kind = task.kind, task'.writes = task.writes + 1,
         task'.held = task.held, task'.rev = task.rev, ~task'.updating,
         task'.said = [d \in Driver |-> IF ok[d] THEN "ok" ELSE "error"],
         task'.store = [d \in Driver |-> task'.store[d]], task'.told = [d \in Driver |-> task'.told[d]],
         \A d \in Driver : task'.store[d] = IF ok[d] THEN Stored(task.store[d], Here(task.rev), task.held)
                                             ELSE task.store[d],
         \A d \in Driver : task'.told[d] = IF ok[d] THEN Also(task.told[d], Here(task.rev), task.held)
                                            ELSE task.told[d],
         task.large => task'.large, task'.raced = "never" => task.raced = "never",
         task'.raced = "never" /\ ~task'.large => \A d, e \in SharedDriver : ok[d] <=> ok[e],
         task'.raced = "now" => task.raced = "now" /\ task'.read = task.read /\ \A d \in ClusterDriver : ~ok[d]
  PROVE  DriversInv'
<1>1. task.rev \in Revisions /\ IsRow(task.held) /\ task.held.status # "torn"
  BY DEF DriversInv, DriversShape
<1>2. Here(task.rev) \in Keys /\ Here(task.rev)[1] = "here"
  BY <1>1, HereIsKey
<1> DEFINE new(d) == Stored(task.store[d], Here(task.rev), task.held)
<1>3. ASSUME NEW d \in Driver PROVE GoodStore(d, task'.store[d], task'.writes)
  <2>1. GoodStore(d, task.store[d], task.writes) /\ task.writes \in Nat
    BY DEF DriversInv, DriversShape
  <2>2. GoodStore(d, new(d), task.writes + 1) /\ GoodStore(d, task.store[d], task.writes + 1)
    BY <1>1, <1>2, <2>1, StoredWell
  <2>3. task'.store[d] = IF ok[d] THEN new(d) ELSE task.store[d]
    OBVIOUS
  <2> HIDE DEF new
  <2> QED BY <2>2, <2>3
<1>4. DriversShape'
  BY <1>3 DEF DriversInv, DriversShape
<1>5. ASSUME NEW d \in Driver PROVE task'.told[d] = Dec(task'.store[d])
  <2>1. task.told[d] = Dec(task.store[d])
    BY DEF DriversInv, ToldDecoded
  <2>2. CASE ~ok[d]
    BY <2>1, <2>2
  <2>3. CASE ok[d]
    <3>1. task'.store[d] = new(d)
      BY <2>3
    <3>2. task'.told[d] = Also(task.told[d], Here(task.rev), task.held)
      BY <2>3
    <3>3. Dec(new(d)) = Also(Dec(task.store[d]), Here(task.rev), task.held)
      BY <1>1, DecStored
    <3> HIDE DEF new
    <3> QED BY <2>1, <3>1, <3>2, <3>3
  <2> QED BY <2>2, <2>3
<1>6. ToldDecoded'
  BY <1>5 DEF ToldDecoded
<1>7. OthersNewer'
  <2>1. ClusterDriver \subseteq Driver
    BY DEF Driver, SharedDriver
  <2> QED BY <2>1 DEF DriversInv, OthersNewer
<1>8. Alike'
  <2> SUFFICES ASSUME task'.raced = "never", ~task'.large, NEW d \in SharedDriver, NEW e \in SharedDriver
               PROVE  task'.said[d] = task'.said[e] /\ SameRecords(task'.store[d], task'.store[e])
    BY DEF Alike
  <2>1. d \in Driver /\ e \in Driver
    BY DEF Driver
  <2>2. (ok[d] <=> ok[e]) /\ SameRecords(task.store[d], task.store[e])
    BY DEF DriversInv, Alike
  <2>3. task'.said[d] = task'.said[e]
    BY <2>1, <2>2
  <2>4. SameRecords(new(d), new(e))
    BY <2>2 DEF SameRecords, Stored
  <2>5. (ok[d] => task'.store[d] = new(d)) /\ (~ok[d] => task'.store[d] = task.store[d])
    BY <2>1
  <2>6. (ok[e] => task'.store[e] = new(e)) /\ (~ok[e] => task'.store[e] = task.store[e])
    BY <2>1
  <2> HIDE DEF new
  <2> QED BY <2>2, <2>3, <2>4, <2>5, <2>6
<1> QED BY <1>4, <1>6, <1>7, <1>8 DEF DriversInv

(* Create, and Update's write.                                             *)
LEMMA Writes ==
  ASSUME DriversInv, CreateRecord \/ UpdateWrites
  PROVE  DriversInv'
<1> DEFINE stores == [d \in Driver |-> Stored(task.store[d], Here(task.rev), task.held)]
           said(ok) == [d \in Driver |-> IF ok[d] THEN "ok" ELSE "error"]
           store(ok) == [d \in Driver |-> IF ok[d] THEN stores[d] ELSE task.store[d]]
           told(ok) == [d \in Driver |-> IF ok[d] THEN Also(task.told[d], Here(task.rev), task.held)
                                         ELSE task.told[d]]
           large == task.large \/ task.held.large
<1>1. \A ok : Answer(ok, stores) = [task EXCEPT !.turns = @ - 1, !.writes = @ + 1, !.said = said(ok),
                                               !.store = store(ok), !.told = told(ok), !.large = large]
  BY Zenon DEF Also, Answer, DriversInv, DriversShape, Fields, DriverFields
<1>2. ASSUME NEW ok
      PROVE  /\ store(ok) = [d \in Driver |-> store(ok)[d]] /\ told(ok) = [d \in Driver |-> told(ok)[d]]
             /\ \A d \in Driver : store(ok)[d] = IF ok[d] THEN Stored(task.store[d], Here(task.rev), task.held)
                                                 ELSE task.store[d]
             /\ \A d \in Driver : told(ok)[d] = IF ok[d] THEN Also(task.told[d], Here(task.rev), task.held)
                                                ELSE task.told[d]
  <2>1. \A d \in Driver : stores[d] = Stored(task.store[d], Here(task.rev), task.held)
    OBVIOUS
  <2> HIDE DEF stores
  <2>2. \A d \in Driver : store(ok)[d] = IF ok[d] THEN stores[d] ELSE task.store[d]
    OBVIOUS
  <2>3. store(ok) = [d \in Driver |-> store(ok)[d]]
    OBVIOUS
  <2>4. told(ok) = [d \in Driver |-> told(ok)[d]]
    OBVIOUS
  <2>5. \A d \in Driver : told(ok)[d] = IF ok[d] THEN Also(task.told[d], Here(task.rev), task.held)
                                          ELSE task.told[d]
    OBVIOUS
  <2> HIDE DEF store, told
  <2> QED BY <2>1, <2>2, <2>3, <2>4, <2>5
<1>3. task.large => large
  OBVIOUS
<1>4. ~large => ~task.held.large
  OBVIOUS
<1> HIDE DEF stores, said, store, told, large
<1>5. CASE CreateRecord
  <2> DEFINE ok == [d \in Driver |-> Takes(d) /\ Here(task.rev) \notin DOMAIN task.store[d]]
  <2>1. task' = [Answer(ok, stores) EXCEPT !.raced = Later] /\ task.held # NoRecord /\ ~task.updating
    BY <1>5, Zenon DEF CreateRecord, Able, stores
  <2>2. \A d \in Driver : ok[d] <=> Takes(d) /\ Here(task.rev) \notin DOMAIN task.store[d]
    OBVIOUS
  <2> HIDE DEF ok
  <2>3. task' = [[task EXCEPT !.turns = @ - 1, !.writes = @ + 1, !.said = said(ok), !.store = store(ok),
                             !.told = told(ok), !.large = large] EXCEPT !.raced = Later]
    BY <1>1, <2>1, Zenon
  <2>4. /\ Fields(task', DriverFields) /\ task'.kind = task.kind /\ task'.writes = task.writes + 1
        /\ task'.held = task.held /\ task'.rev = task.rev /\ task'.updating = task.updating
        /\ task'.said = said(ok) /\ task'.store = store(ok) /\ task'.told = told(ok)
        /\ task'.large = large /\ task'.raced = Later
    BY <2>3 DEF DriversInv, DriversShape, Fields, DriverFields
  <2> HIDE <2>3
  <2>5. task'.raced # "now" /\ (task'.raced = "never" => task.raced = "never")
    BY <2>4 DEF Later
  <2>6. ASSUME task'.raced = "never", ~task'.large, NEW d \in SharedDriver, NEW e \in SharedDriver
        PROVE  ok[d] <=> ok[e]
    <3>1. d \in Driver /\ e \in Driver /\ Takes(d) /\ Takes(e)
      BY <1>4, <2>4, <2>6 DEF Takes, Driver
    <3>2. SameRecords(task.store[d], task.store[e])
      BY <1>3, <2>4, <2>5, <2>6 DEF DriversInv, Alike
    <3> QED BY <2>2, <3>1, <3>2 DEF SameRecords
  <2>7. task.large => task'.large
    BY <1>3, <2>4
  <2>8. task'.said = [d \in Driver |-> IF ok[d] THEN "ok" ELSE "error"]
    BY <2>4 DEF said
  <2>10. /\ task'.store = [d \in Driver |-> task'.store[d]] /\ task'.told = [d \in Driver |-> task'.told[d]]
         /\ \A d \in Driver : task'.store[d] = IF ok[d] THEN Stored(task.store[d], Here(task.rev), task.held)
                                                ELSE task.store[d]
         /\ \A d \in Driver : task'.told[d] = IF ok[d] THEN Also(task.told[d], Here(task.rev), task.held)
                                               ELSE task.told[d]
    BY <1>2, <2>4
  <2> QED BY <2>1, <2>4, <2>5, <2>6, <2>7, <2>8, <2>10, Answers
<1>6. CASE UpdateWrites
  <2> DEFINE ok == [d \in Driver |-> Updates(d)]
  <2>1. task' = [Answer(ok, stores) EXCEPT !.updating = FALSE] /\ task.updating
    BY <1>6, Zenon DEF UpdateWrites, stores
  <2>2. \A d \in Driver : ok[d] <=> Updates(d)
    OBVIOUS
  <2> HIDE DEF ok
  <2>3. task' = [[task EXCEPT !.turns = @ - 1, !.writes = @ + 1, !.said = said(ok), !.store = store(ok),
                             !.told = told(ok), !.large = large] EXCEPT !.updating = FALSE]
    BY <1>1, <2>1, Zenon
  <2>4. /\ Fields(task', DriverFields) /\ task'.kind = task.kind /\ task'.writes = task.writes + 1
        /\ task'.held = task.held /\ task'.rev = task.rev /\ ~task'.updating /\ task'.read = task.read
        /\ task'.said = said(ok) /\ task'.store = store(ok) /\ task'.told = told(ok)
        /\ task'.large = large /\ task'.raced = task.raced
    BY <2>3 DEF DriversInv, DriversShape, Fields, DriverFields
  <2> HIDE <2>3
  <2>5. task.held # NoRecord
    BY <2>1 DEF DriversInv, OthersNewer
  <2>6. ASSUME task'.raced = "never", ~task'.large, NEW d \in SharedDriver, NEW e \in SharedDriver
        PROVE  ok[d] <=> ok[e]
    <3>1. d \in Driver /\ e \in Driver /\ Takes(d) /\ Takes(e)
      BY <1>4, <2>4, <2>6 DEF Takes, Driver
    <3>2. SameRecords(task.store[d], task.store[e])
      BY <1>3, <2>4, <2>6 DEF DriversInv, Alike
    <3>3. ASSUME NEW c \in SharedDriver, Takes(c) PROVE Updates(c) <=> Here(task.rev) \in DOMAIN task.store[c]
      <4>1. CASE c \in ClusterDriver
        <5>1. task.read[c] = IF Here(task.rev) \in DOMAIN task.store[c]
                             THEN task.store[c][Here(task.rev)].version ELSE -1
          BY <2>1, <2>4, <2>6, <3>3, <4>1 DEF DriversInv, Alike
        <5>2. Here(task.rev) \in DOMAIN task.store[c] => task.store[c][Here(task.rev)].version \in Nat
          BY DEF Driver, DriversInv, DriversShape, GoodStore
        <5> QED BY <4>1, <5>1, <5>2 DEF Updates
      <4> QED BY <3>3, <4>1 DEF Updates
    <3> QED BY <2>2, <3>1, <3>2, <3>3 DEF SameRecords
  <2>7. task.large => task'.large
    BY <1>3, <2>4
  <2>8. task'.said = [d \in Driver |-> IF ok[d] THEN "ok" ELSE "error"]
    BY <2>4 DEF said
  <2>9. task.raced = "now" => \A d \in ClusterDriver : ~ok[d]
    <3> SUFFICES ASSUME task.raced = "now", NEW d \in ClusterDriver PROVE ~ok[d]
      OBVIOUS
    <3>1. d \in Driver
      BY DEF Driver, SharedDriver
    <3> QED BY <2>2, <3>1 DEF Updates, DriversInv, OthersNewer
  <2>10. /\ task'.store = [d \in Driver |-> task'.store[d]] /\ task'.told = [d \in Driver |-> task'.told[d]]
         /\ \A d \in Driver : task'.store[d] = IF ok[d] THEN Stored(task.store[d], Here(task.rev), task.held)
                                                ELSE task.store[d]
         /\ \A d \in Driver : task'.told[d] = IF ok[d] THEN Also(task.told[d], Here(task.rev), task.held)
                                               ELSE task.told[d]
    BY <1>2, <2>4
  <2> QED BY <2>4, <2>5, <2>6, <2>7, <2>8, <2>9, <2>10, Answers
<1> QED BY <1>5, <1>6

(* Another client's update or deletion.                                    *)
Superseded == [row |-> Row("superseded", FALSE), version |-> task.writes + 1]
(* Its row is newer than all that was read.                                *)
LEMMA OthersMove ==
  ASSUME DriversInv, OtherWrites
  PROVE  DriversInv'
<1> DEFINE H == Here(task.rev)
           hit(d) == d # "memory" /\ H \in DOMAIN task.store[d]
           after(d, gone) == IF ~hit(d) THEN task.store[d] ELSE IF gone THEN Without(task.store[d], H)
                             ELSE [task.store[d] EXCEPT ![H] = Superseded]
           said(d, gone) == IF ~hit(d) THEN task.told[d] ELSE IF gone THEN Without(task.told[d], H)
                            ELSE Also(task.told[d], H, Row("superseded", FALSE))
           store(gone) == [d \in Driver |-> after(d, gone)]
           told(gone) == [d \in Driver |-> said(d, gone)]
<1>1. PICK gone \in BOOLEAN :
        task' = [task EXCEPT !.raced = "now", !.writes = @ + 1, !.store = store(gone), !.told = told(gone)]
  BY Zenon DEF OtherWrites, Superseded, Also
<1>2. /\ task.rev \in Revisions /\ task.updating /\ task.writes \in Nat
      /\ \A d \in ClusterDriver : task.read[d] = -1 \/ task.read[d] \in 0 .. task.writes
  BY DEF OtherWrites, DriversInv, DriversShape, OthersNewer
<1>3. H \in Keys /\ H[1] = "here"
  BY <1>2, HereIsKey
<1>4. /\ Superseded.row = Row("superseded", FALSE) /\ Superseded.version = task.writes + 1
      /\ IsRow(Row("superseded", FALSE)) /\ Row("superseded", FALSE).status = "superseded"
  BY DEF Superseded, Row, IsRow, Fields
<1>5. /\ store(gone) = [d \in Driver |-> store(gone)[d]] /\ told(gone) = [d \in Driver |-> told(gone)[d]]
      /\ \A d \in Driver : store(gone)[d] = after(d, gone) /\ told(gone)[d] = said(d, gone)
  <2> HIDE DEF after, said
  <2> QED OBVIOUS
<1> HIDE DEF store, told, Superseded
<1>6. /\ Fields(task', DriverFields) /\ task'.kind = task.kind /\ task'.writes = task.writes + 1
      /\ task'.held = task.held /\ task'.rev = task.rev /\ task'.updating = task.updating
      /\ task'.read = task.read /\ task'.raced = "now"
      /\ task'.store = store(gone) /\ task'.told = told(gone)
  BY <1>1 DEF DriversInv, DriversShape, Fields, DriverFields
<1> HIDE <1>1
<1>7. ASSUME NEW d \in Driver
      PROVE  /\ GoodStore(d, task'.store[d], task'.writes) /\ task'.told[d] = Dec(task'.store[d])
             /\ d \in ClusterDriver /\ H \in DOMAIN task'.store[d] =>
                  task'.store[d][H].row.status = "superseded" /\ task'.store[d][H].version # task'.read[d]
  <2> DEFINE f == task.store[d]
             less == Without(f, H)
             new == [f EXCEPT ![H] = Superseded]
  <2>1. GoodStore(d, f, task.writes) /\ task.told[d] = Dec(f) /\ f = [k \in DOMAIN f |-> f[k]]
    BY DEF DriversInv, DriversShape, ToldDecoded, GoodStore
  <2>2. task'.store[d] = after(d, gone) /\ task'.told[d] = said(d, gone)
    BY <1>5, <1>6
  <2>3. CASE ~hit(d)
    <3>1. task'.store[d] = f /\ task'.told[d] = Dec(f)
      BY <2>1, <2>2, <2>3
    <3>2. GoodStore(d, f, task.writes + 1)
      BY <1>2, <2>1 DEF GoodStore
    <3>3. d \in ClusterDriver => H \notin DOMAIN f
      BY <2>3 DEF ClusterDriver
    <3> HIDE DEF H, f, after, said
    <3> QED BY <1>6, <3>1, <3>2, <3>3
  <2>4. CASE hit(d) /\ gone
    <3>1. task'.store[d] = less /\ task'.told[d] = Without(Dec(f), H)
      BY <2>1, <2>2, <2>4
    <3>2. DOMAIN less = DOMAIN f \ {H} /\ less = [k \in DOMAIN less |-> less[k]] /\ \A k \in DOMAIN less : less[k] = f[k]
      BY DEF Without
    <3>3. Dec(less) = Without(Dec(f), H)
      BY DecWithout
    <3> HIDE DEF H, f, less, after, said
    <3>4. GoodStore(d, less, task.writes + 1)
      BY <1>2, <2>1, <3>2 DEF GoodStore
    <3> QED BY <1>6, <3>1, <3>2, <3>3, <3>4
  <2>5. CASE hit(d) /\ ~gone
    <3>1. task'.store[d] = new /\ task'.told[d] = Also(Dec(f), H, Row("superseded", FALSE)) /\ H \in DOMAIN f
      BY <2>1, <2>2, <2>5
    <3> HIDE DEF H, f, after, said
    <3>2. DOMAIN new = DOMAIN f /\ new[H] = Superseded /\ (\A k \in DOMAIN f : k # H => new[k] = f[k])
          /\ new = [k \in DOMAIN new |-> new[k]]
      BY <2>1, <3>1
    <3>3. Dec(new) = Also(Dec(f), H, Row("superseded", FALSE))
      <4>1. Superseded.row.status # "torn" /\ H \in DOMAIN f /\ f = [k \in DOMAIN f |-> f[k]]
        BY <1>4, <2>1, <3>1
      <4>2. Dec(new) = Also(Dec(f), H, Superseded.row)
        BY <4>1, DecReplaced, Zenon
      <4> QED BY <1>4, <4>2
    <3> HIDE DEF new
    <3>4. GoodStore(d, new, task.writes + 1)
      <4>1. GoodStore(d, f, task.writes + 1)
        BY <1>2, <2>1 DEF GoodStore
      <4>2. ASSUME NEW k \in DOMAIN f
            PROVE  /\ k \in Keys /\ IsRow(new[k].row) /\ new[k].version \in Nat
                   /\ new[k].version <= task.writes + 1 /\ (d = "memory" => k[1] = "here")
        <5>1. CASE k = H
          <6>1. new[k] = Superseded
            BY <3>2, <5>1
          <6>2. IsRow(new[k].row) /\ new[k].version = task.writes + 1
            BY <1>4, <6>1, Zenon
          <6> QED BY <1>2, <1>3, <5>1, <6>2
        <5>2. CASE k # H
          BY <3>2, <4>1, <5>2 DEF GoodStore
        <5> QED BY <5>1, <5>2
      <4> QED BY <3>2, <4>2 DEF GoodStore
    <3>5. d \in ClusterDriver => task.writes + 1 # task.read[d]
      BY <1>2
    <3> QED BY <1>4, <1>6, <3>1, <3>2, <3>3, <3>4, <3>5
  <2> QED BY <2>3, <2>4, <2>5
<1>8. DriversShape'
  BY <1>2, <1>5, <1>6, <1>7 DEF DriversInv, DriversShape
<1>9. ToldDecoded'
  BY <1>7 DEF ToldDecoded
<1>10. OthersNewer'
  <2>1. \A d \in ClusterDriver : d \in Driver
    BY DEF Driver, SharedDriver
  <2>2. task.held # NoRecord
    BY <1>2 DEF DriversInv, OthersNewer
  <2> QED BY <1>2, <1>6, <1>7, <2>1, <2>2 DEF OthersNewer
<1>11. Alike'
  BY <1>6 DEF Alike
<1> QED BY <1>8, <1>9, <1>10, <1>11 DEF DriversInv

(* Delete.                                                                 *)
LEMMA DeletesRecord ==
  ASSUME DriversInv, DeleteRecord
  PROVE  DriversInv'
<1> DEFINE said == [d \in Driver |-> "ok"]
           store(r) == [d \in Driver |-> Without(task.store[d], Here(r))]
           told(r) == [d \in Driver |-> Without(task.told[d], Here(r))]
<1>1. PICK r \in Revisions : task' = [task EXCEPT !.turns = @ - 1, !.raced = Later, !.said = said,
                                                !.store = store(r), !.told = told(r)]
  BY Zenon DEF DeleteRecord
<1>2. /\ store(r) = [d \in Driver |-> store(r)[d]] /\ told(r) = [d \in Driver |-> told(r)[d]]
      /\ \A d \in Driver : store(r)[d] = Without(task.store[d], Here(r)) /\ told(r)[d] = Without(task.told[d], Here(r))
      /\ \A d \in Driver : said[d] = "ok"
  OBVIOUS
<1> HIDE DEF store, told, said
<1>3. /\ Fields(task', DriverFields) /\ task'.kind = task.kind /\ task'.writes = task.writes
      /\ task'.held = task.held /\ task'.rev = task.rev /\ task'.updating = task.updating
      /\ task'.large = task.large /\ task'.raced = Later /\ task'.said = said
      /\ task'.store = store(r) /\ task'.told = told(r)
  BY <1>1 DEF DriversInv, DriversShape, Fields, DriverFields
<1> HIDE <1>1
<1>4. ~task.updating /\ Later # "now" /\ (Later = "never" => task.raced = "never")
  BY DEF DeleteRecord, Able, Later
<1>5. ASSUME NEW d \in Driver
      PROVE  GoodStore(d, task'.store[d], task'.writes) /\ task'.told[d] = Dec(task'.store[d])
  <2> DEFINE f == task.store[d]
             less == Without(f, Here(r))
  <2>1. GoodStore(d, f, task.writes) /\ task.told[d] = Dec(f)
    BY DEF DriversInv, DriversShape, ToldDecoded
  <2>2. DOMAIN less \subseteq DOMAIN f /\ less = [k \in DOMAIN less |-> less[k]] /\ \A k \in DOMAIN less : less[k] = f[k]
    BY DEF Without
  <2>3. Dec(less) = Without(Dec(f), Here(r))
    BY DecWithout
  <2>4. task'.store[d] = less /\ task'.told[d] = Without(Dec(f), Here(r))
    BY <1>2, <1>3, <2>1
  <2> HIDE DEF f, less
  <2> QED BY <1>3, <2>1, <2>2, <2>3, <2>4 DEF GoodStore
<1>6. DriversShape'
  BY <1>2, <1>3, <1>5 DEF DriversInv, DriversShape
<1>7. ToldDecoded'
  BY <1>5 DEF ToldDecoded
<1>8. OthersNewer'
  BY <1>3, <1>4 DEF OthersNewer
<1>9. Alike'
  <2> SUFFICES ASSUME task'.raced = "never", ~task'.large, NEW d \in SharedDriver, NEW e \in SharedDriver
               PROVE  task'.said[d] = task'.said[e] /\ SameRecords(task'.store[d], task'.store[e])
    BY <1>3, <1>4 DEF Alike
  <2>1. SameRecords(task.store[d], task.store[e])
    BY <1>3, <1>4 DEF DriversInv, Alike
  <2>2. d \in Driver /\ e \in Driver
    BY DEF Driver
  <2>3. SameRecords(Without(task.store[d], Here(r)), Without(task.store[e], Here(r)))
    BY <2>1 DEF SameRecords, Without
  <2> QED BY <1>2, <1>3, <2>2, <2>3
<1> QED BY <1>6, <1>7, <1>8, <1>9 DEF DriversInv

(* Every step keeps the invariant.                                         *)
LEMMA DriversNext == DriversInv /\ [DriverStep]_taskVars => DriversInv'
<1> SUFFICES ASSUME DriversInv, [DriverStep]_taskVars PROVE DriversInv'
  OBVIOUS
<1>1. CASE UNCHANGED taskVars
  BY <1>1 DEF taskVars, DriversInv, DriversShape, ToldDecoded, OthersNewer, Alike, Takes
<1> QED BY <1>1, CallerMoves, UpdateBegins, Writes, OthersMove, DeletesRecord DEF DriverStep

(* What decodes is what the caller is taken to know.                       *)
LEMMA DriversBegin ==
  ASSUME NEW rows \in DriverInputs, NEW turns \in Nat, task = DriverTask(rows, turns)
  PROVE  DriversInv
<1>1. /\ rows = [k \in DOMAIN rows |-> rows[k]] /\ DOMAIN rows \subseteq Keys
      /\ \A k \in DOMAIN rows : rows[k] \in StoredRow
  BY DEF DriverInputs, Keys
<1> DEFINE first == [k \in DOMAIN rows |-> [row |-> rows[k], version |-> 0]]
           known == [k \in {x \in DOMAIN rows : rows[x].status # "torn"} |-> rows[k]]
           store == [d \in Driver |-> IF d = "memory" THEN <<>> ELSE first]
           told == [d \in Driver |-> IF d = "memory" THEN <<>> ELSE known]
           read == [d \in ClusterDriver |-> -1]
           said == [d \in Driver |-> "nothing"]
<1>2. DOMAIN first = DOMAIN rows /\ first = [k \in DOMAIN first |-> first[k]]
      /\ \A k \in DOMAIN rows : first[k].row = rows[k] /\ first[k].version = 0
  OBVIOUS
<1>3. Dec(first) = known
  BY <1>2 DEF Dec
<1>4. DOMAIN <<>> = {} /\ <<>> = [k \in DOMAIN <<>> |-> <<>>[k]] /\ Dec(<<>>) = <<>>
  BY DEF Dec
<1>5. \A k \in DOMAIN rows : IsRow(rows[k])
  BY <1>1 DEF StoredRow, IsRow, Fields
<1> HIDE DEF first, known
<1>6. /\ \A d \in Driver : store[d] = (IF d = "memory" THEN <<>> ELSE first)
                          /\ told[d] = (IF d = "memory" THEN <<>> ELSE known)
      /\ store = [d \in Driver |-> store[d]] /\ told = [d \in Driver |-> told[d]]
      /\ \A d \in Driver : said[d] = "nothing"
  OBVIOUS
<1>7. task = [kind |-> "drivers", pc |-> "run", turns |-> turns, store |-> store, held |-> NoRecord, rev |-> 0,
              updating |-> FALSE, read |-> read, said |-> said, told |-> told, raced |-> "never",
              large |-> FALSE, writes |-> 0]
  BY Zenon DEF DriverTask, first, known
<1> HIDE DEF store, told, read, said
<1>8. /\ Fields(task, DriverFields) /\ task.kind = "drivers" /\ task.store = store /\ task.held = NoRecord
      /\ ~task.updating /\ task.said = said /\ task.told = told /\ task.raced = "never" /\ task.writes = 0
  BY <1>7 DEF Fields, DriverFields
<1> HIDE <1>7
<1>9. ASSUME NEW d \in Driver PROVE GoodStore(d, task.store[d], 0) /\ task.told[d] = Dec(task.store[d])
  <2>1. CASE d = "memory"
    BY <1>4, <1>6, <1>8, <2>1 DEF GoodStore
  <2>2. CASE d # "memory"
    BY <1>1, <1>2, <1>3, <1>5, <1>6, <1>8, <2>2 DEF GoodStore
  <2> QED BY <2>1, <2>2
<1>10. DriversShape
  <2>1. IsRow(NoRecord) /\ NoRecord.status # "torn"
    BY DEF NoRecord, IsRow, Fields
  <2> QED BY <1>6, <1>8, <1>9, <2>1 DEF DriversShape
<1>11. ToldDecoded /\ OthersNewer
  BY <1>8, <1>9 DEF ToldDecoded, OthersNewer
<1>12. Alike
  <2>1. \A d \in SharedDriver : d \in Driver /\ d # "memory"
    BY DEF Driver, SharedDriver, ClusterDriver
  <2> QED BY <1>6, <1>8, <2>1 DEF Alike, SameRecords
<1> QED BY <1>10, <1>11, <1>12 DEF DriversInv

(* A set of naturals that is not empty has a least element.                *)
LEMMA LeastOf ==
  ASSUME NEW S \in SUBSET Nat, S # {}
  PROVE  \E v \in S : \A w \in S : v <= w
<1>1. PICK v \in S : \A w \in S : ~(<<w, v>> \in OpToRel(<, Nat))
  BY NatLessThanWellFounded, WFMin
<1>2. ASSUME NEW w \in S, w < v PROVE FALSE
  <2>1. <<w, v>> \in Nat \X Nat /\ <<w, v>>[1] < <<w, v>>[2]
    BY <1>2
  <2>2. <<w, v>> \in OpToRel(<, Nat)
    BY <2>1, Zenon DEF OpToRel
  <2> QED BY <1>1, <2>2
<1> QED BY <1>2

(* A set of naturals with an upper bound has a greatest element.           *)
LEMMA GreatestOf ==
  ASSUME NEW S \in SUBSET Nat, S # {}, NEW k \in Nat, \A v \in S : v <= k
  PROVE  \E v \in S : \A w \in S : w <= v
<1> DEFINE T == {u \in Nat : \A v \in S : v <= u}
<1>1. T \in SUBSET Nat /\ T # {}
  OBVIOUS
<1>2. PICK u \in T : \A w \in T : u <= w
  <2> HIDE DEF T
  <2> QED BY <1>1, LeastOf
<1>3. u \in S
  <2> SUFFICES ASSUME u \notin S PROVE FALSE
    OBVIOUS
  <2>1. u \in Nat /\ \A v \in S : v \in Nat /\ v < u
    BY <1>2
  <2>2. u - 1 \in Nat /\ \A v \in S : v <= u - 1
    <3>1. PICK x \in S : x \in Nat /\ x < u
      BY <2>1
    <3>2. u - 1 \in Nat
      BY <2>1, <3>1
    <3>3. ASSUME NEW v \in S PROVE v <= u - 1
      BY <2>1
    <3> QED BY <3>2, <3>3
  <2>3. u - 1 \in T
    BY <2>2
  <2>4. u <= u - 1
    BY <1>2, <2>3
  <2> QED BY <2>1, <2>4
<1> QED BY <1>2, <1>3

(* A revision that is not below another of the set has the set below it,   *)
(* and no other revision has.                                              *)
LEMMA TopOf ==
  ASSUME NEW revs \in SUBSET Revisions, NEW top \in revs, \A r \in revs : r <= top
  PROVE  /\ Cardinality(revs) \in Nat \ {0}
         /\ \A r \in revs : Cardinality({x \in revs : x <= r}) = Cardinality(revs) <=> r = top
<1> DEFINE below(r) == {x \in revs : x <= r}
<1>1. IsFiniteSet(revs) /\ Cardinality(revs) \in Nat
  <2>1. IsFiniteSet(1 .. MaxRevision)
    BY DriversAssumption, FS_Interval
  <2> QED BY <2>1, FS_Subset, FS_CardinalityType DEF Revisions
<1>2. Cardinality(revs) # 0
  BY <1>1, FS_EmptySet
<1>3. below(top) = revs
  OBVIOUS
<1>4. ASSUME NEW r \in revs, Cardinality(below(r)) = Cardinality(revs) PROVE r = top
  <2>1. below(r) = revs
    BY <1>1, <1>4, FS_Subset
  <2>2. top \in below(r)
    BY <2>1
  <2> QED BY <2>2, DriversAssumption DEF Revisions
<1> QED BY <1>1, <1>2, <1>3, <1>4

(* Last is the highest revision of the history.                            *)
LEMMA LastIsHighest ==
  ASSUME NEW rows, DOMAIN rows \subseteq Keys
  PROVE  LET mine == {k \in DOMAIN rows : k[1] = "here"}
         IN  (IF ByRevision(rows) = <<>> THEN NoRecord ELSE Last(ByRevision(rows)))
             = (IF mine = {} THEN NoRecord ELSE rows[Here(Max({k[2] : k \in mine}))])
<1> DEFINE mine == {k \in DOMAIN rows : k[1] = "here"}
           revs == {r \in Revisions : Here(r) \in DOMAIN rows}
           below(r) == {x \in revs : x <= r}
           nth(i) == CHOOSE r \in revs : Cardinality(below(r)) = i
           history == [i \in 1 .. Cardinality(revs) |-> rows[Here(nth(i))]]
           goal == (IF ByRevision(rows) = <<>> THEN NoRecord ELSE Last(ByRevision(rows)))
                   = (IF mine = {} THEN NoRecord ELSE rows[Here(Max({k[2] : k \in mine}))])
<1> SUFFICES goal
  OBVIOUS
<1>1. ByRevision(rows) = history
  BY DEF ByRevision
<1>2. {k[2] : k \in mine} = revs /\ (mine = {} <=> revs = {})
  <2>1. \A r \in revs : Here(r) \in mine /\ Here(r)[2] = r
    BY DEF Here
  <2>2. \A k \in mine : k = Here(k[2]) /\ k[2] \in Revisions
    BY DEF Keys, Here
  <2>3. \A k \in mine : k[2] \in revs
    BY <2>2
  <2> HIDE DEF mine, revs
  <2> QED BY <2>1, <2>3
<1>3. CASE revs = {}
  <2>1. Cardinality(revs) = 0
    BY <1>3, FS_EmptySet
  <2> DEFINE row(i) == rows[Here(nth(i))]
  <2>2. history = [i \in 1 .. 0 |-> row(i)]
    BY <2>1
  <2> HIDE DEF row
  <2>3. [i \in 1 .. 0 |-> row(i)] = <<>>
    OBVIOUS
  <2> HIDE DEF history, revs, mine
  <2> QED BY <1>1, <1>2, <1>3, <2>2, <2>3
<1>4. CASE revs # {}
  <2> DEFINE n == Cardinality(revs)
  <2>1. revs \in SUBSET Nat /\ revs \in SUBSET Revisions /\ \A r \in revs : r <= MaxRevision
    BY DriversAssumption DEF Revisions
  <2> HIDE DEF revs
  <2>2. PICK top \in revs : \A r \in revs : r <= top
    BY <1>4, <2>1, GreatestOf, DriversAssumption
  <2>3. n \in Nat \ {0} /\ \A r \in revs : Cardinality(below(r)) = n <=> r = top
    BY <2>1, <2>2, TopOf
  <2> HIDE DEF below, n
  <2>4. nth(n) = top
    BY <2>3
  <2>5. Max(revs) = top
    <3>1. revs \subseteq Nat
      BY <2>1
    <3>2. \A r \in revs : r <= top /\ top <= r => r = top
      BY <3>1
    <3> QED BY <2>2, <3>1, <3>2 DEF Max
  <2> HIDE DEF nth
  <2>6. Len(history) = n /\ history[n] = rows[Here(nth(n))] /\ history # <<>>
    BY <2>3 DEF n
  <2>7. Last(history) = rows[Here(Max(revs))]
    BY <2>4, <2>5, <2>6 DEF Last
  <2> HIDE DEF mine, history
  <2> QED BY <1>1, <1>2, <1>4, <2>6, <2>7
<1> QED BY <1>3, <1>4

(* The invariant is enough.                                                *)
LEMMA DriversPromise == DriversInv => StoresAgree
<1> SUFFICES ASSUME DriversInv PROVE StoresAgree
  OBVIOUS
<1>1. ASSUME NEW d \in Driver PROVE KeepsWhatItWasTold(d)
  <2> DEFINE f == task.store[d]
             t == task.told[d]
             mine == {k \in DOMAIN t : k[1] = "here"}
  <2>1. GoodStore(d, f, task.writes) /\ t = Dec(f)
    BY DEF DriversInv, DriversShape, ToldDecoded
  <2>2. Decoded(d) = t
    BY <2>1 DEF Decoded, Dec
  <2>3. DOMAIN t \subseteq DOMAIN f /\ DOMAIN f \subseteq Keys /\ \A k \in DOMAIN t : f[k].row = t[k]
    BY <2>1 DEF GoodStore, Dec
  <2>4. d = "memory" => \A k \in DOMAIN f : k[1] = "here"
    BY <2>1 DEF GoodStore
  <2> HIDE DEF t
  <2>5. ListedBy(d, {"here"}) = mine
    BY <2>2, <2>3, <2>4 DEF ListedBy, Selected, Hidden
  <2>6. HistoryOf(d) = ByRevision(t)
    BY <2>2 DEF HistoryOf
  <2>7. LastOf(d) = (IF mine = {} THEN NoRecord ELSE t[Here(Max({k[2] : k \in mine}))])
    BY <2>3, <2>6, LastIsHighest DEF LastOf
  <2>8. ASSUME NEW k \in DOMAIN t, Here(k[2]) \notin DOMAIN f PROVE k \in ListedBy(d, Place)
    <3>1. k[1] \in Place /\ k \in DOMAIN f
      BY <2>3 DEF Keys
    <3> QED BY <2>2, <2>8, <3>1 DEF ListedBy, Selected, Hidden
  <2> QED BY <2>3, <2>5, <2>6, <2>7, <2>8, Zenon DEF KeepsWhatItWasTold, t
<1>2. ASSUME task.raced = "now", NEW d \in ClusterDriver, Here(task.rev) \in DOMAIN task.store[d]
      PROVE  task.store[d][Here(task.rev)].row.status = "superseded"
  BY <1>2 DEF DriversInv, OthersNewer
<1>3. ASSUME task.raced = "never", ~task.large, NEW d \in SharedDriver, NEW e \in SharedDriver
      PROVE  task.said[d] = task.said[e] /\ HistoryOf(d) = HistoryOf(e)
  <2>1. task.said[d] = task.said[e] /\ SameRecords(task.store[d], task.store[e])
    BY <1>3 DEF DriversInv, Alike
  <2>2. Decoded(d) = Decoded(e)
    BY <2>1 DEF SameRecords, Decoded
  <2> QED BY <2>1, <2>2 DEF HistoryOf
<1> QED BY <1>1, <1>2, <1>3 DEF StoresAgree

(* It holds from the first step on.                                        *)
LEMMA DriversAlways == DriverSpec => []DriversInv
<1>1. (\E rows \in DriverInputs, turns \in Nat : task = DriverTask(rows, turns)) => DriversInv
  BY DriversBegin
<1> QED BY <1>1, DriversNext, PTL DEF DriverSpec

(* Storage: whatever calls a caller makes in whatever order, and whatever  *)
(* another client writes in between, every driver serves what it was told  *)
(* to keep, an update undoes nobody's write, and the drivers answer alike. *)
THEOREM DriversKeep == DriverSpec => []StoresAgree
BY DriversAlways, DriversPromise, PTL

-----------------------------------------------------------------------------
(* Storage: no driver serves a record before its tables are there, and all *)
(* keep what they were told to keep.                                       *)
THEOREM RecordsKept == RecordsSpec => []RecordsAreKept
<1>1. SqlInv => RecordsAreKept
  BY SqlPromise DEF SqlInv, SqlShape, RecordsAreKept, StoresAgree
<1>2. DriversInv => RecordsAreKept
  BY DriversPromise DEF DriversInv, DriversShape, RecordsAreKept, SchemaBeforeRecords
<1> QED BY <1>1, <1>2, SqlAlways, DriversAlways, PTL DEF RecordsSpec
=============================================================================
