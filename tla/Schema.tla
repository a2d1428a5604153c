--------------------------------- MODULE Schema ---------------------------------
(***************************************************************************)
(* The schema of the collector's database and how a database of an older   *)
(* collector is brought up to it (OpenStorage of src/collector/storage.go, *)
(* src/collector/migrate.go): tables and missing columns first, one ALTER  *)
(* each, then the indexes, then the migrations written one by one.  Every  *)
(* statement commits by itself, so the process may die between any two.    *)
(***************************************************************************)
EXTENDS Naturals, FiniteSets

CONSTANTS
  Columns,     \* columns that were added to some table after the first release
  Indexed,     \* those of them the schema creates an index on
  Migrated     \* those that runMigrations looks for as well

ASSUME SchemaAssumption == Indexed \subseteq Columns /\ Migrated \subseteq Columns

VARIABLES
  opener,      \* OpenStorage: "closed", "columns", "indexes", "migrations", "open", "failed"
  columns,     \* the columns of the file
  indexes,     \* the columns with an index in the file
  looked,      \* runMigrations: the columns it has looked for
  backfilled   \* migration 6 marked the profiled traces of the older collector

schemaVars == <<opener, columns, indexes, looked, backfilled>>

SchemaTypeOK ==
  /\ opener \in {"closed", "columns", "indexes", "migrations", "open", "failed"}
  /\ columns \subseteq Columns
  /\ indexes \subseteq Indexed
  /\ looked \subseteq Migrated
  /\ backfilled \in BOOLEAN

\* A file any earlier collector may have left, and one that was just created.
OldFile ==
  /\ opener = "closed"
  /\ columns \in SUBSET Columns
  /\ indexes \in SUBSET (Indexed \cap columns)
  /\ looked = {}
  /\ backfilled = FALSE

NewFile ==
  /\ opener = "open"
  /\ columns = Columns
  /\ indexes = Indexed
  /\ looked = Migrated
  /\ backfilled = FALSE

OpenStorage ==
  /\ opener = "closed"
  /\ opener' = "columns"
  /\ looked' = {}
  /\ UNCHANGED <<columns, indexes, backfilled>>

\* ensureColumns: one column the table lacks.
AddColumn(c) ==
  /\ opener = "columns"
  /\ c \in Columns \ columns
  /\ columns' = columns \union {c}
  /\ UNCHANGED <<opener, indexes, looked, backfilled>>

\* Mutant: the statements of the schema are run in the order they are written in, tables that
\* exist are left as they are, and an index may come before its column.
TablesSkipped == TRUE

TablesDone == Columns \subseteq columns

\* applySchema: the tables and their columns are done before the first index.
ColumnsDone ==
  /\ opener = "columns"
  /\ TablesDone
  /\ opener' = "indexes"
  /\ UNCHANGED <<columns, indexes, looked, backfilled>>

\* CREATE INDEX IF NOT EXISTS; on a column the table lacks it fails, and the collector ends.
CreateIndex(c) ==
  /\ opener = "indexes"
  /\ c \in Indexed \ indexes
  /\ IF c \in columns
     THEN indexes' = indexes \union {c} /\ UNCHANGED opener
     ELSE opener' = "failed" /\ UNCHANGED indexes
  /\ UNCHANGED <<columns, looked, backfilled>>

IndexesDone ==
  /\ opener = "indexes"
  /\ Indexed \subseteq indexes
  /\ opener' = "migrations"
  /\ UNCHANGED <<columns, indexes, looked, backfilled>>

\* runMigrations: nothing is done about a column that is there, and by now each of them is.
Migrate(c) ==
  /\ opener = "migrations"
  /\ c \in Migrated \ looked
  /\ looked' = looked \union {c}
  /\ columns' = columns \union {c}
  /\ backfilled' = (backfilled \/ (c = "profiled" /\ c \notin columns))
  /\ UNCHANGED <<opener, indexes>>

\* prepareStatements: they name every column.
PrepareStatements ==
  /\ opener = "migrations"
  /\ looked = Migrated
  /\ opener' = IF Columns \subseteq columns THEN "open" ELSE "failed"
  /\ UNCHANGED <<columns, indexes, looked, backfilled>>

\* The process dies; the file keeps what was committed.
CloseStorage ==
  /\ opener \notin {"closed", "failed"}
  /\ opener' = "closed"
  /\ UNCHANGED <<columns, indexes, looked, backfilled>>

SchemaNext ==
  \/ OpenStorage \/ ColumnsDone \/ IndexesDone \/ PrepareStatements \/ CloseStorage
  \/ \E c \in Columns : AddColumn(c) \/ CreateIndex(c) \/ Migrate(c)

\* Whatever the file lacked and wherever earlier starts died in it, no start fails on the
\* schema, and a store that is open has every column and every index of the schema.
UpgradeCompletes ==
  /\ opener # "failed"
  /\ opener = "open" => columns = Columns /\ indexes = Indexed

=============================================================================
