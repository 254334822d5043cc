---------------------------- MODULE CatalogueKeys ----------------------------
(***************************************************************************)
(* How the live adapters put the constraints, indexes and triggers of one  *)
(* table together out of the rows of the database's catalogue.             *)
(*                                                                         *)
(* A catalogue has one row for each column of a constraint and, with SQL   *)
(* Server, for each event of a trigger (PostgreSQL's queries aggregate     *)
(* them on the server).  So an adapter has to find the rows of one         *)
(* constraint again, by its name, and to keep the columns in the order of  *)
(* the key.  What identifies a constraint differs between the databases:   *)
(* whether two tables, or two kinds of constraint on one table, may use a  *)
(* name twice, decides whether grouping by name is right.                  *)
(*                                                                         *)
(* The declarations are those of a schema; t is the table that is          *)
(* extracted.  Types, actions of foreign keys, expressions and predicates  *)
(* are left out, and so are the checks of SQLite, which are cut out of the *)
(* text of CREATE TABLE.  SQLite does not keep the names of its foreign    *)
(* keys but numbers them: there a name stands for the number.              *)
(***************************************************************************)
EXTENDS Integers, Sequences, FiniteSets, SequencesExt, Functions, Filters

CONSTANTS
  Adapters,       \* the databases
  Declarations,   \* what may be declared, see below
  MaxDeclared,    \* how many declarations a schema has: bounds the model
  TableColumns,   \* the columns of t, in order
  Events,         \* the events a trigger may have
  Schema,         \* the schema that is extracted
  t,              \* the table
  Hidden,         \* the tables the account does not see, <<schema, table>>
  Null            \* NULL: no column, no table, no name

Kinds == {"pk", "unique", "fk", "check", "index", "trigger"}

\* A declaration: for a foreign key to is the table it refers to and toColumns
\* its columns there, <<>> when they are not named.  An index may hold further
\* columns that are no keys, and belong to another owner than its table.  The
\* columns of a trigger are its events, with a Null beside them when it is
\* encrypted and its text is not shown.  Only a check may have no columns, only
\* an index has more than its keys, and only a foreign key refers to a table.
ASSUME ConstantsOK ==
  /\ Adapters \subseteq {"postgres", "sqlite", "duckdb", "mysql", "mariadb", "mssql", "oracle"}
  /\ MaxDeclared \in Nat
  /\ TableColumns \in Seq(Range(TableColumns)) /\ Null \notin Range(TableColumns) \cup Events
  /\ \A d \in Declarations :
       /\ d.name \in Nat /\ d.kind \in Kinds
       /\ d.columns \in Seq((IF d.kind = "trigger" THEN Events ELSE Range(TableColumns)) \cup {Null})
       /\ d.kind # "check" => d.columns # <<>>
       /\ d.included \in Seq(Range(TableColumns)) /\ d.partition \in Seq(Range(TableColumns))
       /\ d.kind # "index" => d.included = <<>> /\ d.partition = <<>>
       /\ d.table # Null
       /\ Null \in Range(d.columns) => d.kind \in {"index", "trigger"}
       /\ d.toColumns \in Seq(Range(d.toColumns)) /\ Null \notin Range(d.toColumns)
       /\ IF d.kind = "fk"
          THEN /\ Len(d.toColumns) \in {0, Len(d.columns)}
               /\ d.to # Null /\ d.to = <<d.to[1], d.to[2]>>
          ELSE d.toColumns = <<>> /\ d.to = Null

VARIABLES
  adapter,
  declared,   \* the declarations of the schema
  phase,      \* "declaring", "reading", "done" or "failed"
  queries,    \* the queries still to make
  rows,       \* the rows still to read of the query that is open
  result      \* the constraints, indexes and triggers of schema.Table, by kind

vars == <<adapter, declared, phase, queries, rows, result>>

MySQL == {"mysql", "mariadb"}

-----------------------------------------------------------------------------
(* What a database lets its users declare.                                 *)

\* Two declarations may use a name where these differ.
Namespace(d) ==
  CASE adapter = "postgres" -> <<d.table, d.kind = "trigger">>
    [] adapter # "mssql" /\ adapter # "postgres" /\ d.kind = "trigger" -> <<"trigger", d.owner>>
    [] adapter \in MySQL /\ d.kind = "fk" -> <<"fk">>
    [] adapter = "mysql" /\ d.kind = "check" -> <<"check">>
    [] adapter = "mariadb" /\ d.kind = "check" -> <<"check", d.table>>
    [] adapter \in MySQL /\ d.kind \notin {"fk", "check", "trigger"} -> <<"key", d.table>>
    [] adapter = "oracle" /\ d.kind = "index" -> <<"index", d.owner>>
    [] OTHER -> <<"constraint">>

SameName(c, d) == c # d /\ c.name = d.name

\* MySQL makes an index of a foreign key's own name for it, unless one begins
\* with its columns: else the name is taken.  That index is left out.
Indexed(d) == \E k \in declared : k.kind \in {"pk", "unique", "index"} /\ k.table = d.table
                                  /\ IsPrefix(d.columns, k.columns)

Legal(d) ==
  /\ \A c \in declared : SameName(c, d) => Namespace(c) # Namespace(d)
  /\ d.kind = "pk" => \A c \in declared : ~(c.kind = "pk" /\ c.table = d.table)
  /\ d.kind = "fk" /\ adapter \in MySQL /\ (\E c \in declared : SameName(c, d) /\ c.kind \notin {"check", "trigger"})
       => Indexed(d)
  /\ d.kind = "fk" /\ adapter = "sqlite" => d.to[1] = Schema
  /\ d.toColumns = <<>> /\ d.kind = "fk" => adapter = "sqlite"
  /\ Null \in Range(d.columns) => adapter \in IF d.kind = "trigger" THEN {"mssql"} ELSE {"sqlite", "mysql"}
  /\ d.owner # Schema => adapter = "oracle"
  /\ d.included # <<>> => adapter \in {"postgres", "mssql"}
  /\ d.partition # <<>> => adapter = "mssql"

-----------------------------------------------------------------------------
(* The rows of the catalogue.                                              *)

Of(kinds) == {d \in declared : d.table = t /\ d.kind \in kinds}

\* The domain of key as a list, in the order of the keys.
Sorted(key) ==
  CHOOSE s \in [1 .. Cardinality(DOMAIN key) -> DOMAIN key] :
    IsInjective(s) /\ \A i, j \in DOMAIN s : i < j => key[s[i]] <= key[s[j]]

\* The rows of each declaration, by name.
Each(rowsOf) ==
  LET s == Sorted([d \in DOMAIN rowsOf |-> d.name])
  IN FlattenSeq([i \in DOMAIN s |-> rowsOf[s[i]]])

\* One row, for the member of the table that into names.
Row(into, name, columns) ==
  [into |-> into, name |-> name, columns |-> columns, included |-> <<>>,
   to |-> Null, toColumns |-> <<>>]

\* What is said of a declaration besides its name: of a check, whose it is.
Said(d) == IF d.kind = "check" THEN <<d.table>> ELSE d.columns

\* ORDER BY name, position: of two declarations of one name the rows alternate.
Together(ds) ==
  LET s == Sorted([d \in ds |-> Len(Said(d))])
      At(k) == Keep(s, {d \in ds : Len(Said(d)) >= k})
  IN FlattenSeq([k \in DOMAIN Said(s[Len(s)]) |->
       [i \in DOMAIN At(k) |-> <<At(k)[i], Said(At(k)[i])[k]>>]])

\* The rows are for the member that into gives to each declaration.
ColumnRows(into) ==
  LET names == Sorted([n \in {d.name : d \in DOMAIN into} |-> n])
      RowsNamed(n) == LET pairs == Together({d \in DOMAIN into : d.name = n})
                IN [k \in DOMAIN pairs |-> Row(into[pairs[k][1]], n, <<pairs[k][2]>>)]
  IN FlattenSeq([i \in DOMAIN names |-> RowsNamed(names[i])])

AsIndex(ds) == [d \in ds |-> "index"]
AsDeclared(ds) == [d \in ds |-> d.kind]

\* One row for each pair of columns of a foreign key; a column that is not named
\* is NULL.  Of the table only SQL Server is asked for the schema.
PairRows ==
  LET To(d) == IF adapter = "mssql" THEN d.to ELSE <<Schema, d.to[2]>>
  IN Each([d \in Of({"fk"}) |->
             [k \in DOMAIN d.columns |->
                [Row("fk", d.name, <<d.columns[k]>>) EXCEPT
                   !.to = To(d),
                   !.toColumns = <<IF d.toColumns = <<>> THEN Null ELSE d.toColumns[k]>>]]])

\* PostgreSQL aggregates on the server: one row for each constraint or index.
\* Everywhere but in SQL Server a trigger has one row.
WholeRows(kind) ==
  Each([d \in Of(IF kind = "index" THEN {"index", "unique"} ELSE {kind}) |->
          <<[Row(kind, d.name, Said(d)) EXCEPT
               !.included = d.included, !.to = d.to, !.toColumns = d.toColumns]>>])

\* SQLite reports the primary key beside the columns, in the order of those.
KeyColumns ==
  Each([d \in Of({"pk"}) |->
          LET columns == Keep(TableColumns, Range(d.columns))
          IN [k \in DOMAIN columns |-> Row("pk", d.name, <<columns[k]>>)]])

\* SQLite lists an index, then its columns; a UNIQUE constraint is one too.
IndexList ==
  Each([d \in Of({"index", "unique"}) |->
          ColumnRows(AsIndex({d}))
          \o (IF d.kind = "unique" THEN ColumnRows(AsDeclared({d})) ELSE <<>>)])

\* information_schema.key_column_usage, asked for each key of t by its name:
\* the foreign keys of that name are in it too.
UsageRows ==
  LET Same(d) == {c \in Of({"pk", "unique", "fk"}) : c.name = d.name}
  IN Each([d \in Of({"pk", "unique"}) |-> ColumnRows([c \in Same(d) |-> d.kind])])

\* The checks of the schema joined, by name alone, with the constraints of t.
JoinedChecks ==
  LET Joined(d) == {c \in Of(Kinds \ {"index", "trigger"}) : c.name = d.name}
  IN Each([d \in {c \in declared : c.kind = "check"} |->
             [i \in 1 .. Cardinality(Joined(d)) |-> Row("check", d.name, Said(d))]])

\* Mutant of IndexColumns: the included columns are taken for keys.
IndexColumnsAsKeys ==
  Each([d \in Of({"index", "unique"}) |->
          [k \in DOMAIN d.included |-> Row("index", d.name, <<d.included[k]>>)]
          \o [k \in DOMAIN d.partition |-> Row("index", d.name, <<d.partition[k]>>)]
          \o ColumnRows(AsIndex({d}))])

\* SQL Server numbers the columns that are no keys 0, and so before the keys.
IndexColumns ==
  Each([d \in Of({"index", "unique"}) |->
          [k \in DOMAIN d.included |->
             [Row("index", d.name, <<>>) EXCEPT !.included = <<d.included[k]>>]]
          \o [k \in DOMAIN d.partition |-> Row("index", d.name, <<d.partition[k]>>)]
          \o ColumnRows(AsIndex({d}))])

\* Oracle's second query, for the table that a foreign key refers to.
Targets ==
  Each([d \in Of({"fk"}) |->
          <<[Row("target", d.name, <<>>) EXCEPT
               !.to = IF d.to \in Hidden THEN Null ELSE d.to]>>])

\* The queries of each adapter in their order.
Queries ==
  CASE adapter = "postgres" -> <<"pk", "fk", "unique", "check", "index", "trigger">>
    [] adapter = "sqlite" -> <<"columns", "pairs", "index list", "trigger">>
    [] adapter = "duckdb" -> <<"usage">>
    [] adapter \in MySQL -> <<"usage", "pairs", "joined checks", "statistics", "trigger">>
    [] adapter = "mssql" -> <<"keys", "checks", "pairs", "index columns", "events">>
    [] adapter = "oracle" -> <<"constraints", "targets", "indexes", "trigger">>

Answer(query) ==
  CASE query \in Kinds -> WholeRows(query)
    [] query = "columns" -> KeyColumns
    [] query = "pairs" -> PairRows
    [] query = "index list" -> IndexList
    [] query = "usage" -> UsageRows
    [] query = "joined checks" -> JoinedChecks
    [] query = "statistics" -> ColumnRows(AsIndex(Of({"index", "unique"})))
    [] query = "keys" -> ColumnRows(AsDeclared(Of({"pk", "unique"})))
    [] query = "checks" -> ColumnRows(AsDeclared(Of({"check"})))
    [] query = "index columns" -> IndexColumns
    [] query = "events" -> ColumnRows(AsDeclared(Of({"trigger"})))
    [] query = "constraints" -> ColumnRows(AsDeclared(Of({"pk", "unique", "check", "fk"})))
    [] query = "targets" -> Targets
    [] query = "indexes" -> ColumnRows(AsIndex(Of({"index"})))

-----------------------------------------------------------------------------
(* The adapter.                                                            *)

Init ==
  /\ adapter \in Adapters
  /\ declared = {}
  /\ phase = "declaring"
  /\ queries = <<>>
  /\ rows = <<>>
  /\ result = [kind \in Kinds |-> <<>>]

Declare(d) ==
  /\ phase = "declaring"
  /\ d \notin declared
  /\ Cardinality(declared) < MaxDeclared
  /\ Legal(d)
  /\ declared' = declared \cup {d}
  /\ UNCHANGED <<adapter, phase, queries, rows, result>>

Start ==
  /\ phase = "declaring"
  /\ phase' = "reading"
  /\ queries' = Queries
  /\ UNCHANGED <<adapter, declared, rows, result>>

Reading == phase = "reading" /\ UNCHANGED <<adapter, declared>>

Ask ==
  /\ Reading
  /\ rows = <<>> /\ queries # <<>>
  /\ rows' = Answer(Head(queries))
  /\ queries' = Tail(queries)
  /\ UNCHANGED <<phase, result>>

\* Mutant of Unreadable: a NULL is scanned as if it were a name.
UnreadableTargetOnly(row) == row.into = "target" /\ row.to = Null

\* Mutant of Unreadable: a table that is not shown is no error.
UnreadableNullsOnly(row) == Null \in Range(row.columns) \cup Range(row.toColumns)

\* A NULL where the adapter scans a string fails the extraction, and so does a
\* table that Oracle does not show.
Unreadable(row) ==
  \/ Null \in Range(row.columns) \cup Range(row.toColumns)
  \/ row.into = "target" /\ row.to = Null

\* Whether the rows of a query are put together by name: checks are not, but
\* for Oracle's, nor triggers, but for SQL Server's, nor what PostgreSQL
\* aggregates.
Grouped(row) ==
  /\ adapter # "postgres"
  /\ row.into = "check" => adapter = "oracle"
  /\ row.into = "trigger" => adapter = "mssql"

Entry(row) == [name |-> row.name, columns |-> row.columns, included |-> row.included,
               to |-> row.to, toColumns |-> row.toColumns]

Extended(e, row) ==
  [e EXCEPT !.columns = @ \o row.columns, !.included = @ \o row.included,
            !.toColumns = @ \o row.toColumns]

Put(entries, row) ==
  LET found == {i \in DOMAIN entries : entries[i].name = row.name}
  IN IF Grouped(row) /\ found # {}
     THEN [entries EXCEPT ![CHOOSE i \in found : TRUE] = Extended(@, row)]
     ELSE Append(entries, Entry(row))

SetTarget(fks, row) ==
  [i \in DOMAIN fks |-> IF fks[i].name = row.name THEN [fks[i] EXCEPT !.to = row.to] ELSE fks[i]]

Read ==
  /\ Reading
  /\ rows # <<>>
  /\ LET row == Head(rows)
     IN IF Unreadable(row) THEN phase' = "failed" /\ UNCHANGED <<rows, result>>
        ELSE /\ rows' = Tail(rows)
             /\ result' = IF row.into = "target"
                          THEN [result EXCEPT !["fk"] = SetTarget(@, row)]
                          ELSE [result EXCEPT ![row.into] = Put(@, row)]
             /\ UNCHANGED phase
  /\ UNCHANGED queries

Finish ==
  /\ Reading
  /\ rows = <<>> /\ queries = <<>>
  /\ phase' = "done"
  /\ UNCHANGED <<queries, rows, result>>

Next == (\E d \in Declarations : Declare(d)) \/ Start \/ Ask \/ Read \/ Finish

Spec == Init /\ [][Next]_vars

-----------------------------------------------------------------------------
(* Properties.                                                             *)

EntryType(e) ==
  /\ e.name \in {d.name : d \in Declarations}
  /\ Null \notin Range(e.columns) \cup Range(e.toColumns)

\* The parts of the state are of their types: above all no NULL is taken for a
\* column, and there is at most one primary key, whatever rows come.
TypeOK ==
  /\ adapter \in Adapters
  /\ declared \subseteq Declarations
  /\ phase \in {"declaring", "reading", "done", "failed"}
  /\ \A kind \in Kinds : \A i \in DOMAIN result[kind] : EntryType(result[kind][i])
  /\ Len(result["pk"]) <= 1

\* The kinds of constraint an adapter takes from the catalogue.
Loaded ==
  CASE adapter = "duckdb" -> {"pk", "unique"}
    [] adapter = "sqlite" -> Kinds \ {"check"}
    [] OTHER -> Kinds

\* Where the catalogue, asked as the adapters ask it, does not say what was
\* declared.
Confused(kind) ==
  LET Shared(d) == \E c \in declared : c.table = t /\ SameName(c, d) /\ c.kind # "trigger"
  IN \/ adapter = "sqlite" /\ kind = "pk"
        /\ \E d \in Of({"pk"}) : d.columns # Keep(TableColumns, Range(d.columns))
     \/ adapter \in MySQL /\ kind \in {"pk", "unique"} /\ \E d \in Of({"fk"}) : Shared(d)
     \/ adapter \in MySQL /\ kind = "check" /\ \E d \in declared : d.kind = "check" /\ Shared(d)
     \/ adapter \in MySQL /\ kind = "fk" /\ \E d \in Of({"fk"}) : d.to[1] # Schema
     \/ adapter = "mssql" /\ kind = "index" /\ \E d \in Of({"index"}) : d.partition # <<>>
     \/ adapter = "oracle" /\ kind = "index" /\ \E d \in Of({"index"}) : Shared(d) /\ d.owner # Schema

\* Oracle is not asked for the columns a foreign key refers to.
Referred(d) == IF adapter = "oracle" THEN <<>> ELSE d.toColumns

\* The unique constraints of a table are among its indexes, but for Oracle.
Backing(kind) == IF kind = "index" /\ adapter # "oracle" THEN {"index", "unique"} ELSE {kind}

Declared(kind) ==
  {[name |-> d.name, columns |-> Said(d), included |-> d.included, to |-> d.to,
    toColumns |-> Referred(d)] : d \in Of(Backing(kind))}

Exact(kind) ==
  /\ Range(result[kind]) = Declared(kind)
  /\ Len(result[kind]) = Cardinality(Of(Backing(kind)))

Named(kind) ==
  \A d \in Of(Backing(kind)) : \E i \in DOMAIN result[kind] :
    /\ result[kind][i].name = d.name
    /\ Range(Said(d)) \subseteq Range(result[kind][i].columns)

\* The result has each constraint, index and trigger of the table once, whole,
\* with its columns in the order of the key and its target, and nothing of
\* another table, kind or name: however the rows of several come one after
\* another.  Where the catalogue confuses them, every one is there still under
\* its name with all its columns.
KeysExact ==
  phase = "done" => \A kind \in Loaded : IF Confused(kind) THEN Named(kind) ELSE Exact(kind)

\* One constraint, index or trigger that the catalogue shows with a NULL fails the
\* extraction of the whole database, and nothing else in a catalogue does.
RefusedForNulls ==
  LET null == \/ \E d \in Of({"fk"}) : d.toColumns = <<>>
              \/ \E d \in Of({"index", "trigger"}) : Null \in Range(d.columns)
              \/ adapter = "oracle" /\ \E d \in Of({"fk"}) : d.to \in Hidden
  IN (phase = "done" => ~null) /\ (phase = "failed" => null)
=============================================================================
