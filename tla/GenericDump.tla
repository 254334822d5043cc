----------------------------- MODULE GenericDump -----------------------------
(***************************************************************************)
(* The dump parser that every dialect but PostgreSQL and CockroachDB       *)
(* shares: internal/database/sqlutil/dump.go.                              *)
(*                                                                         *)
(* parse() reads the statements of a dump in order, one handler for each,  *)
(* into a genericDump; result() then makes the database out of it, table   *)
(* by table, under the caller's options.  Which statements a dump has, and *)
(* in what order, is the dump's business: every statement may come next.   *)
(*                                                                         *)
(* How a statement is spelled is left out, except where it decides what    *)
(* the handler does: whether a name is qualified, IF NOT EXISTS, and text  *)
(* after the parentheses of CREATE TABLE.  A table keeps its columns and   *)
(* what was attached to it; a cell of a row keeps the name of the column   *)
(* it was written for.                                                     *)
(*                                                                         *)
(* The dialects differ in the statement that names the schema in force:    *)
(* USE does in MySQL, MariaDB and DuckDB, ALTER SESSION does in Oracle,    *)
(* and none does in SQL Server, where USE names a database, and SQLite.    *)
(* CREATE SCHEMA and CREATE DATABASE do in none of them.  The parser takes *)
(* USE, CREATE SCHEMA and CREATE DATABASE for such a statement in all of   *)
(* them, and ALTER SESSION in none; the history keeps both readings.       *)
(***************************************************************************)
EXTENDS Integers, Sequences, SequencesExt, Filters

CONSTANTS
  MaxStatements,   \* how many statements a dump has: bounds the model
  SchemaNames,     \* the schemas a dump names
  TableNames,
  Columns,
  ColumnLists,     \* the column lists of CREATE TABLE and INSERT
  MaxValues,       \* how many values a row of INSERT has: bounds the model
  Options,         \* the options a caller may give, see AllOptions
  None             \* no qualifier, no options

AllOptions ==
  [allow : SUBSET SchemaNames, exclude : SUBSET TableNames,
   excludeExample : SUBSET TableNames, hide : SUBSET Columns,
   sample : Nat, ordered : BOOLEAN, views : BOOLEAN]

\* What a statement attaches to a table; a commented column is named by itself.
Attached == {"constraint", "index", "trigger", "comment"}

\* The empty name.
Unnamed == ""

ASSUME ConstantsOK ==
  /\ MaxStatements \in Nat
  /\ MaxValues \in Nat
  /\ {Unnamed, "IF"} \cap SchemaNames = {}
  /\ Attached \cap Columns = {}
  /\ ColumnLists \subseteq Seq(Columns)
  /\ Options \subseteq AllOptions
  /\ None \notin Options
  /\ None \notin SchemaNames \cup {Unnamed, "IF"}

\* Schemas a table can end up in: Unnamed when nothing names one, and "IF" when the
\* third word of CREATE SCHEMA IF NOT EXISTS is taken for the name.
Spaces == SchemaNames \cup {Unnamed, "IF"}
Keys == Spaces \X TableNames
Qualifiers == SchemaNames \cup {None}

VARIABLES
  phase,        \* "parsing", "emitting", "done", "failed" or "panicked"
  statements,   \* how many statements were read
  default,      \* genericDump.defaultSchema
  current,      \* genericDump.currentSchema
  tables,       \* genericDump.tables: a function on the keys it holds
  order,        \* genericDump.order
  rows,         \* genericDump.rows
  schemas,      \* genericDump.schemas, as a set of names
  options,      \* what the caller asked for
  next,         \* the position of result() in order
  out,          \* the tables of the result
  naming,       \* the dialect's statement that names a schema: "use", "session", "none"
  meant,        \* history: the schema in force, as SQL has it
  doubt,        \* history: SQL and the parser read the last naming statement differently
  strayed,      \* history: the keys that unqualified names stood for while in doubt
  due,          \* history: key -> what the dump attached to its last definition
  redefined     \* history: the keys defined again after rows came for them

parsed == <<default, current, tables, order, rows, schemas>>
history == <<naming, meant, doubt, strayed, due, redefined>>
vars == <<phase, statements, parsed, options, next, out, history>>

Put(f, k, v) == [x \in DOMAIN f \cup {k} |-> IF x = k THEN v ELSE f[x]]
At(f, k, none) == IF k \in DOMAIN f THEN f[k] ELSE none

TableType ==
  [kind : {"table", "view"}, columns : ColumnLists \cup {<<>>},
   attached : SUBSET (Attached \cup Columns)]

TypeOK ==
  /\ phase \in {"parsing", "emitting", "done", "failed", "panicked"}
  /\ statements \in 0 .. MaxStatements
  /\ default \in SchemaNames \cup {Unnamed}
  /\ current \in Spaces
  /\ DOMAIN tables \subseteq Keys
  /\ \A k \in DOMAIN tables : tables[k] \in TableType
  /\ order \in Seq(DOMAIN tables)
  /\ DOMAIN rows \subseteq DOMAIN tables
  /\ schemas \subseteq Spaces
  /\ options \in IF phase \in {"parsing", "failed"} THEN {None} ELSE Options
  /\ next \in 1 .. Len(order) + 1

Init ==
  /\ phase = "parsing"
  /\ statements = 0
  /\ default \in SchemaNames \cup {Unnamed}
  /\ current = Unnamed
  /\ tables = <<>>
  /\ order = <<>>
  /\ rows = <<>>
  /\ schemas = {}
  /\ options = None
  /\ next = 1
  /\ out = <<>>
  /\ naming \in {"use", "session", "none"}
  /\ naming = "none" => default # Unnamed
  /\ meant = Unnamed
  /\ doubt = FALSE
  /\ strayed = {}
  /\ due = <<>>
  /\ redefined = {}

-----------------------------------------------------------------------------
(* Names. *)

\* Mutant of Space: a USE is forgotten.
DefaultSpace(q) == IF q # None THEN q ELSE default

\* genericQualified: the qualifier, else the current schema, else the default.
Space(q) ==
  IF q # None THEN q
  ELSE IF current # Unnamed THEN current
  ELSE default

Key(q, n) == <<Space(q), n>>

\* The same by the rules of SQL, for the history.
Intended(q, n) ==
  <<IF q # None THEN q ELSE IF meant # Unnamed THEN meant ELSE default, n>>

\* A name may stray while SQL and the parser do not agree on the schema in force:
\* then the history makes a note of both keys.
Stray(q, n) ==
  strayed' = IF doubt /\ q = None THEN strayed \cup {Key(q, n), Intended(q, n)}
             ELSE strayed

Statement ==
  /\ phase = "parsing"
  /\ statements < MaxStatements
  /\ statements' = statements + 1
  /\ UNCHANGED <<phase, default, options, next, out, naming>>

-----------------------------------------------------------------------------
(* Statements. *)

Use(s) ==
  /\ naming # "session"
  /\ Statement
  /\ current' = s
  /\ meant' = IF naming = "use" THEN s ELSE meant
  /\ doubt' = (naming # "use")
  /\ UNCHANGED <<tables, order, rows, schemas, strayed, due, redefined>>

\* CREATE SCHEMA and CREATE DATABASE: the third word becomes current.
CreateNamespace(s, ifNotExists) ==
  /\ Statement
  /\ current' = IF ifNotExists THEN "IF" ELSE s
  /\ doubt' = TRUE
  /\ UNCHANGED <<tables, order, rows, schemas, meant, strayed, due, redefined>>

\* ALTER SESSION SET CURRENT_SCHEMA: no case for it.
AlterSession(s) ==
  /\ naming = "session"
  /\ Statement
  /\ meant' = s
  /\ doubt' = TRUE
  /\ UNCHANGED <<current, tables, order, rows, schemas, strayed, due, redefined>>

\* Mutant of Define: the schema of the table is not made.
DefineOnly(q, n, t) ==
  /\ tables' = Put(tables, Key(q, n), t)
  /\ order' = Append(order, Key(q, n))
  /\ UNCHANGED schemas
  /\ due' = Put(due, Intended(q, n), {})
  /\ Stray(q, n)
  /\ redefined' = IF At(rows, Key(q, n), <<>>) = <<>> THEN redefined
                  ELSE redefined \cup {Key(q, n)}

\* A table or a view takes the place of what had its name, and is put in the
\* order again; rows that came for the name stay.
Define(q, n, t) ==
  /\ tables' = Put(tables, Key(q, n), t)
  /\ order' = Append(order, Key(q, n))
  /\ schemas' = schemas \cup {Space(q)}
  /\ due' = Put(due, Intended(q, n), {})
  /\ Stray(q, n)
  /\ redefined' = IF At(rows, Key(q, n), <<>>) = <<>> THEN redefined
                  ELSE redefined \cup {Key(q, n)}

CreateTable(q, n, cols) ==
  /\ Statement
  /\ Define(q, n, [kind |-> "table", columns |-> cols, attached |-> {}])
  /\ UNCHANGED <<current, rows, meant, doubt>>

View(q, n) ==
  /\ Statement
  /\ Define(q, n, [kind |-> "view", columns |-> <<>>, attached |-> {}])
  /\ UNCHANGED <<current, rows, meant, doubt>>

\* A CREATE TABLE that does not end with its parentheses fails the whole extraction,
\* be it no SQL or a good one with ENGINE=InnoDB, TABLESPACE, WITHOUT ROWID or AS
\* SELECT.
Malformed ==
  /\ phase = "parsing"
  /\ statements < MaxStatements
  /\ statements' = statements + 1
  /\ phase' = "failed"
  /\ UNCHANGED <<parsed, options, next, out, history>>

\* A detail of a table that is not known yet is dropped.
Attach(q, n, detail) ==
  /\ Statement
  /\ tables' = IF Key(q, n) \in DOMAIN tables
               THEN [tables EXCEPT ![Key(q, n)].attached = @ \cup {detail}] ELSE tables
  /\ due' = IF Intended(q, n) \in DOMAIN due
            THEN [due EXCEPT ![Intended(q, n)] = @ \cup {detail}] ELSE due
  /\ Stray(q, n)
  /\ UNCHANGED <<current, order, rows, schemas, meant, doubt, redefined>>

Alter(q, n) == Attach(q, n, "constraint")
Index(q, n) == Attach(q, n, "index")
Trigger(q, n) == Attach(q, n, "trigger")
CommentOnTable(q, n) == Attach(q, n, "comment")

\* Only a name in three parts is understood; a column that is not there is not
\* commented.
CommentOnColumn(q, n, c) ==
  /\ q # None
  /\ Statement
  /\ tables' = IF Key(q, n) \in DOMAIN tables /\ c \in Range(tables[Key(q, n)].columns)
               THEN [tables EXCEPT ![Key(q, n)].attached = @ \cup {c}] ELSE tables
  /\ UNCHANGED <<current, order, rows, schemas, history>>

\* Mutant of Row: the values are taken in the order they come.
RowInOrder(columns, named, count) ==
  [j \in 1 .. Len(columns) |->
     IF j <= count /\ j <= Len(named) THEN named[j] ELSE "null"]

\* One cell for each column the table has now: the value written for it, or null
\* when the statement names no such column or gives it no value.
Row(columns, named, count) ==
  [j \in 1 .. Len(columns) |->
     IF \E i \in 1 .. Len(named) : i <= count /\ named[i] = columns[j]
     THEN columns[j] ELSE "null"]

\* Mutant of Insert: rows are kept for a table that is not known.
InsertUnknown(q, n, named, count) ==
  LET k == Key(q, n)
      columns == At(tables, k, [columns |-> named]).columns
  IN  /\ Statement
      /\ rows' = Put(rows, k, Append(At(rows, k, <<>>),
                   Row(columns, IF named = <<>> THEN columns ELSE named, count)))
      /\ UNCHANGED <<current, tables, order, schemas, history>>

\* named is <<>> when INSERT has no column list; count values are given.
Insert(q, n, named, count) ==
  LET k == Key(q, n)
      columns == tables[k].columns
  IN  /\ Statement
      /\ rows' = IF k \notin DOMAIN tables THEN rows
                 ELSE Put(rows, k, Append(At(rows, k, <<>>),
                        Row(columns, IF named = <<>> THEN columns ELSE named, count)))
      /\ UNCHANGED <<current, tables, order, schemas, history>>

\* A routine, sequence, type, synonym or other object: kept with its schema, which
\* it makes if it is new.
AddObject(q) ==
  /\ Statement
  /\ schemas' = schemas \cup {Space(q)}
  /\ UNCHANGED <<current, tables, order, rows, history>>

\* No case for it: DROP, CREATE OR REPLACE VIEW, comment on table in lower case.
Ignored ==
  /\ Statement
  /\ UNCHANGED <<current, tables, order, rows, schemas, history>>

-----------------------------------------------------------------------------
(* The result. *)

\* The caller's options, which parse() does not look at; but a caller who allows
\* one schema gives MySQL and Oracle their default.
EndOfInput ==
  /\ phase = "parsing"
  /\ phase' = "emitting"
  /\ options' \in Options
  /\ default = Unnamed => \A s \in SchemaNames : options'.allow # {s}
  /\ UNCHANGED <<statements, parsed, next, out, history>>

\* What the caller's options let into the result.
Wanted(k) ==
  /\ options.allow = {} \/ k[1] \in options.allow
  /\ k[2] \notin options.exclude

\* The rows of the example, in the order of the dump or, when ordered, in the
\* order of how they print, which may be any.
Samples(k) ==
  LET all == At(rows, k, <<>>)
      size == IF Len(all) < options.sample THEN Len(all) ELSE options.sample
  IN  IF options.sample = 0 \/ k[2] \in options.excludeExample THEN {<<>>}
      ELSE IF ~options.ordered THEN {SubSeq(all, 1, size)}
      ELSE {[i \in 1 .. size |-> all[p[i]]] :
              p \in {f \in [1 .. size -> DOMAIN all] :
                       \A i, j \in 1 .. size : i # j => f[i] # f[j]}}

\* The columns an example shows.
Shown(k) == {j \in DOMAIN tables[k].columns : tables[k].columns[j] \notin options.hide}

Emitting ==
  /\ phase = "emitting"
  /\ next <= Len(order)

\* The context died: the rest of the tables is left out.
Break ==
  /\ Emitting
  /\ phase' = "done"
  /\ UNCHANGED <<statements, parsed, options, next, out, history>>

Skip ==
  /\ Emitting
  /\ ~Wanted(order[next])
  /\ next' = next + 1
  /\ UNCHANGED <<phase, statements, parsed, options, out, history>>

\* A table joins the first schema of the result with its name, if there is one;
\* a table of which no column is shown has no example.
Emit ==
  /\ Emitting
  /\ LET k == order[next]
     IN  /\ Wanted(k)
         /\ \E sample \in Samples(k) :
              /\ \A i \in DOMAIN sample : Shown(k) \subseteq DOMAIN sample[i]
              /\ out' = IF k[1] \notin schemas THEN out
                        ELSE Append(out, [key |-> k, kind |-> tables[k].kind,
                               example |-> IF Shown(k) = {} THEN <<>>
                                           ELSE [i \in DOMAIN sample |->
                                                  [j \in Shown(k) |-> sample[i][j]]]])
  /\ next' = next + 1
  /\ UNCHANGED <<phase, statements, parsed, options, history>>

\* A row is shorter than the table is wide: r[i] is out of range, and with it
\* the process is gone.
Panic ==
  /\ Emitting
  /\ LET k == order[next]
     IN  /\ Wanted(k)
         /\ \E sample \in Samples(k) :
              \E i \in DOMAIN sample : ~(Shown(k) \subseteq DOMAIN sample[i])
  /\ phase' = "panicked"
  /\ UNCHANGED <<statements, parsed, options, next, out, history>>

Finish ==
  /\ phase = "emitting"
  /\ next > Len(order)
  /\ phase' = "done"
  /\ UNCHANGED <<statements, parsed, options, next, out, history>>

Terminated == phase \in {"done", "failed", "panicked"} /\ UNCHANGED vars

Naming ==
  \E s \in SchemaNames :
    \/ Use(s)
    \/ AlterSession(s)
    \/ \E b \in BOOLEAN : CreateNamespace(s, b)

Defining ==
  \E q \in Qualifiers, n \in TableNames :
    \/ \E cols \in ColumnLists : CreateTable(q, n, cols)
    \/ View(q, n)

Attaching ==
  \E q \in Qualifiers, n \in TableNames :
    \/ Alter(q, n)
    \/ Index(q, n)
    \/ Trigger(q, n)
    \/ CommentOnTable(q, n)
    \/ \E c \in Columns : CommentOnColumn(q, n, c)

Inserting ==
  \E q \in Qualifiers, n \in TableNames, named \in ColumnLists \cup {<<>>} :
    \E count \in 1 .. MaxValues : Insert(q, n, named, count)

Next ==
  \/ Naming
  \/ Defining
  \/ Malformed
  \/ Attaching
  \/ Inserting
  \/ \E q \in Qualifiers : AddObject(q)
  \/ Ignored
  \/ EndOfInput
  \/ Break
  \/ Skip
  \/ Emit
  \/ Panic
  \/ Finish
  \/ Terminated

SafeSpec == Init /\ [][Next]_vars

-----------------------------------------------------------------------------

\* A table holds exactly what the dump attached to it since its last definition,
\* by the rules of SQL on which table a name means at that point: names resolve
\* alike in every handler, through USE and qualification, and nothing is left over
\* from an earlier table of the name (dump.go:200-274, 440-450).  A table is left
\* out if an unqualified name meant it, or was taken for it, while SQL and the
\* parser read the last naming statement differently: CREATE SCHEMA and CREATE
\* DATABASE, which the parser takes for USE, and ALTER SESSION, which it ignores.
DetailsKept ==
  \A k \in (DOMAIN due \cup DOMAIN tables) \ strayed :
    /\ k \in DOMAIN due /\ k \in DOMAIN tables
    /\ tables[k].attached \cap Attached = due[k]

\* Rows fit the table they are kept for, cell by cell: as wide as the table, each
\* value under the column it was written for, whatever the column list of the
\* INSERT; unless the table was defined again after the row came, which alone can
\* make the example panic (dump.go:341-368, 405-414).
RowsFit ==
  /\ \A k \in DOMAIN rows \ redefined : \A r \in Range(rows[k]) :
       /\ Len(r) = Len(tables[k].columns)
       /\ \A j \in DOMAIN r : r[j] \in {"null", tables[k].columns[j]}
  /\ phase = "panicked" => redefined # {}

\* The tables, views among them, that the options ask for.
Asked == {k \in DOMAIN tables : Wanted(k) /\ (tables[k].kind = "view" => options.views)}

\* Up to where result() has come, every table that is asked for is in the result,
\* once for each definition and in the order of the dump; none is lost because its
\* schema was not made.  Nothing else is in it but views of the wanted schemas that
\* were not asked for (dump.go:382-427; see ViewsOnlyIfAsked).
EveryTableEmitted ==
  phase \in {"emitting", "done"} =>
    /\ Keep([i \in DOMAIN out |-> out[i].key], Asked) =
         Keep(SubSeq(order, 1, next - 1), Asked)
    /\ \A i \in DOMAIN out :
         out[i].key \in Asked \/ (out[i].kind = "view" /\ Wanted(out[i].key))

-----------------------------------------------------------------------------
(* What the documentation says and the code does not do. *)

\* internal/database/PLAN.md:55-58: dump extractors honour view selection.
\* result() does not look at it (dump.go:382-427).
ViewsOnlyIfAsked == \A i \in DOMAIN out : out[i].kind = "view" => options.views
=============================================================================
