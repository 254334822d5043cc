----------------------------- MODULE PostgresDump -----------------------------
(***************************************************************************)
(* The dump parser of PostgreSQL and CockroachDB:                          *)
(* internal/database/postgres/dump_parser.go.                              *)
(*                                                                         *)
(* parseDump reads the statements of a dump in order, one handler for      *)
(* each; apply() then makes the database, table by table, under the        *)
(* caller's options, or returns the context's error.                       *)
(*                                                                         *)
(* Statements are told apart by how their text begins.  Two things get in  *)
(* the way: a comment before the statement, which the splitter does not    *)
(* know; and the data of a COPY whose end the splitter does not find, to   *)
(* which the next statement is then glued.  The end is a line of its own   *)
(* after a line feed, so it is found in every dump but those whose lines   *)
(* end in CR LF.  A statement is named by the kind of thing it says; a     *)
(* value keeps the name of the column it was written for.  PARTITION BY    *)
(* (c) after a table's columns ends with a parenthesis too, so that such   *)
(* a table is read like any other, with the clause in the type of its last *)
(* column.                                                                 *)
(*                                                                         *)
(* The history keeps what the dump says, whether it was understood or not: *)
(* a name is resolved by the search_path that the dump sets, which the     *)
(* parser does not read, and a statement that no handler understands says  *)
(* what it says.                                                           *)
(***************************************************************************)
EXTENDS Integers, Sequences, FiniteSets, SequencesExt, Functions, Filters

CONSTANTS
  MaxStatements,   \* how many statements a dump has: bounds the model
  SchemaNames,     \* the schemas a dump names, "public" among them
  TableNames,
  Columns,
  ColumnLists,     \* the column lists of CREATE TABLE, INSERT and COPY
  Options,         \* the options a caller may give, see AllOptions
  None             \* no qualifier, no options

AllOptions ==
  [allow : SUBSET SchemaNames, exclude : SUBSET TableNames,
   excludeExample : SUBSET TableNames, hide : SUBSET Columns,
   sample : Nat, ordered : BOOLEAN, views : BOOLEAN, partitioned : BOOLEAN]

ASSUME ConstantsOK ==
  /\ MaxStatements \in Nat
  /\ "public" \in SchemaNames
  /\ None \notin SchemaNames
  /\ ColumnLists \subseteq Seq(Columns)
  /\ \A l \in ColumnLists : IsInjective(l)
  /\ Options \subseteq AllOptions
  /\ None \notin Options

Keys == SchemaNames \X TableNames
Qualifiers == SchemaNames \cup {None}

VARIABLES
  phase,        \* "parsing", "emitting", "done", "failed", "stopped", "panicked"
  statements,   \* how many statements were read
  crlf,         \* the lines of the dump end in CR LF
  glued,        \* the next statement is glued to the data of a COPY
  tables,       \* dumpState.tables: a function on the keys it holds
  order,        \* dumpState.order
  rows,         \* dumpState.rows
  schemas,      \* dumpState.schemas, as a set of names
  options,      \* what the caller asked for
  next,         \* the position of apply() in order
  out,          \* the tables of the result
  path,         \* history: the schema of an unqualified name, as SQL has it
  due,          \* history: key -> what the dump attached to its last definition
  owed,         \* history: key -> the rows of the dump, as it wrote them
  strayed,      \* history: keys that unqualified names stood for, here and in SQL
  missed,       \* history: keys of which a statement was not understood
  stale,        \* history: keys of which the last definition was not understood
  redefined,    \* history: the keys defined again after rows came for them
  foreign       \* history: keys given a COPY of columns the table does not have

parsed == <<tables, order, rows, schemas>>
said == <<due, owed, strayed, missed, stale, redefined, foreign>>
history == <<path, said>>
vars == <<phase, statements, crlf, glued, parsed, options, next, out, history>>

Put(f, k, v) == [x \in DOMAIN f \cup {k} |-> IF x = k THEN v ELSE f[x]]
At(f, k, none) == IF k \in DOMAIN f THEN f[k] ELSE none

\* For the history: a detail and a row of a table, if the dump has defined it.
WithDetail(f, k, detail) ==
  IF k \in DOMAIN f THEN [f EXCEPT ![k] = @ \cup {detail}] ELSE f
WithRow(f, k, values) ==
  IF k \in DOMAIN f THEN [f EXCEPT ![k] = Append(@, Range(values))] ELSE f

Attached == {"constraint", "index", "trigger", "comment"}
TableKinds == {"table", "partitioned", "view"}

TableType ==
  [kind : TableKinds, columns : ColumnLists \cup {<<>>},
   attached : SUBSET (Attached \cup Columns)]

TypeOK ==
  /\ phase \in {"parsing", "emitting", "done", "failed", "stopped", "panicked"}
  /\ statements \in 0 .. MaxStatements
  /\ crlf \in BOOLEAN
  /\ glued \in BOOLEAN
  /\ DOMAIN tables \subseteq Keys
  /\ \A k \in DOMAIN tables : tables[k] \in TableType /\ k[1] \in schemas
  /\ order \in Seq(DOMAIN tables)
  /\ DOMAIN rows \subseteq DOMAIN tables
  /\ schemas \subseteq SchemaNames
  /\ options \in IF phase \in {"parsing", "failed"} THEN {None} ELSE Options
  /\ next \in 1 .. Len(order) + 1

Init ==
  /\ phase = "parsing"
  /\ statements = 0
  /\ crlf \in BOOLEAN
  /\ glued = FALSE
  /\ tables = <<>>
  /\ order = <<>>
  /\ rows = <<>>
  /\ schemas = {}
  /\ options = None
  /\ next = 1
  /\ out = <<>>
  /\ path = "public"
  /\ due = <<>>
  /\ owed = <<>>
  /\ strayed = {}
  /\ missed = {}
  /\ stale = {}
  /\ redefined = {}
  /\ foreign = {}

-----------------------------------------------------------------------------
(* Reading a statement. *)

\* normalizeQualified, and what the handlers that define something do.
Space(q) == IF q = None THEN "public" ELSE q
Key(q, n) == <<Space(q), n>>

\* The same by the rules of SQL, for the history: the search_path decides.
Intended(q, n) == <<IF q = None THEN path ELSE q, n>>

\* Where the two are not one, the history makes a note of both keys.
Stray(q, n) ==
  strayed' = IF q = None /\ path # "public"
             THEN strayed \cup {Key(q, n), Intended(q, n)} ELSE strayed

Reading ==
  /\ phase = "parsing"
  /\ statements < MaxStatements
  /\ statements' = statements + 1
  /\ UNCHANGED <<crlf, options, next, out>>

\* A statement that begins with its own first word.
Statement ==
  /\ Reading
  /\ ~glued
  /\ UNCHANGED <<phase, glued, path>>

\* SET search_path: no case for it, wherever it is.
SetPath(s) ==
  /\ Reading
  /\ glued' = FALSE
  /\ path' = s
  /\ UNCHANGED <<phase, parsed, said>>

\* No case for it and nothing to do with a table: SET, GRANT, CREATE SCHEMA.
Ignore ==
  /\ Reading
  /\ glued' = FALSE
  /\ UNCHANGED <<phase, parsed, history>>

\* A CREATE TABLE that does not end with its parentheses fails the whole extraction,
\* be it no SQL or a good one with TABLESPACE, AS SELECT or PARTITION OF ... DEFAULT.
Malformed ==
  /\ Reading
  /\ ~glued
  /\ phase' = "failed"
  /\ UNCHANGED <<glued, parsed, history>>

\* So does an ALTER TABLE that adds nothing, such as the OWNER TO of every pg_dump.
AlterOtherwise ==
  /\ Reading
  /\ ~glued
  /\ phase' = "failed"
  /\ UNCHANGED <<glued, parsed, history>>

-----------------------------------------------------------------------------
(* Statements about a table that no handler understands: they have a       *)
(* comment before them, which is how pg_dump heads what it writes, they    *)
(* are glued to data, or are an INSERT without a column list, a comment on *)
(* a column whose name is not in three parts or whose table is not known   *)
(* to have it, and the like.                                               *)

Overlook(q, n) ==
  /\ Reading
  /\ missed' = missed \cup {Intended(q, n)}
  /\ Stray(q, n)
  /\ UNCHANGED <<phase, parsed, path, redefined, foreign>>

OverlookDefinition(q, n) ==
  /\ Overlook(q, n)
  /\ glued' = FALSE
  /\ due' = Put(due, Intended(q, n), {})
  /\ owed' = Put(owed, Intended(q, n), <<>>)
  /\ stale' = stale \cup {Intended(q, n)}

OverlookDetail(q, n, detail) ==
  /\ Overlook(q, n)
  /\ glued' = FALSE
  /\ due' = WithDetail(due, Intended(q, n), detail)
  /\ UNCHANGED <<owed, stale>>

\* The data of a COPY is left lying before the next statement.
OverlookRow(q, n, values, copies) ==
  /\ Overlook(q, n)
  /\ glued' = copies
  /\ owed' = WithRow(owed, Intended(q, n), values)
  /\ UNCHANGED <<due, stale>>

-----------------------------------------------------------------------------
(* What the handlers do. *)

\* What the history makes of a definition.
Redefine(q, n) ==
  LET k == Intended(q, n)
  IN  /\ due' = Put(due, k, {})
      /\ owed' = Put(owed, k, <<>>)
      /\ missed' = missed \ {k}
      /\ stale' = stale \ {k}
      /\ Stray(q, n)
      /\ redefined' = IF At(rows, Key(q, n), <<>>) = <<>> THEN redefined
                      ELSE redefined \cup {Key(q, n)}

\* Mutant of Define: a table that is already there is kept.
DefineOnce(q, n, t) ==
  LET k == Key(q, n)
  IN  /\ tables' = IF k \in DOMAIN tables THEN tables ELSE Put(tables, k, t)
      /\ order' = Append(order, k)
      /\ schemas' = schemas \cup {Space(q)}
      /\ Redefine(q, n)

\* A table or a view takes the place of what had its name, and is put in the
\* order again; rows that came for the name stay.
Define(q, n, t) ==
  LET k == Key(q, n)
  IN  /\ tables' = Put(tables, k, t)
      /\ order' = Append(order, k)
      /\ schemas' = schemas \cup {Space(q)}
      /\ Redefine(q, n)

CreateTable(q, n, kind, cols) ==
  /\ Statement
  /\ Define(q, n, [kind |-> kind, columns |-> cols, attached |-> {}])
  /\ UNCHANGED <<rows, foreign>>

View(q, n) ==
  /\ Statement
  /\ Define(q, n, [kind |-> "view", columns |-> <<>>, attached |-> {}])
  /\ UNCHANGED <<rows, foreign>>

\* A detail of a table that is not known yet is dropped.
Attach(q, n, detail) ==
  /\ Statement
  /\ tables' = IF Key(q, n) \in DOMAIN tables
               THEN [tables EXCEPT ![Key(q, n)].attached = @ \cup {detail}] ELSE tables
  /\ due' = WithDetail(due, Intended(q, n), detail)
  /\ Stray(q, n)
  /\ UNCHANGED <<order, rows, schemas, owed, missed, stale, redefined, foreign>>

AlterAdd(q, n) == Attach(q, n, "constraint")
Index(q, n) == Attach(q, n, "index")
Trigger(q, n) == Attach(q, n, "trigger")
CommentOnTable(q, n) == Attach(q, n, "comment")

\* A column that the parser does not know is not commented: see OverlookDetail.
CommentOnColumn(q, n, c) ==
  /\ q # None
  /\ Key(q, n) \in DOMAIN tables => c \in Range(tables[Key(q, n)].columns)
  /\ Attach(q, n, c)

\* An enum, a sequence or a routine makes its schema if it is new.
AddObject(q) ==
  /\ Statement
  /\ schemas' = schemas \cup {Space(q)}
  /\ UNCHANGED <<tables, order, rows, said>>

-----------------------------------------------------------------------------
(* Rows. *)

\* Mutant of Row: the last head is not looked at.
RowButLast(columns, heads, values) ==
  [j \in 1 .. Len(columns) |->
     LET at == {i \in DOMAIN values : i < Len(heads) /\ heads[i] = columns[j]}
     IN  IF at = {} THEN "null" ELSE values[Max(at)]]

\* One cell for each column the table has now: the value under the head that bears
\* its name, or null.
Row(columns, heads, values) ==
  [j \in 1 .. Len(columns) |->
     LET at == {i \in DOMAIN values : i <= Len(heads) /\ heads[i] = columns[j]}
     IN  IF at = {} THEN "null" ELSE values[Max(at)]]

\* Mutant of AddRow: rows are kept for a table that is not known.
AddRowUnknown(q, n, heads, values) ==
  LET k == Key(q, n)
  IN  /\ rows' = Put(rows, k, Append(At(rows, k, <<>>), Row(values, heads, values)))
      /\ owed' = WithRow(owed, Intended(q, n), values)
      /\ Stray(q, n)
      /\ UNCHANGED <<tables, order, schemas, due, missed, stale, redefined>>

AddRow(q, n, heads, values) ==
  LET k == Key(q, n)
  IN  /\ rows' = IF k \notin DOMAIN tables THEN rows
                 ELSE Put(rows, k, Append(At(rows, k, <<>>),
                        Row(tables[k].columns, heads, values)))
      /\ owed' = WithRow(owed, Intended(q, n), values)
      /\ Stray(q, n)
      /\ UNCHANGED <<tables, order, schemas, due, missed, stale, redefined>>

Insert(q, n, named) ==
  /\ Statement
  /\ AddRow(q, n, named, named)
  /\ UNCHANGED foreign

\* The heads of a COPY are the columns it names, less those the table does not
\* have; without names they are the table's.
Heads(columns, named) == Keep(named, Range(columns))

Copy(q, n, named) ==
  LET k == Key(q, n)
      columns == At(tables, k, [columns |-> <<>>]).columns
      values == IF named = <<>> THEN columns ELSE named
  IN  /\ ~crlf
      /\ Statement
      /\ AddRow(q, n, Heads(columns, values), values)
      /\ foreign' = IF k \in DOMAIN tables /\ ~(Range(values) \subseteq Range(columns))
                    THEN foreign \cup {k} ELSE foreign

\* The end of the data is not found: the statement is its first line, without rows.
CopyUnended(q, n, values) ==
  /\ crlf
  /\ ~glued
  /\ OverlookRow(q, n, values, TRUE)

-----------------------------------------------------------------------------
(* The result. *)

EndOfInput ==
  /\ phase = "parsing"
  /\ phase' = "emitting"
  /\ options' \in Options
  /\ UNCHANGED <<statements, crlf, glued, parsed, next, out, history>>

\* What the caller's options let into the result.
Wanted(k) ==
  /\ options.allow = {} \/ k[1] \in options.allow
  /\ k[2] \notin options.exclude

\* How many rows the example of a table has.
SampleSize(k, all) ==
  IF k[2] \in options.excludeExample THEN 0
  ELSE IF Len(all) < options.sample THEN Len(all) ELSE options.sample

\* The rows of the example, in the order of the dump or, when ordered, in the
\* order of how they print, which may be any.
Samples(k) ==
  LET all == At(rows, k, <<>>)
      size == SampleSize(k, all)
  IN  IF ~options.ordered THEN {SubSeq(all, 1, size)}
      ELSE {[i \in 1 .. size |-> all[p[i]]] : p \in Injection(1 .. size, DOMAIN all)}

\* The columns an example shows.
Shown(k) == {j \in DOMAIN tables[k].columns : tables[k].columns[j] \notin options.hide}

Emitting ==
  /\ phase = "emitting"
  /\ next <= Len(order)

\* The context died: apply() returns its error and no database.
Stop ==
  /\ Emitting
  /\ phase' = "stopped"
  /\ out' = <<>>
  /\ UNCHANGED <<statements, crlf, glued, parsed, options, next, history>>

Skip ==
  /\ Emitting
  /\ ~Wanted(order[next])
  /\ next' = next + 1
  /\ UNCHANGED <<phase, statements, crlf, glued, parsed, options, out, history>>

\* Mutant of Example: the hidden columns are looked up among those shown.
ExampleMisplaced(k, sample) ==
  [i \in DOMAIN sample |->
     [j \in 1 .. Cardinality(Shown(k)) |-> sample[i][j]]]

\* The example of a table: each row without its hidden cells, or none when no
\* column is left.
Example(k, sample) ==
  IF Shown(k) = {} THEN <<>>
  ELSE [i \in DOMAIN sample |-> [j \in Shown(k) |-> sample[i][j]]]

\* A table joins the schema of the result with its name, if there is one.
Emit ==
  /\ Emitting
  /\ LET k == order[next]
     IN  /\ Wanted(k)
         /\ \E sample \in Samples(k) :
              /\ \A i \in DOMAIN sample : Shown(k) \subseteq DOMAIN sample[i]
              /\ out' = IF k[1] \notin schemas THEN out
                        ELSE Append(out, [key |-> k, kind |-> tables[k].kind,
                                          example |-> Example(k, sample)])
  /\ next' = next + 1
  /\ UNCHANGED <<phase, statements, crlf, glued, parsed, options, history>>

\* A row is shorter than the table is wide: r[i] is out of range, and with it
\* the process is gone.
Panic ==
  /\ Emitting
  /\ LET k == order[next]
     IN  /\ Wanted(k)
         /\ \E sample \in Samples(k) :
              \E i \in DOMAIN sample : ~(Shown(k) \subseteq DOMAIN sample[i])
  /\ phase' = "panicked"
  /\ UNCHANGED <<statements, crlf, glued, parsed, options, next, out, history>>

Finish ==
  /\ phase = "emitting"
  /\ next > Len(order)
  /\ phase' = "done"
  /\ UNCHANGED <<statements, crlf, glued, parsed, options, next, out, history>>

Terminated ==
  /\ phase \in {"done", "failed", "stopped", "panicked"}
  /\ UNCHANGED vars

-----------------------------------------------------------------------------

Failing == Malformed \/ AlterOtherwise

Defining ==
  \E q \in Qualifiers, n \in TableNames :
    \/ \E kind \in {"table", "partitioned"}, cols \in ColumnLists :
         CreateTable(q, n, kind, cols)
    \/ View(q, n)

Attaching ==
  \E q \in Qualifiers, n \in TableNames :
    \/ AlterAdd(q, n)
    \/ Index(q, n)
    \/ Trigger(q, n)
    \/ CommentOnTable(q, n)
    \/ \E c \in Columns : CommentOnColumn(q, n, c)

AddingRows ==
  \E q \in Qualifiers, n \in TableNames :
    \/ \E named \in ColumnLists : Insert(q, n, named)
    \/ \E named \in ColumnLists \cup {<<>>} : Copy(q, n, named)
    \/ \E values \in ColumnLists : CopyUnended(q, n, values)

Overlooking ==
  \E q \in Qualifiers, n \in TableNames :
    \/ OverlookDefinition(q, n)
    \/ \E detail \in Attached \cup Columns : OverlookDetail(q, n, detail)
    \/ \E values \in ColumnLists, copies \in BOOLEAN : OverlookRow(q, n, values, copies)

Next ==
  \/ Failing
  \/ Defining
  \/ Attaching
  \/ AddingRows
  \/ Overlooking
  \/ \E q \in Qualifiers : AddObject(q)
  \/ Ignore
  \/ \E s \in SchemaNames : SetPath(s)
  \/ EndOfInput
  \/ Stop
  \/ Skip
  \/ Emit
  \/ Panic
  \/ Finish
  \/ Terminated

SafeSpec == Init /\ [][Next]_vars

-----------------------------------------------------------------------------

\* A table is known, and holds exactly what the dump attached to it, by the names of
\* SQL and since its last definition, when every statement about it was understood.
\* When one was not, the table lacks what that said and no more: it holds nothing
\* that the dump did not say, and no other table feels it.  Only a definition that
\* was not understood leaves details of an earlier table with the name, until the
\* next one (dump_parser.go:140-301, 450-500).  A table is left out if an
\* unqualified name stood for it, here or in SQL, while the search_path was not
\* "public", for the parser does not read SET search_path.
DetailsKept ==
  \A k \in (DOMAIN due \cup DOMAIN tables) \ strayed :
    /\ k \in DOMAIN due
    /\ k \in DOMAIN tables /\ k \notin stale => tables[k].attached \subseteq due[k]
    /\ k \notin missed => k \in DOMAIN tables /\ due[k] \subseteq tables[k].attached

\* The cells of a row that named some columns, for a table with these.
CellsFor(columns, named) ==
  [j \in DOMAIN columns |-> IF columns[j] \in named THEN columns[j] ELSE "null"]

\* Every row of a table is a row the dump wrote for it, each value under its own
\* column and null elsewhere; and they are all of them, in their order, when none
\* was overlooked.  Left out are a table that was defined again under its rows, one
\* whose last definition was overlooked, and one that was given a COPY of a column
\* it lacks, as the children of a partitioned or inherited table are
\* (dump_parser.go:279-347).
RowsKept ==
  \A k \in DOMAIN owed \ (strayed \cup stale \cup redefined \cup foreign) :
    LET columns == tables[k].columns
        kept == At(rows, k, <<>>)
    IN  /\ \A i \in DOMAIN kept :
             \E named \in Range(owed[k]) : kept[i] = CellsFor(columns, named)
        /\ k \notin missed =>
             /\ Len(kept) = Len(owed[k])
             /\ \A i \in DOMAIN kept : kept[i] = CellsFor(columns, owed[k][i])

\* The tables that the options ask for.
Asked ==
  {k \in DOMAIN tables :
     /\ Wanted(k)
     /\ tables[k].kind = "view" => options.views
     /\ tables[k].kind = "partitioned" => options.partitioned}

KeysOf(result) == [i \in DOMAIN result |-> result[i].key]

\* Up to where apply() has come, the tables that are asked for are in the result,
\* once for each definition and in the order of the dump, and at the end they all
\* are; nothing else is in it but views and partitioned tables of the wanted
\* schemas that were not asked for (see SelectionHonoured).  The example has as
\* many rows as were asked for, each one a row of the dump with its hidden columns
\* gone and the others in place, the first ones unless they are ordered; and a
\* table defined again under its rows is the only way to a panic
\* (dump_parser.go:348-407).
ResultIsTheDump ==
  /\ phase \in {"emitting", "done"} =>
       /\ Keep(KeysOf(out), Asked) = Keep(SubSeq(order, 1, next - 1), Asked)
       /\ \A x \in Range(out) :
            x.key \in Asked \/ (x.kind \in {"view", "partitioned"} /\ Wanted(x.key))
  /\ phase = "done" => Asked \subseteq Range(KeysOf(out))
  /\ \A x \in Range(out) :
       x.key \notin missed \cup strayed \cup redefined \cup foreign =>
         LET k == x.key
             cells(named) == CellsFor(tables[k].columns, named)
             Show(named) == [j \in Shown(k) |-> cells(named)[j]]
         IN  /\ Len(x.example) = IF Shown(k) = {} THEN 0 ELSE SampleSize(k, owed[k])
             /\ \A i \in DOMAIN x.example :
                  IF options.ordered
                  THEN \E named \in Range(owed[k]) : x.example[i] = Show(named)
                  ELSE x.example[i] = Show(owed[k][i])
  /\ phase = "panicked" => redefined # {}

-----------------------------------------------------------------------------
(* What the documentation says and the code does not do. *)

\* internal/database/PLAN.md:55-58: dump extractors honour partition and view
\* selection.  apply() looks at neither.
SelectionHonoured ==
  \A x \in Range(out) :
    /\ x.kind = "view" => options.views
    /\ x.kind = "partitioned" => options.partitioned
=============================================================================
