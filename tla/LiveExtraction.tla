---------------------------- MODULE LiveExtraction ----------------------------
(***************************************************************************)
(* Extract of the live adapters, against a database whose schema changes   *)
(* meanwhile: postgres, sqlutil (SQLite, and "sqlutil" for DuckDB and      *)
(* MySQL), mssql and oracle, each in its extractor.go.                     *)
(*                                                                         *)
(* An extraction is a row of queries without a transaction around them:    *)
(* the tables are listed, and then each is asked for its columns, its      *)
(* keys, its checks and an example.  Each query sees one state of the      *)
(* database; two queries may see two.  "keys" stands for what is read      *)
(* between the columns and the checks, one query of many.                  *)
(*                                                                         *)
(* A table of the database is a record: its identity, its columns, its     *)
(* keys and checks by version, and whether it holds a row.  A cell of a    *)
(* row is named after the column it is stored in.                          *)
(*                                                                         *)
(* mssql and oracle go through the rows of a listing while they ask about  *)
(* its tables; the listing is sorted, so it saw one state all the same.    *)
(***************************************************************************)
EXTENDS Integers, Sequences, FiniteSets, SequencesExt, Functions, Filters

CONSTANTS
  SchemaOrder,   \* the schemas asked for, in that order; one may be asked for twice
  TableNames,
  ColumnLists,   \* the column lists a table may have
  Requests,      \* what a caller may ask for, records of four:
                 \* the tables left out, the columns hidden, whether examples are
                 \* wanted and whether they are to be ordered
  MaxChanges     \* how often the schema changes: bounds the model

ASSUME ConstantsOK ==
  /\ MaxChanges \in Nat
  /\ SchemaOrder \in Seq(Range(SchemaOrder))
  /\ IsFiniteSet(TableNames)
  /\ \A l \in ColumnLists : l \in Seq(Range(l)) /\ IsInjective(l)
  /\ \A r \in Requests : r.exclude \subseteq Range(SchemaOrder) \X TableNames

Adapters == {"postgres", "sqlite", "sqlutil", "mssql", "oracle"}
Keys == Range(SchemaOrder) \X TableNames

\* No table: what a lookup that finds nothing returns.
Absent == [id |-> 0, columns |-> <<>>, keys |-> 0, checks |-> 0, filled |-> FALSE]

Tables ==
  [id : 1 .. MaxChanges + 1, columns : ColumnLists, keys : 1 .. 2, checks : 1 .. 2,
   filled : BOOLEAN]

VARIABLES
  adapter,     \* which adapter extracts
  options,     \* what the caller asked for
  catalogue,   \* key -> the table the database has, or Absent
  changes,     \* how often the schema changed
  pc,          \* the next query, "done" or "failed"
  todo,        \* the schemas yet to be listed
  work,        \* the tables listed and not yet in the result; with them, history,
               \* which listing it was and the table it saw
  partial,     \* what is known of the first of them
  result,      \* the tables of the result
  listed,      \* history: the visits to tables, one for each time a table was listed
  touched,     \* history: the visits between whose listing and last query the table changed
  lost,        \* history: the visits whose checks could not be read
  fault        \* history: a query failed that no change of the schema made fail

reading == <<pc, todo, work, partial, result, listed>>
vars == <<adapter, options, catalogue, changes, reading, touched, lost, fault>>

\* A visit: a table, and how many schemas were left to list when it was listed.
Visit(entry) == <<entry.left, entry.key>>

Nothing == [columns |-> <<>>, keys |-> 0, checks |-> 0]

TypeOK ==
  /\ adapter \in Adapters
  /\ options \in Requests
  /\ catalogue \in [Keys -> Tables \cup {Absent}]
  /\ changes \in 0 .. MaxChanges
  /\ pc \in {"list", "columns", "keys", "checks", "example", "done", "failed"}
  /\ pc \in {"columns", "keys", "checks", "example"} => work # <<>>
  /\ partial.columns \in ColumnLists \cup {<<>>}
  /\ \A x \in Range(result) :
       x.key \in Keys \ options.exclude /\ x.columns \in ColumnLists \cup {<<>>}
  /\ listed \subseteq (1 .. Len(SchemaOrder)) \X Keys
  /\ touched \cup lost \subseteq listed
  /\ fault \in BOOLEAN

Init ==
  /\ adapter \in Adapters
  /\ options \in Requests
  /\ catalogue \in [Keys -> {t \in Tables : t.id = 1 /\ t.keys = 1 /\ t.checks = 1}
                              \cup {Absent}]
  /\ changes = 0
  /\ pc = "list"
  /\ todo = SchemaOrder
  /\ work = <<>>
  /\ partial = Nothing
  /\ result = <<>>
  /\ listed = {}
  /\ touched = {}
  /\ lost = {}
  /\ fault = FALSE

-----------------------------------------------------------------------------
(* The database. *)

\* Somebody creates, drops or alters a table.
Change(k, t) ==
  /\ changes < MaxChanges
  /\ pc \notin {"done", "failed"}
  /\ catalogue' = [catalogue EXCEPT ![k] = t]
  /\ changes' = changes + 1
  /\ touched' = touched \cup {Visit(e) : e \in {e \in Range(work) : e.key = k}}
  /\ UNCHANGED <<adapter, options, reading, lost, fault>>

Create(k) ==
  /\ catalogue[k] = Absent
  /\ \E cols \in ColumnLists, filled \in BOOLEAN :
       Change(k, [id |-> changes + 2, columns |-> cols, keys |-> 1, checks |-> 1,
                  filled |-> filled])

Drop(k) ==
  /\ catalogue[k] # Absent
  /\ Change(k, Absent)

Alter(k) ==
  /\ catalogue[k] # Absent
  /\ \/ \E cols \in ColumnLists \ {catalogue[k].columns} :
          Change(k, [catalogue[k] EXCEPT !.columns = cols])
     \/ Change(k, [catalogue[k] EXCEPT !.keys = 3 - @])
     \/ Change(k, [catalogue[k] EXCEPT !.checks = 3 - @])

-----------------------------------------------------------------------------
(* Listing. *)

\* What a listing of some schemas finds and the caller did not exclude, in some order.
Listed(names) ==
  LET found == {k \in Keys \ options.exclude : k[1] \in names /\ catalogue[k] # Absent}
  IN  [i \in 1 .. Cardinality(found) |->
         LET k == SetToSeq(found)[i]
         IN  [key |-> k, id |-> catalogue[k].id, left |-> Len(todo), seen |-> catalogue[k]]]

\* postgres lists every schema in one query; the others one at a time, and the
\* first only after the tables of the schema before it.
List ==
  /\ pc = "list"
  /\ todo # <<>>
  /\ IF adapter = "postgres"
     THEN todo' = <<>> /\ work' = Listed(Range(todo))
     ELSE todo' = Tail(todo) /\ work' = Listed({Head(todo)})
  /\ listed' = listed \cup {Visit(e) : e \in Range(work')}
  /\ pc' = IF work' # <<>> THEN "columns" ELSE "list"
  /\ UNCHANGED <<adapter, options, catalogue, changes, partial, result, touched, lost, fault>>

AllListed ==
  /\ pc = "list"
  /\ todo = <<>>
  /\ pc' = "done"
  /\ UNCHANGED <<adapter, options, catalogue, changes, todo, work, partial, result,
                 listed, touched, lost, fault>>

-----------------------------------------------------------------------------
(* What is asked of one table. *)

\* Mutant of Current: the schema is left out of the condition.
CurrentUnqualified ==
  LET same == {k \in Keys : k[2] = Head(work).key[2] /\ catalogue[k] # Absent}
  IN  IF same = {} THEN Absent ELSE catalogue[CHOOSE k \in same : TRUE]

\* The table the catalogue queries find: by name, or by identity in mssql.
Current ==
  LET t == catalogue[Head(work).key]
  IN  IF adapter = "mssql" /\ t.id # Head(work).id THEN Absent ELSE t

LoadColumns ==
  /\ pc = "columns"
  /\ partial' = [partial EXCEPT !.columns = @ \o Current.columns]
  /\ pc' = "keys"
  /\ UNCHANGED <<adapter, options, catalogue, changes, todo, work, result, listed,
                 touched, lost, fault>>

LoadKeys ==
  /\ pc = "keys"
  /\ partial' = [partial EXCEPT !.keys = Current.keys]
  /\ pc' = "checks"
  /\ UNCHANGED <<adapter, options, catalogue, changes, todo, work, result, listed,
                 touched, lost, fault>>

LoadChecks ==
  /\ pc = "checks"
  /\ partial' = [partial EXCEPT !.checks = Current.checks]
  /\ pc' = "example"
  /\ UNCHANGED <<adapter, options, catalogue, changes, todo, work, result, listed,
                 touched, lost, fault>>

\* SQLite's checks come out of one query whose error is not looked at.
LoseChecks ==
  /\ pc = "checks"
  /\ adapter = "sqlite"
  /\ pc' = "example"
  /\ lost' = lost \cup {Visit(Head(work))}
  /\ UNCHANGED <<adapter, options, catalogue, changes, todo, work, partial, result,
                 listed, touched, fault>>

\* The table as it was found, with its example.
Described(heads, rows) ==
  [key |-> Head(work).key, columns |-> partial.columns, keys |-> partial.keys,
   checks |-> partial.checks, heads |-> heads, rows |-> rows,
   left |-> Head(work).left, seen |-> Head(work).seen]

\* Mutant of Finish: what was known of one table is still there for the next.
FinishKeeping(heads, rows) ==
  /\ result' = Append(result, Described(heads, rows))
  /\ work' = Tail(work)
  /\ pc' = IF work' = <<>> THEN "list" ELSE "columns"
  /\ UNCHANGED <<adapter, options, catalogue, changes, todo, partial, listed, touched,
                 lost, fault>>

\* The table joins the result with its example, and the next one is begun.
Finish(heads, rows) ==
  /\ result' = Append(result, Described(heads, rows))
  /\ work' = Tail(work)
  /\ partial' = Nothing
  /\ pc' = IF work' = <<>> THEN "list" ELSE "columns"
  /\ UNCHANGED <<adapter, options, catalogue, changes, todo, listed, touched, lost, fault>>

\* The error is returned and no database with it.
Fail ==
  /\ pc' = "failed"
  /\ todo' = <<>>
  /\ partial' = Nothing
  /\ result' = <<>>
  /\ UNCHANGED <<adapter, options, catalogue, changes, work, listed, touched, lost>>

Showing(columns) == Keep(columns, Range(columns) \ options.hide)

\* Mutant of Skipped: mssql and oracle ask for an example of no column.
SkippedByPostgres ==
  \/ ~options.sample
  \/ adapter = "postgres" /\ partial.columns = <<>>

\* No example is wanted, or nothing could be shown: postgres looks at the columns,
\* mssql and oracle at those that are not hidden, and sqlutil at nothing.
Skipped ==
  \/ ~options.sample
  \/ adapter = "postgres" /\ partial.columns = <<>>
  \/ adapter \in {"mssql", "oracle"} /\ Showing(partial.columns) = <<>>

SkipExample ==
  /\ pc = "example"
  /\ Skipped
  /\ Finish(<<>>, <<>>)

\* The rows of the table, when it has any.
Rows(filled, row) == IF filled THEN <<row>> ELSE <<>>

\* SELECT t.*, ordered by all the columns there were if that is wanted, is scanned
\* into as many places as there were columns; the shown are picked by position.
PickByPosition ==
  LET now == catalogue[Head(work).key]
      shown == Places(partial.columns, Range(partial.columns) \ options.hide)
      refused == \/ now = Absent
                 \/ options.ordered /\ ~(Range(partial.columns) \subseteq Range(now.columns))
      misfit == now.filled /\ Len(now.columns) # Len(partial.columns)
  IN  /\ pc = "example"
      /\ ~Skipped
      /\ adapter = "postgres"
      /\ \/ /\ refused \/ (misfit /\ shown # <<>>)
            /\ Fail
            /\ UNCHANGED fault
         \/ /\ ~refused
            /\ shown = <<>>
            /\ Finish(<<>>, <<>>)
         \/ /\ ~refused /\ ~misfit
            /\ shown # <<>>
            /\ Finish([i \in DOMAIN shown |-> partial.columns[shown[i]]],
                      Rows(now.filled, [i \in DOMAIN shown |-> now.columns[shown[i]]]))

\* Mutant of TakeOwnColumns: the cells are not filtered as the heads are.
TakeEveryCell ==
  LET now == catalogue[Head(work).key]
  IN  /\ pc = "example"
      /\ ~Skipped
      /\ adapter \in {"sqlite", "sqlutil"}
      /\ \/ now = Absent /\ Fail /\ UNCHANGED fault
         \/ /\ now # Absent
            /\ Finish(Showing(now.columns),
                      IF Showing(now.columns) = <<>> THEN <<>>
                      ELSE Rows(now.filled, now.columns))

\* SELECT * is read by the columns it comes with.
TakeOwnColumns ==
  LET now == catalogue[Head(work).key]
  IN  /\ pc = "example"
      /\ ~Skipped
      /\ adapter \in {"sqlite", "sqlutil"}
      /\ \/ now = Absent /\ Fail /\ UNCHANGED fault
         \/ /\ now # Absent
            /\ Finish(Showing(now.columns),
                      IF Showing(now.columns) = <<>> THEN <<>>
                      ELSE Rows(now.filled, Showing(now.columns)))

\* The columns that are shown are named in the query: one that is gone, or none,
\* is an error.
AskByName ==
  LET now == catalogue[Head(work).key]
      heads == Showing(partial.columns)
      valid == now # Absent /\ heads # <<>> /\ Range(heads) \subseteq Range(now.columns)
  IN  /\ pc = "example"
      /\ ~Skipped
      /\ adapter \in {"mssql", "oracle"}
      /\ \/ ~valid /\ Fail /\ UNCHANGED fault
         \/ valid /\ Finish(heads, Rows(now.filled, heads))

\* The context died, the connection broke, the database refused the query, or mssql
\* found no schema of the name.
QueryFails ==
  /\ pc \notin {"done", "failed"}
  /\ Fail
  /\ fault' = TRUE

Terminated == pc \in {"done", "failed"} /\ UNCHANGED vars

Changing == \E k \in Keys : Create(k) \/ Drop(k) \/ Alter(k)

Extracting ==
  \/ List
  \/ AllListed
  \/ LoadColumns
  \/ LoadKeys
  \/ LoadChecks
  \/ LoseChecks
  \/ SkipExample
  \/ PickByPosition
  \/ TakeOwnColumns
  \/ AskByName

Next ==
  \/ Changing
  \/ Extracting
  \/ QueryFails
  \/ Terminated

SafeSpec == Init /\ [][Next]_vars

-----------------------------------------------------------------------------

\* Every table that was listed is in the result, once for each listing, and one that
\* nobody changed between its listing and its last query is described as it was,
\* whatever happened to the other tables meanwhile, tables of its name in other schemas
\* included: its columns, keys and checks, and an example of what may be shown, if one
\* was asked for and something may; but for the checks of a SQLite table whose query
\* failed (postgres/extractor.go:46-167, sqlutil/extractor.go:26-222).
UntouchedExact ==
  /\ pc = "done" =>
       LET visits == [i \in DOMAIN result |-> Visit(result[i])]
       IN  IsInjective(visits) /\ Range(visits) = listed
  /\ \A x \in Range(result) : Visit(x) \notin touched =>
       LET shown == IF options.sample THEN Showing(x.seen.columns) ELSE <<>>
       IN  /\ x.columns = x.seen.columns
           /\ x.keys = x.seen.keys
           /\ x.checks = x.seen.checks \/ Visit(x) \in lost
           /\ x.heads = shown
           /\ x.rows = IF x.seen.filled /\ shown # <<>> THEN <<shown>> ELSE <<>>

\* In an example each cell is under the name of its own column and no hidden column
\* is shown, although the table may have been changed since its columns were read;
\* only postgres, which goes by position, may then mix them up, and even it keeps as
\* many cells as heads (postgres/extractor.go:282-316, sqlutil/extractor.go:135-181,
\* mssql/extractor.go:420-463).
ExamplesAligned ==
  \A x \in Range(result) : \A row \in Range(x.rows) :
    /\ Len(row) = Len(x.heads)
    /\ adapter # "postgres" \/ Visit(x) \notin touched =>
         row = x.heads /\ Range(row) \cap options.hide = {}

\* An extraction fails because a query did, or because the very table it was reading
\* was changed after it was listed: changes to tables it has done with, has yet to
\* list or was told to leave out never make it fail, and no choice of options does
\* (postgres/extractor.go:255-319, mssql/extractor.go:420-463).
QuietNeverFails ==
  pc = "failed" => fault \/ (work # <<>> /\ Visit(Head(work)) \in touched)
=============================================================================
