# A TLA+ model of db2toon

db2toon describes a database schema, with optional example rows, as a TOON
document. The source of the schema is a live database or an SQL dump; the caller
is a command line, a Go program, or a language model that talks to an MCP server
over standard input and output. This directory holds a model of the parts of the
program whose correctness depends on order, failure and concurrency, the TLC runs
that check it on small instances, and the theorems TLAPS proves about it for every
instance.

Paths below are relative to the repository (`internal/...`, `cmd/...`).

## 1. The system

| Component | Source | State it keeps | Operations | Meets |
|---|---|---|---|---|
| MCP server | `internal/mcp/server.go`, `cmd/db2toon-mcp/main.go` | the table `active` of cancellation functions by request id (under `mu`), the output stream (under `write`), a WaitGroup | `Serve` (read a line, answer a malformed one, cancel, start a goroutine), `register`/`unregister`, `handle`, `writeResponse`, `callTool` | client over stdio; service by call, under a context of its own |
| Extraction service | `internal/service/service.go` | none between calls; in a call the deadline and the output limit | `CapabilitiesFor`, `Extract` (validate, bound, extract, classify the error, encode, bound the output) | public API, encoder |
| Public Go API | `extract.go`, `errors.go` | in a call the extractor it opened | `Extract`, `newExtractor`, `databaseName` | adapters |
| Command line programs | `internal/cli/run.go`, `cmd/db2toon`, `cmd/pg2toon`, `cmd/dbml2toon` | the input and the output file | parse arguments, choose schemas, extract, create, write, close | service, DBML parser, file system |
| Generic dump parser | `internal/database/sqlutil/dump.go` | `genericDump`: tables, their order, rows, schemas, default and current schema | one handler per statement, `result` | every dialect but PostgreSQL and CockroachDB |
| PostgreSQL dump parser | `internal/database/postgres/dump.go`, `dump_parser.go` | `pgDump`: tables, order, rows, schemas | one handler per statement (with `COPY`), `apply` | PostgreSQL, CockroachDB |
| Live extractors | `postgres`, `sqlutil`, `mssql`, `oracle` `extractor.go` | a connection or a pool; in a query the constraints found so far, by name | catalogue queries per table, examples, `Close` | database server |
| Dialect adapters | `sqlite`, `duckdb`, `mysql`, `cockroachdb` `extractor.go` | none | open, ping, close on failure | live extractors |
| TOON encoder | `pkg/toon/encoder.go` | none between calls; in a table the inline references by column | `Encode` | service, DBML parser |
| DBML parser | `pkg/dbml/parser.go`, `adapter.go` | the table being read, whether in its indexes, its key so far, the references not yet resolved | `Parse` (`consume` per line, `addReference` at the end), `Convert` | dbml2toon, encoder |
| Schema model | `pkg/schema/model.go`, `internal/database/extractor.go`, `constants` | data only | - | all |

One tool call goes through all layers: the MCP loop accepts a line, a goroutine
runs `handle` under a cancellable context, the service arms a deadline on that
context, the public API opens an adapter and closes it on every way out, the
adapter returns a `schema.Database`, the service encodes it to memory and refuses a
document over the limit, and the goroutine writes one frame to standard output.

### What is hard about it

- **Concurrency** (MCP server): the loop and any number of goroutines share a table,
  a stream and a WaitGroup. The deferred calls of a goroutine run last-in first-out;
  a `CancelFunc` is looked up under a lock and called after it; the client chooses
  the ids and may choose one twice; the client may stop reading at any time.
- **Time** (service and adapters): the context may die, by cancellation or by
  deadline, between any two steps, and each adapter looks at it in different places.
- **Failure** (API, command line): what was opened must be closed on every way out;
  what the user had must outlive a failed run.
- **Order** (dump parsers): what a statement means depends on the statements before
  it - the schema in force, the tables known so far, the columns they had when a row
  came. A dump is any sequence of statements.
- **Nesting** (scanners, DBML parser): what a character or a line means depends on what is
  open around it, and the code tracks less than the languages allow.
- **Names** (live extractors, encoder): a constraint is found again by its name, a table by a
  name of one part or two, and what a name identifies differs between databases.
- **Boundaries**: the output limits, the number of example rows.

`hazards` in `PROJECT.json` lists these one by one, each at its line, with the
properties that would catch it going wrong.

### What makes each component correct

- MCP server: frames are never interleaved; a cancellation reaches the request it
  names and no other; every accepted request is answered once; the process ends, in
  order, once its input has.
- Service and API: a success is the whole schema; a failure is named after its cause;
  nothing stays open; no document is larger than allowed; every call returns.
- Command line: an earlier document outlives a run that fails before it has another;
  success means a whole document of what was read; what the user named is what is extracted.
- Dump parsers: what a dump says about a table stays with that table, as SQL means its name; a value
  stays under its column; the result has what the options ask for, in the order of the dump; a text is
  cut where its author meant it.
- Live extractors: a table that nobody changes is described exactly; each constraint is whole
  and its columns are in order.
- DBML parser and encoder: a well-formed document is accepted, and its tables and references
  are those a reader finds in the TOON document.

## 2. The modules

| Module | Models | Checked by | Proved in |
|---|---|---|---|
| `RpcSession` | what a session promises its client (abstract) | as a property of `McpServer` | - |
| `McpServer` | the MCP server's loop, goroutines and process | `mcp` | `McpServerProofs` |
| `ExtractService` | one call, from `callTool` to its answer | `service*` | `ServiceProofs` |
| `Commands` | the three command line programs and their files | `cli` | `ServiceProofs` |
| `GenericDump` | the generic dump parser and its result | `dump*` | `GenericDumpProofs` |
| `PostgresDump` | the PostgreSQL dump parser and its result | `pgdump*` | `PostgresDumpProofs` |
| `LiveExtraction` | a live extraction against a schema that changes meanwhile | `live` | `LiveExtractionProofs` |
| `CatalogueKeys` | constraints, indexes and triggers put together from catalogue rows | `keys` | `CatalogueKeysProofs` |
| `DumpScanner` | the six scanners that cut a dump into pieces | `scanner` | `PostgresDumpProofs` |
| `ToonEncoder` | the names and references of a TOON document (operators) | through `DbmlParser` | `DbmlParserProofs` |
| `DbmlParser` | the DBML parser, an author of documents, and the encoder behind it | `dbml` | `DbmlParserProofs` |
| `Filters` | going through a list and keeping what is wanted of it (operators) | through the dump parsers and the encoder | `FilterProofs` |

The modules whose names begin with `MC` give the constants that a `.cfg` cannot
write down; `McpServer` and `Commands` need none and are run as they stand. In every
module a definition prefixed by a comment "Mutant of" is a plausible mistake, kept
beside the definition it would replace and used by nothing: it shows that the
property it belongs to notices the mistake.

### McpServer and the code

| State | Code |
|---|---|
| `loop` | where `Serve` is: `scan` (in `scanner.Scan`), `reply`/`replying` (answering a malformed line, before and inside the write lock), `cancel` (between looking a `CancelFunc` up and calling it), `drain` (`wg.Wait`), `returned`, `exited` |
| `pc[r]` | where the goroutine of request r is: `handling`, `ready` (response made, lock not yet held), `writing` (inside `Encode`), `written` (about to `unregister`), `leaving` (about to call `wg.Done`) |
| `active`, `cancelled` | `Server.active`, and the contexts that were cancelled |
| `lock`, `wg`, `sent`, `broken` | `Server.write`, the WaitGroup, whole responses that reached the client, the client's closed reading end |
| `shared`, `asked`, `named` | history, for `CancelIsExact` only |

Each action is a stretch of code that no other thread can observe in part:
`register`, `wg.Add` and `go` are one action, since the new request is visible to
others through `active` alone; looking up a `CancelFunc` and calling it are two, since
`mu` is released in between; taking the write lock and leaving `Encode` are two. The
critical sections under `mu` touch one map entry each and are atomic. A request is
accepted under any id at any time, an id in use included. `unregister` deletes by id,
whoever holds the entry by then; `CancelIsExact` therefore leaves out the requests whose
life overlapped that of another request with their id, and promises the others a
cancellation without fail. When `Serve` returns `main` returns, and goroutines that
still run stop where they are (`Exit`). A write to a standard output that nobody reads ends a Unix
process by a signal (`Sigpipe`); elsewhere, or when the writer is not standard output, the write returns an
error, which the loop returns and a goroutine ignores (`LoopWrites`, `Write`). The model has both.

The read of a whole line, `json.Unmarshal` and validation are one choice between the
outcomes that differ in state: malformed, cancellation, request, end of input. A line
longer than the scanner's buffer ends the loop like the end of input, with an error.

`RpcSession` is what the client sees: a request is accepted, then answered once, or
lost when the client has hung up; the session drains and closes. The refinement mapping
is at the end of `McpServer`: `Phase(r)` reads the phase off `pc[r]`, `sent[r]` and
whether the process is gone.

### ExtractService and the code

`pc` walks through `callTool`, the checks of `service.Extract` in their order (one
operator, `Rejection`, keeps that order), `Extract` of the public API, `newExtractor`, the
adapter, the deferred `Close`, the classification of the error and the encoder.
`ctx` says whether the context is alive or which of the client and the deadline came
first, as `context.Cause` and `ctx.Err()` do. Three kinds of source differ in where they
look at the context: a live database at every query; a PostgreSQL dump before it reads
and before every table; a generic dump only before every table, and there it stops
without an error. The dialect lists of `CapabilitiesFor` and of `newExtractor`'s switch
are two definitions, as they are two lists in the code. The dialect values `blank` and
`unknown` stand for the empty string and for any other name.

### Commands and the code

Two places, `in` and `out`, hold what a reader would find there. The order of
extraction, `os.Create` (which truncates), write and `Close` is that of the code, which
differs between `db2toon`/`pg2toon` (extract first, then create) and `dbml2toon` (create
first, then parse). `-out` may name the input. A write may fall short, `Close` may
report it, and the program may be killed at any step. `Extract` has three outcomes: the whole source, an error, and for
a dump that the generic parser reads (`ReadsGenericDump`) a part of it that passes for the whole, when the deadline
falls into `result()`; the program writes that part and exits with 0. What is written then is an `incomplete` document, well
formed and short of tables, and `DocumentIsWhole` says that this is the only way to one.

### GenericDump and the code

One action per handler of `parse()`: `Use`, `CreateNamespace`, `CreateTable`, `View`, `Alter`,
`Index`, `Trigger`, `CommentOnTable`, `CommentOnColumn`, `Insert`, `AddObject`, and `Ignored` for
statements without a case. After the last statement the caller's options are chosen
(`EndOfInput`: the parser never reads them) and `result()` goes through `order`: `Skip`,
`Emit`, `Break` on a dead context, `Panic` when a kept row is shorter than the table it
is shown under. `tables`, `rows` and `schemas` are the maps of `genericDump`; a cell of a row
carries the name of the column it was written for.
`meant` and `due` are history: the schema in force by the rules of SQL, and the details of each table by the names
SQL gives it, computed without the code's `genericQualified`, so that `DetailsKept` compares the two. The dialects
differ in the statement that names a schema (`naming`): `USE` in MySQL, MariaDB and DuckDB; `ALTER
SESSION SET CURRENT_SCHEMA` in Oracle (`AlterSession`, which the parser ignores); none in SQL Server, where `USE` names a
database, and in SQLite. `CREATE SCHEMA` and `CREATE DATABASE` select a schema in none of them, but do in the parser
(`CreateNamespace`); with `IF NOT EXISTS` the schema is called `IF`, since the code takes the third word. From such a statement
to the next `USE` that both read alike, SQL and the parser are in `doubt`, and the two keys that an
unqualified name may stand for meanwhile have `strayed`: `DetailsKept` leaves those tables out, and holds every
other one, those of qualified names included, to SQL.

How text becomes statements is `DumpScanner`'s subject. Three spellings that change what a handler does are in:
qualification, `IF NOT EXISTS` after `CREATE SCHEMA`, and text after the parentheses of `CREATE TABLE` (an engine, a
tablespace), which fails the dump like a malformed one (`Malformed`). A comment on a column counts only when the name has three
parts, as in the code.

### PostgresDump and the code

The same shape, with the differences of the code: there is no current schema, an
unqualified name means `public`; `COPY` and `INSERT` add rows; an `ALTER TABLE` without `ADD` is an error
(`AlterOtherwise`), as is a `CREATE TABLE` that does not end with a parenthesis (`Malformed`); a dead context is an
error in `apply()` (`Stop`). The schemas of the result are made by the statements, so a table always
finds its own. A table is plain, partitioned (`PARTITION BY`) or a view, and the options say whether views and partitioned
tables are asked for; `apply()` reads neither, and so does `Wanted`.

The history is what the dump says, whether or not it was understood. `path` is the schema of an unqualified
name, which `SET search_path` sets for SQL and not for the parser (`SetPath`); `Intended` is the key by it and `Key` that of the
code, and where they differ both keys have `strayed`. `due` and `owed` are what the dump attached to a table, and the rows it
wrote for it, since its last definition, under `Intended`. They are written by the statements the parser overlooks as
well as by those it handles.

The `Overlook...` actions are statements about a table that no handler understands: a definition, a detail, a row. The
splitter knows no comments, so a statement that a comment precedes is one; that includes the headings of
`pg_dump` (`-- Name: t; Type: TABLE; ...`), which end at their first semicolon. So are an `INSERT`
without a column list and a statement glued to the data of a `COPY` before it (`glued`): the end of
the data is looked for as a line `\.` between line feeds, and is not found when lines end in
CR LF (`crlf`), nor when the `COPY` itself is not recognised. `missed` holds the tables such statements were
about, `stale` those whose last definition was one. The properties say what the damage is: a table lacks what was
overlooked about it, has nothing that was not said of it, and every other table is complete.

`redefined` and `foreign` are the two ways in which rows do not fit their table: a second
definition under rows, and a `COPY` of columns the table lacks, as the children of inherited tables
have. In the second case the values after the unknown column shift by one.

Left out: quotes inside comments and data (see `DumpScanner`), `COPY ... FROM 'file'`, `PARTITION BY` over several columns
(the list is cut at its comma), and `PARTITION OF ... FOR VALUES IN (...)`, which ends with a parenthesis and is read as a table
with a garbled name.

### LiveExtraction and the code

| State | Code |
|---|---|
| `pc`, `todo`, `work` | which query `Extract` makes next; the schemas not yet listed; the tables listed and not finished |
| `partial`, `result` | the `schema.Table` being filled, and the tables in the `schema.Database` |
| `catalogue`, `changes` | the database, and how often it changed |
| `left`, `seen` of the entries of `work` and `result` | history: at which listing the entry was listed, and what its table was then |
| `listed`, `touched`, `lost`, `fault` | history: the visits made (a table at a listing), those of a table that was changed or dropped meanwhile, and whether a query failed |

Every query is one action, and between two of them the database may change (`Create`, `Drop`, `Alter`):
the code opens no transaction. `LoadKeys` and `LoadChecks` stand for the queries between the columns
and the example; they differ from each other in that a change may fall between them. The adapters differ in
three ways that are all in the model: how they list (`List`), how they find a table again (`Current`: by
name, or by `object_id` in mssql), and how they make the example (`PickByPosition` for postgres,
`TakeOwnColumns` for sqlutil, `AskByName` for mssql and oracle). `LoseChecks` is SQLite's query for the
`CREATE TABLE` text, whose error is ignored. A table that is dropped after it was listed is in the
result without columns, if no example is asked for. A schema may be asked for twice; its tables are then listed,
and described, twice.

Views, partitions, and the objects beside tables (routines, enums, types, sequences) are left out.

### CatalogueKeys and the code

`declared` is a schema as a user of one of seven databases could have made it: `Legal` says which names
that database lets two declarations share. `Queries` lists the queries of each adapter in
their order, `Answer` their rows as the database would return them, and `Read` takes one row as
the loops over `rows.Next()` do: `Unreadable` is a failed `Scan`, `Put` the map by name (`byName`,
`positions`, `items`) with the list that keeps the order, `SetTarget` Oracle's second query. The name
of a constraint is a number; the columns of a trigger are its events.

Where a catalogue, asked as it is, does not tell what was declared, the property asks only that every
constraint is there under its name with all its columns (`Confused`):
SQLite gives the primary key in the order of the table; MySQL's `key_column_usage` mixes a key with a
foreign key of its name, its checks are joined by name alone (which in MariaDB finds checks of other
tables), and a foreign key to another schema is taken to stay in its own; SQL Server lists a
partitioning column of an index as its first key; Oracle's indexes of two owners are told
apart by name alone. DuckDB is asked for keys only, Oracle not for the columns referred to.

Left out: CockroachDB's triggers, exclusion constraints, predicates and expressions, SQLite's checks
(cut out of the text of `CREATE TABLE`), the index MySQL makes for a foreign key.

### DumpScanner and the code

A text is a sequence of symbols: a character, or a word where the code looks for one (`sq`, `dq` and `bq` are the quotes,
`semi` and `comma` the separators, `DELIMITER//` and `DELIMITERsemi` a line that sets a delimiter, `NUL` the byte by which
a semicolon is hidden). Each scanner is a step on the place where it is - its quote, dollar tag, depth, the pieces cut and
where the open one began: `ListStep` (`genericSplitByte`, `splitTopLevel`), `StatementStep` (`genericStatements`, after
`Batches` for `GO` and `Undelimited` for `DELIMITER`), `DumpStep` (`splitDumpStatements`, with `TagAt` and `Terminate` for
`COPY`), `GroupStep` (`splitValueGroups`); `Groups` is `genericGroups`. `Scans` is the loop, a recursive function of the
position; `next` is the loop's index where a step has moved it. The author (`Write...`) adds one construct at a time and
knows, in `meant`, what the pieces are, symbol by symbol. A blank rest after the last separator is a piece
here; the code leaves it out, or its caller skips it.

`odd` collects the constructs a scanner does not follow. They were each seen to break a split: a quote in a comment,
or a semicolon; a backslash before a quote; a name with a dollar in it, whose pair swallows what is
between; `COPY` after a comment, as `pg_dump` writes it, whose data is then cut at semicolons; a line `GO`, a line that
begins with `DELIMITER`, or a NUL inside a quoted text of a generic script; parentheses in a quoted value of a
PostgreSQL `INSERT`, since `splitValueGroups` knows no quotes; a name in brackets. For brackets see section 5. With any of
them `NothingLost`, a part of `SplitAsMeant`, still asks of scripts and lists that no symbol is lost, repeated or
moved, but for separators and the lines that begin with `DELIMITER`.

### DbmlParser, ToonEncoder and the code

Two machines run in step: the author, who nests blocks and knows what they mean (`block`, `meant`,
`links`), and the parser, which sees one line at a time (`tables`, `open`, `inIndexes`, `refs`, `pk` are the fields of
`parser`). A line is what `consume()` looks at: how it starts, whether it has a second word, and what it says. After
the last line `AddReference` resolves the references in their order and `Convert` hands the result to
`ToonEncoder!Encode`.

`shapes` are the constructs `consume()` knows nothing of: a table on one line (which is never closed), a column whose
name begins with `indexes`, a note as a block, an enum value or group entry that begins with `ref`, a `Ref` block, a reference
whose operator has no spaces around it, and the primary key in an indexes block, which is taken for an index. Further a reference must repeat the words of the table's header:
an alias or `public` spelled on one side only is not found. Tables are found without regard to case
(`strings.EqualFold`); the names of the model are distinct without it. The properties name these and no others. A document that uses them
may be refused or misread; only the last is accepted with the rest intact.

`ToonEncoder` has the decisions of `Encode` about tables and references as operators, and beside them what a reader makes
of the document (`Meaning`, `References`). `Dropped` are the references it loses: the first of two on one column, since
they are kept in a map by column, and one on a column the table lacks. `Misread` is a reference without a schema from a table with one.

## 3. The runs

| Run | Question | Bounds |
|---|---|---|
| `mcp` | do frames, table, cancellations and the return of `Serve` stay right, is the server a session, is every request settled, and does the process end? | 2 requests, 2 ids |
| `service` | is every answer truthful, bounded and whole, and does every call return? | every request, 0 to 2 tables, caps -1..5 and sizes 1..5 around limits 2 and 4 |
| `service_partial` | is every success whole? (a generic dump's is not) | same |
| `cli` | what do the programs leave in files, and which schemas do they ask for? | every invocation over 2 schema names |
| `dump` | does the parser keep what a dump says, and the result what the caller wants? | dumps of up to 4 statements, 2 schemas, 1 table name, 2 columns, rows of up to 2 values, 3 ways to name a schema, 5 sets of options |
| `dump_views` | are the views of a dump in the result only if they were asked for? (no) | same |
| `pgdump` | the same of the PostgreSQL parser | dumps of up to 4 statements, 2 schemas, 1 table name, column lists of 1 and of 2, 4 sets of options |
| `pgdump_selection` | are views and partitioned tables in the result only if they were asked for? (no) | up to 2 statements |
| `live` | what does an extraction promise about a schema that changes under it? | 5 adapters, 2 schemas with 1 table name, 3 column lists, 2 changes, 4 requests |
| `dbml` | is a document accepted as it was meant, and are its references in the output? | 7 lines beside closing braces, 2 tables in 2 schemas, 3 columns, 4 references, 1 unknown construct, once |
| `keys` | is what the catalogue says of one table put together rightly? | 7 databases, 4 declarations out of 21 over 6 names, 2 columns |
| `scanner` | is a text cut where its author meant it, and is none of any text lost? | 4 constructs in a script, 5 in a list, 7 in values, of which 2, 2 and 1 have contents, of 8 kinds |

Why these bounds are enough. Two requests under one id show every interference through the table - the second takes the id while the
first is answered, is about to unregister, or is over, so that the id is taken again after it was freed (the case
`CancelIsExact` is about) - and under two ids those that must not interfere. Two requests and the loop are three parties
of the write lock, so that one holds it while two wait. What a third request would add is covered by the theorems, which hold for any
number of them. The service looks
at the context once per table, so two tables give a first, a middle and a last place for it
to die; caps and sizes lie below, at, between, at and above both limits. In a dump
the shortest sequences that could break a property take four statements: define, insert,
define again, insert; or USE, define, qualify, attach. One table name in two schemas is
two tables, which is what name resolution can confuse. Between them the sets of options have every option on and off; options do not interact except in
`Wanted`, which is a conjunction, and the theorems hold for all of them.

The column lists of `live` differ in length and in order, the two ways in which a table can stop
fitting what was read of it; two changes are what it takes to drop a table and create another under its
name. Two schemas make the lists of later schemas, and names that mean two tables, part of the run.

Two declarations share a name or not; the third and the fourth are what it takes for a foreign key to
have the name of a key while a second key is there, and for the rows of two constraints to alternate. Two
columns have two orders. Seven lines are two tables, a reference between them and four lines within them, in any order, or two
references on one column. Two constructs with contents put
any of them inside or behind another; a row of values with parentheses of its own takes seven constructs, and so do
two rows of one value.

`CHECK_DEADLOCK` is on in the runs up to `live`: their modules have one terminal state with a stuttering
step of its own (`Finished`, `Terminated`), so a deadlock anywhere else would be reported. It is off in `dbml`,
`keys` and `scanner`: there a text or an extraction ends, and the bounds leave an author inside a block.

### Properties

- `FramesIntact`: no two threads are inside `Encode`, the loop included.
- `TableSound`: the table never holds a request that is over, or one under another's id.
- `CancelIsExact`: a cancellation reaches the request that was registered under the id when
  the line was read, and nothing else, although it is fired after the lock was released.
- `CleanReturn`: after the end of input no goroutine, no table entry and no response is
  left behind; an earlier return means that the client hung up.
- `SettlesSafely`, `ImplementsSession`: the server implements `RpcSession` (safety; with liveness).
- `RequestsEnd`, `ShutdownCompletes`: requests end, and the process ends after its input.
- `WholeUnlessGenericDump`: no loop that was cut short passes for one that ended.
- `FailuresHaveCauses`: TIMEOUT only when the deadline came first; EXTRACTION_FAILED only when
  the source failed or the client cancelled - which includes that the two dialect lists agree.
- `SourceReleased`, `OutputBounded`, `CallReturns`.
- `OldOutputKept`: a run that fails before it has read its source leaves every file as it was.
- `DocumentIsWhole`: a run that reports success left a finished document of all its source had; but for a generic dump at
  its deadline, whose document may lack tables, and for dbml2toon over its own input.
- `NamedSchemasOnly`: what is asked for is what was named.
- `DetailsKept` (`GenericDump`): a table holds exactly what the dump attached to it since its last
  definition, by the rules of SQL on which table a name means; tables that `strayed` are left out.
- `RowsFit`: a row is as wide as its table and each value is under its column; only a table
  defined again after a row came for it can make `result()` panic.
- `EveryTableEmitted`: at each position of `result()` the tables and views asked for are in the result, in the order of their
  definitions and repeated like them, and nothing else but views of the wanted schemas.
- `DetailsKept` (`PostgresDump`): a table is known and has exactly what the dump said, by SQL's names, when every statement
  about it was understood; otherwise it lacks what the others said and has nothing the dump did not say.
- `RowsKept`: each row of a table is one the dump wrote for it, with its values under their columns, and they are all of them in
  order when none was overlooked; tables in `redefined`, `foreign`, `stale` and `strayed` are left out.
- `ResultIsTheDump`: `EveryTableEmitted` for `apply()`, with views and partitioned tables as the exception; at the end all
  that was asked for is there; and the examples are the first rows of the dump, or any when they are ordered.
- `UntouchedExact`: what was listed is in the result once per listing, and a table that nobody changed between a
  listing and the last query about it is described exactly as it was listed, whatever happened to the others.
- `ExamplesAligned`: each cell of an example is under its own column and no hidden column is shown,
  even if the table was changed meanwhile; only postgres, going by position, may then mix them up.
- `QuietNeverFails`: only a failed query, or a change to the very table being read, fails an extraction.
- `KeysExact`, `RefusedForNulls` (`CatalogueKeys`): each constraint, index and trigger once, whole, in order and with its
  target, however the rows of several follow one another; a NULL in a row fails the extraction, and nothing else does.
- `SplitAsMeant` (`DumpScanner`): a text of constructs the scanner follows is cut where its author meant it (`CutAsMeant`), and
  of any text at all nothing is lost, repeated or moved (`NothingLost`).
- `RefusalsNamed`, `DocumentKept` (`DbmlParser`): a document is refused for the named reasons only, and what is
  accepted is what was written, references before, after and inside their tables included.
- `ReferencesKept`: a reader of the TOON document finds the references of the DBML document, and no others.

### Fairness

`McpServer!Spec` assumes one thing of the client: that it reads what is written to it, or hangs up. No
write has a deadline (`server.go:85`), so a client that does neither blocks the writer, and with it everyone who waits for
the write lock, for ever; that case is outside the liveness properties (the safety properties need no fairness). The
loop and the goroutines are weakly fair: the Go scheduler runs every runnable goroutine, and `handle` ends because
the service bounds it by a deadline (`CallReturns` of `ExtractService` is that fact). Taking the write lock is strongly fair, since `sync.Mutex` hands the lock to a
waiter that has been passed over for a millisecond. Reading is not fair: a silent client may keep
the server waiting for ever, and `ShutdownCompletes` starts only once the input has ended.

`ExtractService!Spec` makes the timer fair, and the call fair except while it waits for a live
database under a live context (`Hangs`): nothing makes a database answer. A database driver
returns once its context is dead; a dump is a regular file, whose reading ends; `Close`, which
has a context of its own, ends.

## 4. The proofs

Each module of proofs holds for every value of the constants that meets the assumption of the module it is about
(`ConstantsOK`, in `Commands` `NamesOK`): any number of requests, schemas, tables, columns, statements and lines,
and any sizes and limits. The bounds of section 3 are parameters like the others, so the theorems hold for runs of any
length. Hardly an invariant of section 3 is inductive as it stands; `IInv` is in each module the strengthening that
is (`Invariant` proves it), and the lemmas `...Step` (or the cases of `IInvNext`) show it action by action.

**McpServer.** `TableSound` needs that an accepted request has
an id of its own, `FramesIntact` that the lock is held by exactly the thread inside `Encode`,
`CleanReturn` that the WaitGroup counts exactly the goroutines that have not left and that a
response was sent once iff the goroutine is past its write and the client was there,
`CancelIsExact` that a request that shares its id with nobody is the one the table holds, and
that what the loop looked up was registered when it did. `IInv` is the conjunction of `TypeOK`,
these (`IdsSound`, `WgSound`, `LockSound`, `SharedSound`, `Cancellable`, `CancelSound`,
`SentSound`, `ReturnSound`) and `TableSound`; `IInvNext` goes through the actions one by one.
`Refinement` shows that every step from a state of `IInv` is a step of `RpcSession` or a stutter:
`Write` is `Answer`, or `Lose` of one request; `Exit` is `Lose` of all that are pending; the
rest of the goroutine's steps stutter.

**ExtractService.** `IInv` adds to the type which part of the code can be reached with which
limit (`Admitted`), source (`OpenSpan`), cause (`ReasonKnown`) and number of tables
(`WholeSoFar`). The proof that the dialect lists agree is a lemma (`DialectsAgree`).

**Commands.** `OldOutputKept` and `DocumentIsWhole` speak of files at the end of a run. `CliInv` (in `ServiceProofs`, beside
the proofs of the service that the programs call) says what the two
places and `seen` may hold at each `step`: `ReadSoFar` and `SourceSeen` before the output is opened (the second says who
reads a source in part), `Written` after it;
`OwnWay` and `Selecting` say which program may be where, and how its schemas were named, `ExitAtEnd` that only a run
that is over has an exit.

**Filters.** `Keep` is a recursive function, so what it returns is an induction. The library's induction theorems
take an operator; `InductionOnSet` states the principle for a set of numbers instead, from the well-foundedness of `<`.
From it follow what `Places` and `Keep` return, of an empty list, of one with a further element, and of two lists
that agree on what is kept. The proofs of both dump parsers, of `LiveExtraction`, `CatalogueKeys`, `DbmlParser` and `DumpScanner` use these, and with
them `FlattenSeq` of a longer list (`FlattenAppend`), which is an induction of the same kind.

**GenericDump.** `RowsFit` needs the type of the rows that are kept (`RowsTyped`), `DetailsKept` that
the schema in force is the parser's current one as long as there is no doubt (`MeantIsCurrent`), so that a name is one key for
both, or both its keys have strayed (`StrayNoted`). `EveryTableEmitted` is inductive for the positions before
`next`, since the schema of every known table was made (`Homes`): each step of `result()` puts one key into the result or skips one that is
not wanted. The names of columns are assumed to differ from the four words for kinds of details (`Attached`), which stand in
one set with them in the model and in fields of their own in the code.

**PostgresDump.** `ParsedInv` relates what the parser keeps to what the dump said, statement by statement: besides
`DetailsKept` and `RowsKept` themselves, that what is due has its rows owed and what is stale was missed (`Heard`), that the order
lists the known tables (`Ordered`), and that kept rows are as wide as their table unless it was defined again (`RowsWide`). A
statement changes the entries of one key on each side; either the two are one, or both keys have strayed. `ResultInv` relates the result to
what is kept, position by position: the keys of the wanted tables so far (`KeysSoFar`, `NoneButSelected`), all of them at the end
(`AtTheEnd`), each example with the rows its options ask for (`ExamplesFit`), and a panic only after a table was defined again
(`PanicExplained`).

**LiveExtraction.** `UntouchedExact` compares the result with a catalogue that has changed since. Each entry of `work` and `result`
carries what its listing saw: a table that waits and was not touched is still that (`SeenOK`), what is known of
the first agrees with it up to the query that is next (`PartialOK`), what is finished is it (`ResultExact`), and no
table is at once waiting, finished and yet to be listed (`WorkOK`, `ResultOK`).

**CatalogueKeys.** A catalogue sorts its rows and lists them query by query; `SortedParts`, `EachParts`, `TogetherParts`
and `ColumnRowsParts` say what is in such a list for any finite set of declarations. Each of the thirteen kinds of answer then has
only rows with known names, whose columns are NULL only where a declaration is shown so (`AnswerSound`), and whatever is shown
so has a row that cannot be read in one of the adapter's queries (`NullsShow`). `IInv` keeps that NULL ahead of
the adapter until it fails (`NullAhead`). That there is one primary key comes from the catalogue in two ways: PostgreSQL returns one
row, and everywhere else the rows of the one declared key have one name, by which they are grouped (`KeyOnce`).

`KeysExact` does depend on how the rows follow one another, and speaks of the end of a loop that forgets what it has read. `ReadInv`
remembers: there is a list of rows read so far which, with the rows at hand and the answers to the queries still to
make, is the list of all rows (`All`), and each kind is what that list makes of it (`Made`). One row more makes one entry more, or
extends the entry of its name (`MadeMore`). What is left is about `All` alone. Each answer tells of each declaration
its columns in their order, through the sort, the interleaving with other declarations and the rows that are joined
(`Told`, `From`; `AnswerRight` goes through the queries of the seven adapters), no two queries tell of the same thing (`IntoOnce`),
the tables referred to come after what refers to them (`TargetsLast`), and where a kind is not `Confused` the names it is
grouped by are different (`NamesOnce`). So what is made of all rows is what was declared (`GroupedExact`), and where the catalogue
confuses two declarations both are still named, with all their columns (`StillNamed`).

**DbmlParser and ToonEncoder.** The invariant is a simulation. As long as the document uses only constructs that `consume()`
knows, the parser is in the block the author is in (`InStep`), its tables are the author's up to the last line (`Mirrored`), and
its references are the author's in their order; after the last line each table has exactly the foreign keys of the
references resolved so far (`ResolvedOK`), and a refusal has an unresolvable reference or a name that was not repeated as its cause
(`RefusedOK`). `ReferencesAlwaysKept` then is about the encoder alone: a reference is looked up under the name
the section of its table writes (`TwoSchemas`, `ReadsAsMeant`), so that a section has the references that are neither `Dropped` nor
`Misread` and no others (`SectionReferences`).

**DumpScanner** (in `PostgresDumpProofs`, after the parser that uses it). That the pieces of a text are its own
(`ScannerTypeCorrect`, `NothingEverLost`) is an induction over the positions of one text, whoever wrote it: the place
of a scanner is always within the text (`Placed`), a step cuts off the open piece and a separator or nothing (`Cuts`), so the pieces
cut so far are the text before the open one without separators (`Whole`). `Undelimited` is read the same way, with
the lines that begin with `DELIMITER` left out (`OtherLines`).

`CutAsMeant` speaks of a text that the author has ended, of which a scanner sees the whole: what it does at a symbol may
depend on symbols after it (a doubled quote, a tag, the line `\.`). The invariant therefore says of what is written so
far, where the scanner stands after it *whatever follows* (`Settled`): within no quotes, at the author's depth, with the author's
pieces cut and the open one open. Each construct is shown to lead from such a place to such a place: `Takes` for a
single symbol; `Goes` for a quoted text, a tag or a comment, by induction over its contents; the data of a `COPY` by
the first line `\.` behind its header. `Makings` is this for each reader: `Cutting` for what is cut and no more; `Rows` and `Wrapped`
for `VALUES`, where a row counts once its parenthesis is closed; `Script` for the generic scripts, where what
is cut is not the text but what `Batches` and `Undelimited` make of it (`Ready`), a symbol of which may depend on the one
after it too. `Understood` is `Makings` as long as `odd` is empty, and with the type (`ScanTyped`) it is inductive:
`ScanStepUnderstood` goes through the constructs one by one.

Theorems:

| Module | Theorems |
|---|---|
| `McpServerProofs` | `TypeCorrect`, `FramesStayIntact`, `TableStaysSound`, `CancelsExactly`, `ReturnsCleanly`, `Refinement` |
| `ServiceProofs` | `TypeCorrect`, `NeverSilentlyPartial`, `CausesNamed`, `SourcesReleased`, `OutputStaysBounded` (of `ExtractService`); `CliTypeCorrect`, `OldOutputSafe`, `SuccessMeansWhole`, `NamedSchemasAsked` (of `Commands`) |
| `GenericDumpProofs` | `TypeCorrect`, `DetailsAlwaysKept`, `RowsAlwaysFit`, `ResultIsTheDump` |
| `PostgresDumpProofs` | `TypeCorrect`, `DetailsAlwaysKept`, `RowsAlwaysKept`, `ResultAsAsked` (of `PostgresDump`); `ScannerTypeCorrect`, `NothingEverLost`, `AlwaysSplitAsMeant` (of `DumpScanner`) |
| `LiveExtractionProofs` | `TypeCorrect`, `UntouchedAlwaysExact`, `ExamplesAlwaysAligned`, `QuietExtractionNeverFails` |
| `CatalogueKeysProofs` | `TypeCorrect`, `RefusedOnlyForNulls`, `KeysAlwaysExact` |
| `DbmlParserProofs` | `TypeCorrect`, `RefusalsAlwaysNamed`, `DocumentAlwaysKept`, `ReferencesAlwaysKept` |

Each is a theorem of the safety part of its specification (`SafeSpec` where fairness is stated).

Model-checked only: `RequestsEnd`, `ShutdownCompletes`, `CallReturns` and the liveness part of
`ImplementsSession`, since liveness under fairness is out of this prover's reach. Every invariant that a passing run
checks is a theorem.

## 5. Where code and documents disagree

Three runs expect a violation:

- `service_partial`: a generic dump whose context dies while its result is assembled is returned
  as a success without its remaining tables (`sqlutil/dump.go:383`), where the PostgreSQL parser
  returns the error; `internal/database/PLAN.md:39-41`. `Commands` follows the part into the file that `db2toon` writes.
- `dump_views`: the views of a generic dump are in the result though they were not asked for: `result()` does not look
  at `IncludeViews` (`sqlutil/dump.go:382-427`); `internal/database/PLAN.md:55-58` has dump extractors honour it.
- `pgdump_selection`: the same of views and of partitioned tables in the PostgreSQL parser (`postgres/dump_parser.go:364`).

Others are in the models as the code has them, and have no run:

- An `ALTER TABLE` that adds nothing, such as `OWNER TO`, fails the whole PostgreSQL dump
  (`postgres/dump_parser.go:233-236`, `AlterOtherwise`); `internal/database/PLAN.md:68-69` and `86-87` promise that
  ownership statements are supported and ignored.
- A `CREATE TABLE` has to end with its parenthesis (`sqlutil/dump.go:117-121`, `Malformed`); `internal/database/PLAN.md:128-130`
  promises engine options, with which mysqldump ends every table.
- `pg_dump` heads each statement with a comment, which makes the parser overlook it (`Overlook...` of `PostgresDump`);
  `internal/database/PLAN.md:68-69` promises plain-text `pg_dump` output.
- `SET search_path` in PostgreSQL, `ALTER SESSION` in Oracle, and `CREATE SCHEMA` and `CREATE DATABASE` in the generic parser make
  unqualified tables go to another schema than in the database (`strayed` of both parsers);
  `internal/database/PLAN.md:39-40` promises dump parsers and live adapters equivalent semantics.
- `docs/MCP.md:367` promises cancellation when the client disconnects; `Serve` waits for the requests in flight and
  cancels none (`StopReading` and `Disconnect` of `McpServer`).
- `README.md:149` and `161` leave Oracle's default schema to the session; the command line asks for `public`
  (`DefaultSchemas` of `Commands`).
- `README.md:249` says that Oracle's output is limited to what the account can inspect; a foreign key to a table it cannot
  inspect fails the extraction instead (`RefusedForNulls`).
- In `genericSplitByte` a name in brackets ends with the next `[`, not with `]`. A list `[a], [b]` is therefore one part,
  and `[dbo].[t]` one word without a schema (`QuotesOf` of `DumpScanner`).
- The comment of `Parse` (`pkg/dbml/parser.go:17-18`) names what it supports; the constructs in `shapes` are not among it.

## 6. Not modelled

- A panic inside a goroutine of the MCP server ends the process; `GenericDump` models where one
  arises, `McpServer` does not follow it.
- `INTERNAL_ERROR` and `CONNECTION_FAILED`: no path of the code produces either of them
  (the encoder writes to memory; connection errors become EXTRACTION_FAILED).
- Parsing of flags and JSON, the regular expressions that take one statement or one line apart, formatting, error
  texts, `databaseName`.
- Routines, enums, types, sequences, synonyms and extensions: no step relates them to anything else.
- The pool of `database/sql`: the models have queries, not connections.
- A client that neither reads nor hangs up (see Fairness).
- The unquoted spelling of names: names of the models are distinct without regard to case.
- Drivers, the MongoDB stub (a comment
  without code), benchmarks, tests, packaging.

## 7. Plan

In this order:

1. `RpcSession`, `McpServer`, `ExtractService` with proofs - done.
2. `Commands`, `GenericDump`, `PostgresDump`, `LiveExtraction` with proofs - done.
3. `DumpScanner`, `DbmlParser` with `ToonEncoder`, `CatalogueKeys` - done and checked.
4. Proofs of `DbmlParser` and `ToonEncoder` - done.
5. Proofs of `CatalogueKeys`: first what does not depend on the order of the rows, then `KeysExact` - done.
6. Proofs of `DumpScanner`: that nothing is lost, then `CutAsMeant` construct by construct - done.
7. An abstract specification that both dump parsers implement ("the database a dump denotes"), with a
   refinement mapping from each - open; what it would promise is in `DetailsKept`, `RowsKept`, `EveryTableEmitted` and `ResultIsTheDump` so far.
