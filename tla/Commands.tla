------------------------------ MODULE Commands ------------------------------
(***************************************************************************)
(* The command line programs and the files they read and write: db2toon    *)
(* and pg2toon (internal/cli/run.go), and dbml2toon                        *)
(* (cmd/dbml2toon/main.go).                                                *)
(*                                                                         *)
(* Two places matter: what the program reads, "in" (the database, the dump *)
(* or the DBML file), and where it writes, "out" (standard output or the   *)
(* file of -out); -out may also name the file that is read.  A place holds *)
(* "source" (what was to be described), "absent" (no file), "old" (what a  *)
(* file held before the run), "nothing", "part" of a document, or the      *)
(* "document" that describes the source.  A generic dump whose deadline    *)
(* passes while its result is put together comes back as a success without *)
(* the rest of its tables (sqlutil/dump.go:383); what is written then is a *)
(* well-formed but "incomplete" document.                                  *)
(*                                                                         *)
(* The names that every specification has begin with Cli here, so that     *)
(* ServiceProofs can extend this module beside ExtractService.             *)
(***************************************************************************)
CONSTANTS
  Names    \* the schema names a user may give

Defaults == {"public", "main", "dbo"}

ASSUME NamesOK == Names \cap Defaults = {}

Dialects == {"postgres", "sqlite", "duckdb", "mysql", "mariadb", "cockroachdb",
             "mssql", "sqlserver", "oracle"}

Invocations ==
  {r \in [program : {"db2toon", "pg2toon", "dbml2toon"},
          dialect : Dialects \cup {"absent", "unknown"},
          badFlags : BOOLEAN,    \* flag.Parse fails, or too many arguments
          badNumbers : BOOLEAN,  \* -timeout not positive, -example-sample negative
          db : BOOLEAN,
          dump : BOOLEAN,        \* reads a file: a dump, or a DBML file
          schema : {{}} \cup {{n} : n \in Names},
          schemas : SUBSET Names,
          target : {"stdout", "new", "existing", "input"}] :
     r.target = "input" => r.dump}

VARIABLES
  run,     \* the invocation
  step,    \* where the program is
  asked,   \* the schemas asked of the service: {} leaves the choice to the adapter
  place,   \* what "in" and "out" hold
  seen,    \* what was read: "unread", "source", "partial" or "nothing"
  exit     \* "none", "ok", "error" or "killed"

cliVars == <<run, step, asked, place, seen, exit>>

CliTypeOK ==
  /\ run \in Invocations
  /\ step \in {"args", "extract", "create", "parse", "write", "close", "exited"}
  /\ asked \in SUBSET (Names \cup Defaults)
  /\ place \in [{"in", "out"} ->
                  {"source", "absent", "old", "nothing", "part", "incomplete",
                   "document"}]
  /\ seen \in {"unread", "source", "partial", "nothing"}
  /\ exit \in {"none", "ok", "error", "killed"}

\* What "out" holds before the run.
Before(r) == CASE r.target = "stdout" -> "nothing"
               [] r.target = "new" -> "absent"
               [] OTHER -> "old"

CliInit ==
  /\ run \in Invocations
  /\ step = "args"
  /\ asked = {}
  /\ place = [p \in {"in", "out"} |-> IF p = "in" THEN "source" ELSE Before(run)]
  /\ seen = "unread"
  /\ exit = "none"

Converts == run.program = "dbml2toon"
ToFile == run.target # "stdout"
Destination == IF run.target = "input" THEN "in" ELSE "out"

Exit(code) ==
  /\ step' = "exited"
  /\ exit' = code

\* What the destination holds when the document of what was read is in it.
Document == CASE seen = "nothing" -> "nothing"
              [] seen = "partial" -> "incomplete"
              [] OTHER -> "document"

-----------------------------------------------------------------------------
(* Arguments. *)

\* pg2toon fixes the dialect, whatever its arguments.
Dialect == IF run.program = "pg2toon" THEN "postgres" ELSE run.dialect

\* The dumps that the generic parser reads, and not that of PostgreSQL.
ReadsGenericDump ==
  ~Converts /\ run.dump /\ Dialect \notin {"postgres", "cockroachdb"}

\* Mutant of DefaultSchemas: MySQL's empty default is passed on as a name.
DefaultSchemasWithBlank ==
  CASE Dialect \in {"sqlite", "duckdb"} -> {"main"}
    [] Dialect \in {"mysql", "mariadb"} -> {""}
    [] Dialect \in {"mssql", "sqlserver"} -> {"dbo"}
    [] OTHER -> {"public"}

DefaultSchemas ==
  CASE Dialect \in {"sqlite", "duckdb"} -> {"main"}
    [] Dialect \in {"mysql", "mariadb"} -> {}
    [] Dialect \in {"mssql", "sqlserver"} -> {"dbo"}
    [] OTHER -> {"public"}

\* Mutant of Selected: the default is added to the schemas that were named.
SelectedAndDefault == run.schema \cup run.schemas \cup DefaultSchemas

\* selectedSchemasWithDefault, when it does not refuse.
Selected ==
  IF run.schema \cup run.schemas = {} THEN DefaultSchemas
  ELSE run.schema \cup run.schemas

\* Mutant of Refused: -schema and -schemas together are let through.
RefusedUnlessBothSchemas ==
  \/ run.badFlags
  \/ /\ ~Converts
     /\ \/ Dialect \notin Dialects
        \/ run.db = run.dump
        \/ run.badNumbers

Refused ==
  \/ run.badFlags
  \/ /\ ~Converts
     /\ \/ Dialect \notin Dialects
        \/ run.db = run.dump
        \/ run.badNumbers
        \/ run.schema # {} /\ run.schemas # {}

RefuseArguments ==
  /\ step = "args"
  /\ Refused
  /\ Exit("error")
  /\ UNCHANGED <<run, asked, place, seen>>

\* Mutant of StartExtract: the output is created first.
StartByCreating ==
  /\ step = "args"
  /\ ~Converts /\ ~Refused
  /\ asked' = Selected
  /\ step' = "extract"
  /\ place' = IF ToFile THEN [place EXCEPT ![Destination] = "nothing"] ELSE place
  /\ UNCHANGED <<run, seen, exit>>

StartExtract ==
  /\ step = "args"
  /\ ~Converts /\ ~Refused
  /\ asked' = Selected
  /\ step' = "extract"
  /\ UNCHANGED <<run, place, seen, exit>>

\* dbml2toon opens its input before it creates its output; the input may be
\* missing.
OpenInput ==
  /\ step = "args"
  /\ Converts /\ ~Refused
  /\ \/ step' = "create" /\ UNCHANGED exit
     \/ run.dump /\ Exit("error")
  /\ UNCHANGED <<run, asked, place, seen>>

-----------------------------------------------------------------------------
(* Reading. *)

\* service.Extract reads the whole source and encodes it to memory, or fails; or
\* its deadline passes in the loop of the generic parser's result().
Extract ==
  /\ step = "extract"
  /\ \/ /\ \/ seen' = IF place["in"] = "source" THEN "source" ELSE "nothing"
           \/ ReadsGenericDump /\ seen' = "partial"
        /\ step' = "create"
        /\ UNCHANGED exit
     \/ Exit("error") /\ UNCHANGED seen
  /\ UNCHANGED <<run, asked, place>>

\* dbml.Convert parses all of its input before it encodes; an empty input is a
\* database without tables.
Parse ==
  /\ step = "parse"
  /\ \/ /\ seen' = IF place["in"] = "source" THEN "source" ELSE "nothing"
        /\ step' = "write"
        /\ UNCHANGED exit
     \/ place["in"] = "source" /\ Exit("error") /\ UNCHANGED seen
  /\ UNCHANGED <<run, asked, place>>

-----------------------------------------------------------------------------
(* Writing. *)

\* os.Create truncates what was there; without -out there is nothing to create.
Create ==
  /\ step = "create"
  /\ \/ /\ step' = IF Converts THEN "parse" ELSE "write"
        /\ place' = IF ToFile THEN [place EXCEPT ![Destination] = "nothing"] ELSE place
        /\ UNCHANGED exit
     \/ ToFile /\ Exit("error") /\ UNCHANGED place
  /\ UNCHANGED <<run, asked, seen>>

\* Mutant of Write: a short write goes unnoticed.
WriteUnchecked ==
  /\ step = "write"
  /\ \/ place' = [place EXCEPT ![Destination] = Document]
     \/ place' = [place EXCEPT ![Destination] = "part"]
  /\ IF ToFile THEN step' = "close" /\ UNCHANGED exit ELSE Exit("ok")
  /\ UNCHANGED <<run, asked, seen>>

Write ==
  /\ step = "write"
  /\ \/ /\ place' = [place EXCEPT ![Destination] = Document]
        /\ IF ToFile THEN step' = "close" /\ UNCHANGED exit ELSE Exit("ok")
     \/ /\ place' = [place EXCEPT ![Destination] = "part"]
        /\ Exit("error")
  /\ UNCHANGED <<run, asked, seen>>

\* Close may be where a failed write comes to light.
Close ==
  /\ step = "close"
  /\ \/ Exit("ok") /\ UNCHANGED place
     \/ Exit("error") /\ place' = [place EXCEPT ![Destination] = "part"]
  /\ UNCHANGED <<run, asked, seen>>

\* The user interrupts the program, or the system kills it.
Killed ==
  /\ step # "exited"
  /\ Exit("killed")
  /\ UNCHANGED <<run, asked, place, seen>>

Over == step = "exited" /\ UNCHANGED cliVars

CliNext ==
  \/ RefuseArguments
  \/ StartExtract
  \/ OpenInput
  \/ Extract
  \/ Parse
  \/ Create
  \/ Write
  \/ Close
  \/ Killed
  \/ Over

CliSpec == CliInit /\ [][CliNext]_cliVars

-----------------------------------------------------------------------------

Original(p) == IF p = "in" THEN "source" ELSE Before(run)

\* An earlier document outlives an extraction that fails or is interrupted: the
\* target of -out is not touched before there is a document to put in it, and
\* what is read is never touched at all unless -out names it (run.go:72-91).
OldOutputKept ==
  /\ ~Converts /\ seen = "unread" => \A p \in {"in", "out"} : place[p] = Original(p)
  /\ run.target # "input" => place["in"] = "source"

\* A run that reports success has left a finished document of what it read, even
\* when -out names the dump it read; short writes and failed closes are reported
\* (run.go:82-102, cmd/dbml2toon/main.go:40-60).  That document describes all that
\* its source held when it started, but for a generic dump, whose deadline may cut
\* it short (sqlutil/dump.go:383); and there is none when dbml2toon is told to write
\* over its own input, which it empties before it reads it.
DocumentIsWhole ==
  exit = "ok" =>
    \/ place[Destination] = "document"
    \/ place[Destination] = "incomplete" /\ ReadsGenericDump
    \/ place[Destination] = "nothing" /\ Converts /\ run.target = "input"

\* What is extracted is what the user named: all of it, with no default added to
\* it, and never a choice between -schema and -schemas (run.go:120-136).
NamedSchemasOnly ==
  step \notin {"args", "exited"} /\ ~Converts =>
    /\ run.schema = {} \/ run.schemas = {}
    /\ run.schema \cup run.schemas # {} => asked = run.schema \cup run.schemas
=============================================================================
