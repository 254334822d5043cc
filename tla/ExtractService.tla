--------------------------- MODULE ExtractService ---------------------------
(***************************************************************************)
(* One call of the tool: callTool (internal/mcp/server.go), Extract        *)
(* (internal/service/service.go) and Extract (extract.go), against the     *)
(* context that bounds it.                                                 *)
(*                                                                         *)
(* The context dies once, by the client's cancellation or by the deadline, *)
(* and whichever came first is what ctx.Err() says from then on.  It dies  *)
(* between any two steps of the call, and each step looks at it where the  *)
(* code does.  The source is a live database, a dump read by the           *)
(* PostgreSQL parser, or a dump read by the generic parser (sqlutil).      *)
(*                                                                         *)
(* A request is a record of what the code tells apart: its dialect after   *)
(* trimming and lower-casing, which sources are named, whether the sample  *)
(* is negative, the timeout, the output cap (0 when absent), and how many  *)
(* tables its source holds.                                                *)
(***************************************************************************)
EXTENDS Integers

CONSTANTS
  MaxTables,           \* a source holds up to this many tables: bounds the model
  Caps,                \* the values of max_output_bytes a caller tries
  Sizes,               \* the sizes a TOON document may have
  MinimumOutputBytes,
  MaximumOutputBytes

ASSUME ConstantsOK ==
  /\ MaxTables \in Nat
  /\ Caps \subseteq Int
  /\ Sizes \subseteq Nat
  /\ MinimumOutputBytes \in Nat
  /\ MaximumOutputBytes \in Nat
  /\ 0 < MinimumOutputBytes /\ MinimumOutputBytes <= MaximumOutputBytes

\* What CapabilitiesFor accepts.
Supported == {"postgres", "sqlite", "duckdb", "mysql", "mariadb",
              "cockroachdb", "mssql", "sqlserver", "oracle"}

\* Mutant of Openable: one alias forgotten in the second switch.
OpenableWithoutMariaDB ==
  {"postgres", "sqlite", "duckdb", "mysql", "cockroachdb", "mssql",
   "sqlserver", "oracle"}

\* What newExtractor opens, in a switch of its own.
Openable == {"postgres", "sqlite", "duckdb", "mysql", "mariadb",
             "cockroachdb", "mssql", "sqlserver", "oracle"}

\* The dialects whose dumps the PostgreSQL parser reads.
PostgresDumps == {"postgres", "cockroachdb"}

Requests ==
  [wellFormed : BOOLEAN, dialect : Supported \cup {"blank", "unknown"},
   db : BOOLEAN, dump : BOOLEAN, negativeSample : BOOLEAN,
   timeout : {"default", "positive", "bad"}, cap : Caps,
   tables : 0 .. MaxTables]

VARIABLES
  request,   \* what the call asks for
  pc,        \* where the call is
  ctx,       \* "live", or why the context died: "cancelled" or "expired"
  limit,     \* the output limit in force
  source,    \* the extractor: "none", "open" or "closed"
  read,      \* how many tables of the source the result holds
  outcome,   \* what the extraction returned: "pending", "database" or "error"
  size,      \* the size of the encoded document
  result,    \* "none", "ok" or an error code
  fault      \* history: "source" once the source itself failed, else "none"

vars == <<request, pc, ctx, limit, source, read, outcome, size, result, fault>>

Codes == {"INVALID_ARGUMENT", "UNSUPPORTED_DIALECT", "EXTRACTION_FAILED",
          "TIMEOUT", "OUTPUT_TOO_LARGE"}

TypeOK ==
  /\ request \in Requests
  /\ pc \in {"call", "validate", "enter", "open", "load", "tables", "close",
             "classify", "encode", "returned"}
  /\ ctx \in {"live", "cancelled", "expired"}
  /\ limit \in Int
  /\ source \in {"none", "open", "closed"}
  /\ read \in 0 .. MaxTables
  /\ outcome \in {"pending", "database", "error"}
  /\ size \in Nat
  /\ result \in Codes \cup {"none", "ok"}
  /\ fault \in {"none", "source"}

Init ==
  /\ request \in Requests
  /\ pc = "call"
  /\ ctx = "live"
  /\ limit = 0
  /\ source = "none"
  /\ read = 0
  /\ outcome = "pending"
  /\ size = 0
  /\ result = "none"
  /\ fault = "none"

Dead == ctx # "live"
GenericDump == request.dump /\ request.dialect \notin PostgresDumps

Return(code) ==
  /\ pc' = "returned"
  /\ result' = code

\* The extractor, or its constructor, returns an error.
Fail(where) ==
  /\ pc' = where
  /\ outcome' = "error"

\* The extractor returns a database and no error.
Succeed ==
  /\ pc' = "close"
  /\ outcome' = "database"

-----------------------------------------------------------------------------
(* Admission. *)

\* Tool name and arguments, decoded strictly.
CallTool ==
  /\ pc = "call"
  /\ \/ ~request.wellFormed /\ Return("INVALID_ARGUMENT")
     \/ request.wellFormed /\ pc' = "validate" /\ UNCHANGED result
  /\ UNCHANGED <<request, ctx, limit, source, read, outcome, size, fault>>

\* Mutant of CapAllowed: no upper bound.
CapAllowedUnbounded(cap) == cap = 0 \/ cap >= MinimumOutputBytes

CapAllowed(cap) == cap = 0 \/ cap \in MinimumOutputBytes .. MaximumOutputBytes

\* The first check that refuses q, or "none".
Rejection(q) ==
  IF q.dialect = "blank" \/ q.db = q.dump THEN "INVALID_ARGUMENT"
  ELSE IF q.dialect \notin Supported THEN "UNSUPPORTED_DIALECT"
  ELSE IF q.negativeSample \/ q.timeout = "bad" \/ ~CapAllowed(q.cap)
       THEN "INVALID_ARGUMENT"
  ELSE "none"

\* Mutant of Validate: the default limit is never applied over the cap.
ValidateKeepsCap ==
  /\ pc = "validate"
  /\ \/ Rejection(request) # "none" /\ Return(Rejection(request)) /\ UNCHANGED limit
     \/ /\ Rejection(request) = "none"
        /\ pc' = "enter"
        /\ limit' = request.cap
        /\ UNCHANGED result
  /\ UNCHANGED <<request, ctx, source, read, outcome, size, fault>>

\* Arms the deadline as its last act.
Validate ==
  /\ pc = "validate"
  /\ \/ Rejection(request) # "none" /\ Return(Rejection(request)) /\ UNCHANGED limit
     \/ /\ Rejection(request) = "none"
        /\ pc' = "enter"
        /\ limit' = IF request.cap = 0 THEN MaximumOutputBytes ELSE request.cap
        /\ UNCHANGED result
  /\ UNCHANGED <<request, ctx, source, read, outcome, size, fault>>

-----------------------------------------------------------------------------
(* Extraction. *)

Enter ==
  /\ pc = "enter"
  /\ \/ Dead /\ Fail("classify")
     \/ ~Dead /\ pc' = "open" /\ UNCHANGED outcome
  /\ UNCHANGED <<request, ctx, limit, source, read, size, result, fault>>

\* Nothing opens without an arm of newExtractor's switch for the dialect, or
\* once the context is dead: every constructor pings under it, or checks it.
Refuse ==
  /\ pc = "open"
  /\ request.dialect \notin Openable \/ Dead
  /\ Fail("classify")
  /\ UNCHANGED <<request, ctx, limit, source, read, size, result, fault>>

\* The constructor finds the source bad: unreachable, no such file.  What it
\* had opened it has closed.
OpenFaults ==
  /\ pc = "open"
  /\ request.dialect \in Openable
  /\ Fail("classify")
  /\ fault' = "source"
  /\ UNCHANGED <<request, ctx, limit, source, read, size, result>>

Open ==
  /\ pc = "open"
  /\ request.dialect \in Openable
  /\ ~Dead
  /\ source' = "open"
  /\ pc' = IF request.dump THEN "load" ELSE "tables"
  /\ UNCHANGED <<request, ctx, limit, read, outcome, size, result, fault>>

\* Reads and parses the whole file; only PostgreSQL looks at the context first.
LoadDump ==
  /\ pc = "load"
  /\ GenericDump \/ ~Dead
  /\ pc' = "tables"
  /\ UNCHANGED <<request, ctx, limit, source, read, outcome, size, result, fault>>

LoadStops ==
  /\ pc = "load"
  /\ ~GenericDump /\ Dead
  /\ Fail("close")
  /\ UNCHANGED <<request, ctx, limit, source, read, size, result, fault>>

\* The file cannot be read, the dump cannot be parsed, or a query, a scan or
\* rows.Err reports what the database did wrong.
SourceFaults ==
  /\ \/ pc = "load"
     \/ pc = "tables" /\ ~request.dump
  /\ Fail("close")
  /\ fault' = "source"
  /\ UNCHANGED <<request, ctx, limit, source, read, size, result>>

\* Mutant of TakeTable: the loop runs once too often.
TakeOneTooMany ==
  /\ pc = "tables"
  /\ ~Dead
  /\ read <= request.tables
  /\ read' = read + 1
  /\ UNCHANGED <<request, pc, ctx, limit, source, outcome, size, result, fault>>

\* One more table in the result: a loop whose every turn looks at the context.
TakeTable ==
  /\ pc = "tables"
  /\ ~Dead
  /\ read < request.tables
  /\ read' = read + 1
  /\ UNCHANGED <<request, pc, ctx, limit, source, outcome, size, result, fault>>

AllTaken ==
  /\ pc = "tables"
  /\ read = request.tables
  /\ Succeed
  /\ UNCHANGED <<request, ctx, limit, source, read, size, result, fault>>

\* Mutant of ContextStops: every dump leaves the loop as the generic one does.
ContextBreaks ==
  /\ pc = "tables"
  /\ Dead
  /\ read < request.tables \/ ~request.dump
  /\ IF request.dump THEN Succeed ELSE Fail("close")
  /\ UNCHANGED <<request, ctx, limit, source, read, size, result, fault>>

\* The loop meets a dead context: the generic dump breaks out of it and keeps
\* what it has, with no error; everyone else returns the context's error.  A
\* live extraction also meets it in the queries that follow its last table.
ContextStops ==
  /\ pc = "tables"
  /\ Dead
  /\ read < request.tables \/ ~request.dump
  /\ IF GenericDump THEN Succeed ELSE Fail("close")
  /\ UNCHANGED <<request, ctx, limit, source, read, size, result, fault>>

\* Mutant of CloseSource: closed on the successful path only.
CloseOnSuccess ==
  /\ pc = "close"
  /\ source' = IF outcome = "error" THEN source ELSE "closed"
  /\ pc' = IF outcome = "error" THEN "classify" ELSE "encode"
  /\ UNCHANGED <<request, ctx, limit, read, outcome, size, result, fault>>

\* The deferred Close, under a context of its own.
CloseSource ==
  /\ pc = "close"
  /\ source' = "closed"
  /\ pc' = IF outcome = "error" THEN "classify" ELSE "encode"
  /\ UNCHANGED <<request, ctx, limit, read, outcome, size, result, fault>>

-----------------------------------------------------------------------------
(* The answer. *)

\* Mutant of Classify: any dead context is taken for a timeout.
ClassifyByDeath ==
  /\ pc = "classify"
  /\ Return(IF Dead THEN "TIMEOUT" ELSE "EXTRACTION_FAILED")
  /\ UNCHANGED <<request, ctx, limit, source, read, outcome, size, fault>>

\* The context is asked again, after the error is known.
Classify ==
  /\ pc = "classify"
  /\ Return(IF ctx = "expired" THEN "TIMEOUT" ELSE "EXTRACTION_FAILED")
  /\ UNCHANGED <<request, ctx, limit, source, read, outcome, size, fault>>

\* The encoder writes to memory and cannot fail; the limit is looked at after.
Encode ==
  /\ pc = "encode"
  /\ \E n \in Sizes :
       /\ size' = n
       /\ Return(IF n > limit THEN "OUTPUT_TOO_LARGE" ELSE "ok")
  /\ UNCHANGED <<request, ctx, limit, source, read, outcome, fault>>

-----------------------------------------------------------------------------
(* The environment, and the whole. *)

ClientCancels ==
  /\ pc # "returned"
  /\ ~Dead
  /\ ctx' = "cancelled"
  /\ UNCHANGED <<request, pc, limit, source, read, outcome, size, result, fault>>

Armed == pc \notin {"call", "validate", "returned"}

\* Mutant of DeadlinePasses: no timeout when none was asked for.
DeadlineOnRequest ==
  /\ Armed
  /\ ~Dead
  /\ request.timeout # "default"
  /\ ctx' = "expired"
  /\ UNCHANGED <<request, pc, limit, source, read, outcome, size, result, fault>>

DeadlinePasses ==
  /\ Armed
  /\ ~Dead
  /\ ctx' = "expired"
  /\ UNCHANGED <<request, pc, limit, source, read, outcome, size, result, fault>>

Finished == pc = "returned" /\ UNCHANGED vars

Admission == CallTool \/ Validate \/ Enter
Opening == Refuse \/ OpenFaults \/ Open
Reading == LoadDump \/ LoadStops \/ SourceFaults \/ TakeTable \/ AllTaken \/ ContextStops
Answer == CloseSource \/ Classify \/ Encode

Next ==
  \/ Admission
  \/ Opening
  \/ Reading
  \/ Answer
  \/ ClientCancels
  \/ DeadlinePasses
  \/ Finished

\* Waits for the database: nothing makes it answer while the context lives.
Hangs == ~request.dump /\ pc \in {"open", "tables"} /\ ~Dead

\* The call goes on whenever it does not wait for a database; the timer fires.
\* A dump is a regular file, whose reading ends.
Fairness ==
  /\ WF_vars(~Hangs /\ (Admission \/ Opening \/ Reading \/ Answer))
  /\ WF_vars(DeadlinePasses)

SafeSpec == Init /\ [][Next]_vars
Spec == SafeSpec /\ Fairness

-----------------------------------------------------------------------------
(* Safety. *)

\* An extraction that succeeds has every table of its source, whenever the
\* context died, for a live database and for a PostgreSQL dump: no loop that is
\* cut short passes for one that ended (postgres/dump_parser.go:360-363 and the
\* rows.Err checks of the adapters).
WholeUnlessGenericDump ==
  result \in {"ok", "OUTPUT_TOO_LARGE"} /\ ~GenericDump => read = request.tables

\* A failure is named after what happened (service.go:125-130): TIMEOUT only
\* when the deadline passed before the client cancelled; EXTRACTION_FAILED only
\* when it did not, and only when the source failed or the client cancelled; in
\* particular a dialect admitted by CapabilitiesFor has an arm in newExtractor.
FailuresHaveCauses ==
  /\ result = "TIMEOUT" => ctx = "expired"
  /\ result = "EXTRACTION_FAILED" => ctx # "expired" /\ (fault = "source" \/ ctx = "cancelled")

\* However the call ends, and wherever the context died, the source it opened
\* is closed when it returns, and a request that was refused opened none
\* (extract.go:62-66).
SourceReleased ==
  /\ pc = "returned" => source # "open"
  /\ result \in {"INVALID_ARGUMENT", "UNSUPPORTED_DIALECT"} => source = "none"

\* No document leaves larger than the caller's cap or than the server's maximum
\* whatever cap was asked for, and none within the cap, or the maximum when no
\* cap was given, is refused for its size (service.go:109-115, 135-137).
OutputBounded ==
  LET bound == IF request.cap = 0 THEN MaximumOutputBytes ELSE request.cap
  IN  /\ result = "ok" => size <= bound /\ size <= MaximumOutputBytes
      /\ result = "OUTPUT_TOO_LARGE" => size > bound

-----------------------------------------------------------------------------
(* Liveness. *)

\* Every call returns, though a database may never answer and the caller gave no
\* timeout (service.go:101, 117).
CallReturns == <>(pc = "returned")

-----------------------------------------------------------------------------
(* What the documentation says and the code does not do. *)

\* internal/database/PLAN.md:39-41, "Source-specific capabilities must be
\* explicit rather than silently producing incomplete data": what is returned as
\* a success holds every table of the source, a generic dump's included.
SuccessIsWhole == result = "ok" => read = request.tables
=============================================================================
