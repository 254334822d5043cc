---------------------------- MODULE ServiceProofs ----------------------------
(***************************************************************************)
(* The extraction service, and the command line programs that call it      *)
(* without a server.                                                       *)
(*                                                                         *)
(* First every safety property that the run of ExtractService checks, for  *)
(* every number of tables, every set of caps and sizes and every pair of   *)
(* limits.  Each speaks of a call that has returned; the invariant IInv    *)
(* says what makes it true on the way there, one conjunct for each part of *)
(* the call.                                                               *)
(*                                                                         *)
(* Then those of Commands, for every set of schema names a user may choose *)
(* from.  They are about how a run ends; CliInv follows it there: what was *)
(* asked of the service, what was read and from what, and what the two     *)
(* places hold at each point.                                              *)
(***************************************************************************)
EXTENDS ExtractService, Commands, TLAPS

-----------------------------------------------------------------------------
(* The service. *)

Bound == IF request.cap = 0 THEN MaximumOutputBytes ELSE request.cap

\* A result appears with the return and not before.
ResultAtEnd == (result = "none") <=> (pc # "returned")

\* Past validation the request is known to be admissible, and the limit is set.
Admitted ==
  pc \notin {"call", "validate", "returned"} =>
    /\ request.dialect \in Supported
    /\ limit = Bound
    /\ Bound <= MaximumOutputBytes

\* The source is open exactly between the constructor and Close.
OpenSpan ==
  /\ pc \in {"call", "validate", "enter", "open"} => source = "none"
  /\ pc \in {"classify", "encode"} => source # "open"

\* An extraction fails for a reason, and says so before it is classified.
ReasonKnown ==
  /\ pc \in {"call", "validate", "enter", "open", "load", "tables"} =>
       outcome = "pending"
  /\ pc = "close" => outcome \in {"database", "error"}
  /\ pc = "classify" => outcome = "error"
  /\ outcome = "error" /\ pc # "returned" => fault = "source" \/ Dead

\* An extraction that did not fail has read everything, but for a generic dump.
WholeSoFar ==
  pc = "encode" \/ (pc = "close" /\ outcome = "database") =>
    GenericDump \/ read = request.tables

IInv ==
  /\ TypeOK
  /\ ResultAtEnd
  /\ Admitted
  /\ OpenSpan
  /\ ReasonKnown
  /\ WholeSoFar
  /\ WholeUnlessGenericDump
  /\ FailuresHaveCauses
  /\ SourceReleased
  /\ OutputBounded

\* What the steps assign and the conjuncts read, for the leaves below.
USE DEF Dead, GenericDump, Bound, Return, Fail, Succeed, Codes

LEMMA IInvInit == Init => IInv
  BY ConstantsOK
  DEF Init, IInv, TypeOK, ResultAtEnd, Admitted, OpenSpan, ReasonKnown, WholeSoFar,
      WholeUnlessGenericDump, FailuresHaveCauses, SourceReleased, OutputBounded, Requests

\* CapabilitiesFor and newExtractor list the same dialects.
LEMMA DialectsAgree == Supported = Openable
  BY DEF Supported, Openable

\* An admissible cap never lets more out than the maximum.
LEMMA AdmittedBound ==
  ASSUME NEW q \in Requests, Rejection(q) = "none"
  PROVE  /\ q.dialect \in Supported
         /\ (IF q.cap = 0 THEN MaximumOutputBytes ELSE q.cap) <= MaximumOutputBytes
  BY ConstantsOK DEF Rejection, CapAllowed, Requests

LEMMA RejectionCodes ==
  ASSUME NEW q \in Requests
  PROVE  Rejection(q) \in {"none", "INVALID_ARGUMENT", "UNSUPPORTED_DIALECT"}
  BY DEF Rejection, Requests

LEMMA IInvNext == IInv /\ [Next]_vars => IInv'
  <1> SUFFICES ASSUME IInv, [Next]_vars PROVE IInv'
    OBVIOUS
  <1> USE DEF IInv
  <1>1. CASE CallTool
    BY <1>1
    DEF CallTool, TypeOK, ResultAtEnd, Admitted, OpenSpan, ReasonKnown, WholeSoFar,
        WholeUnlessGenericDump, FailuresHaveCauses, SourceReleased, OutputBounded
  <1>2. CASE Validate
    <2>1. CASE Rejection(request) # "none" /\ Return(Rejection(request)) /\ UNCHANGED limit
      BY <1>2, <2>1, RejectionCodes
      DEF Validate, TypeOK, ResultAtEnd, Admitted, OpenSpan, ReasonKnown, WholeSoFar,
          WholeUnlessGenericDump, FailuresHaveCauses, SourceReleased, OutputBounded
    <2>2. CASE Rejection(request) = "none" /\ pc' = "enter" /\ limit' = Bound
               /\ UNCHANGED result
      <3>1. Bound \in Int /\ Bound <= MaximumOutputBytes /\ request.dialect \in Supported
        BY <2>2, AdmittedBound, ConstantsOK DEF TypeOK, Requests
      <3>2. TypeOK'
        BY <1>2, <2>2, <3>1 DEF Validate, TypeOK
      <3>3. Admitted'
        BY <1>2, <2>2, <3>1 DEF Validate, Admitted
      <3>4. /\ pc = "validate" /\ pc' = "enter"
            /\ UNCHANGED <<request, ctx, source, read, outcome, size, result, fault>>
        BY <1>2, <2>2 DEF Validate
      <3> HIDE DEF Bound, Return
      <3> QED
        BY <3>2, <3>3, <3>4
        DEF ResultAtEnd, OpenSpan, ReasonKnown, WholeSoFar, WholeUnlessGenericDump,
            FailuresHaveCauses, SourceReleased, OutputBounded
    <2> QED
      BY <1>2, <2>1, <2>2 DEF Validate
  <1>3. CASE Enter
    BY <1>3
    DEF Enter, TypeOK, ResultAtEnd, Admitted, OpenSpan, ReasonKnown, WholeSoFar,
        WholeUnlessGenericDump, FailuresHaveCauses, SourceReleased, OutputBounded
  <1>4. CASE Opening
    BY <1>4, DialectsAgree
    DEF Opening, Refuse, OpenFaults, Open, TypeOK, ResultAtEnd, Admitted, OpenSpan,
        ReasonKnown, WholeSoFar, WholeUnlessGenericDump, FailuresHaveCauses,
        SourceReleased, OutputBounded
  <1>5. CASE LoadDump \/ LoadStops \/ SourceFaults
    BY <1>5
    DEF LoadDump, LoadStops, SourceFaults, TypeOK, ResultAtEnd, Admitted, OpenSpan,
        ReasonKnown, WholeSoFar, WholeUnlessGenericDump, FailuresHaveCauses,
        SourceReleased, OutputBounded
  <1>6. CASE TakeTable
    <2>1. read' \in 0 .. MaxTables
      BY <1>6, ConstantsOK DEF TakeTable, TypeOK, Requests
    <2> QED
      BY <1>6, <2>1
      DEF TakeTable, TypeOK, ResultAtEnd, Admitted, OpenSpan, ReasonKnown, WholeSoFar,
          WholeUnlessGenericDump, FailuresHaveCauses, SourceReleased, OutputBounded
  <1>7. CASE AllTaken \/ ContextStops
    BY <1>7
    DEF AllTaken, ContextStops, TypeOK, ResultAtEnd, Admitted, OpenSpan, ReasonKnown,
        WholeSoFar, WholeUnlessGenericDump, FailuresHaveCauses, SourceReleased,
        OutputBounded
  <1>8. CASE CloseSource
    BY <1>8
    DEF CloseSource, TypeOK, ResultAtEnd, Admitted, OpenSpan, ReasonKnown, WholeSoFar,
        WholeUnlessGenericDump, FailuresHaveCauses, SourceReleased, OutputBounded
  <1>9. CASE Classify
    BY <1>9
    DEF Classify, TypeOK, ResultAtEnd, Admitted, OpenSpan, ReasonKnown, WholeSoFar,
        WholeUnlessGenericDump, FailuresHaveCauses, SourceReleased, OutputBounded
  <1>10. CASE Encode
    <2>1. PICK n \in Sizes :
            /\ size' = n
            /\ Return(IF n > limit THEN "OUTPUT_TOO_LARGE" ELSE "ok")
      BY <1>10 DEF Encode
    <2>2. n \in Nat /\ limit \in Int /\ limit = Bound /\ Bound <= MaximumOutputBytes
      BY <1>10, ConstantsOK DEF Encode, TypeOK, Admitted
    <2>3. OutputBounded'
      BY <1>10, <2>1, <2>2, ConstantsOK DEF Encode, OutputBounded
    <2>4. TypeOK'
      BY <1>10, <2>1, <2>2 DEF Encode, TypeOK
    <2>5. /\ pc = "encode" /\ pc' = "returned"
          /\ result' \in {"ok", "OUTPUT_TOO_LARGE"}
          /\ UNCHANGED <<request, ctx, limit, source, read, outcome, fault>>
      BY <1>10, <2>1 DEF Encode
    <2> HIDE DEF Bound, Return
    <2> QED
      BY <2>3, <2>4, <2>5
      DEF ResultAtEnd, Admitted, OpenSpan, ReasonKnown, WholeSoFar,
          WholeUnlessGenericDump, FailuresHaveCauses, SourceReleased
  <1>11. CASE ClientCancels \/ DeadlinePasses
    BY <1>11
    DEF ClientCancels, DeadlinePasses, Armed, TypeOK, ResultAtEnd, Admitted, OpenSpan,
        ReasonKnown, WholeSoFar, WholeUnlessGenericDump, FailuresHaveCauses,
        SourceReleased, OutputBounded
  <1>12. CASE UNCHANGED vars
    BY <1>12
    DEF vars, TypeOK, ResultAtEnd, Admitted, OpenSpan, ReasonKnown, WholeSoFar,
        WholeUnlessGenericDump, FailuresHaveCauses, SourceReleased, OutputBounded
  <1> QED
    BY <1>1, <1>2, <1>3, <1>4, <1>5, <1>6, <1>7, <1>8, <1>9, <1>10, <1>11, <1>12
    DEF Next, Admission, Reading, Answer, Finished

\* Every reachable state satisfies the invariant.
THEOREM Invariant == SafeSpec => []IInv
  BY IInvInit, IInvNext, PTL DEF SafeSpec

\* The state has its type, whatever the constants.
THEOREM TypeCorrect == SafeSpec => []TypeOK
  BY Invariant, PTL DEF IInv

\* No live extraction and no PostgreSQL dump is cut short and passes for whole,
\* however many tables there are and whenever the context dies.
THEOREM NeverSilentlyPartial == SafeSpec => []WholeUnlessGenericDump
  BY Invariant, PTL DEF IInv

\* A failure is named after its cause, wherever in the call the context died.
THEOREM CausesNamed == SafeSpec => []FailuresHaveCauses
  BY Invariant, PTL DEF IInv

\* Every source that was opened is closed when the call returns.
THEOREM SourcesReleased == SafeSpec => []SourceReleased
  BY Invariant, PTL DEF IInv

\* Output limits hold for every cap, document size and pair of limits.
THEOREM OutputStaysBounded == SafeSpec => []OutputBounded
  BY Invariant, PTL DEF IInv

-----------------------------------------------------------------------------
(* The command line programs. *)

\* The exit code is known when the program has exited and not before.
ExitAtEnd == (exit = "none") <=> (step # "exited")

\* Each program takes its own way, and only a file is ever closed.
OwnWay ==
  /\ step = "extract" => ~Converts
  /\ step = "parse" => Converts
  /\ step = "close" => ToFile

\* Past its arguments a run is admissible and has asked for its selection.
Selecting ==
  step \notin {"args", "exited"} =>
    /\ ~Refused
    /\ ~Converts => asked = Selected

\* What was read by the time the output is created, and by the time it is written.
ReadSoFar ==
  /\ step \in {"args", "extract", "parse"} => seen = "unread"
  /\ step = "create" => (seen = "unread" <=> Converts)
  /\ step \in {"write", "close"} => seen # "unread"
  /\ exit = "ok" => seen # "unread"

\* Only dbml2toon over its own input finds nothing where its source was, and only a
\* generic dump is read in part.
SourceSeen ==
  /\ seen = "nothing" => Converts /\ run.target = "input"
  /\ seen = "partial" => ReadsGenericDump

\* Once written, and until a close fails, the destination holds what was read.
Written == step = "close" \/ exit = "ok" => place[Destination] = Document

CliInv ==
  /\ CliTypeOK
  /\ ExitAtEnd
  /\ OwnWay
  /\ Selecting
  /\ ReadSoFar
  /\ SourceSeen
  /\ Written
  /\ OldOutputKept

\* A run that was not refused named its schemas one way, and a default is asked for
\* only when none was named.
LEMMA SelectedIsNamed ==
  ASSUME ~Refused, ~Converts
  PROVE  /\ run.schema = {} \/ run.schemas = {}
         /\ run.schema \cup run.schemas # {} => Selected = run.schema \cup run.schemas
  BY DEF Refused, Selected

\* The service is only ever asked for names the user gave or for a default.
LEMMA SelectedType ==
  ASSUME run \in Invocations
  PROVE  Selected \in SUBSET (Names \cup Defaults)
  <1>1. run.schema \subseteq Names /\ run.schemas \subseteq Names
    BY DEF Invocations
  <1>2. DefaultSchemas \subseteq Defaults
    BY DEF DefaultSchemas, Defaults
  <1> QED
    BY <1>1, <1>2 DEF Selected

\* The invocation is fixed, and with it everything that is read off it alone.
LEMMA InvocationFixed ==
  ASSUME UNCHANGED run
  PROVE  UNCHANGED <<Converts, ToFile, Destination, Refused, Selected, ReadsGenericDump>>
  BY DEF Converts, ToFile, Destination, Refused, Dialect, Selected, DefaultSchemas,
         ReadsGenericDump

LEMMA CliInvInit == CliInit => CliInv
  BY DEF CliInit, CliInv, CliTypeOK, ExitAtEnd, OwnWay, Selecting, ReadSoFar, SourceSeen,
         Written, OldOutputKept, Original, Before

LEMMA CliInvNext == CliInv /\ [CliNext]_cliVars => CliInv'
  <1> SUFFICES ASSUME CliInv, [CliNext]_cliVars PROVE CliInv'
    OBVIOUS
  <1>a. UNCHANGED run
    BY DEF CliNext, cliVars, RefuseArguments, StartExtract, OpenInput, Extract,
           Parse, Create, Write, Close, Killed, Over
  <1>b. Destination = "out" \/ (Destination = "in" /\ run.target = "input")
    BY DEF Destination
  <1> USE <1>a, <1>b, InvocationFixed DEF CliInv, Exit, OldOutputKept, Original
  <1>1. CASE RefuseArguments
    BY <1>1
    DEF RefuseArguments, CliTypeOK, ExitAtEnd, OwnWay, Selecting, ReadSoFar, SourceSeen, Written
  <1>2. CASE StartExtract
    BY <1>2, SelectedType
    DEF StartExtract, CliTypeOK, ExitAtEnd, OwnWay, Selecting, ReadSoFar, SourceSeen, Written
  <1>3. CASE OpenInput
    BY <1>3
    DEF OpenInput, CliTypeOK, ExitAtEnd, OwnWay, Selecting, ReadSoFar, SourceSeen, Written
  <1>4. CASE Extract
    BY <1>4
    DEF Extract, CliTypeOK, ExitAtEnd, OwnWay, Selecting, ReadSoFar, SourceSeen, Written
  <1>5. CASE Parse
    BY <1>5
    DEF Parse, CliTypeOK, ExitAtEnd, OwnWay, Selecting, ReadSoFar, SourceSeen, Written
  <1>6. CASE Create
    BY <1>6
    DEF Create, CliTypeOK, ExitAtEnd, OwnWay, Selecting, ReadSoFar, SourceSeen, Written
  <1>7. CASE Write
    BY <1>7
    DEF Write, Document, CliTypeOK, ExitAtEnd, OwnWay, Selecting, ReadSoFar, SourceSeen, Written
  <1>8. CASE Close
    BY <1>8
    DEF Close, Document, CliTypeOK, ExitAtEnd, OwnWay, Selecting, ReadSoFar, SourceSeen, Written
  <1>9. CASE Killed
    BY <1>9
    DEF Killed, CliTypeOK, ExitAtEnd, OwnWay, Selecting, ReadSoFar, SourceSeen, Written
  <1>10. CASE UNCHANGED cliVars
    BY <1>10
    DEF cliVars, CliTypeOK, ExitAtEnd, OwnWay, Selecting, ReadSoFar, SourceSeen, Written,
        Document
  <1> QED
    BY <1>1, <1>2, <1>3, <1>4, <1>5, <1>6, <1>7, <1>8, <1>9, <1>10
    DEF CliNext, Over

\* Every reachable state satisfies the invariant.
THEOREM CliInvariant == CliSpec => []CliInv
  BY CliInvInit, CliInvNext, PTL DEF CliSpec

\* The state has its type, whatever the names.
THEOREM CliTypeCorrect == CliSpec => []CliTypeOK
  BY CliInvariant, PTL DEF CliInv

\* No failure, wherever it strikes, costs the user an earlier document before there
\* is one to replace it, or the input, but where -out names it.
THEOREM OldOutputSafe == CliSpec => []OldOutputKept
  BY CliInvariant, PTL DEF CliInv

\* Success is reported of a finished document only: of the whole source, unless a
\* generic dump met its deadline, or of nothing if dbml2toon emptied its own input.
THEOREM SuccessMeansWhole == CliSpec => []DocumentIsWhole
  <1>1. CliInv => DocumentIsWhole
    BY DEF CliInv, ReadSoFar, SourceSeen, Written, DocumentIsWhole, Document, CliTypeOK
  <1> QED
    BY <1>1, CliInvariant, PTL

\* What is extracted is what the user named.
THEOREM NamedSchemasAsked == CliSpec => []NamedSchemasOnly
  <1>1. CliInv => NamedSchemasOnly
    BY SelectedIsNamed DEF CliInv, Selecting, NamedSchemasOnly
  <1> QED
    BY <1>1, CliInvariant, PTL
=============================================================================
