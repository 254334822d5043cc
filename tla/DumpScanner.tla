---------------------------- MODULE DumpScanner ----------------------------
(***************************************************************************)
(* How the dump parsers cut text into pieces: a script into statements, a  *)
(* list into its parts, the VALUES of an INSERT into rows.  There is one   *)
(* scanner of each kind for PostgreSQL and one for the other dialects.     *)
(* None of them is a lexer: they know quotes, parentheses and separators,  *)
(* and what else SQL has goes through as text.                             *)
(*                                                                         *)
(* A text is a sequence of symbols, a symbol one character or, where the   *)
(* scanners look for a word, the word: COPY, the line \., GO (or a slash)  *)
(* on a line, DELIMITER and the delimiter it sets.  sq, dq and bq are the  *)
(* quotes ', " and the back quote, semi and comma are ; and , (and a w is  *)
(* a word).  The author writes a text construct by construct and knows     *)
(* which pieces it has; odd has the constructs among them that the scanner *)
(* is known not to follow.                                                 *)
(*                                                                         *)
(* The names that every specification has begin with Scan here, so that a  *)
(* module about a dump parser can extend this one too.                     *)
(***************************************************************************)
EXTENDS Integers, Sequences, SequencesExt, Functions, Filters

CONSTANTS
  Readers,        \* <<family, task>>
  Contents,       \* what a quoted text, a comment or a row of data may hold
  MaxConstructs,  \* constructs in a text, by task, and
  MaxFilled       \* those among them that are not bare symbols: bound the model

Families == {"postgres", "generic"}
Tasks == {"script", "list", "values"}
Tags == {<<"$", "$">>, <<"$", "w", "$">>}
Symbols == {"w", "sq", "dq", "bq", "[", "]", "(", ")", "comma", "semi", "$", "--", "\\", "nl",
            "COPY", "\\.", "GO", "DELIMITER//", "DELIMITERsemi", "//", "NUL"}

ASSUME ScanConstantsOK ==
  /\ Readers \subseteq Families \X Tasks
  /\ Contents \subseteq Seq(Symbols)
  /\ MaxConstructs \in [Tasks -> Nat] /\ MaxFilled \in [Tasks -> Nat]

VARIABLES
  reader,   \* the scanner in use
  text,     \* what is written so far
  meant,    \* the pieces it has, the last of them open
  depth,    \* the parentheses the author has open
  odd,      \* the constructs in it that the scanner does not follow
  count,    \* the constructs written
  filled,   \* those of them that are not bare symbols
  pieces,   \* what the scanner makes of it
  ended     \* the text is written and cut

scanVars == <<reader, text, meant, depth, odd, count, filled, pieces, ended>>

Family == reader[1]
Task == reader[2]
Separator == IF Task = "script" THEN "semi" ELSE "comma"

-----------------------------------------------------------------------------
(* The scanners: one symbol after another, with some looked at in advance. *)

\* Symbols before next are skipped; quote is the one that closes what is open,
\* dollar the tag that does.
Start == [next |-> 1, start |-> 1, quote |-> "none", dollar |-> <<>>, depth |-> 0, out |-> <<>>]

\* Mutant of QuotesOf: MySQL's quotes are not known.
QuotesOfPostgres(family, task) ==
  {"sq", "dq"} \cup (IF family = "generic" /\ task # "script" THEN {"["} ELSE {})

\* What opens a quoted text.  A text that begins with [ ends with the next [.
QuotesOf(family, task) ==
  {"sq", "dq"} \cup (IF family = "generic" THEN {"bq"} ELSE {})
              \cup (IF family = "generic" /\ task # "script" THEN {"["} ELSE {})

\* A quote that is doubled does not close.
InQuote(t, s, i) ==
  IF t[i] # s.quote THEN s
  ELSE IF i < Len(t) /\ t[i + 1] = s.quote THEN [s EXCEPT !.next = i + 2]
  ELSE [s EXCEPT !.quote = "none"]

Cut(t, s, i) == [s EXCEPT !.out = Append(@, SubSeq(t, s.start, i - 1)), !.start = i + 1]

Rest(t, s) == SubSeq(t, s.start, Len(t))

\* genericSplitByte and splitTopLevel: a separator counts outside parentheses.
ListStep(family, t, s, i) ==
  IF s.quote # "none" THEN InQuote(t, s, i)
  ELSE IF t[i] \in QuotesOf(family, "list") THEN [s EXCEPT !.quote = t[i]]
  ELSE IF t[i] = "(" THEN [s EXCEPT !.depth = @ + 1]
  ELSE IF t[i] = ")" THEN [s EXCEPT !.depth = @ - 1]
  ELSE IF t[i] = "comma" /\ s.depth = 0 THEN Cut(t, s, i)
  ELSE s

\* genericStatements: parentheses do not count.
StatementStep(t, s, i) ==
  IF s.quote # "none" THEN InQuote(t, s, i)
  ELSE IF t[i] \in QuotesOf("generic", "script") THEN [s EXCEPT !.quote = t[i]]
  ELSE IF t[i] = "semi" THEN Cut(t, s, i)
  ELSE s

\* The tag that begins at i, <<>> when none does.
TagAt(t, i) ==
  LET ends == {j \in i + 1 .. Len(t) : t[j] = "$" /\ \A k \in i + 1 .. j - 1 : t[k] = "w"}
  IN IF ends # {} THEN SubSeq(t, i, CHOOSE j \in ends : TRUE) ELSE <<>>

\* The first symbol of a line, and the last.
LineStart(t, i) == i = 1 \/ t[i - 1] = "nl"
LineEnd(t, i) == i = Len(t) \/ t[i + 1] = "nl"

IsCopy(piece) == \E i \in DOMAIN piece : piece[i] = "COPY" /\ \A j \in 1 .. i - 1 : piece[j] = "nl"

HasAt(t, i, u) == i + Len(u) - 1 <= Len(t) /\ SubSeq(t, i, i + Len(u) - 1) = u

Marker == <<"nl", "\\.", "nl">>

\* The end of the data of a COPY: where the line \. after i begins.
Markers(t, i) == {j \in i + 1 .. Len(t) : HasAt(t, j, Marker)}

\* A semicolon: after the header of a COPY the piece goes on with the data.
Terminate(t, s, i) ==
  LET end == 1 + CHOOSE j \in Markers(t, i) : \A k \in Markers(t, i) : j <= k
  IN IF IsCopy(SubSeq(t, s.start, i - 1)) /\ Markers(t, i) # {}
     THEN [s EXCEPT !.out = Append(@, SubSeq(t, s.start, end)), !.start = end + 1, !.next = end + 1]
     ELSE Cut(t, s, i)

\* splitDumpStatements
DumpStep(t, s, i) ==
  IF s.dollar # <<>> THEN
    IF HasAt(t, i, s.dollar) THEN [s EXCEPT !.next = i + Len(s.dollar), !.dollar = <<>>] ELSE s
  ELSE IF s.quote # "none" THEN InQuote(t, s, i)
  ELSE IF t[i] \in QuotesOf("postgres", "script") THEN [s EXCEPT !.quote = t[i]]
  ELSE IF t[i] = "$" /\ TagAt(t, i) # <<>>
    THEN [s EXCEPT !.next = i + Len(TagAt(t, i)), !.dollar = TagAt(t, i)]
  ELSE IF t[i] = "semi" THEN Terminate(t, s, i)
  ELSE s

\* splitValueGroups: quotes do not count.
GroupStep(t, s, i) ==
  IF t[i] = "(" THEN [s EXCEPT !.depth = @ + 1, !.start = IF s.depth = 0 THEN i + 1 ELSE @]
  ELSE IF t[i] = ")" THEN [s EXCEPT !.depth = @ - 1,
                                    !.out = IF s.depth = 1 THEN Append(@, SubSeq(t, s.start, i - 1)) ELSE @]
  ELSE s

Step(scanner, t, s, i) ==
  IF scanner = <<"postgres", "script">> THEN DumpStep(t, s, i)
  ELSE IF scanner = <<"generic", "script">> THEN StatementStep(t, s, i)
  ELSE IF scanner = <<"postgres", "values">> THEN GroupStep(t, s, i)
  ELSE ListStep(scanner[1], t, s, i)

\* Where a scanner is after each symbol of t.
Scans(scanner, t) ==
  LET after[i \in 0 .. Len(t)] ==
        IF i = 0 THEN Start
        ELSE LET s == after[i - 1] IN IF i < s.next THEN s ELSE Step(scanner, t, s, i)
  IN after

Scan(scanner, t) == Scans(scanner, t)[Len(t)]

\* The pieces, with what follows the last separator.
Parts(scanner, t) == LET s == Scan(scanner, t) IN Append(s.out, Rest(t, s))

\* A line with nothing on it but GO ends a statement, wherever it is.
Batches(t) ==
  [i \in DOMAIN t |-> IF t[i] = "GO" /\ LineStart(t, i) /\ LineEnd(t, i) THEN "semi" ELSE t[i]]

Delimiters == {"DELIMITER//", "DELIMITERsemi"}

\* normalizeMySQLDelimiters: a line that begins with DELIMITER is left out.  While
\* a delimiter is set, a semicolon is hidden and the delimiter at the end of a line
\* becomes one.
DelimiterStep(t, s, i) ==
  LET left == IF LineStart(t, i) THEN t[i] \in Delimiters ELSE s.left
      set == IF LineStart(t, i) /\ left THEN t[i] = "DELIMITER//" ELSE s.set
      c == IF set /\ t[i] = "semi" THEN "NUL"
           ELSE IF set /\ t[i] = "//" /\ LineEnd(t, i) THEN "semi"
           ELSE t[i]
  IN [left |-> left, set |-> set, out |-> IF left THEN s.out ELSE Append(s.out, c)]

Delimited(t) ==
  LET after[i \in 0 .. Len(t)] ==
        IF i = 0 THEN [left |-> FALSE, set |-> FALSE, out |-> <<>>]
        ELSE DelimiterStep(t, after[i - 1], i)
  IN after

Undelimited(t) == Delimited(t)[Len(t)].out

\* What was hidden is shown again.
Restored(piece) == [i \in DOMAIN piece |-> IF piece[i] = "NUL" THEN "semi" ELSE piece[i]]

\* Mutant of SplitScript: what was hidden stays hidden.
SplitScriptHidden(t) == Parts(<<"generic", "script">>, Undelimited(Batches(t)))

SplitScript(t) ==
  LET cut == Parts(<<"generic", "script">>, Undelimited(Batches(t)))
  IN [k \in DOMAIN cut |-> Restored(cut[k])]

Trimmed(t) ==
  LET solid == {i \in DOMAIN t : t[i] # "nl"}
  IN IF solid = {} THEN <<>>
     ELSE SubSeq(t, CHOOSE i \in solid : \A j \in solid : i <= j,
                    CHOOSE i \in solid : \A j \in solid : j <= i)

\* genericGroups: the parts that begin and end with a parenthesis.
Groups(parts) ==
  LET trimmed == [k \in DOMAIN parts |-> Trimmed(parts[k])]
      found == Keep(trimmed, {p \in Range(trimmed) : p # <<>> /\ Head(p) = "(" /\ Last(p) = ")"})
  IN [k \in DOMAIN found |-> SubSeq(found[k], 2, Len(found[k]) - 1)]

Split(t) ==
  CASE reader = <<"generic", "script">> -> SplitScript(t)
    [] reader = <<"postgres", "values">> -> Scan(reader, t).out
    [] reader = <<"generic", "values">> -> Groups(Parts(reader, t))
    [] OTHER -> Parts(reader, t)

-----------------------------------------------------------------------------
(* The author.                                                             *)

ScanInit ==
  /\ reader \in Readers
  /\ text = <<>>
  /\ meant = IF Task = "values" THEN <<>> ELSE << <<>> >>
  /\ depth = 0
  /\ odd = {}
  /\ count = 0 /\ filled = 0
  /\ pieces = <<>>
  /\ ended = FALSE

\* One more construct; n is 0 for a bare symbol.
Writing(n) ==
  /\ ~ended
  /\ count < MaxConstructs[Task] /\ count' = count + 1
  /\ filled + n <= MaxFilled[Task] /\ filled' = filled + n
  /\ UNCHANGED <<reader, pieces, ended>>

\* What is dealt with before the text is split, within quotes too.
Early == IF reader = <<"generic", "script">> THEN {"GO", "NUL"} \cup Delimiters ELSE {}

\* What a scanner acts upon.
Special ==
  CASE reader = <<"postgres", "script">> -> {"sq", "dq", "$", "semi"}
    [] reader = <<"generic", "script">> -> {"sq", "dq", "bq", "semi"} \cup Early
    [] reader = <<"postgres", "values">> -> {"(", ")"}
    [] OTHER -> QuotesOf(Family, Task) \cup {"(", ")", "comma"}

Plain(c) == Range(c) \cap Special = {}

\* Between the rows of VALUES there is nothing but commas.
Inside == Task = "values" => depth > 0

\* Adds t to the text and to the open piece.
Add(t) ==
  /\ Inside
  /\ text' = text \o t
  /\ meant' = [meant EXCEPT ![Len(meant)] = @ \o t]

\* The construct is one that the scanner follows, or it is odd.
Follows(followed, construct) == odd' = IF followed THEN odd ELSE odd \cup {construct}

WriteWord ==
  /\ Writing(0)
  /\ text # <<>> => Last(text) # "w"
  /\ Add(<<"w">>)
  /\ UNCHANGED <<depth, odd>>

Doubled(c, q) == FlattenSeq([i \in DOMAIN c |-> IF c[i] = q THEN <<q, q>> ELSE <<c[i]>>])

WriteQuoted(q, c) ==
  /\ Writing(1)
  /\ q = "bq" => Family = "generic"
  /\ Add(<<q>> \o Doubled(c, q) \o <<q>>)
  /\ Follows(IF reader = <<"postgres", "values">> THEN Plain(c) ELSE Range(c) \cap Early = {}, "quoted")
  /\ UNCHANGED depth

\* A quote escaped by a backslash, as MySQL and PostgreSQL's E'' have it.
WriteEscaped ==
  /\ Writing(1)
  /\ Add(<<"sq", "w", "\\", "sq", "sq">>)
  /\ Follows(reader = <<"postgres", "values">>, "escaped")
  /\ UNCHANGED depth

\* A name in brackets, as SQL Server has it.
WriteBracketed(c) ==
  /\ Writing(1)
  /\ Family = "generic" /\ "]" \notin Range(c)
  /\ Add(<<"[">> \o c \o <<"]">>)
  /\ Follows(Task = "script" /\ Plain(c), "bracketed")
  /\ UNCHANGED depth

WriteComment(c) ==
  /\ Writing(1)
  /\ "nl" \notin Range(c)
  /\ Add(<<"--">> \o c \o <<"nl">>)
  /\ Follows(Plain(c), "comment")
  /\ UNCHANGED depth

WriteDollarQuoted(tag, c) ==
  /\ Writing(1)
  /\ Family = "postgres"
  /\ \A i \in DOMAIN c : ~HasAt(c \o tag, i, tag)
  /\ Add(tag \o c \o tag)
  /\ Follows(Task = "script" \/ Plain(c), "dollar-quoted")
  /\ UNCHANGED depth

\* A name with a dollar in it.
WriteDollarName ==
  /\ Writing(1)
  /\ Family = "postgres"
  /\ Add(<<"w", "$", "w">>)
  /\ Follows(Task # "script", "name")
  /\ UNCHANGED depth

OpenParenthesis ==
  /\ Writing(0)
  /\ Task # "script" /\ count + depth + 2 <= MaxConstructs[Task]
  /\ IF Inside THEN Add(<<"(">>)
     ELSE text' = Append(text, "(") /\ meant' = Append(meant, <<>>) /\ (text # <<>> => Last(text) = "comma")
  /\ depth' = depth + 1
  /\ UNCHANGED odd

CloseParenthesis ==
  /\ Writing(0)
  /\ depth > 0
  /\ IF Task = "values" /\ depth = 1 THEN text' = Append(text, ")") /\ UNCHANGED meant
     ELSE Add(<<")">>)
  /\ depth' = depth - 1
  /\ UNCHANGED odd

\* Within parentheses a comma is text.
WriteSeparator ==
  /\ Writing(0)
  /\ \/ /\ Task = "values" /\ depth = 0 /\ text # <<>> /\ Last(text) = ")"
        /\ text' = Append(text, "comma") /\ UNCHANGED meant
     \/ /\ Task # "values" /\ depth = 0
        /\ text' = Append(text, Separator) /\ meant' = Append(meant, <<>>)
     \/ depth > 0 /\ Add(<<Separator>>)
  /\ UNCHANGED <<depth, odd>>

\* Lines with nothing on them, or a comment.
Blank(t) == \A i \in DOMAIN t : LineStart(t, i) => t[i] \in {"nl", "--"}

\* Ends a piece that has no separator of its own.
Finished(t, piece, after) ==
  /\ text' = text \o t
  /\ meant' = Append([meant EXCEPT ![Len(meant)] = @ \o piece], after)
  /\ UNCHANGED depth

\* pg_dump writes comments before the data of each table.
WriteCopy(c) ==
  LET copy == <<"COPY", "w", "semi", "nl">> \o c \o <<"nl", "\\.">>
  IN /\ Writing(1)
     /\ reader = <<"postgres", "script">> /\ Blank(Last(meant))
     /\ \A i \in 1 .. Len(c) + 1 : ~HasAt(<<"nl">> \o c \o Marker, i, Marker)
     /\ Finished(copy \o <<"nl">>, copy, <<"nl">>)
     /\ Follows(Range(Last(meant)) \subseteq {"nl"}, "copy")

WriteBatch ==
  /\ Writing(0)
  /\ reader = <<"generic", "script">>
  /\ Finished(<<"nl", "GO", "nl">>, <<"nl">>, <<"nl">>)
  /\ UNCHANGED odd

\* A routine between two DELIMITER lines, with semicolons of its own.
WriteRoutine(c) ==
  /\ Writing(1)
  /\ reader = <<"generic", "script">> /\ Range(Last(meant)) \subseteq {"nl"}
  /\ Range(c) \cap (Special \cup {"//"}) \subseteq {"semi"}
  /\ Finished(<<"nl", "DELIMITER//", "nl">> \o c \o <<"//", "nl", "DELIMITERsemi", "nl">>,
              <<"nl">> \o c, <<"nl">>)
  /\ UNCHANGED odd

EndOfText ==
  /\ ~ended /\ depth = 0
  /\ ended' = TRUE
  /\ pieces' = Split(text)
  /\ UNCHANGED <<reader, text, meant, depth, odd, count, filled>>

ScanNext ==
  \/ WriteWord \/ WriteEscaped \/ WriteDollarName
  \/ \E c \in Contents :
       \/ \E q \in {"sq", "dq", "bq"} : WriteQuoted(q, c)
       \/ WriteBracketed(c) \/ WriteComment(c) \/ WriteCopy(c) \/ WriteRoutine(c)
       \/ \E tag \in Tags : WriteDollarQuoted(tag, c)
  \/ OpenParenthesis \/ CloseParenthesis \/ WriteSeparator
  \/ WriteBatch \/ EndOfText

ScanSpec == ScanInit /\ [][ScanNext]_scanVars

-----------------------------------------------------------------------------
(* Properties.                                                             *)

\* The parts of the state are of their types; the pieces are of the text's
\* symbols, a semicolon that was hidden in one among them again.
ScanTypeOK ==
  /\ reader \in Readers
  /\ text \in Seq(Symbols)
  /\ \A k \in DOMAIN meant : meant[k] \in Seq(Range(text))
  /\ depth \in 0 .. count /\ count \in 0 .. MaxConstructs[Task] /\ filled \in 0 .. MaxFilled[Task]
  /\ odd \subseteq {"quoted", "escaped", "bracketed", "comment", "dollar-quoted", "name", "copy"}
  /\ ended \in BOOLEAN
  /\ \A k \in DOMAIN pieces : pieces[k] \in Seq(Range(text) \cup {"semi"})

\* A text whose constructs the scanner follows is cut where its author meant it,
\* however quotes, parentheses, dollar tags, data, delimiters and separators stand
\* within each other.
CutAsMeant == ended /\ odd = {} => pieces = meant

\* Whether i is on a line that begins with DELIMITER.
OnDelimiterLine(t, i) ==
  \E h \in 1 .. i : LineStart(t, h) /\ t[h] \in Delimiters /\ \A j \in h .. i - 1 : t[j] # "nl"

OtherLines(t) ==
  LET others == Keep([i \in DOMAIN t |-> i], {i \in DOMAIN t : ~OnDelimiterLine(t, i)})
  IN [k \in DOMAIN others |-> t[others[k]]]

Without(t, symbols) == Keep(t, Symbols \ symbols)

\* In any text statements and parts may be cut or joined wrongly, but nothing is
\* lost, repeated or moved: only separators are left out, and of a script that is
\* not PostgreSQL's the lines that begin with DELIMITER.
NothingLost ==
  ended =>
    CASE reader = <<"generic", "script">> ->
           LET ends == {"semi", "GO", "//", "NUL"}
           IN Without(FlattenSeq(pieces), ends) = Without(OtherLines(text), ends)
      [] reader # <<"generic", "script">> /\ Task # "values" ->
           Without(FlattenSeq(pieces), {Separator}) = Without(text, {Separator})
      [] OTHER -> TRUE

\* What a dump says is cut as it is meant where the scanners follow it, and
\* nowhere lost.
SplitAsMeant == CutAsMeant /\ NothingLost
=============================================================================
