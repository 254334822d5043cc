----------------------------- MODULE DbmlParser -----------------------------
(***************************************************************************)
(* The DBML parser of dbml2toon: pkg/dbml/parser.go, with the encoder it   *)
(* hands its result to (pkg/dbml/adapter.go).                              *)
(*                                                                         *)
(* DBML nests blocks; consume() reads it line by line, and knows only      *)
(* whether a table, and within it an indexes block, is open.  So there are *)
(* two machines here: the author, who writes a well-formed document block  *)
(* by block and knows what it means, and the parser, which sees the lines. *)
(* A line is abstracted to what consume() looks at: how it starts, whether *)
(* it has more than one word, and what it says as a column, an index, or a *)
(* reference.                                                              *)
(***************************************************************************)
EXTENDS ToonEncoder

CONSTANTS
  MaxLines,   \* how many lines the author opens blocks and fills them with: bounds the model
  Headers,    \* the tables that may be defined, [schema, name]
  MaxShapes,  \* how many constructs consume() does not know a document uses, each once: bounds the model
  Columns,
  Prefixed,   \* the columns whose name begins with "indexes"
  Settings,   \* the columns with their settings, [name, pk, unique, ref]
  Indexes,    \* the entries of indexes blocks, [keys, pk]
  Links,      \* the references of Ref lines, [left, op, right]
  NoRef,      \* a column without a reference
  Malformed   \* a reference that consume() keeps and addReference() refuses

Operators == {"<", ">", "-", "<>"}

Link(left, op, right) == [left |-> left, op |-> op, right |-> right]

\* The reference that a column of a table states in its settings.
InlineLink(t, c) ==
  Link([schema |-> t.schema, table |-> t.name, columns |-> <<c.name>>], c.ref.op, c.ref.end)

AllLinks ==
  Links \cup {InlineLink(h, c) : h \in Headers, c \in {c \in Settings : c.ref # NoRef}}

ASSUME ConstantsOK ==
  /\ MaxLines \in Nat /\ MaxShapes \in Nat
  /\ \A h \in Headers : DOMAIN h = {"schema", "name"}
  /\ Prefixed \subseteq Columns
  /\ \A i \in Indexes : i.keys \in Seq(Columns) /\ i.pk \in BOOLEAN
  /\ \A c \in Settings :
       /\ c.name \in Columns /\ c.pk \in BOOLEAN /\ c.unique \in BOOLEAN
       /\ c.ref # NoRef => Len(c.ref.end.columns) = 1
  /\ \A l \in AllLinks :
       /\ l.op \in Operators
       /\ l.left.columns \in Seq(Columns) /\ l.right.columns \in Seq(Columns)
       /\ Len(l.left.columns) = Len(l.right.columns)
  /\ Malformed \notin AllLinks

VARIABLES
  block,      \* the block the author is in
  meant,      \* the tables of the document as its author means them
  links,      \* the references of the document, [left, op, right]
  shapes,     \* the constructs used so far that consume() knows nothing of
  lines,      \* how many lines were written
  phase,      \* "reading", "resolving", "encoding", "done" or "failed"
  tables,     \* the tables of parser.db; the open one is the last
  open,       \* parser.table # nil
  inIndexes,  \* parser.inIndexes
  refs,       \* parser.refs
  pk,         \* parser.pk
  out         \* the TOON document

author == <<block, meant, links, shapes, lines>>
parser == <<phase, tables, open, inIndexes, refs, pk>>
vars == <<author, parser, out>>

Init ==
  /\ block = "top" /\ meant = <<>> /\ links = <<>> /\ shapes = {} /\ lines = 0
  /\ phase = "reading" /\ tables = <<>> /\ open = FALSE /\ inIndexes = FALSE
  /\ refs = <<>> /\ pk = <<>>
  /\ out = <<>>

-----------------------------------------------------------------------------
(* The parser.                                                             *)

NewTable(h) == [schema |-> h.schema, name |-> h.name, columns |-> <<>>, pk |-> <<>>,
                uniques |-> <<>>, indexes |-> <<>>, comment |-> FALSE, fks |-> <<>>]

Line(starts, words, says) == [starts |-> starts, words |-> words, says |-> says]

OpenTable == tables[Len(tables)]
UpdateOpen(t) == tables' = [tables EXCEPT ![Len(tables)] = t]

Refuse == phase' = "failed" /\ UNCHANGED <<tables, open, inIndexes, refs, pk>>

\* Mutant of ConsumeOutside: parser.pk is not cleared for a new table.
ConsumeOutsideKeepingKey(line) ==
  /\ refs' = IF line.starts = "ref" THEN Append(refs, line.says) ELSE refs
  /\ IF line.starts = "table"
     THEN tables' = Append(tables, NewTable(line.says)) /\ open' = TRUE
     ELSE UNCHANGED <<tables, open>>
  /\ UNCHANGED <<phase, inIndexes, pk>>

\* Outside a table only two kinds of line count.
ConsumeOutside(line) ==
  /\ refs' = IF line.starts = "ref" THEN Append(refs, line.says) ELSE refs
  /\ IF line.starts = "table"
     THEN tables' = Append(tables, NewTable(line.says)) /\ open' = TRUE /\ pk' = <<>>
     ELSE UNCHANGED <<tables, open, pk>>
  /\ UNCHANGED <<phase, inIndexes>>

Set(c) ==
  /\ pk' = IF c.pk THEN Append(pk, c.name) ELSE pk
  /\ refs' = IF c.ref = NoRef THEN refs ELSE Append(refs, InlineLink(OpenTable, c))

WithColumn(t, c) ==
  [t EXCEPT !.columns = Append(@, c.name),
            !.uniques = IF c.unique THEN Append(@, c.name) ELSE @]

\* A line in a table that is nothing else is a column, named after its first
\* word; only a line that was written as a column has settings.
Column(line) ==
  /\ UNCHANGED <<phase, open, inIndexes>>
  /\ IF line.starts = "column"
     THEN UpdateOpen(WithColumn(OpenTable, line.says)) /\ Set(line.says)
     ELSE UpdateOpen([OpenTable EXCEPT !.columns = Append(@, line.starts)]) /\ UNCHANGED <<pk, refs>>

Index(line) ==
  /\ UpdateOpen([OpenTable EXCEPT !.indexes =
       Append(@, IF line.starts = "index" THEN line.says.keys ELSE <<line.starts>>)])
  /\ UNCHANGED <<phase, open, inIndexes, refs, pk>>

CloseTable ==
  /\ UpdateOpen([OpenTable EXCEPT !.pk = pk])
  /\ open' = FALSE
  /\ UNCHANGED <<phase, inIndexes, refs, pk>>

InIndexes(line) ==
  IF line.starts = "}" THEN inIndexes' = FALSE /\ UNCHANGED <<phase, tables, open, refs, pk>>
  ELSE Index(line)

InTable(line) ==
  \/ line.starts = "}" /\ CloseTable
  \/ line.starts = "indexes" /\ inIndexes' = TRUE /\ UNCHANGED <<phase, tables, open, refs, pk>>
  \/ /\ line.starts = "note:"
     /\ UpdateOpen([OpenTable EXCEPT !.comment = TRUE])
     /\ UNCHANGED <<phase, open, inIndexes, refs, pk>>
  \/ /\ line.starts \notin {"}", "indexes", "note:"}
     /\ IF line.words < 2 THEN Refuse ELSE Column(line)

Consume(line) ==
  \/ ~open /\ ConsumeOutside(line)
  \/ open /\ inIndexes /\ InIndexes(line)
  \/ open /\ ~inIndexes /\ InTable(line)

-----------------------------------------------------------------------------
(* The author.  Every action writes one line, which the parser consumes.   *)

CanWrite(b) == phase = "reading" /\ block = b /\ lines < MaxLines
Write(line) == Consume(line) /\ UNCHANGED out
Wrote(b) == block' = b /\ lines' = lines + 1
Uses(new) == /\ shapes' = shapes \cup new /\ shapes \cap new = {}
             /\ Cardinality(shapes') <= MaxShapes

Meant == meant[Len(meant)]
UpdateMeant(t) == meant' = [meant EXCEPT ![Len(meant)] = t]

\* DBML's own default schema.
Space(schema) == IF schema = NoSchema THEN "public" ELSE schema
SameTable(t, h) == Space(t.schema) = Space(h.schema) /\ t.name = h.name

\* A table as its author means it; its references are in links.
MeantTable(h) == [schema |-> h.schema, name |-> h.name, columns |-> <<>>, pk |-> <<>>,
                  uniques |-> <<>>, indexes |-> <<>>, comment |-> FALSE]

\* A table header.  Its whole body may be on the same line, of which consume()
\* reads the name alone.
WriteTable(h, oneLine) ==
  /\ CanWrite("top")
  /\ \A i \in DOMAIN meant : ~SameTable(meant[i], h)
  /\ meant' = Append(meant, MeantTable(h))
  /\ Wrote(IF oneLine THEN "top" ELSE "table")
  /\ Uses(IF oneLine THEN {"one line"} ELSE {})
  /\ UNCHANGED links
  /\ Write(Line("table", 2, h))

WriteColumn(c) ==
  /\ CanWrite("table")
  /\ c.name \notin Range(Meant.columns)
  /\ UpdateMeant([WithColumn(Meant, c) EXCEPT !.pk = IF c.pk THEN Append(@, c.name) ELSE @])
  /\ links' = IF c.ref = NoRef THEN links ELSE Append(links, InlineLink(Meant, c))
  /\ Wrote("table")
  /\ Uses(IF c.name \in Prefixed THEN {"column named indexes"} ELSE {})
  /\ Write(Line(IF c.name \in Prefixed THEN "indexes" ELSE "column", 2, c))

WriteComment ==
  /\ CanWrite("table")
  /\ ~Meant.comment
  /\ UpdateMeant([Meant EXCEPT !.comment = TRUE])
  /\ Wrote("table")
  /\ UNCHANGED <<links, shapes>>
  /\ Write(Line("note:", 2, NoRef))

WriteIndexes ==
  /\ CanWrite("table")
  /\ Wrote("indexes")
  /\ UNCHANGED <<meant, links, shapes>>
  /\ Write(Line("indexes", 2, NoRef))

\* An entry of an indexes block may be the primary key.
WriteIndex(i) ==
  /\ CanWrite("indexes")
  /\ Range(i.keys) \subseteq Range(Meant.columns)
  /\ i.pk => Meant.pk = <<>>
  /\ UpdateMeant(IF i.pk THEN [Meant EXCEPT !.pk = i.keys]
                 ELSE [Meant EXCEPT !.indexes = Append(@, i.keys)])
  /\ Wrote("indexes")
  /\ Uses(IF i.pk THEN {"pk index"} ELSE {})
  /\ UNCHANGED links
  /\ Write(Line("index", 2, i))

\* A note as a block in a table, whose text is one quoted word.
WriteNote ==
  /\ CanWrite("table")
  /\ Wrote("note")
  /\ Uses({"note block"})
  /\ UNCHANGED <<meant, links>>
  /\ Write(Line("note", 2, NoRef))

WriteText ==
  /\ CanWrite("note")
  /\ Wrote("note")
  /\ UNCHANGED <<meant, links, shapes>>
  /\ Write(Line("text", 1, NoRef))

\* A block that consume() skips line by line: an enum, a table group, the
\* settings of the project.
WriteEnum ==
  /\ CanWrite("top")
  /\ Wrote("enum")
  /\ UNCHANGED <<meant, links, shapes>>
  /\ Write(Line("enum", 2, NoRef))

\* A line of such a block, which may begin with "ref".
WriteValue(refLike) ==
  /\ CanWrite("enum")
  /\ Wrote("enum")
  /\ Uses(IF refLike THEN {"value named ref"} ELSE {})
  /\ UNCHANGED <<meant, links>>
  /\ Write(Line(IF refLike THEN "ref" ELSE "value", 1, Malformed))

\* A reference on a line of its own, or as the body of a block; consume() keeps
\* it whole, and addReference() finds no operator in it unless that stands between
\* spaces.
WriteRef(b, link, tight) ==
  /\ CanWrite(b)
  /\ links' = Append(links, link)
  /\ Wrote(b)
  /\ Uses(IF tight THEN {"tight operator"} ELSE {})
  /\ UNCHANGED meant
  /\ Write(Line(IF b = "top" THEN "ref" ELSE "link", 2, IF tight THEN Malformed ELSE link))

WriteRefBlock ==
  /\ CanWrite("top")
  /\ Wrote("ref")
  /\ Uses({"ref block"})
  /\ UNCHANGED <<meant, links>>
  /\ Write(Line("ref", 2, Malformed))

CloseBlock ==
  /\ phase = "reading"
  /\ block # "top"
  /\ block' = IF block \in {"indexes", "note"} THEN "table" ELSE "top"
  /\ UNCHANGED <<meant, links, shapes, lines>>
  /\ Write(Line("}", 1, NoRef))

-----------------------------------------------------------------------------
(* After the last line.                                                    *)

EndOfDocument ==
  /\ phase = "reading"
  /\ block = "top"
  /\ phase' = IF open THEN "failed" ELSE "resolving"
  /\ UNCHANGED <<author, tables, open, inIndexes, refs, pk, out>>

\* Tables are looked up by name without case; the names of the model are distinct
\* without it.
Named(end) == {i \in DOMAIN tables : tables[i].schema = end.schema /\ tables[i].name = end.table}

\* Mutant of FindTable: only the first schema is searched.
FindTableOfFirstSchema(end) ==
  LET found == {i \in Named(end) : tables[i].schema = tables[1].schema}
  IN IF found = {} THEN 0 ELSE Min(found)

FindTable(end) == IF Named(end) = {} THEN 0 ELSE Min(Named(end))

\* Mutant of Oriented: the operator is not looked at.
OrientedAsWritten(ref) == [left |-> ref.left, right |-> ref.right]

\* The operator < has the ends of a reference the other way round.
Oriented(ref) ==
  IF ref.op = "<" THEN [left |-> ref.right, right |-> ref.left]
  ELSE [left |-> ref.left, right |-> ref.right]

\* The table that has the column is looked for; the one it refers to is not.
Attach(i, ref) ==
  /\ tables' = [tables EXCEPT ![i].fks = Append(@,
       [columns |-> ref.left.columns, schema |-> ref.right.schema,
        table |-> ref.right.table, refColumns |-> ref.right.columns])]
  /\ refs' = Tail(refs)
  /\ UNCHANGED <<phase, open, inIndexes, pk>>

AddReference ==
  /\ phase = "resolving"
  /\ refs # <<>>
  /\ IF Head(refs) = Malformed THEN Refuse
     ELSE LET ref == Oriented(Head(refs))
          IN IF FindTable(ref.left) = 0 THEN Refuse ELSE Attach(FindTable(ref.left), ref)
  /\ UNCHANGED <<author, out>>

Convert ==
  /\ phase = "resolving"
  /\ refs = <<>>
  /\ out' = Encode(tables)
  /\ phase' = "done"
  /\ UNCHANGED <<author, tables, open, inIndexes, refs, pk>>

Next ==
  \/ \E h \in Headers, oneLine \in BOOLEAN : WriteTable(h, oneLine)
  \/ \E c \in Settings : WriteColumn(c)
  \/ WriteComment
  \/ WriteIndexes
  \/ \E i \in Indexes : WriteIndex(i)
  \/ WriteNote
  \/ WriteText
  \/ WriteEnum
  \/ \E refLike \in BOOLEAN : WriteValue(refLike)
  \/ \E b \in {"top", "ref"}, link \in Links, tight \in BOOLEAN : WriteRef(b, link, tight)
  \/ WriteRefBlock
  \/ CloseBlock
  \/ EndOfDocument
  \/ AddReference
  \/ Convert

Spec == Init /\ [][Next]_vars

-----------------------------------------------------------------------------
(* What the document means.                                                *)

EndsOf(link) == {link.left, link.right}

\* An end that does not repeat the words of a table header: it uses an alias,
\* leaves out or adds the schema public, or names no table of the document.
Loose(end) == \A i \in DOMAIN meant : ~(meant[i].schema = end.schema /\ meant[i].name = end.table)
Strict == \A k \in DOMAIN links : \A end \in EndsOf(links[k]) : ~Loose(end)

Owner(link) == IF link.op = "<" THEN link.right ELSE link.left
Target(link) == IF link.op = "<" THEN link.left ELSE link.right

ForeignKey(link) ==
  [columns |-> Owner(link).columns, schema |-> Target(link).schema,
   table |-> Target(link).table, refColumns |-> Target(link).columns]

-----------------------------------------------------------------------------
(* Properties.                                                             *)

Words == Columns \cup {"table", "ref", "enum", "note", "index", "value", "link"}

\* The parser's state is of its types, and a table is open only while there is
\* one: consume never adds to a table that was not defined.
TypeOK ==
  /\ phase \in {"reading", "resolving", "done", "failed"}
  /\ open \in BOOLEAN /\ inIndexes \in BOOLEAN
  /\ open => tables # <<>>
  /\ inIndexes => open
  /\ \A i \in DOMAIN tables :
       /\ Range(tables[i].columns) \subseteq Words
       /\ Range(tables[i].pk) \subseteq Range(tables[i].columns)
  /\ Range(pk) \subseteq Columns

\* A document is refused only for one of the constructs that
\* the parser takes for something else, an operator without its spaces among
\* them, or for a reference that does not repeat the words of a table header.  Above all, a reference may come before its
\* tables, and an operator may point either way.
RefusalsNamed ==
  phase = "failed" => shapes \ {"pk index"} # {} \/ ~Strict

\* What is accepted is what the author wrote, table by table and reference by
\* reference in the order of the document, though the lines of one table and
\* the references to it may be far apart.  Only the primary key of an indexes
\* block is taken for an index.
DocumentKept ==
  phase = "done" /\ Strict /\ shapes \subseteq {"pk index"} =>
    /\ Len(tables) = Len(meant)
    /\ \A i \in DOMAIN tables :
         LET t == tables[i]
             Here(link) == Owner(link).schema = t.schema /\ Owner(link).table = t.name
             here == Keep(links, {link \in Range(links) : Here(link)})
         IN /\ SameTable(t, meant[i])
            /\ t.columns = meant[i].columns /\ t.uniques = meant[i].uniques
            /\ t.comment = meant[i].comment
            /\ t.fks = [k \in DOMAIN here |-> ForeignKey(here[k])]
            /\ shapes = {} => t.pk = meant[i].pk /\ t.indexes = meant[i].indexes

\* The references a reader finds in the TOON document are those of the DBML
\* document, from and to the tables and columns they name: the encoder leaves
\* a schema out only where the reader puts the same one back.  The exceptions
\* are the first of two references of one column, and a reference from a table
\* with a schema to one without.
ReferencesKept ==
  phase = "done" /\ Strict /\ shapes \subseteq {"pk index"} =>
    \A i \in DOMAIN tables :
      LET t == tables[i]
          Means(fk) == <<fk.columns,
                         TableName([schema |-> fk.schema, name |-> fk.table], tables),
                         fk.refColumns>>
          exact == {k \in DOMAIN t.fks : ~Misread(t, t.fks[k])}
      IN /\ {Means(t.fks[k]) : k \in {k \in exact : ~Dropped(t, k)}} \subseteq References(out[i])
         /\ exact = DOMAIN t.fks => References(out[i]) \subseteq {Means(t.fks[k]) : k \in exact}
=============================================================================
