---------------------------- MODULE ToonEncoder ----------------------------
(***************************************************************************)
(* How the TOON encoder writes tables and their references, and how a      *)
(* reader of the document finds the table that a reference means:          *)
(* pkg/toon/encoder.go.                                                    *)
(*                                                                         *)
(* A table is a record with the fields schema, name, columns, pk and fks,  *)
(* a name in the document is the sequence of the parts that the encoder    *)
(* joins with a dot.  Types, defaults, comments, indexes, the quoting of   *)
(* names and the order of the tables, schema by schema, are left out.      *)
(***************************************************************************)
EXTENDS Integers, Sequences, FiniteSets, SequencesExt, Functions, Filters

\* No schema was written.
NoSchema == ""

\* Two namespaces that a name may leave out when they are the only one.
Unnamed == {NoSchema, "public"}

Schemas(tables) == {tables[i].schema : i \in DOMAIN tables}
Multiple(tables) == Cardinality(Schemas(tables)) > 1

\* The name in the brackets above a table.
TableName(t, tables) ==
  IF Multiple(tables) \/ t.schema \notin Unnamed THEN <<t.schema, t.name>> ELSE <<t.name>>

\* Mutant of Reference: the schema is left out always.
ReferenceUnqualified(t, fk) == <<fk.table>>

\* A reference leaves out the schema when it has none, and when it is the
\* schema of the table it is written in.
Reference(t, fk) ==
  IF fk.schema # NoSchema /\ fk.schema # t.schema THEN <<fk.schema, fk.table>> ELSE <<fk.table>>

Single(fk) == Len(fk.columns) = 1 /\ Len(fk.refColumns) = 1

\* The references of single columns go through a map by column, which keeps
\* the last one: a column line has one reference at most.
Inline(t, column) ==
  LET here == {i \in DOMAIN t.fks : Single(t.fks[i]) /\ t.fks[i].columns = <<column>>}
      latest == {i \in here : \A j \in here : j <= i}
  IN {[to |-> Reference(t, t.fks[i]), columns |-> t.fks[i].refColumns] : i \in latest}

ColumnLine(t, column) ==
  [column |-> column, pk |-> column \in Range(t.pk), refs |-> Inline(t, column)]

\* The ref lines below the columns, for the references of several columns.
RefLines(t) ==
  LET fks == Keep(t.fks, {fk \in Range(t.fks) : ~Single(fk)})
  IN [i \in DOMAIN fks |-> [columns |-> fks[i].columns, to |-> Reference(t, fks[i]),
                            refColumns |-> fks[i].refColumns]]

Section(t, tables) ==
  [name |-> TableName(t, tables),
   columns |-> [i \in DOMAIN t.columns |-> ColumnLine(t, t.columns[i])],
   refs |-> RefLines(t)]

Encode(tables) == [i \in DOMAIN tables |-> Section(tables[i], tables)]

-----------------------------------------------------------------------------
\* Reading the document: a name of two parts is the name of a table, a name of
\* one part is a table beside the one it is written in.
Meaning(section, to) ==
  IF Len(to) > 1 THEN to ELSE SubSeq(section.name, 1, Len(section.name) - 1) \o to

References(section) ==
  (UNION {{<< <<line.column>>, Meaning(section, ref.to), ref.columns>> : ref \in line.refs} :
            line \in Range(section.columns)})
  \cup {<<line.columns, Meaning(section, line.to), line.refColumns>> : line \in Range(section.refs)}

\* The foreign keys the encoder drops: one whose column has a later reference
\* of its own, and one whose column the table does not have.
Dropped(t, i) ==
  LET fk == t.fks[i]
  IN /\ Single(fk)
     /\ \/ fk.columns[1] \notin Range(t.columns)
        \/ \E j \in i + 1 .. Len(t.fks) : Single(t.fks[j]) /\ t.fks[j].columns = fk.columns

\* A foreign key without a schema reads as a table beside its own, which is
\* another table when its own has a schema.
Misread(t, fk) == fk.schema = NoSchema /\ t.schema # NoSchema
=============================================================================
