-------------------------- MODULE GenericDumpProofs --------------------------
(***************************************************************************)
(* Every safety property that the run of GenericDump checks, for dumps of  *)
(* any length, with any schemas, tables and columns, under any options.    *)
(*                                                                         *)
(* What the parser keeps is proved statement by statement: Define, Attach  *)
(* and Insert are the only ways a table, its details and its rows change.  *)
(* What the result holds is proved position by position of result().       *)
(***************************************************************************)
EXTENDS GenericDump, FilterProofs

Cells == Columns \cup {"null"}

\* The rows kept for a table are a list of lists of cells.
RowsTyped == \A k \in DOMAIN rows : rows[k] \in Seq(Seq(Cells))

\* A table that is known has its schema.
Homes == \A k \in DOMAIN tables : k[1] \in schemas

\* The result is a list, and is begun when the dump has been read.
OutList == \E T : out \in Seq(T)
NoResultYet == phase = "parsing" => next = 1 /\ out = <<>>

\* Where SQL and the parser read the last naming statement alike, the schema in
\* force is the parser's current one.
MeantIsCurrent == ~doubt => meant = current

IInv ==
  /\ TypeOK
  /\ RowsTyped
  /\ Homes
  /\ OutList
  /\ NoResultYet
  /\ MeantIsCurrent
  /\ DetailsKept
  /\ RowsFit
  /\ EveryTableEmitted

-----------------------------------------------------------------------------
(* The operators. *)

LEMMA KeyType ==
  ASSUME TypeOK, NEW q \in Qualifiers, NEW n \in TableNames
  PROVE  Space(q) \in Spaces /\ Key(q, n) \in Keys /\ Key(q, n)[1] = Space(q)
  BY DEF TypeOK, Space, Key, Spaces, Keys, Qualifiers

LEMMA IntendedIsKey ==
  ASSUME MeantIsCurrent, NEW q \in Qualifiers, NEW n \in TableNames,
         ~(doubt /\ q = None)
  PROVE  Intended(q, n) = Key(q, n)
  BY DEF MeantIsCurrent, Intended, Key, Space

\* Where it is not one table, both keys are noted.
LEMMA StrayNoted ==
  ASSUME MeantIsCurrent, NEW q \in Qualifiers, NEW n \in TableNames, Stray(q, n)
  PROVE  /\ strayed \subseteq strayed'
         /\ \/ Intended(q, n) = Key(q, n)
            \/ Key(q, n) \in strayed' /\ Intended(q, n) \in strayed'
  BY IntendedIsKey DEF Stray

\* A row has one cell for each column, with the column's value or null in it.
LEMMA RowFits ==
  ASSUME NEW columns \in Seq(Columns), NEW named, NEW count
  PROVE  LET row == Row(columns, named, count)
         IN  /\ row \in Seq(Cells)
             /\ Len(row) = Len(columns)
             /\ \A j \in DOMAIN row : row[j] \in {"null", columns[j]}
  <1> DEFINE row == Row(columns, named, count)
  <1>1. /\ Len(columns) \in Nat /\ DOMAIN columns = 1 .. Len(columns)
        /\ \A j \in 1 .. Len(columns) : columns[j] \in Columns
    OBVIOUS
  <1>2. /\ DOMAIN row = 1 .. Len(columns)
        /\ \A j \in 1 .. Len(columns) : row[j] \in {"null", columns[j]}
        /\ row = [j \in 1 .. Len(columns) |-> row[j]]
    BY DEF Row
  <1> HIDE DEF row
  <1>3. row \in Seq(Cells)
    BY <1>1, <1>2 DEF Cells
  <1> QED
    BY <1>1, <1>2, <1>3 DEF row

-----------------------------------------------------------------------------

LEMMA IInvInit == Init => IInv
  <1> SUFFICES ASSUME Init PROVE IInv
    OBVIOUS
  <1>1. DOMAIN tables = {} /\ DOMAIN rows = {} /\ DOMAIN due = {}
    <2>1. tables = <<>> /\ rows = <<>> /\ due = <<>>
      BY DEF Init
    <2> QED
      BY <2>1, EmptyDomain
  <1>2. TypeOK
    <2>1. order \in Seq(DOMAIN tables) /\ Len(order) = 0
      BY EmptySeq DEF Init
    <2>2. /\ phase = "parsing" /\ statements = 0 /\ default \in SchemaNames \cup {Unnamed}
          /\ current = Unnamed /\ schemas = {} /\ options = None /\ next = 1
      BY DEF Init
    <2> QED
      BY <1>1, <2>1, <2>2, ConstantsOK DEF TypeOK, Spaces
  <1>3. OutList
    BY EmptySeq DEF Init, OutList
  <1>4. RowsTyped /\ Homes /\ NoResultYet /\ MeantIsCurrent /\ EveryTableEmitted
    BY <1>1 DEF Init, RowsTyped, Homes, NoResultYet, MeantIsCurrent, EveryTableEmitted
  <1>5. DetailsKept
    BY <1>1 DEF Init, DetailsKept
  <1>6. RowsFit
    BY <1>1 DEF Init, RowsFit
  <1> QED
    BY <1>2, <1>3, <1>4, <1>5, <1>6 DEF IInv

\* A statement leaves the result alone: it is still to come.
LEMMA StatementResult ==
  ASSUME IInv, Statement
  PROVE  OutList' /\ NoResultYet' /\ EveryTableEmitted'
  BY DEF IInv, Statement, OutList, NoResultYet, EveryTableEmitted

LEMMA DefineStep ==
  ASSUME IInv, Statement, NEW q \in Qualifiers, NEW n \in TableNames,
         NEW t \in TableType, t.attached = {}, Define(q, n, t),
         UNCHANGED <<current, rows, meant, doubt>>
  PROVE  IInv'
  <1> DEFINE k == Key(q, n)
  <1> USE DEF IInv
  <1>1. k \in Keys /\ k[1] = Space(q) /\ Space(q) \in Spaces
    BY KeyType
  <1>2. /\ strayed \subseteq strayed'
        /\ \/ Intended(q, n) = k
           \/ k \in strayed' /\ Intended(q, n) \in strayed'
    BY StrayNoted DEF Define
  <1>3. /\ DOMAIN tables' = DOMAIN tables \cup {k}
        /\ tables'[k] = t
        /\ \A x \in DOMAIN tables \ {k} : tables'[x] = tables[x]
    <2>1. tables' = Put(tables, k, t)
      BY DEF Define
    <2> QED
      BY <2>1 DEF Put
  <1>4. /\ DOMAIN due' = DOMAIN due \cup {Intended(q, n)}
        /\ due'[Intended(q, n)] = {}
        /\ \A x \in DOMAIN due \ {Intended(q, n)} : due'[x] = due[x]
    <2>1. due' = Put(due, Intended(q, n), {})
      BY DEF Define
    <2> QED
      BY <2>1 DEF Put
  <1>5. order' = Append(order, k) /\ schemas' = schemas \cup {Space(q)}
    BY DEF Define
  <1>6. redefined' = IF At(rows, k, <<>>) = <<>> THEN redefined ELSE redefined \cup {k}
    BY DEF Define
  <1> HIDE DEF k
  <1>7. TypeOK'
    <2>1. order \in Seq(DOMAIN tables') /\ k \in DOMAIN tables'
      BY <1>3, SeqMonotonic DEF TypeOK
    <2>2. order' \in Seq(DOMAIN tables') /\ Len(order') = Len(order) + 1
      BY <1>5, <2>1, AppendParts
    <2>3. next' \in 1 .. Len(order') + 1
      BY <2>1, <2>2 DEF TypeOK, Statement
    <2>4. \A x \in DOMAIN tables' : x \in Keys /\ tables'[x] \in TableType
      BY <1>1, <1>3 DEF TypeOK
    <2>5. statements' \in 0 .. MaxStatements
      BY ConstantsOK DEF TypeOK, Statement
    <2> QED
      BY <1>1, <1>3, <1>5, <2>2, <2>3, <2>4, <2>5 DEF TypeOK, Statement
  <1>8. RowsTyped' /\ Homes' /\ MeantIsCurrent'
    BY <1>1, <1>3, <1>5 DEF RowsTyped, Homes, MeantIsCurrent
  <1>9. DetailsKept'
    <2> SUFFICES ASSUME NEW x \in (DOMAIN due' \cup DOMAIN tables') \ strayed'
                 PROVE  /\ x \in DOMAIN due' /\ x \in DOMAIN tables'
                        /\ tables'[x].attached \cap Attached = due'[x]
      BY DEF DetailsKept
    <2>1. CASE x = k
      BY <1>2, <1>3, <1>4, <2>1
    <2>2. CASE x # k
      BY <1>2, <1>3, <1>4, <2>2 DEF DetailsKept
    <2> QED
      BY <2>1, <2>2
  <1>10. RowsFit'
    <2>1. ASSUME NEW x \in DOMAIN rows \ redefined', NEW r \in Range(rows[x])
          PROVE  /\ Len(r) = Len(tables'[x].columns)
                 /\ \A j \in DOMAIN r : r[j] \in {"null", tables'[x].columns[j]}
      <3>1. x \in DOMAIN rows \ redefined /\ x \in DOMAIN tables
        BY <1>6, <2>1 DEF TypeOK
      <3>2. x # k
        <4> SUFFICES ASSUME x = k PROVE FALSE
          OBVIOUS
        <4>1. rows[x] = <<>>
          BY <1>6, <2>1 DEF At
        <4> QED
          BY <2>1, <4>1, EmptyDomain DEF Range
      <3> QED
        BY <1>3, <3>1, <3>2, <2>1 DEF RowsFit
    <2> QED
      BY <2>1 DEF RowsFit, Statement
  <1> QED
    BY <1>7, <1>8, <1>9, <1>10, StatementResult

LEMMA AttachStep ==
  ASSUME IInv, NEW q \in Qualifiers, NEW n \in TableNames, NEW detail \in Attached,
         Attach(q, n, detail)
  PROVE  IInv'
  <1> DEFINE k == Key(q, n)
  <1> USE DEF IInv
  <1>1. k \in Keys
    BY KeyType
  <1>2. /\ strayed \subseteq strayed'
        /\ \/ Intended(q, n) = k
           \/ k \in strayed' /\ Intended(q, n) \in strayed'
    BY StrayNoted DEF Attach
  <1>3. /\ Statement
        /\ UNCHANGED <<current, order, rows, schemas, meant, doubt, redefined>>
    BY DEF Attach
  <1>4. /\ DOMAIN tables' = DOMAIN tables
        /\ \A x \in DOMAIN tables :
             /\ tables'[x].kind = tables[x].kind
             /\ tables'[x].columns = tables[x].columns
             /\ tables'[x].attached = IF x = k THEN tables[x].attached \cup {detail}
                                      ELSE tables[x].attached
             /\ tables'[x] \in TableType
    BY DEF Attach, TypeOK, TableType
  <1>5. /\ DOMAIN due' = DOMAIN due
        /\ \A x \in DOMAIN due : due'[x] = IF x = Intended(q, n) THEN due[x] \cup {detail}
                                           ELSE due[x]
    BY DEF Attach
  <1> HIDE DEF k
  <1>6. TypeOK'
    <2>1. \A x \in DOMAIN tables' : tables'[x] \in TableType
      BY <1>4
    <2>2. order' \in Seq(DOMAIN tables')
      BY <1>3, <1>4 DEF TypeOK
    <2>3. statements' \in 0 .. MaxStatements
      BY <1>3, ConstantsOK DEF TypeOK, Statement
    <2> QED
      BY <1>3, <1>4, <2>1, <2>2, <2>3 DEF TypeOK, Statement
  <1>7. RowsTyped' /\ Homes' /\ MeantIsCurrent'
    BY <1>3, <1>4 DEF RowsTyped, Homes, MeantIsCurrent
  <1>8. DetailsKept'
    <2> SUFFICES ASSUME NEW x \in (DOMAIN due' \cup DOMAIN tables') \ strayed'
                 PROVE  /\ x \in DOMAIN due' /\ x \in DOMAIN tables'
                        /\ tables'[x].attached \cap Attached = due'[x]
      BY DEF DetailsKept
    <2>1. /\ x \in DOMAIN due /\ x \in DOMAIN tables
          /\ tables[x].attached \cap Attached = due[x]
      BY <1>2, <1>4, <1>5 DEF DetailsKept
    <2>2. x = Intended(q, n) <=> x = k
      BY <1>2
    <2> QED
      BY <1>4, <1>5, <2>1, <2>2
  <1>9. RowsFit'
    <2>1. DOMAIN rows \subseteq DOMAIN tables
      BY DEF TypeOK
    <2>2. ASSUME NEW x \in DOMAIN rows \ redefined, NEW r \in Range(rows[x])
          PROVE  /\ Len(r) = Len(tables'[x].columns)
                 /\ \A j \in DOMAIN r : r[j] \in {"null", tables'[x].columns[j]}
      <3>1. tables'[x].columns = tables[x].columns
        BY <1>4, <2>1
      <3> QED
        BY <3>1, <2>2 DEF RowsFit
    <2> QED
      BY <1>3, <2>2 DEF RowsFit, Statement
  <1> QED
    BY <1>3, <1>6, <1>7, <1>8, <1>9, StatementResult

\* A commented column is a detail of another kind than those the history keeps.
LEMMA CommentOnColumnStep ==
  ASSUME IInv, NEW q \in Qualifiers, NEW n \in TableNames, NEW c \in Columns,
         CommentOnColumn(q, n, c)
  PROVE  IInv'
  <1> DEFINE k == Key(q, n)
  <1> USE DEF IInv
  <1>1. k \in Keys
    BY KeyType
  <1>2. /\ Statement
        /\ UNCHANGED <<current, order, rows, schemas, meant, doubt, strayed, due, redefined>>
    BY DEF CommentOnColumn, history
  <1>3. c \notin Attached
    BY ConstantsOK
  <1>4. /\ DOMAIN tables' = DOMAIN tables
        /\ \A x \in DOMAIN tables :
             /\ tables'[x].kind = tables[x].kind
             /\ tables'[x].columns = tables[x].columns
             /\ tables'[x].attached \cap Attached = tables[x].attached \cap Attached
             /\ tables'[x] \in TableType
    BY <1>3 DEF CommentOnColumn, TypeOK, TableType
  <1> HIDE DEF k
  <1>5. TypeOK'
    <2>1. \A x \in DOMAIN tables' : tables'[x] \in TableType
      BY <1>4
    <2>2. order' \in Seq(DOMAIN tables')
      BY <1>2, <1>4 DEF TypeOK
    <2>3. statements' \in 0 .. MaxStatements
      BY <1>2, ConstantsOK DEF TypeOK, Statement
    <2> QED
      BY <1>2, <1>4, <2>1, <2>2, <2>3 DEF TypeOK, Statement
  <1>6. RowsTyped' /\ Homes' /\ MeantIsCurrent'
    BY <1>2, <1>4 DEF RowsTyped, Homes, MeantIsCurrent
  <1>7. DetailsKept'
    BY <1>2, <1>4 DEF DetailsKept
  <1>8. RowsFit'
    <2>1. DOMAIN rows \subseteq DOMAIN tables
      BY DEF TypeOK
    <2>2. ASSUME NEW x \in DOMAIN rows \ redefined, NEW r \in Range(rows[x])
          PROVE  /\ Len(r) = Len(tables'[x].columns)
                 /\ \A j \in DOMAIN r : r[j] \in {"null", tables'[x].columns[j]}
      <3>1. tables'[x].columns = tables[x].columns
        BY <1>4, <2>1
      <3> QED
        BY <3>1, <2>2 DEF RowsFit
    <2> QED
      BY <1>2, <2>2 DEF RowsFit, Statement
  <1> QED
    BY <1>2, <1>5, <1>6, <1>7, <1>8, StatementResult

LEMMA InsertStep ==
  ASSUME IInv, NEW q \in Qualifiers, NEW n \in TableNames, NEW named, NEW count,
         Insert(q, n, named, count)
  PROVE  IInv'
  <1> DEFINE k == Key(q, n)
             columns == tables[k].columns
             old == At(rows, k, <<>>)
             row == Row(columns, IF named = <<>> THEN columns ELSE named, count)
  <1> USE DEF IInv
  <1>1. /\ Statement
        /\ UNCHANGED <<current, tables, order, schemas, meant, doubt, strayed, due, redefined>>
    BY DEF Insert, history
  <1>2. rows' = IF k \notin DOMAIN tables THEN rows ELSE Put(rows, k, Append(old, row))
    BY DEF Insert
  <1>3. \/ rows' = rows
        \/ /\ k \in DOMAIN tables
           /\ DOMAIN rows' = DOMAIN rows \cup {k}
           /\ rows'[k] = Append(old, row)
           /\ \A x \in DOMAIN rows \ {k} : rows'[x] = rows[x]
    BY <1>2 DEF Put
  <1>4. ASSUME k \in DOMAIN tables
        PROVE  /\ old \in Seq(Seq(Cells))
               /\ row \in Seq(Cells)
               /\ Len(row) = Len(columns)
               /\ \A j \in DOMAIN row : row[j] \in {"null", columns[j]}
    <2>1. columns \in Seq(Columns)
      BY <1>4, ConstantsOK, EmptySeq DEF TypeOK, TableType
    <2>2. old \in Seq(Seq(Cells))
      BY EmptySeq DEF At, RowsTyped
    <2> QED
      BY <2>1, <2>2, RowFits
  <1>5. k \notin DOMAIN rows => Range(old) = {}
    BY EmptyDomain DEF At, Range
  <1>6. k \in DOMAIN rows => old = rows[k]
    BY DEF At
  <1> HIDE DEF k, columns, old, row
  <1>7. TypeOK'
    <2>1. statements' \in 0 .. MaxStatements
      BY <1>1, ConstantsOK DEF TypeOK, Statement
    <2> QED
      BY <1>1, <1>3, <2>1 DEF TypeOK, Statement
  <1>8. RowsTyped'
    <2>1. k \in DOMAIN tables => Append(old, row) \in Seq(Seq(Cells))
      BY <1>4, AppendParts
    <2>2. ASSUME NEW x \in DOMAIN rows' PROVE rows'[x] \in Seq(Seq(Cells))
      <3>1. CASE x \in DOMAIN rows /\ rows'[x] = rows[x]
        BY <3>1 DEF RowsTyped
      <3>2. CASE x = k /\ k \in DOMAIN tables /\ rows'[x] = Append(old, row)
        BY <2>1, <3>2
      <3> QED
        BY <1>3, <3>1, <3>2
    <2> QED
      BY <2>2 DEF RowsTyped
  <1>9. Homes' /\ MeantIsCurrent' /\ DetailsKept'
    BY <1>1 DEF Homes, MeantIsCurrent, DetailsKept
  <1>10. RowsFit'
    <2>1. ASSUME NEW x \in DOMAIN rows' \ redefined, NEW r \in Range(rows'[x])
          PROVE  /\ Len(r) = Len(tables[x].columns)
                 /\ \A j \in DOMAIN r : r[j] \in {"null", tables[x].columns[j]}
      <3>1. CASE x \in DOMAIN rows /\ r \in Range(rows[x])
        BY <2>1, <3>1 DEF RowsFit
      <3>2. CASE ~(x \in DOMAIN rows /\ r \in Range(rows[x]))
        <4>1. x = k /\ k \in DOMAIN tables /\ rows'[k] = Append(old, row)
          BY <1>3, <2>1, <3>2
        <4>2. r \in Range(old) \cup {row}
          BY <1>4, <2>1, <4>1, RangeOfAppend
        <4>3. r = row
          BY <1>5, <1>6, <3>2, <4>1, <4>2
        <4> QED
          BY <1>4, <4>1, <4>3 DEF columns
      <3> QED
        BY <3>1, <3>2
    <2> QED
      BY <1>1, <2>1 DEF RowsFit, Statement
  <1> QED
    BY <1>1, <1>7, <1>8, <1>9, <1>10, StatementResult

\* Statements that define nothing and attach nothing.
LEMMA NamingStep ==
  ASSUME IInv, NEW s \in SchemaNames,
         Use(s) \/ AlterSession(s) \/ \E b \in BOOLEAN : CreateNamespace(s, b)
  PROVE  IInv'
  <1> USE DEF IInv
  <1>1. /\ Statement
        /\ UNCHANGED <<tables, order, rows, schemas, strayed, due, redefined>>
        /\ current' \in Spaces
        /\ doubt' \/ meant' = current'
    <2>1. CASE Use(s)
      BY <2>1 DEF Use, Spaces
    <2>2. CASE AlterSession(s)
      BY <2>2 DEF AlterSession, TypeOK
    <2>3. ASSUME NEW b \in BOOLEAN, CreateNamespace(s, b)
          PROVE  <1>1!:
      BY <2>3 DEF CreateNamespace, Spaces
    <2> QED
      BY <2>1, <2>2, <2>3
  <1>2. TypeOK'
    <2>1. statements' \in 0 .. MaxStatements
      BY <1>1, ConstantsOK DEF TypeOK, Statement
    <2> QED
      BY <1>1, <2>1 DEF TypeOK, Statement
  <1>3. RowsTyped' /\ Homes' /\ MeantIsCurrent' /\ DetailsKept' /\ RowsFit'
    BY <1>1 DEF RowsTyped, Homes, MeantIsCurrent, DetailsKept, RowsFit, Statement
  <1> QED
    BY <1>1, <1>2, <1>3, StatementResult

LEMMA ObjectStep ==
  ASSUME IInv, Ignored \/ \E q \in Qualifiers : AddObject(q)
  PROVE  IInv'
  <1> USE DEF IInv
  <1>1. /\ Statement
        /\ UNCHANGED <<current, tables, order, rows, meant, doubt, strayed, due, redefined>>
        /\ schemas \subseteq schemas' /\ schemas' \subseteq Spaces
    BY DEF Ignored, AddObject, history, Space, Spaces, Qualifiers, TypeOK
  <1>2. TypeOK'
    <2>1. statements' \in 0 .. MaxStatements
      BY <1>1, ConstantsOK DEF TypeOK, Statement
    <2> QED
      BY <1>1, <2>1 DEF TypeOK, Statement
  <1>3. RowsTyped' /\ Homes' /\ MeantIsCurrent' /\ DetailsKept' /\ RowsFit'
    BY <1>1 DEF RowsTyped, Homes, MeantIsCurrent, DetailsKept, RowsFit, Statement
  <1> QED
    BY <1>1, <1>2, <1>3, StatementResult
-----------------------------------------------------------------------------
(* The result. *)

\* A step of the result leaves what was parsed alone.
ResultOnly ==
  /\ UNCHANGED <<parsed, meant, doubt, strayed, due, redefined>>
  /\ statements' \in 0 .. MaxStatements
  /\ phase' # "parsing"

\* What is asked for is settled when the result is begun.
LEMMA AskedSettled ==
  ASSUME ResultOnly, UNCHANGED options
  PROVE  Asked' = Asked
  BY DEF ResultOnly, parsed, Asked, Wanted

LEMMA ResultOnlyKeeps ==
  ASSUME IInv, ResultOnly
  PROVE  RowsTyped' /\ Homes' /\ MeantIsCurrent' /\ NoResultYet' /\ DetailsKept'
  BY DEF IInv, ResultOnly, parsed, RowsTyped, Homes, MeantIsCurrent,
         NoResultYet, DetailsKept

\* Every example is made of rows that are kept for the table.
LEMMA SamplesAreRows ==
  ASSUME RowsTyped, options \in AllOptions, NEW k, NEW sample \in Samples(k),
         NEW i \in DOMAIN sample
  PROVE  k \in DOMAIN rows /\ sample[i] \in Range(rows[k])
  <1> DEFINE all == At(rows, k, <<>>)
             size == IF Len(all) < options.sample THEN Len(all) ELSE options.sample
  <1>1. all \in Seq(Seq(Cells)) /\ (k \notin DOMAIN rows => DOMAIN all = {})
    BY EmptySeq, EmptyDomain DEF At, RowsTyped
  <1>2. k \in DOMAIN rows => all = rows[k]
    BY DEF At
  <1>3. \/ sample = <<>>
        \/ sample = SubSeq(all, 1, size)
        \/ \E p \in [1 .. size -> DOMAIN all] : sample = [j \in 1 .. size |-> all[p[j]]]
    BY DEF Samples
  <1>4. options.sample \in Nat
    BY DEF AllOptions
  <1>5. Len(all) \in Nat /\ DOMAIN all = 1 .. Len(all)
    BY <1>1
  <1> HIDE DEF all
  <1>6. size \in 0 .. Len(all)
    BY <1>4, <1>5
  <1> HIDE DEF size
  <1>7. \E j \in DOMAIN all : sample[i] = all[j]
    <2>1. CASE sample = <<>>
      BY <2>1, EmptyDomain
    <2>2. CASE sample = SubSeq(all, 1, size)
      <3>1. DOMAIN sample = 1 .. size /\ \A j \in 1 .. size : sample[j] = all[j]
        BY <1>1, <1>6, <2>2
      <3> QED
        BY <1>5, <1>6, <3>1
    <2>3. CASE \E p \in [1 .. size -> DOMAIN all] : sample = [j \in 1 .. size |-> all[p[j]]]
      BY <2>3
    <2> QED
      BY <1>3, <2>1, <2>2, <2>3
  <1> QED
    BY <1>1, <1>2, <1>7 DEF Range

LEMMA EndOfInputStep ==
  ASSUME IInv, EndOfInput PROVE IInv'
  <1> USE DEF IInv
  <1>1. /\ ResultOnly /\ phase = "parsing" /\ phase' = "emitting" /\ options' \in Options
        /\ UNCHANGED <<next, out>>
    BY DEF EndOfInput, ResultOnly, history, TypeOK
  <1>2. TypeOK'
    BY <1>1 DEF ResultOnly, parsed, TypeOK
  <1>3. OutList' /\ RowsFit'
    BY <1>1 DEF ResultOnly, parsed, OutList, RowsFit
  <1>4. EveryTableEmitted'
    <2> DEFINE W == Asked
    <2>1. next' - 1 = 0 /\ out' = <<>>
      BY <1>1 DEF NoResultYet
    <2>2. SubSeq(order', 1, 0) = <<>>
      <3>1. order' \in Seq(DOMAIN tables')
        BY <1>2 DEF TypeOK
      <3> QED
        BY <3>1
    <2>3. [i \in DOMAIN out' |-> out'[i].key] = <<>> /\ DOMAIN out' = {}
      BY <2>1, EmptyDomain
    <2>4. /\ Keep(SubSeq(order', 1, next' - 1), W') = <<>>
          /\ Keep([i \in DOMAIN out' |-> out'[i].key], W') = <<>>
      <3> HIDE DEF W
      <3> QED
        BY <2>1, <2>2, <2>3, KeepOfEmpty
    <2> QED
      BY <2>3, <2>4 DEF EveryTableEmitted
  <1> QED
    BY <1>1, <1>2, <1>3, <1>4, ResultOnlyKeeps

\* A step that only ends the run.
LEMMA EndStep ==
  ASSUME IInv, Malformed \/ Break \/ Finish PROVE IInv'
  <1> USE DEF IInv
  <1>1. /\ ResultOnly /\ phase' \in {"done", "failed"}
        /\ phase \in {"parsing", "emitting"}
        /\ phase' = "failed" <=> phase = "parsing"
        /\ UNCHANGED <<options, next, out>>
    BY ConstantsOK
    DEF Malformed, Break, Finish, Emitting, ResultOnly, history, TypeOK
  <1>2. TypeOK'
    BY <1>1 DEF ResultOnly, parsed, TypeOK
  <1>3. OutList' /\ RowsFit' /\ EveryTableEmitted'
    BY <1>1 DEF ResultOnly, parsed, OutList, RowsFit, EveryTableEmitted,
       Asked, Wanted
  <1> QED
    BY <1>1, <1>2, <1>3, ResultOnlyKeeps

LEMMA SkipStep ==
  ASSUME IInv, Skip PROVE IInv'
  <1> USE DEF IInv
  <1>1. /\ ResultOnly /\ phase = "emitting" /\ UNCHANGED <<phase, options, out>>
        /\ next' = next + 1 /\ next <= Len(order) /\ ~Wanted(order[next])
    BY DEF Skip, Emitting, ResultOnly, history, TypeOK
  <1>2. order \in Seq(Keys) /\ next \in DOMAIN order /\ next \in Nat
    BY <1>1, SeqMonotonic DEF TypeOK
  <1>3. TypeOK'
    BY <1>1, <1>2 DEF ResultOnly, parsed, TypeOK
  <1>4. OutList' /\ RowsFit'
    BY <1>1 DEF ResultOnly, parsed, OutList, RowsFit
  <1>5. EveryTableEmitted'
    <2> DEFINE W == Asked
               before == SubSeq(order, 1, next - 1)
               after == SubSeq(order, 1, next)
               keys == [i \in DOMAIN out |-> out[i].key]
    <2>1. W' = W /\ order' = order /\ out' = out /\ next' - 1 = next
      BY <1>1, <1>2, AskedSettled DEF ResultOnly, parsed
    <2>2. after = Append(before, order[next]) /\ before \in Seq(Keys) /\ order[next] \in Keys
      BY <1>2, NextPrefix
    <2>3. order[next] \notin W
      BY <1>1 DEF Asked
    <2>4. Keep(after, W) = Keep(before, W)
      <3> HIDE DEF W, before, after
      <3> QED
        BY <2>2, <2>3, KeepOfAppend
    <2>5. Keep(keys, W) = Keep(before, W)
      BY <1>1 DEF EveryTableEmitted
    <2>6. (\A i \in DOMAIN out :
             out[i].key \in Asked \/ (out[i].kind = "view" /\ Wanted(out[i].key)))'
      BY <1>1, <2>1 DEF EveryTableEmitted, Wanted
    <2>7. [i \in DOMAIN out' |-> out'[i].key] = keys
      BY <2>1
    <2> HIDE DEF before, keys
    <2>8. Keep([i \in DOMAIN out' |-> out'[i].key], W') =
            Keep(SubSeq(order', 1, next' - 1), W')
      <3> HIDE DEF W
      <3> QED
        BY <2>1, <2>4, <2>5, <2>7
    <2> QED
      BY <2>6, <2>8 DEF EveryTableEmitted
  <1> QED
    BY <1>1, <1>3, <1>4, <1>5, ResultOnlyKeeps

LEMMA PanicStep ==
  ASSUME IInv, Panic PROVE IInv'
  <1> USE DEF IInv
  <1>1. /\ ResultOnly /\ phase = "emitting" /\ phase' = "panicked"
        /\ UNCHANGED <<options, next, out>>
    BY DEF Panic, Emitting, ResultOnly, history, TypeOK
  <1>2. order \in Seq(DOMAIN tables) /\ next \in DOMAIN order /\ order[next] \in DOMAIN tables
    BY DEF Panic, Emitting, TypeOK
  <1>3. TypeOK'
    BY <1>1 DEF ResultOnly, parsed, TypeOK
  <1>4. redefined # {}
    <2> SUFFICES ASSUME redefined = {} PROVE FALSE
      OBVIOUS
    <2> DEFINE k == order[next]
    <2>1. PICK sample \in Samples(k) :
            \E i \in DOMAIN sample : ~(Shown(k) \subseteq DOMAIN sample[i])
      BY DEF Panic
    <2> PICK i \in DOMAIN sample : ~(Shown(k) \subseteq DOMAIN sample[i])
      BY <2>1
    <2>2. options \in AllOptions
      BY <1>1, ConstantsOK DEF TypeOK
    <2>3. k \in DOMAIN rows /\ sample[i] \in Range(rows[k])
      BY <2>2, SamplesAreRows
    <2>4. sample[i] \in Seq(Cells)
      BY <2>3 DEF RowsTyped, Range
    <2>5. Len(sample[i]) = Len(tables[k].columns)
      BY <2>3 DEF RowsFit
    <2>6. tables[k].columns \in Seq(Columns)
      BY <1>2, ConstantsOK, EmptySeq DEF TypeOK, TableType
    <2>7. DOMAIN sample[i] = DOMAIN tables[k].columns
      BY <2>4, <2>5, <2>6
    <2> QED
      BY <2>7 DEF Shown
  <1>5. OutList' /\ RowsFit' /\ EveryTableEmitted'
    BY <1>1, <1>4 DEF ResultOnly, parsed, OutList, RowsFit, EveryTableEmitted
  <1> QED
    BY <1>1, <1>3, <1>5, ResultOnlyKeeps

\* The table joins the result under its own schema, which is there.
LEMMA EmitStep ==
  ASSUME IInv, Emit PROVE IInv'
  <1> USE DEF IInv
  <1> DEFINE k == order[next]
             W == Asked
             before == SubSeq(order, 1, next - 1)
             after == SubSeq(order, 1, next)
  <1>1. /\ ResultOnly /\ phase = "emitting" /\ UNCHANGED <<phase, options>>
        /\ next' = next + 1 /\ next <= Len(order) /\ Wanted(k)
    BY DEF Emit, Emitting, ResultOnly, history, TypeOK
  <1>2. /\ order \in Seq(Keys) /\ next \in DOMAIN order /\ next \in Nat
        /\ k \in Keys /\ k \in DOMAIN tables
    BY <1>1, SeqMonotonic DEF TypeOK
  <1>3. PICK e : out' = Append(out, e) /\ e.key = k /\ e.kind = tables[k].kind
    <2>1. k[1] \in schemas
      BY <1>2 DEF Homes
    <2>2. \E y : out' = Append(out, [key |-> k, kind |-> tables[k].kind, example |-> y])
      BY <2>1 DEF Emit
    <2> QED
      BY <2>2
  <1>4. PICK T : out \in Seq(T)
    BY DEF OutList
  <1> DEFINE U == T \cup {e}
             keys == [i \in DOMAIN out |-> out[i].key]
             Found == {out[i].key : i \in DOMAIN out} \cup Keys
  <1>5. out \in Seq(U) /\ e \in U
    BY <1>4, SeqMonotonic
  <1>6. /\ out' \in Seq(U)
        /\ DOMAIN out' = 1 .. Len(out) + 1 /\ DOMAIN out = 1 .. Len(out) /\ Len(out) \in Nat
        /\ \A i \in DOMAIN out : out'[i] = out[i]
        /\ out'[Len(out) + 1] = e
    BY <1>3, <1>5, AppendParts
  <1>7. [i \in DOMAIN out' |-> out'[i].key] = Append(keys, k)
    BY <1>3, <1>5, MapOfAppend
  <1>8. keys \in Seq(Found) /\ k \in Found
    BY <1>2, <1>6
  <1>9. TypeOK'
    BY <1>1, <1>2 DEF ResultOnly, parsed, TypeOK
  <1>10. OutList' /\ RowsFit'
    BY <1>1, <1>6 DEF ResultOnly, parsed, OutList, RowsFit
  <1>11. EveryTableEmitted'
    <2>1. W' = W /\ order' = order /\ next' - 1 = next
      BY <1>1, <1>2, AskedSettled DEF ResultOnly, parsed
    <2>2. after = Append(before, k) /\ before \in Seq(Keys)
      BY <1>2, NextPrefix
    <2>3. Keep(keys, W) = Keep(before, W)
      BY <1>1 DEF EveryTableEmitted
    <2>4. k \in W \/ (tables[k].kind = "view" /\ Wanted(k))
      BY <1>1, <1>2 DEF Asked, TypeOK, TableType
    <2>5. (\A i \in DOMAIN out :
             out[i].key \in Asked \/ (out[i].kind = "view" /\ Wanted(out[i].key)))'
      <3> SUFFICES ASSUME NEW i \in DOMAIN out'
                   PROVE  out'[i].key \in W \/ (out'[i].kind = "view" /\ Wanted(out'[i].key))
        BY <1>1, <2>1 DEF Wanted
      <3>1. CASE i \in DOMAIN out
        BY <1>1, <1>6, <3>1 DEF EveryTableEmitted
      <3>2. CASE i = Len(out) + 1
        BY <1>3, <1>6, <2>4, <3>2
      <3> QED
        BY <1>6, <3>1, <3>2
    <2> HIDE DEF W, before, after, k, keys, Found
    <2>6. /\ Keep(after, W) = IF k \in W THEN Append(Keep(before, W), k) ELSE Keep(before, W)
          /\ Keep(Append(keys, k), W) =
               IF k \in W THEN Append(Keep(keys, W), k) ELSE Keep(keys, W)
      BY <1>2, <1>8, <2>2, KeepOfAppend
    <2>7. Keep([i \in DOMAIN out' |-> out'[i].key], W') =
            Keep(SubSeq(order', 1, next' - 1), W')
      BY <1>7, <2>1, <2>3, <2>6 DEF after
    <2> QED
      BY <2>5, <2>7 DEF EveryTableEmitted, W
  <1> QED
    BY <1>1, <1>9, <1>10, <1>11, ResultOnlyKeeps

LEMMA Stutter == ASSUME IInv, UNCHANGED vars PROVE IInv'
  BY DEF vars, parsed, history, IInv, TypeOK, RowsTyped, Homes, OutList, NoResultYet,
         MeantIsCurrent, DetailsKept, RowsFit, EveryTableEmitted, Asked, Wanted

LEMMA IInvNext == IInv /\ [Next]_vars => IInv'
  <1> SUFFICES ASSUME IInv, [Next]_vars PROVE IInv'
    OBVIOUS
  <1>1. CASE Naming
    BY <1>1, NamingStep DEF Naming
  <1>2. CASE Defining
    <2>1. ASSUME NEW q \in Qualifiers, NEW n \in TableNames, NEW cols \in ColumnLists,
                 CreateTable(q, n, cols)
          PROVE  IInv'
      <3> DEFINE t == [kind |-> "table", columns |-> cols, attached |-> {}]
      <3>1. t \in TableType /\ t.attached = {}
        BY DEF TableType
      <3> QED
        BY <2>1, <3>1, DefineStep DEF CreateTable
    <2>2. ASSUME NEW q \in Qualifiers, NEW n \in TableNames, View(q, n)
          PROVE  IInv'
      <3> DEFINE t == [kind |-> "view", columns |-> <<>>, attached |-> {}]
      <3>1. t \in TableType /\ t.attached = {}
        BY DEF TableType
      <3> QED
        BY <2>2, <3>1, DefineStep DEF View
    <2> QED
      BY <1>2, <2>1, <2>2 DEF Defining
  <1>3. CASE Attaching
    <2>1. {"constraint", "index", "trigger", "comment"} \subseteq Attached
      BY DEF Attached
    <2> QED
      BY <1>3, <2>1, AttachStep, CommentOnColumnStep
      DEF Attaching, Alter, Index, Trigger, CommentOnTable
  <1>4. CASE Inserting
    BY <1>4, InsertStep DEF Inserting
  <1>5. CASE Ignored \/ \E q \in Qualifiers : AddObject(q)
    BY <1>5, ObjectStep
  <1>6. CASE Malformed \/ Break \/ Finish
    BY <1>6, EndStep
  <1>7. CASE UNCHANGED vars \/ Terminated
    BY <1>7, Stutter DEF Terminated
  <1> QED
    BY <1>1, <1>2, <1>3, <1>4, <1>5, <1>6, <1>7, EndOfInputStep, SkipStep, EmitStep,
       PanicStep DEF Next

-----------------------------------------------------------------------------
(* The theorems. *)

\* The inductive invariant holds at every state of the parser (dump.go:40-427).
THEOREM Invariant == SafeSpec => []IInv
  BY IInvInit, IInvNext, PTL DEF SafeSpec

\* The parser's and the result's state keep their types: every key of order has a
\* table, rows only for tables that are known (dump.go:40-110).
THEOREM TypeCorrect == SafeSpec => []TypeOK
  BY Invariant, PTL DEF IInv

\* Every table that no unqualified name reached, by SQL or by the parser, while the
\* two read the naming statement differently, is known exactly if it was defined and
\* holds exactly what the dump attached to it since (dump.go:200-274, 440-450).
THEOREM DetailsAlwaysKept == SafeSpec => []DetailsKept
  BY Invariant, PTL DEF IInv

\* Rows fit their table cell by cell until it is defined again, and without that
\* the result never panics (dump.go:341-368, 405-414).
THEOREM RowsAlwaysFit == SafeSpec => []RowsFit
  BY Invariant, PTL DEF IInv

\* The result is the tables and views that were asked for, in the order of the dump,
\* up to where result() has come, and views that were not (dump.go:382-427).
THEOREM ResultIsTheDump == SafeSpec => []EveryTableEmitted
  BY Invariant, PTL DEF IInv
=============================================================================
