--------------------------- MODULE MCDumpScanner ---------------------------
(***************************************************************************)
(* DumpScanner for TLC: what a text may hold is each thing that some       *)
(* scanner acts upon.                                                      *)
(***************************************************************************)
EXTENDS DumpScanner

\* Two rows of a value each take seven constructs.
Bounds == [script |-> 4, list |-> 5, values |-> 7]
Filled == [script |-> 2, list |-> 2, values |-> 1]

AllReaders == Families \X Tasks

SomeContents ==
  {<<"w">>, <<"sq">>, <<"semi">>, <<"$", "$">>, <<"nl", "GO", "nl">>,
   <<"w", "semi", "nl", "w", "comma", ")">>, <<"nl", "DELIMITER//", "NUL">>, <<"\\.", "nl">>}
=============================================================================
