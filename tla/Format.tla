------------------------------- MODULE Format -------------------------------
(***************************************************************************)
(* src/utility/format.c: a line of text split at its delimiters, in place. *)
(* A text is a sequence of tokens: a delimiter, an end of line, a NUL, or  *)
(* what stands in one column.  A column is a pointer: a position in the    *)
(* buffer, or Null.  It is not a copy: what is found there later is what   *)
(* the buffer holds then, and a line of fewer columns leaves the others    *)
(* where the last line had them (nobody calls format_reset).               *)
(***************************************************************************)
EXTENDS Naturals, Sequences, FiniteSets, SequencesExt

TAB == "<tab>"    \* format->delimiter, as the command line tool sets it
NL == "<nl>"
NUL == "<nul>"

ColumnCount == 5
Null == 0
Columns == [1 .. ColumnCount -> Nat]
NoColumns == [c \in 1 .. ColumnCount |-> Null]

(* The first position at or after p that holds one of the tokens of S. *)
FirstOf(S, buf, p) ==
  CHOOSE i \in p .. Len(buf) : buf[i] \in S /\ \A j \in p .. i - 1 : buf[j] \notin S

(* The string a pointer stands for. *)
StringAt(buf, p) == SubSeq(buf, p, FirstOf({NUL}, buf, p) - 1)

AfterLine_Slip(e) == e

AfterLine(e) == e + 1

LineEnd(buf, p) == FirstOf({NL, NUL}, buf, p)

(***************************************************************************)
(* Where the columns of the line at p begin: the first at p, each other    *)
(* one behind the stop of the column before; behind the end of the line    *)
(* there are none.                                                         *)
(***************************************************************************)
Stops == {TAB, NL, NUL}

Begins(buf, p) ==
  LET e == LineEnd(buf, p)
      behind == [b \in p .. Len(buf) + 1 |-> IF b > e THEN b ELSE FirstOf(Stops, buf, b) + 1]
      third == behind[behind[p]]
  IN  <<p, behind[p], third, behind[third], behind[behind[third]]>>

(* An empty column is Null ahead of a delimiter or an end of line, but not at a string's end. *)
Column(buf, b) == IF buf[b] \in {TAB, NL} THEN Null ELSE b

(***************************************************************************)
(* format_parse of the line at p: the columns it leaves, the buffer with a *)
(* NUL for every delimiter and the end of the line, and what it returns    *)
(* (AfterLine), the place of the next line.                                *)
(***************************************************************************)
ParsedColumns(cols, buf, p) ==
  [c \in 1 .. ColumnCount |->
     LET b == Begins(buf, p)[c]
     IN  IF c = 1 THEN p ELSE IF b <= LineEnd(buf, p) THEN Column(buf, b) ELSE cols[c]]

ParsedBuffer(buf, p) ==
  [i \in DOMAIN buf |-> IF i \in p .. LineEnd(buf, p) /\ buf[i] \in Stops THEN NUL ELSE buf[i]]

(* A buffer that is filled again: what the new text does not reach stays. *)
Filled_Slip(buf, text) == text \o SubSeq(buf, Len(text) + 1, Len(buf))    \* buffer[read] = 0 forgotten

Filled(buf, text) == text \o <<NUL>> \o SubSeq(buf, Len(text) + 2, Len(buf))

=============================================================================
