------------------------------ MODULE TsvTool -------------------------------
(***************************************************************************)
(* The command line tool otic (demo/tsvParser/tsvParser.c): a text of      *)
(* lines "time, name, -, unit, value" is read in chunks and packed (-p),   *)
(* unpacked to lines "time, name, unit, value" (-u), and the two texts are *)
(* compared (-c, src/utility/compare.c).                                   *)
(*                                                                         *)
(* Between packing and unpacking stands a channel: it refuses a row whose  *)
(* time is before its clock, and a sensor whose name and unit are too      *)
(* long, keeps a sensor's first unit, and writes a value that its          *)
(* dictionary takes for the one before as unmodified (PackChannel,         *)
(* OticPipe).  The tool's flusher never fails.  Lines have fewer than 512  *)
(* characters, the size of compare's buffers, so no text is too long for   *)
(* the channel's bucket (pack.c:613).  The times of complete lines and     *)
(* what is printed of them have 15 characters or more: compare writes an   *)
(* end behind the fifteenth (compare.c:98).                                *)
(***************************************************************************)
EXTENDS Format

CONSTANTS
  Times,       \* the times of lines, and what is printed of them
  Tick,        \* Tick[x]: the timestamp such a text is packed as; one of them is 0
  Shown,       \* Shown[t]: the text printed for a timestamp
  Cut,         \* Cut[x]: what strtod reads of the first 15 characters of a time
  Names,       \* sensor names
  UnitTexts,   \* units
  Long,        \* the names and units of more than 254 characters together
  ValueTexts,  \* what stands in a fifth column, when it is not empty
  Reading,     \* Reading[x]: the value such a text is packed as
  Whole,       \* Whole[x]: the integer it begins with, for strtol
  Low,         \* Low[v]: what 32 bits hold of an integer that needs more
  Extends,     \* pairs of texts, the first one a proper beginning of the second
  Lines,       \* the lines of a text
  MaxLines,
  ChunkSizes   \* tokens fread gets at once

Types == {"NULL", "INT_POS", "INT_NEG", "DOUBLE", "STRING"}
Zero == "0"      \* what is printed of an integer 0
Field == Times \cup Names \cup UnitTexts \cup ValueTexts \cup {TAB, NL, Zero}
Text == Seq(Field)
String == Seq(Field)
Value == [type : Types, text : String]

(* The columns of a line. *)
LineBegins(line) == Begins(Append(line, NL), 1)

Has(line, c) == LineBegins(line)[c] <= Len(line) + 1

Part(line, c) ==
  LET l == Append(line, NL)
      b == LineBegins(line)[c]
  IN  IF Has(line, c) THEN SubSeq(l, b, FirstOf(Stops, l, b) - 1) ELSE <<>>

Complete(line) == Has(line, ColumnCount)

(***************************************************************************)
(* A line is empty or begins with a time.  Its name is not empty, and if   *)
(* it has a fifth column, that is the last one and one value or nothing.   *)
(***************************************************************************)
Proper(line) ==
  /\ \A i \in DOMAIN line : line[i] # NL
  /\ line # <<>> => line[1] \in Times
  /\ Has(line, 2) => Part(line, 2) # <<>>
  /\ Complete(line) =>
       SubSeq(line, LineBegins(line)[ColumnCount], Len(line)) \in {<<>>} \cup {<<x>> : x \in ValueTexts}

(* The timestamps of the lines. *)
Ticks == {Tick[x] : x \in Times}

(***************************************************************************)
(* A string is printed as it is, and what is printed of a number begins    *)
(* with the same integer: none is so close to the next one that its six    *)
(* decimals (tsvParser.c:147) are those of that.  Numbers that compare     *)
(* equal are one value.                                                    *)
(***************************************************************************)
ASSUME TsvAssumption ==
  /\ NUL \notin Field /\ {TAB, NL} \cap (Times \cup ValueTexts) = {}
  /\ Tick \in [Times -> Nat] /\ 0 \in Ticks
  /\ Shown \in [Ticks -> Times] /\ Cut \in [Times -> Nat]
  /\ Reading \in [ValueTexts -> Value] /\ Whole \in [ValueTexts -> Int]
  /\ \A v \in DOMAIN Low : v.type # "STRING"
  /\ \A e \in Extends : e[1].type = "STRING"
  /\ \A x \in ValueTexts : \E y \in ValueTexts : Reading[x].text = <<y>> /\ Whole[x] = Whole[y]
                                               /\ (Reading[x].type = "STRING" => y = x)
  /\ Zero \in ValueTexts => Whole[Zero] = 0
  /\ ChunkSizes \subseteq Nat \ {0} /\ MaxLines \in Nat
  /\ \A line \in Lines : line \in Text /\ Proper(line)

VARIABLES
  text,      \* the input file
  chunkSize, \* READ_BUFFERSIZE - 1024
  rest,      \* what of the input has not been read
  buffer, pointer, size,     \* the chunk, ptr_current and size of the chunker
  columns,   \* format.columns.content
  from,      \* history: where in the input the line stands that was parsed last
  base,      \* history: how much of the input stands ahead of the chunk
  ends,      \* history: the positions chunks ended at
  clock,     \* base.timestampCurrent; TS_NULL refuses as little as a 0
  packed,    \* the rows the channel took, each with the position of its line
  told,      \* told[i]: the value a reader gets for packed[i], and whether the
             \* sensor's entry still holds the value it was inserted with
  printed,   \* the unpacked text
  phase,     \* "read", "inject"; "unpack"; "compare", "parse", "judge"; "done"
  left, right,               \* compare's two inputs: what is left, the buffer, the columns
  verdict    \* "none", "equal", "differs"; "crash" for a strcmp or strtol of a null pointer

tvars == <<text, chunkSize, rest, buffer, pointer, size, columns, from, base, ends, clock, packed, told,
           printed, phase, left, right, verdict>>
reading == <<rest, buffer, pointer, size, columns, from, base, ends>>
channel == <<clock, packed, told>>

Side == [rest : Text, buf : Seq(Field \cup {NUL}), cols : Columns]

(***************************************************************************)
(* The first line has all its columns: before it, they are uninitialised.  *)
(* The last one may have no end.                                           *)
(***************************************************************************)
Ended(lines) == FlattenSeq([i \in DOMAIN lines |-> Append(lines[i], NL)])

TsvInit ==
  /\ \E lines \in SeqOf(Lines, MaxLines) :
       /\ lines # <<>> /\ Complete(lines[1])
       /\ text \in {Ended(lines), Front(Ended(lines))}
  /\ chunkSize \in ChunkSizes
  /\ rest = text
  /\ buffer = <<NUL>> /\ pointer = 1 /\ size = 0
  /\ columns = NoColumns
  /\ from = 0 /\ base = 0 /\ ends = {}
  /\ clock = 0 /\ packed = <<>> /\ told = <<>> /\ printed = <<>>
  /\ phase = "read" /\ verdict = "none"
  /\ left = [rest |-> <<>>, buf |-> <<NUL>>, cols |-> NoColumns]
  /\ right = left

-----------------------------------------------------------------------------
(* fscanf(file, "%[^\n]\n", ...): a line, and all white space behind it. *)

LineOf(s) == SubSeq(s, 1, FirstOf({NL}, Append(s, NL), 1) - 1)

Blank(s) == {i \in DOMAIN s : \A j \in 1 .. i : s[j] \in {TAB, NL}}

BehindLine(s) ==
  LET t == SubSeq(s, Len(LineOf(s)) + 1, Len(s)) IN SubSeq(t, Cardinality(Blank(t)) + 1, Len(t))

-----------------------------------------------------------------------------
(* compress. *)

(***************************************************************************)
(* A chunk is what fread gets and what is left of its last line; at an end *)
(* of line, that character only is passed over.                            *)
(***************************************************************************)
Completed_Slip(got, after) == [chunk |-> got, rest |-> after]

Completed(got, after) ==
  IF after # <<>> /\ Head(after) = NL THEN [chunk |-> got, rest |-> Tail(after)]
  ELSE [chunk |-> got \o LineOf(after), rest |-> BehindLine(after)]

ReadChunk ==
  /\ phase = "read" /\ pointer > size /\ rest # <<>>
  /\ LET n == IF chunkSize < Len(rest) THEN chunkSize ELSE Len(rest)
         c == Completed(SubSeq(rest, 1, n), SubSeq(rest, n + 1, Len(rest)))
     IN  /\ buffer' = Filled(buffer, c.chunk)
         /\ size' = Len(c.chunk) /\ pointer' = 1
         /\ base' = Len(text) - Len(rest)
         /\ ends' = ends \cup {base' + Len(c.chunk)}
         /\ rest' = c.rest
  /\ UNCHANGED <<text, chunkSize, columns, from, channel, printed, phase, left, right, verdict>>

(* strtod of the first column: no digits are a zero. *)
TimeOf(s) == IF s # <<>> /\ s[1] \in Times THEN Tick[s[1]] ELSE 0

(* A column that is Null is an empty unit. *)
UnitAt(buf, p) == IF p = Null THEN <<>> ELSE StringAt(buf, p)

(***************************************************************************)
(* The value of a column: Null is packed as a null, and an empty string is *)
(* numeric (isNumeric finds no other character in it) and read as 0.       *)
(***************************************************************************)
ValueAt(buf, p) ==
  IF p = Null THEN [type |-> "NULL", text |-> <<>>]
  ELSE LET s == StringAt(buf, p)
       IN  IF s = <<>> THEN [type |-> "INT_POS", text |-> <<Zero>>]
           ELSE IF Len(s) = 1 /\ s[1] \in ValueTexts THEN Reading[s[1]]
           ELSE [type |-> "STRING", text |-> s]

ParseLine ==
  /\ phase = "read" /\ pointer <= size
  /\ columns' = ParsedColumns(columns, buffer, pointer)
  /\ buffer' = ParsedBuffer(buffer, pointer)
  /\ pointer' = AfterLine(LineEnd(buffer, pointer))
  /\ from' = base + pointer
  /\ phase' = "inject"
  /\ UNCHANGED <<text, chunkSize, rest, size, base, ends, channel, printed, left, right, verdict>>

-----------------------------------------------------------------------------
(* The channel. *)

(* The row in which a sensor's entry was used last. *)
Entry(name) ==
  {i \in DOMAIN packed : packed[i].name = name /\ \A j \in i + 1 .. Len(packed) : packed[j].name # name}

(***************************************************************************)
(* Is a value the one before?  Of the value a sensor's entry was inserted  *)
(* with, 32 bits of an integer are kept, and a text without its end:       *)
(* strcmp may find it longer than it is.                                   *)
(***************************************************************************)
Kept(v) == IF v \in DOMAIN Low THEN Low[v] ELSE v

Answers(m, v) ==
  IF m.first /\ m.value.type = "STRING"
  THEN IF v = m.value \/ <<m.value, v>> \in Extends THEN BOOLEAN ELSE {FALSE}
  ELSE {v = IF m.first THEN Kept(m.value) ELSE m.value}

Take(row, memory) == packed' = Append(packed, row) /\ told' = Append(told, memory)

TakeNew(row) ==
  /\ Entry(row.name) = {} /\ <<row.name, row.unit>> \notin Long
  /\ Take(row, [value |-> row.value, first |-> TRUE])

TakeKnown(row) ==
  \E i \in Entry(row.name) : \E same \in Answers(told[i], row.value) :
    Take(row, IF same THEN told[i] ELSE [value |-> row.value, first |-> FALSE])

(* What the columns say of the line parsed last. *)
RowInHand ==
  [time |-> TimeOf(StringAt(buffer, columns[1])), name |-> StringAt(buffer, columns[2]),
   unit |-> UnitAt(buffer, columns[4]), value |-> ValueAt(buffer, columns[5]), from |-> from]

(***************************************************************************)
(* A row before the channel's clock, or of a new sensor with too long a    *)
(* name and unit, is refused, the second one after it moved the clock; the *)
(* tool does not notice.                                                   *)
(***************************************************************************)
InjectLine ==
  /\ phase = "inject" /\ phase' = "read"
  /\ LET row == RowInHand
     IN  \/ row.time < clock /\ UNCHANGED channel
         \/ /\ row.time >= clock /\ clock' = row.time
            /\ \/ TakeNew(row) \/ TakeKnown(row)
               \/ Entry(row.name) = {} /\ <<row.name, row.unit>> \in Long /\ UNCHANGED <<packed, told>>
  /\ UNCHANGED <<text, chunkSize, reading, printed, left, right, verdict>>

PackEnd ==
  /\ phase = "read" /\ pointer > size /\ rest = <<>>
  /\ phase' = "unpack"
  /\ UNCHANGED <<text, chunkSize, reading, channel, printed, left, right, verdict>>

-----------------------------------------------------------------------------
(* decompress. *)

FirstUnit(name) ==
  packed[CHOOSE i \in DOMAIN packed :
           packed[i].name = name /\ \A j \in 1 .. i - 1 : packed[j].name # name].unit

PrintedLine_Slip(row, value) ==    \* a null prints no column
  <<Shown[row.time], TAB>> \o row.name \o <<TAB>> \o FirstUnit(row.name)
    \o (IF value.type = "NULL" THEN <<>> ELSE <<TAB>>) \o value.text \o <<NL>>

PrintedLine(row, value) ==
  <<Shown[row.time], TAB>> \o row.name \o <<TAB>> \o FirstUnit(row.name) \o <<TAB>> \o value.text \o <<NL>>

(* The lines of the input, without their ends, and where they begin. *)
Starts == {i \in DOMAIN text : i = 1 \/ text[i - 1] = NL}
LineAt(s) == LineOf(SubSeq(text, s, Len(text)))
AllComplete == \A s \in Starts : Complete(LineAt(s))

(***************************************************************************)
(* What is printed of a text that has shorter lines may have lines of more *)
(* than five columns, for which the tool has no room, and of a text that   *)
(* is printed empty compare would read a buffer nothing was written to.    *)
(***************************************************************************)
Unpack ==
  /\ phase = "unpack"
  /\ printed' = FlattenSeq([i \in DOMAIN packed |-> PrintedLine(packed[i], told[i].value)])
  /\ left' = [left EXCEPT !.rest = text] /\ right' = [right EXCEPT !.rest = printed']
  /\ phase' = IF AllComplete /\ packed # <<>> THEN "compare" ELSE "done"
  /\ UNCHANGED <<text, chunkSize, reading, channel, verdict>>

-----------------------------------------------------------------------------
(* compare_compareLineValues. *)

(* At the end of a file fscanf leaves in the buffer what is there. *)
WithLine(side) ==
  [side EXCEPT !.rest = BehindLine(@),
               !.buf = IF side.rest = <<>> THEN @ ELSE Filled(@, LineOf(side.rest))]

WithColumns(side) ==
  [side EXCEPT !.buf = ParsedBuffer(@, 1), !.cols = ParsedColumns(@, side.buf, 1)]

In(side, c) == StringAt(side.buf, side.cols[c])
IsNull(side, c) == side.cols[c] = Null

(* strtol: the integer a text begins with. *)
Integer(s) == IF s = <<>> THEN 0 ELSE IF s[1] \in ValueTexts THEN Whole[s[1]] ELSE 0
IsNumeric(s) == s = <<>> \/ (Len(s) = 1 /\ s[1] \in ValueTexts /\ Reading[s[1]].type # "STRING")

(* Both times are cut behind their fifteenth character. *)
CutOf(s) == IF s # <<>> /\ s[1] \in Times THEN Cut[s[1]] ELSE 0

TimesDiffer_Slip(l, r) == FALSE

TimesDiffer(l, r) == CutOf(In(l, 1)) # CutOf(In(r, 1))

(* The columns in their order: the first one that differs, or crashes, ends the program. *)
Found(l, r) ==
  IF TimesDiffer(l, r) THEN "differs"
  ELSE IF IsNull(r, 2) THEN "crash"
  ELSE IF In(l, 2) # In(r, 2) THEN "differs"
  ELSE IF IsNull(l, 4) /\ ~IsNull(r, 3) THEN "differs"
  ELSE IF ~IsNull(l, 4) /\ IsNull(r, 3) THEN "crash"
  ELSE IF ~IsNull(l, 4) /\ In(l, 4) # In(r, 3) THEN "differs"
  ELSE IF IsNull(l, 5) THEN IF IsNull(r, 4) THEN "equal" ELSE "differs"
  ELSE IF IsNull(r, 4) THEN "crash"
  ELSE IF IsNumeric(In(l, 5))
       THEN IF Integer(In(l, 5)) = Integer(In(r, 4)) THEN "equal" ELSE "differs"
  ELSE IF In(l, 5) = In(r, 4) THEN "equal" ELSE "differs"

CompareRead ==
  /\ phase = "compare" /\ left.rest # <<>>
  /\ left' = WithLine(left) /\ right' = WithLine(right)
  /\ phase' = "parse"
  /\ UNCHANGED <<text, chunkSize, reading, channel, printed, verdict>>

CompareParse ==
  /\ phase = "parse" /\ phase' = "judge"
  /\ left' = WithColumns(left) /\ right' = WithColumns(right)
  /\ UNCHANGED <<text, chunkSize, reading, channel, printed, verdict>>

CompareColumns ==
  /\ phase = "judge"
  /\ verdict' = Found(left, right)
  /\ phase' = IF verdict' = "equal" THEN "compare" ELSE "done"
  /\ UNCHANGED <<text, chunkSize, reading, channel, printed, left, right>>

CompareEnd ==
  /\ phase = "compare" /\ left.rest = <<>>
  /\ phase' = "done"
  /\ UNCHANGED <<text, chunkSize, reading, channel, printed, left, right, verdict>>

TsvNext ==
  ReadChunk \/ ParseLine \/ InjectLine \/ PackEnd \/ Unpack \/ CompareRead \/ CompareParse
    \/ CompareColumns \/ CompareEnd

(* A sequential program: it goes on as long as it can. *)
TsvSpec == TsvInit /\ [][TsvNext]_tvars /\ WF_tvars(TsvNext)

-----------------------------------------------------------------------------
(* Properties. *)

TsvTypeOK ==
  /\ text \in Text /\ rest \in Text /\ printed \in Text /\ chunkSize \in ChunkSizes
  /\ buffer \in Seq(Field \cup {NUL}) /\ pointer \in Nat \ {0} /\ size < Len(buffer)
  /\ columns \in Columns /\ \A c \in DOMAIN columns : columns[c] <= Len(buffer)
  /\ from \in Nat /\ base \in Nat /\ ends \subseteq 1 .. Len(text)
  /\ clock \in Nat
  /\ packed \in Seq([time : Nat, name : String, unit : String, value : Value, from : Nat])
  /\ told \in Seq([value : Value, first : BOOLEAN]) /\ Len(told) = Len(packed)
  /\ left \in Side /\ right \in Side
  /\ phase \in {"read", "inject", "unpack", "compare", "parse", "judge", "done"}
  /\ verdict \in {"none", "equal", "differs", "crash"}

(* The time of the line at s. *)
TimeAt(s) == TimeOf(Part(LineAt(s), 1))

(***************************************************************************)
(* A complete line is packed as what stands in it, wherever the chunks     *)
(* were cut and whatever shorter or blank lines stand before it: once, but *)
(* not at all if its time is before that of an earlier line, packed or     *)
(* not, or if it is the first line taken of its sensor and name and unit   *)
(* are too long.  But an empty value that ends a chunk, or a file without  *)
(* an end of line, is packed as the integer 0.                             *)
(***************************************************************************)
ExpectedValue(s, line) ==
  LET v == Part(line, 5)
  IN  IF v # <<>> THEN Reading[v[1]]
      ELSE IF s + Len(line) - 1 \in ends THEN [type |-> "INT_POS", text |-> <<Zero>>]
      ELSE [type |-> "NULL", text |-> <<>>]

PackedSoFar(s) == size > 0 /\ s < base + pointer /\ phase # "inject"

LinesAsRows ==
  \A s \in Starts :
    Complete(LineAt(s)) /\ PackedSoFar(s) =>
      LET line == LineAt(s)
          rows == {i \in DOMAIN packed : packed[i].from = s}
          late == \E u \in Starts : u < s /\ TimeAt(u) > TimeAt(s)
          long == /\ <<Part(line, 2), Part(line, 4)>> \in Long
                  /\ \A i \in DOMAIN packed : packed[i].from < s => packed[i].name # Part(line, 2)
      IN  /\ Cardinality(rows) = IF late \/ long THEN 0 ELSE 1
          /\ \A i \in rows :
               packed[i] = [time |-> TimeAt(s), name |-> Part(line, 2), unit |-> Part(line, 4),
                            value |-> ExpectedValue(s, line), from |-> s]

(* Values the dictionary may take for the same. *)
Alike(v, w) == <<v, w>> \in Extends \/ (v \in DOMAIN Low /\ w = Low[v])

(***************************************************************************)
(* A text in the order of time that gives each sensor one unit, not too    *)
(* long, and no two values alike, and has no time with digits that are not *)
(* packed among its first fifteen characters, is found equal to what is    *)
(* unpacked of it.                                                         *)
(***************************************************************************)
Orderly ==
  \A s \in Starts :
    /\ <<Part(LineAt(s), 2), Part(LineAt(s), 4)>> \notin Long
    /\ CutOf(Part(LineAt(s), 1)) = Cut[Shown[TimeAt(s)]]
    /\ \A u \in Starts : s < u =>
         /\ TimeAt(s) <= TimeAt(u)
         /\ Part(LineAt(s), 2) = Part(LineAt(u), 2) =>
              /\ Part(LineAt(s), 4) = Part(LineAt(u), 4)
              /\ ~ Alike(ExpectedValue(s, LineAt(s)), ExpectedValue(u, LineAt(u)))

OrderlyAgrees == phase = "done" /\ AllComplete /\ Orderly => verdict = "equal"

(***************************************************************************)
(* And a text that is found equal has lost no line on the way, if its      *)
(* times, and what is printed of them, are told apart by their first       *)
(* fifteen characters.                                                     *)
(***************************************************************************)
TimesTold ==
  \A s, u \in Starts : CutOf(Part(LineAt(s), 1)) = Cut[Shown[TimeAt(u)]] => TimeAt(s) = TimeAt(u)

EqualLostNothing ==
  phase = "done" /\ verdict = "equal" /\ TimesTold =>
    \A s \in Starts : \E i \in DOMAIN packed : packed[i].from = s

(* The tool comes to an end on every text. *)
ToolEnds == <>(phase = "done")

=============================================================================
