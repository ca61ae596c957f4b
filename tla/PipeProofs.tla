------------------------------ MODULE PipeProofs ------------------------------
(***************************************************************************)
(* The reading side of the pipe against the tape of TapeProofs: taking a   *)
(* frame off the file moves the reader's block along the tape, reading a   *)
(* record moves the reader to the next mark.  What parseBlock takes for    *)
(* granted of a record is therefore true, and each step of the pipe is a   *)
(* step of the log of OticLog.                                             *)
(***************************************************************************)
EXTENDS TapeProofs

-----------------------------------------------------------------------------
(* Shapes. *)

PipeShapes == IInv /\ up \in Reader /\ got \in Seq(Delivery) /\ crashed \in BOOLEAN

LEMMA ReaderFields ==
  ASSUME NEW u \in Reader
  PROVE  /\ u.entries \in Seq(UEntry) /\ u.ts \in Nat \cup {TsNull} /\ u.rowCounter \in Nat
         /\ u.block \in Seq(Token) /\ u.cacheSize \in Nat /\ u.fetch \in SUBSET Names
  BY DEF Reader

(* The first record of a block, and the rest. *)
LEMMA BlockFields ==
  ASSUME NEW block \in Seq(Token), block # <<>>
  PROVE  Head(block) \in Token /\ Tail(block) \in Seq(Token)
  OBVIOUS

(* The first frame of the file, and the rest. *)
LEMMA FileFields ==
  ASSUME NEW frames \in Seq(Frame), frames # <<>>
  PROVE  /\ Head(frames) \in Frame /\ Tail(frames) \in Seq(Frame) /\ Head(frames) = frames[1]
         /\ Len(frames) \in Nat /\ Len(frames) >= 1 /\ Len(Tail(frames)) = Len(frames) - 1
         /\ \A i \in 1 .. Len(frames) - 1 : Tail(frames)[i] = frames[i + 1]
  OBVIOUS

(* A call of parse that takes a frame. *)
LEMMA ParseShapes ==
  ASSUME up \in Reader, got \in Seq(Delivery), wire \in Seq(Frame), Parse \/ ParseEnd
  PROVE  up' \in Reader /\ got' \in Seq(Delivery) /\ wire' \in Seq(Frame)
<1>1. got' = got
  BY DEF Parse, ParseEnd, ParseDefine, ParseIgnored, ParseChunk, ParseData, ParseOversized,
         ParseTorn
<1>2. wire' \in Seq(Frame)
  <2>1. wire' = wire \/ (wire # <<>> /\ wire' = Tail(wire))
    BY DEF Parse, ParseEnd, ParseDefine, ParseIgnored, ParseChunk, ParseData, ParseOversized,
           ParseTorn, AtFrame
  <2> QED
    BY <2>1, FileFields
<1>3. /\ {"OPENED", "ON_ERROR", "CLOSED"} = States
      /\ "ZSTD" \in Errors /\ "EOF" \in Errors
  BY DEF States, Errors
<1>4. up' \in Reader
  <2>1. CASE ParseDefine
    BY <1>3, <2>1 DEF ParseDefine, Reader
  <2>2. CASE ParseIgnored
    BY <2>2 DEF ParseIgnored
  <2>3. CASE ParseChunk
    <3>1. Head(wire).size \in Nat
      BY <2>3, FileFields, FrameFields DEF ParseChunk, AtFrame
    <3> QED
      BY <2>3, <3>1 DEF ParseChunk, Reader
  <2>4. CASE ParseData
    <3>1. Head(wire).tokens \in Seq(Token)
      BY <2>4, FileFields, FrameFields DEF ParseData, AtFrame
    <3> QED
      BY <2>4, <3>1 DEF ParseData, Reader
  <2>5. CASE ParseOversized
    BY <1>3, <2>5 DEF ParseOversized, Reader
  <2>6. CASE ParseTorn
    <3>1. CASE up' = [up EXCEPT !.ended = TRUE]
      BY <3>1 DEF Reader
    <3>2. CASE up' = [up EXCEPT !.parentError = "EOF", !.parentState = "ON_ERROR", !.ended = TRUE]
      BY <1>3, <3>2 DEF Reader
    <3>3. CASE up' = [up EXCEPT !.error = "ZSTD", !.parentError = "ZSTD",
                                !.parentState = "ON_ERROR", !.ended = TRUE]
      BY <1>3, <3>3 DEF Reader
    <3> QED
      BY <2>6, <3>1, <3>2, <3>3 DEF ParseTorn
  <2>7. CASE ParseEnd
    BY <2>7 DEF ParseEnd, Reader
  <2> QED
    BY <2>1, <2>2, <2>3, <2>4, <2>5, <2>6, <2>7 DEF Parse
<1> QED
  BY <1>1, <1>2, <1>4

(* What the callback is handed has its shape. *)
LEMMA DeliveredShape ==
  ASSUME up \in Reader, got \in Seq(Delivery), NEW e \in UEntry
  PROVE  Delivered(e) \in Seq(Delivery)
<1> DEFINE d == [time |-> up.ts, name |-> e.name, unit |-> e.unit, value |-> e.value]
<1>1. d \in Delivery
  BY ReaderFields DEF UEntry, Delivery
<1> HIDE DEF d
<1>2. Append(got, d) \in Seq(Delivery)
  BY <1>1
<1> QED
  BY <1>2 DEF Delivered, d

(* A record read. *)
LEMMA RecordShapes ==
  ASSUME up \in Reader, got \in Seq(Delivery), wire \in Seq(Frame), ReadRecord
  PROVE  up' \in Reader /\ got' \in Seq(Delivery) /\ wire' = wire
<1> DEFINE t == Current
           rest == Tail(up.block)
<1>1. t \in Token /\ rest \in Seq(Token) /\ Consumed = [up EXCEPT !.block = rest]
  BY ReaderFields, BlockFields
     DEF ReadRecord, ReadRow, ReadSetTimestamp, ReadShiftTimestamp, ReadNameAssign, ReadValue,
         ReadUnmodified, ReadRawBuffer, ReadEof, Reading, Current, Consumed
<1>2. /\ up.entries \in Seq(UEntry) /\ up.ts \in Nat \cup {TsNull} /\ up.rowCounter \in Nat
      /\ up.fetch \in SUBSET Names
  BY ReaderFields
<1> HIDE DEF t, rest
<1>3. CASE ReadSetTimestamp
  <2>1. t.arg \in Nat
    BY <1>1, <1>3, TokenFields DEF ReadSetTimestamp, Reading, t
  <2>2. up' = [up EXCEPT !.block = rest, !.ts = t.arg,
                         !.timeStart = IF up.timeStart = TsNull THEN t.arg ELSE up.timeStart]
    BY <1>1, <1>3 DEF ReadSetTimestamp, Reader, t
  <2> DEFINE s == IF up.timeStart = TsNull THEN t.arg ELSE up.timeStart
  <2>3. s \in Nat \cup {TsNull}
    BY <2>1 DEF Reader
  <2> HIDE DEF s
  <2>4. up' = [up EXCEPT !.block = rest, !.ts = t.arg, !.timeStart = s]
    BY Zenon, <2>2 DEF s
  <2>5. up' \in Reader
    BY <1>1, <2>1, <2>3, <2>4 DEF Reader
  <2> QED
    BY <1>1, <1>3, <2>5 DEF ReadSetTimestamp
<1>4. CASE ReadShiftTimestamp
  <2>1. t.arg \in Nat
    BY <1>1, <1>4, TokenFields DEF ReadShiftTimestamp, Reading, t
  <2>2. up.ts + t.arg \in Nat
    BY <1>2, <1>4, <2>1 DEF ReadShiftTimestamp
  <2>3. up' = [up EXCEPT !.block = rest, !.ts = up.ts + t.arg]
    BY <1>1, <1>4 DEF ReadShiftTimestamp, Reader, t
  <2> DEFINE n == up.ts + t.arg
  <2>4. n \in Nat /\ up' = [up EXCEPT !.block = rest, !.ts = n]
    BY <2>2, <2>3
  <2> HIDE DEF n
  <2>5. up' \in Reader
    BY <1>1, <2>4 DEF Reader
  <2> QED
    BY <1>1, <1>4, <2>5 DEF ReadShiftTimestamp
<1>5. CASE ReadNameAssign
  <2> DEFINE e == [name |-> t.name, unit |-> t.unit, value |-> NoValue,
                   ignore |-> ~IsFetchable(up.fetch, t.name)]
  <2>1. e \in UEntry
    BY <1>1, <1>5, TokenFields DEF ReadNameAssign, Reading, UEntry, t, IsFetchable
  <2> HIDE DEF e
  <2>2. Append(up.entries, e) \in Seq(UEntry)
    BY <1>2, <2>1
  <2>3. up' = [up EXCEPT !.block = rest, !.entries = Append(up.entries, e)]
    BY <1>1, <1>5 DEF ReadNameAssign, Reader, t, e
  <2> QED
    BY <1>1, <1>5, <2>2, <2>3 DEF ReadNameAssign, Reader
<1>6. CASE ReadValue
  <2> DEFINE i == t.index + 1
             e == [up.entries[i] EXCEPT !.value = t.value]
             E == [up.entries EXCEPT ![i] = e]
  <2>1. /\ t.index \in Nat /\ t.index < Len(up.entries) /\ t.value \in Values
    <3>1. IsRow(t) /\ HasValue(t)
      BY <1>6 DEF ReadValue, Reading, t, IsRow, HasValue, RowTags
    <3> QED
      BY <1>1, <1>6, <3>1, TokenFields DEF ReadValue, InDictionary, t
  <2>2. i \in 1 .. Len(up.entries)
    BY <1>2, <2>1
  <2>3. e \in UEntry
    <3> DEFINE old == up.entries[i]
    <3>1. old \in UEntry
      BY <1>2, <2>2
    <3>2. e = [old EXCEPT !.value = t.value]
      OBVIOUS
    <3> HIDE DEF old
    <3> QED
      BY <2>1, <3>1, <3>2 DEF UEntry
  <2>4. got' = Delivered(e) /\ wire' = wire
    BY <1>6 DEF ReadValue, t
  <2>5. up' = [up EXCEPT !.block = rest, !.entries = E, !.rowCounter = up.rowCounter + 1]
    BY <1>1, <1>6 DEF ReadValue, Reader, t
  <2> HIDE DEF e, i
  <2>6. E \in Seq(UEntry)
    BY <1>2, <2>2, <2>3
  <2> HIDE DEF E
  <2>7. up' \in Reader
    <3> DEFINE n == up.rowCounter + 1
    <3>1. n \in Nat
      BY <1>2
    <3>2. up' = [up EXCEPT !.block = rest, !.entries = E, !.rowCounter = n]
      BY <2>5
    <3> HIDE DEF n
    <3> QED
      BY <1>1, <2>6, <3>1, <3>2 DEF Reader
  <2>8. Delivered(e) \in Seq(Delivery)
    BY <2>3, DeliveredShape
  <2> QED
    BY <2>4, <2>7, <2>8
<1>7. CASE ReadUnmodified
  <2> DEFINE e == up.entries[t.index + 1]
  <2>1. t.index \in Nat /\ t.index < Len(up.entries)
    <3>1. IsRow(t)
      BY <1>7 DEF ReadUnmodified, Reading, t, IsRow, RowTags
    <3> QED
      BY <1>1, <1>7, <3>1, TokenFields DEF ReadUnmodified, InDictionary, t
  <2>2. t.index + 1 \in 1 .. Len(up.entries)
    BY <1>2, <2>1
  <2>3. e \in UEntry
    BY <1>2, <2>2
  <2>4. got' = Delivered(e) /\ wire' = wire
    BY <1>7 DEF ReadUnmodified, t
  <2>5. up' = [up EXCEPT !.block = rest, !.rowCounter = up.rowCounter + 1]
    BY <1>1, <1>7 DEF ReadUnmodified, Reader
  <2> HIDE DEF e
  <2>6. up' \in Reader
    <3> DEFINE n == up.rowCounter + 1
    <3>1. n \in Nat
      BY <1>2
    <3>2. up' = [up EXCEPT !.block = rest, !.rowCounter = n]
      BY <2>5
    <3> HIDE DEF n
    <3> QED
      BY <1>1, <3>1, <3>2 DEF Reader
  <2>7. Delivered(e) \in Seq(Delivery)
    BY <2>3, DeliveredShape
  <2> QED
    BY <2>4, <2>6, <2>7
<1>8. CASE ReadRawBuffer
  BY <1>8 DEF ReadRawBuffer, Reader
<1>9. CASE ReadEof
  <2>1. "ROW_COUNT_MISMATCH" \in Errors /\ "ON_ERROR" \in States
    BY DEF Errors, States
  <2>2. \/ up' = [up EXCEPT !.block = rest, !.complete = TRUE]
        \/ up' = [up EXCEPT !.block = rest, !.error = "ROW_COUNT_MISMATCH", !.state = "ON_ERROR"]
    BY <1>1, <1>9 DEF ReadEof, Reader
  <2> QED
    BY Zenon, <1>1, <1>9, <2>1, <2>2 DEF ReadEof, Reader
<1> QED
  BY <1>3, <1>4, <1>5, <1>6, <1>7, <1>8, <1>9 DEF ReadRecord, ReadRow

(* Every step of the pipe keeps the shapes. *)
LEMMA StepShapes ==
  ASSUME PipeShapes, [PipeNext]_pvars
  PROVE  PipeShapes'
<1>1. /\ Ready /\ rows \in Seq(Row) /\ wire \in Seq(Frame) /\ up \in Reader
      /\ got \in Seq(Delivery) /\ crashed \in BOOLEAN
  BY DEF PipeShapes, IInv, TypeOK, Ready, Formed
<1>2. ASSUME Ready', rows' \in Seq(Row), up' \in Reader, got' \in Seq(Delivery),
             crashed' \in BOOLEAN
      PROVE  PipeShapes'
  BY <1>2 DEF PipeShapes, IInv, TypeOK, Ready, Formed
<1>3. ASSUME UNCHANGED <<pk, rows>>, wire' \in Seq(Frame) PROVE Ready' /\ rows' \in Seq(Row)
  BY <1>1, <1>3 DEF Ready, Formed, Geometry, Sticks
<1>4. CASE Write
  <2>1. Next /\ UNCHANGED <<up, got, crashed>>
    BY <1>4 DEF Write
  <2>2. Ready' /\ rows' \in Seq(Row)
    BY <1>1, <2>1, StepReady, RowsStep
  <2> QED
    BY <1>1, <1>2, <2>1, <2>2
<1>5. CASE Crash
  <2>1. /\ UNCHANGED <<pk, rows, up, got>> /\ crashed' = TRUE
        /\ wire' = wire \/ wire' = Append(wire, TornFrame)
    BY <1>5 DEF Crash
  <2>2. TornFrame \in Frame
    BY DEF TornFrame, Frame
  <2>3. wire' \in Seq(Frame)
    BY <1>1, <2>1, <2>2
  <2> QED
    BY <1>1, <1>2, <1>3, <2>1, <2>3
<1>6. CASE ReadFile
  <2>1. UNCHANGED <<pk, rows, crashed>>
    BY <1>6 DEF ReadFile
  <2>2. CASE Parse \/ ParseEnd
    BY <1>1, <1>2, <1>3, <2>1, <2>2, ParseShapes
  <2>3. CASE ReadRecord
    BY <1>1, <1>2, <1>3, <2>1, <2>3, RecordShapes
  <2> QED
    BY <1>6, <2>2, <2>3 DEF ReadFile
<1>7. CASE Fetch
  <2>1. PICK list \in FetchLists : SetFetch(list)
    BY <1>7 DEF Fetch
  <2>2. UNCHANGED <<pk, rows, crashed, wire, got>> /\ up' = [up EXCEPT !.fetch = list]
    BY <1>7, <2>1 DEF Fetch, SetFetch
  <2>3. up' \in Reader
    BY <1>1, <2>2, UnpackAssumption DEF Reader
  <2> QED
    BY <1>1, <1>2, <1>3, <2>2, <2>3
<1>8. CASE UNCHANGED pvars
  BY <1>1, <1>2, <1>3, <1>8 DEF pvars
<1> QED
  BY <1>4, <1>5, <1>6, <1>7, <1>8 DEF PipeNext

LEMMA InitShapes ==
  ASSUME PipeInit
  PROVE  PipeShapes
<1>1. IInv
  BY InitFormed DEF PipeInit, IInv, Ready, Formed
<1>2. up \in Reader
  BY DEF PipeInit, UInit, InitReader, Reader, States, Errors, DefaultBucket
<1>3. got = <<>> /\ crashed = FALSE
  BY DEF PipeInit, UInit
<1>4. <<>> \in Seq(Delivery)
  OBVIOUS
<1> QED
  BY <1>1, <1>2, <1>3, <1>4 DEF PipeShapes

(***************************************************************************)
(* The channel of unpack.c keeps the shape declared for it, the rows it    *)
(* hands over are rows, and the packer's half keeps its shape beside it,   *)
(* through every frame parsed, record read, call, list and crash.          *)
(***************************************************************************)
THEOREM ReaderTypeCorrect == PipeSpec => []ReaderTypeOK
<1>1. PipeShapes => ReaderTypeOK
  BY DEF PipeShapes, ReaderTypeOK, IInv
<1>2. PipeInit => PipeShapes
  BY InitShapes
<1>3. PipeShapes /\ [PipeNext]_pvars => PipeShapes'
  BY StepShapes
<1> QED
  BY <1>1, <1>2, <1>3, PTL DEF PipeSpec

-----------------------------------------------------------------------------
(* A frame is taken off the file. *)

Shifted(h) ==
  [rec |-> h.rec, mark |-> h.mark, len |-> h.len,
   start |-> [n \in Nat |-> h.start[n + 1]], room |-> [n \in Nat |-> h.room[n + 1]]]

LEMMA ShiftedFields ==
  ASSUME NEW h \in Tape
  PROVE  LET x == Shifted(h)
         IN  /\ x \in Tape /\ x.len = h.len /\ x.rec = h.rec /\ x.mark = h.mark
             /\ \A n \in Nat : x.start[n] = h.start[n + 1] /\ x.room[n] = h.room[n + 1]
<1> DEFINE a == [n \in Nat |-> h.start[n + 1]]
           r == [n \in Nat |-> h.room[n + 1]]
<1>1. /\ h.rec \in [Nat -> Token] /\ h.mark \in [Nat -> Mark] /\ h.len \in Nat
      /\ h.start \in [Nat -> Nat] /\ h.room \in [Nat -> Nat]
  BY TapeFields
<1>2. a \in [Nat -> Nat] /\ r \in [Nat -> Nat]
  BY <1>1
<1>3. \A n \in Nat : a[n] = h.start[n + 1] /\ r[n] = h.room[n + 1]
  OBVIOUS
<1>4. Shifted(h) = [rec |-> h.rec, mark |-> h.mark, len |-> h.len, start |-> a, room |-> r]
  BY DEF Shifted
<1> HIDE DEF a, r
<1>5. Shifted(h) \in Tape
  BY <1>1, <1>2, <1>4 DEF Tape
<1> QED
  BY <1>3, <1>4, <1>5

(* The frames behind the first are as they were, one place to the front. *)
LEMMA ShiftedCut ==
  ASSUME NEW h \in Tape, NEW frames \in Seq(Frame), frames # <<>>, NEW bucket,
         Cut(h, frames, bucket)
  PROVE  Cut(Shifted(h), Tail(frames), bucket)
<1> DEFINE x == Shifted(h)
           T == Tail(frames)
           k == Len(frames) - 1
<1>1. /\ k \in Nat /\ Len(T) = k /\ Len(frames) = k + 1
      /\ \A i \in 1 .. k : T[i] = frames[i + 1]
  BY FileFields
<1>2. /\ x.len = h.len /\ x.rec = h.rec
      /\ \A n \in Nat : x.start[n] = h.start[n + 1]
  BY ShiftedFields
<1>3. /\ \A i \in 1 .. k + 1 :
            /\ h.start[i + 1] = h.start[i] + Span(frames[i])
            /\ frames[i].meta = "DATA" => Slice(h, frames[i].tokens, h.start[i])
      /\ \A i \in 1 .. k + 2 : h.start[i] <= h.len
      /\ h.start[k + 2] + Len(bucket) = h.len /\ Slice(h, bucket, h.start[k + 2])
  <2>1. Len(frames) + 1 = k + 2
    BY <1>1
  <2> HIDE DEF k
  <2> QED
    BY <1>1, <2>1 DEF Cut
<1> HIDE DEF x, T, k
<1>4. \A i \in 1 .. k : /\ i + 1 \in 1 .. k + 1 /\ i \in Nat /\ i + 1 \in Nat
  BY <1>1
<1>5. \A i \in 1 .. k + 1 : i + 1 \in 1 .. k + 2 /\ i \in Nat
  BY <1>1
<1>6. k + 1 \in Nat /\ (k + 1) + 1 = k + 2
  BY <1>1
<1>7. \A i \in 1 .. k : /\ x.start[i + 1] = x.start[i] + Span(T[i])
                        /\ T[i].meta = "DATA" => Slice(x, T[i].tokens, x.start[i])
  <2> TAKE i \in 1 .. k
  <2>1. x.start[i] = h.start[i + 1] /\ x.start[i + 1] = h.start[(i + 1) + 1]
    BY <1>2, <1>4
  <2>2. T[i] = frames[i + 1]
    BY <1>1
  <2>3. /\ h.start[(i + 1) + 1] = h.start[i + 1] + Span(frames[i + 1])
        /\ frames[i + 1].meta = "DATA" => Slice(h, frames[i + 1].tokens, h.start[i + 1])
    BY <1>3, <1>4
  <2> QED
    BY <1>2, <2>1, <2>2, <2>3 DEF Slice
<1>8. \A i \in 1 .. k + 1 : x.start[i] <= x.len
  BY <1>2, <1>3, <1>5
<1>9. x.start[k + 1] = h.start[k + 2]
  BY <1>2, <1>6
<1>10. x.start[k + 1] + Len(bucket) = x.len /\ Slice(x, bucket, x.start[k + 1])
  BY <1>2, <1>3, <1>9 DEF Slice
<1> QED
  BY <1>1, <1>7, <1>8, <1>10 DEF Cut, x, T

LEMMA ShiftedAnnounced ==
  ASSUME NEW h \in Tape, NEW frames \in Seq(Frame), frames # <<>>, NEW unheard, NEW size,
         Announced(h, frames, unheard, size)
  PROVE  Announced(Shifted(h), Tail(frames), unheard, size)
<1> DEFINE x == Shifted(h)
           T == Tail(frames)
           k == Len(frames) - 1
<1>1. /\ k \in Nat /\ Len(T) = k /\ Len(frames) = k + 1
      /\ \A i \in 1 .. k : T[i] = frames[i + 1]
  BY FileFields
<1>2. \A n \in Nat : x.room[n] = h.room[n + 1]
  BY ShiftedFields
<1>3. Len(frames) + 1 = k + 2
  BY <1>1
<1> HIDE DEF x, T, k
<1>4. \A i \in 1 .. k + 1 : h.room[i + 1] = RoomAfter(frames[i], h.room[i])
  BY <1>1 DEF Announced
<1>5. ~unheard => /\ \A i \in 1 .. k + 1 : frames[i].meta = "DATA" => frames[i].cap = h.room[i]
                  /\ h.room[k + 2] = size
  BY <1>1, <1>3 DEF Announced
<1>6. \A i \in 1 .. k : i + 1 \in 1 .. k + 1 /\ i \in Nat /\ i + 1 \in Nat
  BY <1>1
<1>7. k + 1 \in Nat /\ (k + 1) + 1 = k + 2
  BY <1>1
<1>8. \A i \in 1 .. k : x.room[i + 1] = RoomAfter(T[i], x.room[i])
  BY <1>1, <1>2, <1>4, <1>6
<1>9. ~unheard => /\ \A i \in 1 .. k : T[i].meta = "DATA" => T[i].cap = x.room[i]
                  /\ x.room[k + 1] = size
  <2> SUFFICES ASSUME ~unheard
               PROVE  /\ \A i \in 1 .. k : T[i].meta = "DATA" => T[i].cap = x.room[i]
                      /\ x.room[k + 1] = size
    OBVIOUS
  <2>1. ASSUME NEW i \in 1 .. k, T[i].meta = "DATA" PROVE T[i].cap = x.room[i]
    <3>1. T[i] = frames[i + 1] /\ x.room[i] = h.room[i + 1] /\ i + 1 \in 1 .. k + 1
      BY Zenon, <1>1, <1>2, <1>6
    <3> QED
      BY Zenon, <1>5, <2>1, <3>1
  <2>2. x.room[k + 1] = size
    BY Zenon, <1>2, <1>5, <1>7
  <2> QED
    BY Zenon, <2>1, <2>2
<1> QED
  BY <1>1, <1>8, <1>9 DEF Announced, x, T

(* The reader goes on where it was, with the frame's records before it. *)
LEMMA TakenFlow ==
  ASSUME NEW s, NEW frames \in Seq(Frame), frames # <<>>, NEW log, NEW closed, NEW u,
         u.block = <<>>, NEW h, Flow(s, frames, log, closed, u, h),
         NEW w, w.ts = u.ts, w.rowCounter = u.rowCounter, w.entries = u.entries,
         w.cacheSize = RoomAfter(Head(frames), u.cacheSize),
         w.block = IF Head(frames).meta = "DATA" THEN Head(frames).tokens ELSE <<>>
  PROVE  /\ Flow(s, Tail(frames), log, closed, w, Shifted(h))
         /\ Exact(s, log, closed, h) => Exact(s, log, closed, Shifted(h))
<1> DEFINE x == Shifted(h)
           f == Head(frames)
           T == Tail(frames)
<1>1. /\ h \in Tape /\ Written(h) /\ Cut(h, frames, s.bucket)
      /\ Announced(h, frames, s.unheard, s.cacheSize)
      /\ Follows(u, h) /\ EndsOnce(h, closed) /\ Holds(s, log, h.mark[h.len])
  BY DEF Flow
<1>2. /\ x \in Tape /\ x.len = h.len /\ x.rec = h.rec /\ x.mark = h.mark
      /\ x.start[1] = h.start[2] /\ x.room[1] = h.room[2]
  BY <1>1, ShiftedFields
<1>3. Cut(x, T, s.bucket) /\ Announced(x, T, s.unheard, s.cacheSize)
  BY <1>1, ShiftedCut, ShiftedAnnounced
<1>4. f = frames[1] /\ 1 \in 1 .. Len(frames)
  BY FileFields
<1>5. /\ h.start[2] = h.start[1] + Span(f) /\ h.room[2] = RoomAfter(f, h.room[1])
      /\ f.meta = "DATA" => Slice(h, f.tokens, h.start[1])
  <2>1. /\ h.start[1 + 1] = h.start[1] + Span(frames[1])
        /\ h.room[1 + 1] = RoomAfter(frames[1], h.room[1])
        /\ frames[1].meta = "DATA" => Slice(h, frames[1].tokens, h.start[1])
    BY <1>1, <1>4 DEF Cut, Announced
  <2> QED
    BY <1>4, <2>1
<1>6. PICK k \in Nat : /\ k + Len(u.block) = h.start[1] /\ Slice(h, u.block, k)
                       /\ Knows(u, h.mark[k]) /\ u.cacheSize = h.room[1]
  BY <1>1 DEF Follows
<1> HIDE DEF x, f, T
<1>7. k = h.start[1]
  BY <1>6
<1>8. k + Len(w.block) = x.start[1] /\ Slice(x, w.block, k)
  <2>1. CASE f.meta = "DATA"
    <3>1. w.block = f.tokens /\ Span(f) = Len(f.tokens)
      BY <2>1 DEF f, Span
    <3> QED
      BY <1>2, <1>5, <1>7, <2>1, <3>1 DEF Slice
  <2>2. CASE f.meta # "DATA"
    <3>1. w.block = <<>> /\ Span(f) = 0 /\ Len(<<>>) = 0
      BY <2>2 DEF f, Span
    <3> QED
      BY <1>2, <1>5, <1>7, <3>1 DEF Slice
  <2> QED
    BY <2>1, <2>2
<1>9. Knows(w, x.mark[k])
  BY <1>2, <1>6 DEF Knows
<1>10. w.cacheSize = x.room[1]
  BY <1>2, <1>5, <1>6 DEF f
<1>11. Follows(w, x)
  BY <1>8, <1>9, <1>10 DEF Follows
<1>12. Written(x) /\ EndsOnce(x, closed) /\ (Told(h, log) => Told(x, log))
  BY <1>1, <1>2 DEF Written, EndsOnce, Told
<1>13. Flow(s, T, log, closed, w, x)
  BY <1>1, <1>2, <1>3, <1>11, <1>12 DEF Flow
<1>14. Exact(s, log, closed, h) => Exact(s, log, closed, x)
  BY <1>2, <1>12 DEF Exact
<1> QED
  BY <1>13, <1>14 DEF x, T

-----------------------------------------------------------------------------
(* A record is read. *)

(* h is the pipe's tape, and k the reader's place on it. *)
Tied(h, k) ==
  /\ Flow(pk, wire, rows, Gone, up, h) /\ (PlainInputs => Exact(pk, rows, Gone, h))
  /\ k \in Nat /\ k + Len(up.block) = h.start[1] /\ Slice(h, up.block, k)
  /\ Knows(up, h.mark[k]) /\ up.cacheSize = h.room[1]

LEMMA StandingTied ==
  ASSUME Standing(Gone)
  PROVE  /\ \E h, k : Tied(h, k)
         /\ Formed(pk) /\ wire \in Seq(Frame) /\ rows \in Seq(Row) /\ up.block \in Seq(Token)
         /\ pk.sent = <<>> /\ wire \o pk.sent = wire
<1>1. /\ Formed(pk) /\ wire \in Seq(Frame) /\ rows \in Seq(Row) /\ up.block \in Seq(Token)
      /\ pk.sent = <<>> /\ Carries(pk, wire, rows, Gone, up)
  BY DEF Standing, Bears
<1>2. wire \o pk.sent = wire
  BY <1>1, ConcatEmptySeq
<1>3. PICK h : /\ Flow(pk, wire, rows, Gone, up, h)
               /\ PlainInputs => Exact(pk, rows, Gone, h)
  BY <1>1, <1>2 DEF Carries, Carried
<1>4. \E k \in Nat : Tied(h, k)
  BY <1>3 DEF Flow, Follows, Tied
<1> QED
  BY <1>1, <1>2, <1>4

(* A tape of the next state ties it. *)
LEMMA TiedStanding ==
  ASSUME Standing(Gone), UNCHANGED <<pk, rows>>, wire' \in Seq(Frame), up'.block \in Seq(Token),
         NEW h, Flow(pk, wire', rows, Gone, up', h), PlainInputs => Exact(pk, rows, Gone, h)
  PROVE  Standing(Gone)'
<1> DEFINE w == up'
           f == wire'
<1>1. Formed(pk) /\ rows \in Seq(Row) /\ pk.sent = <<>>
  BY StandingTied
<1>2. Gone' = Gone /\ pk' = pk /\ rows' = rows
  BY DEF Gone
<1>3. Flow(pk, f, rows, Gone, w, h) /\ f \in Seq(Frame) /\ w.block \in Seq(Token)
  OBVIOUS
<1>4. wire' = f /\ up' = w
  OBVIOUS
<1> HIDE DEF w, f
<1>5. f \o pk.sent = f
  BY <1>1, <1>3, ConcatEmptySeq
<1>6. Carried(pk, f, rows, Gone, w)
  BY <1>3 DEF Carried
<1>7. Carries(pk, f, rows, Gone, w)
  BY <1>5, <1>6 DEF Carries
<1>8. Bears(pk, f, rows, Gone, w)
  BY <1>1, <1>3, <1>7 DEF Bears
<1> QED
  BY <1>1, <1>2, <1>4, <1>8 DEF Standing

(* The next record, with the marks before and behind it. *)
LEMMA NextRecord ==
  ASSUME NEW h, NEW k, Tied(h, k), up.block \in Seq(Token), up.block # <<>>, wire \in Seq(Frame)
  PROVE  /\ h \in Tape /\ k + 1 \in 1 .. h.len /\ h.mark[k] \in Mark
         /\ Current \in Token /\ Current = h.rec[k + 1] /\ Legal(Current, h.mark[k])
         /\ h.mark[k + 1] = NextMark(Current, h.mark[k])
         /\ Tail(up.block) \in Seq(Token) /\ (k + 1) + Len(Tail(up.block)) = h.start[1]
         /\ Slice(h, Tail(up.block), k + 1)
<1> DEFINE b == up.block
           l == Len(b)
           n == h.len
           z == h.start[1]
<1>1. h \in Tape /\ Written(h) /\ Cut(h, wire, pk.bucket)
  BY DEF Tied, Flow
<1>2. n \in Nat /\ h.mark \in [Nat -> Mark] /\ z \in Nat
  BY <1>1, TapeFields
<1>3. z <= n
  <2>1. 1 \in 1 .. Len(wire) + 1
    OBVIOUS
  <2> QED
    BY <1>1, <2>1 DEF Cut
<1>4. /\ b \in Seq(Token) /\ l \in Nat /\ l >= 1 /\ Head(b) = b[1] /\ Head(b) \in Token
      /\ Tail(b) \in Seq(Token) /\ Len(Tail(b)) = l - 1
      /\ \A j \in 1 .. l - 1 : Tail(b)[j] = b[j + 1]
  OBVIOUS
<1>5. k \in Nat /\ k + l = z /\ \A j \in 1 .. l : b[j] = h.rec[k + j]
  BY DEF Tied, Slice
<1>6. Current = b[1]
  BY <1>4 DEF Current
<1> HIDE DEF b, l, n, z
<1>7. k + 1 \in 1 .. n /\ (k + 1) - 1 = k /\ 1 \in 1 .. l
  BY <1>2, <1>3, <1>4, <1>5
<1>8. Current = h.rec[k + 1] /\ Current \in Token
  BY <1>4, <1>5, <1>6, <1>7
<1>9. Legal(Current, h.mark[k]) /\ h.mark[k + 1] = NextMark(Current, h.mark[k])
  BY <1>1, <1>7, <1>8 DEF Written, n
<1>10. (k + 1) + Len(Tail(b)) = z
  <2> DEFINE r == Len(Tail(b))
  <2>1. r = l - 1
    BY <1>4
  <2> HIDE DEF r
  <2>2. (k + 1) + r = z
    BY <1>2, <1>4, <1>5, <2>1
  <2> QED
    BY <2>2 DEF r
<1>11. Slice(h, Tail(b), k + 1)
  <2>1. ASSUME NEW j \in 1 .. l - 1 PROVE Tail(b)[j] = h.rec[(k + 1) + j]
    <3>1. Tail(b)[j] = b[j + 1] /\ j + 1 \in 1 .. l /\ k + (j + 1) = (k + 1) + j
      BY <1>4, <1>5, <2>1
    <3> QED
      BY <1>5, <3>1
  <2> QED
    BY <1>4, <2>1 DEF Slice
<1>12. h.mark[k] \in Mark
  BY <1>2, <1>5
<1> QED
  BY <1>1, <1>4, <1>7, <1>8, <1>9, <1>10, <1>11, <1>12 DEF b, n, z

(* What parseBlock relies on. *)
LEMMA SafeRecord ==
  ASSUME NEW h, NEW k, Tied(h, k), up.block \in Seq(Token), up.block # <<>>, wire \in Seq(Frame)
  PROVE  /\ IsRow(Current) => InDictionary(Current.index)
         /\ Current.tok = "SHIFT_TIMESTAMP" => up.ts # TsNull
         /\ Current.tok = "EOF" => Current.arg = up.rowCounter
         /\ Current.tok = "RAWBUFFER" => \E v \in Values : v.type = "RAWBUFFER"
<1> DEFINE m == h.mark[k]
           t == Current
<1>1. Legal(t, m)
  BY NextRecord
<1>2. Knows(up, m)
  BY DEF Tied
<1>3. t \in Token
  BY NextRecord
<1> HIDE DEF m, t
<1>4. t.tok = "RAWBUFFER" => \E v \in Values : v.type = "RAWBUFFER"
  <2>1. SUFFICES ASSUME t.tok = "RAWBUFFER" PROVE t.value \in Values /\ t.value.type = "RAWBUFFER"
    OBVIOUS
  <2>2. HasValue(t)
    BY <2>1 DEF HasValue, ValueTypes
  <2>3. t.value \in Values /\ t.tok = Tag(t.value)
    BY <1>1, <1>3, <2>2, TokenFields DEF Legal
  <2> QED
    BY <2>1, <2>3 DEF Tag
<1> QED
  BY <1>1, <1>2, <1>4 DEF Legal, Knows, InDictionary, t

(* The EOF record stands behind the last row, and there only after the close. *)
LEMMA EofLast ==
  ASSUME NEW h, NEW k, Tied(h, k), up.block \in Seq(Token), up.block # <<>>, wire \in Seq(Frame),
         Current.tok = "EOF"
  PROVE  Gone /\ up.rowCounter = Len(rows)
<1> DEFINE m == h.mark[k]
           t == Current
           n == h.len
<1>1. /\ k + 1 \in 1 .. n /\ t \in Token /\ t = h.rec[k + 1]
      /\ h.mark[k + 1] = NextMark(t, m)
  BY NextRecord
<1>2. /\ EndsOnce(h, Gone) /\ Knows(up, m) /\ Holds(pk, rows, h.mark[n])
  BY DEF Tied, Flow
<1>3. t.tok = "EOF"
  OBVIOUS
<1> HIDE DEF m, t, n
<1>4. Gone /\ k + 1 = n
  BY <1>1, <1>2, <1>3 DEF EndsOnce, n
<1>5. ~IsRow(t)
  BY <1>1, <1>3, TokenFields
<1>6. h.mark[n].rows = m.rows
  BY <1>1, <1>4, <1>5 DEF NextMark
<1> QED
  BY <1>2, <1>4, <1>6 DEF Holds, Knows

(* The row a record stands for, as the reader sees it and as it was injected. *)
RowRead ==
  LET e == up.entries[Current.index + 1]
  IN  [time |-> up.ts, name |-> e.name, unit |-> e.unit,
       value |-> IF Current.tok = "UNMODIFIED" THEN e.value ELSE Current.value]

LEMMA RowTold ==
  ASSUME NEW h, NEW k, Tied(h, k), up.block \in Seq(Token), up.block # <<>>, wire \in Seq(Frame),
         IsRow(Current), PlainInputs
  PROVE  up.rowCounter < Len(rows) /\ SameRow(rows[up.rowCounter + 1], RowRead)
<1> DEFINE m == h.mark[k]
           t == Current
           i == t.index + 1
<1>1. /\ k + 1 \in 1 .. h.len /\ t \in Token /\ t = h.rec[k + 1] /\ Legal(t, m)
      /\ m \in Mark
  BY NextRecord
<1>2. Knows(up, m) /\ Told(h, rows) /\ k \in Nat
  BY DEF Tied, Exact
<1>3. IsRow(t)
  OBVIOUS
<1>4. Tells(rows, t, m)
  <2>1. (k + 1) - 1 = k
    BY <1>2
  <2> QED
    BY <1>1, <1>2, <2>1 DEF Told
<1> HIDE DEF m, t, i
<1>5. i \in 1 .. Len(m.entries)
  <2> DEFINE l == Len(m.entries)
  <2>1. t.index \in Nat /\ t.index < l /\ l \in Nat
    BY <1>1, <1>3, TokenFields, MarkFields DEF Legal
  <2> HIDE DEF l
  <2>2. t.index + 1 \in 1 .. l
    BY <2>1
  <2> QED
    BY <2>2 DEF l, i
<1>6. /\ up.entries[i].name = m.entries[i].name /\ up.entries[i].unit = m.entries[i].unit
      /\ up.entries[i].value = m.entries[i].value
      /\ up.ts = m.ts /\ up.rowCounter = m.rows
  BY <1>2, <1>5 DEF Knows
<1>7. RowRead = Decoded(t, m)
  BY <1>6 DEF RowRead, Decoded, t, i
<1> QED
  BY <1>3, <1>4, <1>6, <1>7 DEF Tells

(* Read, the record takes the reader to the next mark. *)
LEMMA Advances ==
  ASSUME Standing(Gone), UNCHANGED <<pk, wire, rows>>, up.block # <<>>,
         up'.block = Tail(up.block), up'.cacheSize = up.cacheSize,
         \A m \in Mark : Knows(up, m) /\ Legal(Current, m) => Knows(up', NextMark(Current, m))
  PROVE  Standing(Gone)'
<1>1. PICK h, k : Tied(h, k)
  BY StandingTied
<1>2. wire \in Seq(Frame) /\ up.block \in Seq(Token)
  BY StandingTied
<1> DEFINE m == h.mark[k]
<1>3. /\ m \in Mark /\ Legal(Current, m) /\ h.mark[k + 1] = NextMark(Current, m)
      /\ Tail(up.block) \in Seq(Token) /\ (k + 1) + Len(Tail(up.block)) = h.start[1]
      /\ Slice(h, Tail(up.block), k + 1)
  BY <1>1, <1>2, NextRecord
<1>4. /\ Flow(pk, wire, rows, Gone, up, h) /\ (PlainInputs => Exact(pk, rows, Gone, h))
      /\ k \in Nat /\ Knows(up, m) /\ up.cacheSize = h.room[1]
  BY <1>1 DEF Tied
<1>5. Knows(up', NextMark(Current, m))
  BY <1>3, <1>4
<1> HIDE DEF m
<1> DEFINE w == up'
<1>6. Knows(w, h.mark[k + 1]) /\ k + 1 \in Nat
  BY <1>3, <1>4, <1>5
<1>7. w.block = Tail(up.block) /\ w.cacheSize = h.room[1]
  BY <1>4
<1> HIDE DEF w
<1>8. Follows(w, h)
  BY <1>3, <1>6, <1>7 DEF Follows
<1>9. Flow(pk, wire, rows, Gone, w, h)
  BY <1>4, <1>8 DEF Flow
<1>10. Flow(pk, wire', rows, Gone, up', h) /\ wire' \in Seq(Frame) /\ up'.block \in Seq(Token)
  BY <1>2, <1>3, <1>9 DEF w
<1> QED
  BY <1>4, <1>10, TiedStanding

(* Its place on the tape is kept whatever else of the reader changes. *)
LEMMA SamePlace ==
  ASSUME Standing(Gone), UNCHANGED <<pk, wire, rows>>,
         up'.block = up.block, up'.cacheSize = up.cacheSize, up'.ts = up.ts,
         up'.rowCounter = up.rowCounter, up'.entries = up.entries
  PROVE  Standing(Gone)'
<1>1. PICK h, k : Tied(h, k)
  BY StandingTied
<1>2. wire \in Seq(Frame) /\ up.block \in Seq(Token)
  BY StandingTied
<1>3. Flow(pk, wire, rows, Gone, up, h) /\ (PlainInputs => Exact(pk, rows, Gone, h))
  BY <1>1 DEF Tied
<1> DEFINE w == up'
<1>4. /\ w.block = up.block /\ w.cacheSize = up.cacheSize
      /\ w.ts = up.ts /\ w.rowCounter = up.rowCounter /\ w.entries = up.entries
  OBVIOUS
<1> HIDE DEF w
<1>5. Follows(w, h)
  BY <1>3, <1>4 DEF Flow, Follows, Knows
<1>6. Flow(pk, wire, rows, Gone, w, h)
  BY <1>3, <1>5 DEF Flow
<1>7. Flow(pk, wire', rows, Gone, up', h) /\ wire' \in Seq(Frame) /\ up'.block \in Seq(Token)
  BY <1>2, <1>4, <1>6 DEF w
<1> QED
  BY <1>3, <1>7, TiedStanding

(* The dictionaries of reader and mark stay the same, entry for entry. *)
SameEntry(e, d) == e.name = d.name /\ e.unit = d.unit /\ e.value = d.value

LEMMA KnowsMore ==
  ASSUME NEW u \in Reader, NEW w, NEW t \in Token, NEW m \in Mark, Knows(u, m), Legal(t, m),
         w.ts = TsAfter(t, u.ts),
         w.rowCounter = IF IsRow(t) THEN u.rowCounter + 1 ELSE u.rowCounter,
         NEW e,
         t.tok = "NAME_ASSIGN" =>
           w.entries = Append(u.entries, e)
             /\ e.name = t.name /\ e.unit = t.unit /\ e.value = NoValue,
         HasValue(t) =>
           w.entries = [u.entries EXCEPT ![t.index + 1] = e]
             /\ SameEntry(e, WithValue(u.entries[t.index + 1], t.value)),
         t.tok # "NAME_ASSIGN" /\ ~HasValue(t) => w.entries = u.entries
  PROVE  Knows(w, NextMark(t, m))
<1> DEFINE E == u.entries
           D == m.entries
           x == NextMark(t, m)
           l == Len(D)
           i == t.index + 1
<1>1. /\ u.ts = m.ts /\ u.rowCounter = m.rows /\ Len(E) = l
      /\ \A j \in 1 .. l : SameEntry(E[j], D[j])
  BY DEF Knows, SameEntry
<1>2. /\ D \in Seq(Sensor) /\ l \in Nat /\ E \in Seq(UEntry)
  BY MarkFields, ReaderFields
<1>3. x.ts = w.ts /\ x.rows = w.rowCounter /\ x.entries = EntriesAfter(t, D)
  BY <1>1 DEF NextMark
<1> HIDE DEF x
<1>4. CASE t.tok = "NAME_ASSIGN"
  <2> DEFINE d == [name |-> t.name, unit |-> t.unit, value |-> NoValue]
  <2>1. x.entries = Append(D, d) /\ w.entries = Append(E, e)
    BY <1>3, <1>4 DEF EntriesAfter
  <2>2. SameEntry(e, d)
    BY <1>4 DEF SameEntry
  <2> HIDE DEF d, D, E, l
  <2>3. /\ Len(x.entries) = l + 1 /\ Len(w.entries) = l + 1
        /\ x.entries[l + 1] = d /\ w.entries[l + 1] = e
        /\ \A j \in 1 .. l : x.entries[j] = D[j] /\ w.entries[j] = E[j]
    BY <1>1, <1>2, <2>1 DEF l
  <2>4. \A j \in 1 .. l + 1 : j \in 1 .. l \/ j = l + 1
    BY <1>2
  <2>5. \A j \in 1 .. l + 1 : SameEntry(w.entries[j], x.entries[j])
    BY <1>1, <2>2, <2>3, <2>4
  <2>6. Knows(w, x)
    BY <1>3, <2>3, <2>5 DEF Knows, SameEntry
  <2> QED
    BY <2>6 DEF x
<1>5. CASE t.tok # "NAME_ASSIGN" /\ HasValue(t)
  <2> DEFINE d == WithValue(D[i], t.value)
  <2>1. x.entries = [D EXCEPT ![i] = d] /\ w.entries = [E EXCEPT ![i] = e]
    BY <1>3, <1>5 DEF EntriesAfter
  <2>2. IsRow(t) /\ t.index \in Nat /\ t.index < l
    BY <1>5, TokenFields DEF Legal
  <2> HIDE DEF l
  <2>3. i \in 1 .. l
    BY <1>2, <2>2
  <2>4. SameEntry(e, d)
    BY <1>1, <1>5, <2>3 DEF SameEntry, WithValue
  <2> HIDE DEF d, D, E, i
  <2>5. /\ Len(x.entries) = l /\ Len(w.entries) = l
        /\ x.entries[i] = d /\ w.entries[i] = e
        /\ \A j \in 1 .. l : j # i => x.entries[j] = D[j] /\ w.entries[j] = E[j]
    BY <1>1, <1>2, <2>1, <2>3 DEF l
  <2>6. \A j \in 1 .. l : SameEntry(w.entries[j], x.entries[j])
    BY <1>1, <2>4, <2>5
  <2>7. Knows(w, x)
    BY <1>3, <2>5, <2>6 DEF Knows, SameEntry
  <2> QED
    BY <2>7 DEF x
<1>6. CASE t.tok # "NAME_ASSIGN" /\ ~HasValue(t)
  <2>1. x.entries = D /\ w.entries = E
    BY <1>3, <1>6 DEF EntriesAfter
  <2>2. Knows(w, x)
    BY <1>1, <1>3, <2>1 DEF Knows, SameEntry
  <2> QED
    BY <2>2 DEF x
<1> QED
  BY <1>4, <1>5, <1>6

(* The fields parseBlock's step leaves, record by record. *)
LEMMA ReadAdvances ==
  ASSUME up \in Reader, Standing(Gone), UNCHANGED <<pk, rows>>, ReadRecord
  PROVE  Standing(Gone)' /\ up'.error = up.error
<1> DEFINE t == Current
           rest == Tail(up.block)
<1>1. up.block # <<>> /\ Consumed = [up EXCEPT !.block = rest] /\ wire' = wire
  BY DEF ReadRecord, ReadRow, ReadSetTimestamp, ReadShiftTimestamp, ReadNameAssign, ReadValue,
         ReadUnmodified, ReadRawBuffer, ReadEof, Reading, Consumed
<1>2. /\ up.entries \in Seq(UEntry) /\ t \in Token
  BY <1>1, ReaderFields, BlockFields DEF Current
<1>3. PICK h, k : Tied(h, k)
  BY StandingTied
<1>4. /\ wire \in Seq(Frame) /\ up.block \in Seq(Token)
  BY StandingTied
<1>5. /\ IsRow(t) => t.index < Len(up.entries)
      /\ t.tok = "EOF" => t.arg = up.rowCounter
  BY <1>1, <1>3, <1>4, SafeRecord DEF InDictionary
<1> HIDE DEF t, rest
<1>6. ASSUME up'.block = rest, up'.cacheSize = up.cacheSize,
             up'.ts = TsAfter(t, up.ts),
             up'.rowCounter = IF IsRow(t) THEN up.rowCounter + 1 ELSE up.rowCounter,
             NEW e,
             t.tok = "NAME_ASSIGN" =>
               up'.entries = Append(up.entries, e)
                 /\ e.name = t.name /\ e.unit = t.unit /\ e.value = NoValue,
             HasValue(t) =>
               up'.entries = [up.entries EXCEPT ![t.index + 1] = e]
                 /\ SameEntry(e, WithValue(up.entries[t.index + 1], t.value)),
             t.tok # "NAME_ASSIGN" /\ ~HasValue(t) => up'.entries = up.entries
      PROVE  Standing(Gone)'
  <2>1. ASSUME NEW m \in Mark, Knows(up, m), Legal(t, m) PROVE Knows(up', NextMark(t, m))
    BY <1>2, <1>6, <2>1, KnowsMore
  <2> QED
    BY <1>1, <1>6, <2>1, Advances DEF t, rest
<1>7. CASE ReadSetTimestamp
  <2>1. t.tok = "SET_TIMESTAMP"
    BY <1>7 DEF ReadSetTimestamp, Reading, t
  <2>2. up' = [up EXCEPT !.block = rest, !.ts = t.arg,
                         !.timeStart = IF up.timeStart = TsNull THEN t.arg ELSE up.timeStart]
    BY <1>1, <1>7 DEF ReadSetTimestamp, Reader, t
  <2>3. /\ up'.block = rest /\ up'.cacheSize = up.cacheSize /\ up'.error = up.error
        /\ up'.ts = t.arg /\ up'.rowCounter = up.rowCounter /\ up'.entries = up.entries
    BY <2>2 DEF Reader
  <2>4. ~IsRow(t) /\ ~HasValue(t) /\ up'.ts = TsAfter(t, up.ts)
    BY <1>2, <2>1, <2>3, TokenFields DEF TsAfter
  <2> QED
    BY <1>6, <2>1, <2>3, <2>4
<1>8. CASE ReadShiftTimestamp
  <2>1. t.tok = "SHIFT_TIMESTAMP"
    BY <1>8 DEF ReadShiftTimestamp, Reading, t
  <2>2. up' = [up EXCEPT !.block = rest, !.ts = up.ts + t.arg]
    BY <1>1, <1>8 DEF ReadShiftTimestamp, Reader, t
  <2>3. /\ up'.block = rest /\ up'.cacheSize = up.cacheSize /\ up'.error = up.error
        /\ up'.ts = up.ts + t.arg /\ up'.rowCounter = up.rowCounter /\ up'.entries = up.entries
    BY <2>2 DEF Reader
  <2>4. ~IsRow(t) /\ ~HasValue(t) /\ up'.ts = TsAfter(t, up.ts)
    BY <1>2, <2>1, <2>3, TokenFields DEF TsAfter
  <2> QED
    BY <1>6, <2>1, <2>3, <2>4
<1>9. CASE ReadNameAssign
  <2> DEFINE e == [name |-> t.name, unit |-> t.unit, value |-> NoValue,
                   ignore |-> ~IsFetchable(up.fetch, t.name)]
  <2>1. t.tok = "NAME_ASSIGN"
    BY <1>9 DEF ReadNameAssign, Reading, t
  <2>2. up' = [up EXCEPT !.block = rest, !.entries = Append(up.entries, e)]
    BY <1>1, <1>9 DEF ReadNameAssign, Reader, t
  <2>3. e.name = t.name /\ e.unit = t.unit /\ e.value = NoValue
    OBVIOUS
  <2> HIDE DEF e
  <2>4. /\ up'.block = rest /\ up'.cacheSize = up.cacheSize /\ up'.error = up.error
        /\ up'.ts = up.ts /\ up'.rowCounter = up.rowCounter
        /\ up'.entries = Append(up.entries, e)
    BY <2>2 DEF Reader
  <2>5. ~IsRow(t) /\ ~HasValue(t) /\ up'.ts = TsAfter(t, up.ts)
    BY <1>2, <2>1, <2>4, TokenFields DEF TsAfter
  <2> QED
    BY <1>6, <2>1, <2>3, <2>4, <2>5
<1>10. CASE ReadValue
  <2> DEFINE i == t.index + 1
             e == [up.entries[i] EXCEPT !.value = t.value]
             E == [up.entries EXCEPT ![i] = e]
  <2>1. HasValue(t) /\ IsRow(t) /\ t.tok # "NAME_ASSIGN"
    BY <1>10 DEF ReadValue, Reading, t, IsRow, HasValue, RowTags, ValueTypes, IntTypes, BoolTypes
  <2>2. up' = [up EXCEPT !.block = rest, !.entries = E, !.rowCounter = up.rowCounter + 1]
    BY <1>1, <1>10 DEF ReadValue, Reader, t
  <2>3. t.index \in Nat /\ t.value \in Values
    BY <1>2, <2>1, TokenFields
  <2>4. i \in 1 .. Len(up.entries)
    BY <1>2, <1>5, <2>1, <2>3
  <2>5. SameEntry(e, WithValue(up.entries[i], t.value))
    <3> DEFINE old == up.entries[i]
    <3>1. old \in UEntry
      BY <1>2, <2>4
    <3>2. e = [old EXCEPT !.value = t.value]
      OBVIOUS
    <3> HIDE DEF old, e
    <3>3. SameEntry(e, WithValue(old, t.value))
      BY <2>3, <3>1, <3>2 DEF UEntry, SameEntry, WithValue
    <3> QED
      BY <3>3 DEF old
  <2> HIDE DEF e
  <2>6. /\ up'.block = rest /\ up'.cacheSize = up.cacheSize /\ up'.error = up.error
        /\ up'.ts = up.ts /\ up'.rowCounter = up.rowCounter + 1
        /\ up'.entries = [up.entries EXCEPT ![t.index + 1] = e]
    BY <2>2 DEF Reader
  <2>7. up'.ts = TsAfter(t, up.ts)
    BY <1>2, <2>1, <2>6, TokenFields DEF TsAfter
  <2> QED
    BY <1>6, <2>1, <2>5, <2>6, <2>7
<1>11. CASE ReadUnmodified
  <2>1. t.tok = "UNMODIFIED"
    BY <1>11 DEF ReadUnmodified, Reading, t
  <2>2. IsRow(t) /\ ~HasValue(t)
    BY <2>1 DEF IsRow, RowTags, HasValue, ValueTypes, IntTypes, BoolTypes
  <2>3. up' = [up EXCEPT !.block = rest, !.rowCounter = up.rowCounter + 1]
    BY <1>1, <1>11 DEF ReadUnmodified, Reader
  <2>4. /\ up'.block = rest /\ up'.cacheSize = up.cacheSize /\ up'.error = up.error
        /\ up'.ts = up.ts /\ up'.rowCounter = up.rowCounter + 1 /\ up'.entries = up.entries
    BY <2>3 DEF Reader
  <2>5. up'.ts = TsAfter(t, up.ts)
    BY <1>2, <2>2, <2>4, TokenFields DEF TsAfter
  <2> QED
    BY <1>6, <2>1, <2>2, <2>4, <2>5
<1>12. CASE ReadRawBuffer
  <2>1. /\ up'.block = up.block /\ up'.cacheSize = up.cacheSize /\ up'.error = up.error
        /\ up'.ts = up.ts /\ up'.rowCounter = up.rowCounter /\ up'.entries = up.entries
    BY <1>12 DEF ReadRawBuffer, Reader
  <2> QED
    BY <1>1, <2>1, SamePlace
<1>13. CASE ReadEof
  <2>1. t.tok = "EOF"
    BY <1>13 DEF ReadEof, Reading, t
  <2>2. up' = [up EXCEPT !.block = rest, !.complete = TRUE]
    BY <1>1, <1>5, <1>13, <2>1 DEF ReadEof, Reader, t
  <2>3. /\ up'.block = rest /\ up'.cacheSize = up.cacheSize /\ up'.error = up.error
        /\ up'.ts = up.ts /\ up'.rowCounter = up.rowCounter /\ up'.entries = up.entries
    BY <2>2 DEF Reader
  <2>4. ~IsRow(t) /\ ~HasValue(t) /\ up'.ts = TsAfter(t, up.ts)
    BY <1>2, <2>1, <2>3, TokenFields DEF TsAfter
  <2> QED
    BY <1>6, <2>1, <2>3, <2>4
<1> QED
  BY <1>7, <1>8, <1>9, <1>10, <1>11, <1>12, <1>13 DEF ReadRecord, ReadRow

LEMMA ParseAdvances ==
  ASSUME up \in Reader, Standing(Gone), UNCHANGED <<pk, rows>>, Parse \/ ParseEnd
  PROVE  /\ ~up'.ended => Standing(Gone)'
         /\ up'.ended => up'.block = <<>>
         /\ up'.error = up.error \/ up'.error = "ZSTD"
<1> DEFINE f == Head(wire)
<1>1. /\ up.block = <<>> /\ ~up.ended /\ wire \in Seq(Frame)
  BY StandingTied DEF Parse, ParseEnd, ParseDefine, ParseIgnored, ParseChunk, ParseData,
                      ParseOversized, ParseTorn, AtFrame, Parsing
<1>2. ASSUME ParseOversized \/ ParseTorn \/ ParseEnd
      PROVE  up'.ended /\ up'.block = <<>> /\ (up'.error = up.error \/ up'.error = "ZSTD")
  <2>1. CASE ParseOversized
    BY <1>1, <2>1 DEF ParseOversized, Reader
  <2>2. CASE ParseTorn
    <3>1. CASE up' = [up EXCEPT !.ended = TRUE]
      BY <1>1, <3>1 DEF Reader
    <3>2. CASE up' = [up EXCEPT !.parentError = "EOF", !.parentState = "ON_ERROR", !.ended = TRUE]
      BY <1>1, <3>2 DEF Reader
    <3>3. CASE up' = [up EXCEPT !.error = "ZSTD", !.parentError = "ZSTD",
                                !.parentState = "ON_ERROR", !.ended = TRUE]
      BY <1>1, <3>3 DEF Reader
    <3> QED
      BY <2>2, <3>1, <3>2, <3>3 DEF ParseTorn
  <2>3. CASE ParseEnd
    BY <1>1, <2>3 DEF ParseEnd, Reader
  <2> QED
    BY <1>2, <2>1, <2>2, <2>3
<1>3. ASSUME ParseDefine \/ ParseIgnored \/ ParseChunk \/ ParseData
      PROVE  ~up'.ended /\ up'.error = up.error /\ Standing(Gone)'
  <2>1. wire # <<>> /\ wire' = Tail(wire)
    BY <1>3 DEF ParseDefine, ParseIgnored, ParseChunk, ParseData, AtFrame
  <2>2. /\ f \in Frame /\ Tail(wire) \in Seq(Frame)
    BY <1>1, <2>1, FileFields
  <2>3. /\ up'.ended = up.ended /\ up'.error = up.error /\ up'.ts = up.ts
        /\ up'.rowCounter = up.rowCounter /\ up'.entries = up.entries
        /\ up'.cacheSize = RoomAfter(f, up.cacheSize)
        /\ up'.block = IF f.meta = "DATA" THEN f.tokens ELSE <<>>
    <3>1. CASE ParseDefine
      BY <1>1, <3>1 DEF ParseDefine, AtFrame, Reader, RoomAfter
    <3>2. CASE ParseIgnored
      BY <1>1, <3>2 DEF ParseIgnored, AtFrame, Reader, RoomAfter
    <3>3. CASE ParseChunk
      BY <1>1, <3>3 DEF ParseChunk, AtFrame, Reader, RoomAfter
    <3>4. CASE ParseData
      BY <1>1, <3>4 DEF ParseData, AtFrame, Reader, RoomAfter
    <3> QED
      BY <1>3, <3>1, <3>2, <3>3, <3>4
  <2>4. PICK h, k : Tied(h, k)
    BY StandingTied
  <2>5. Flow(pk, wire, rows, Gone, up, h) /\ (PlainInputs => Exact(pk, rows, Gone, h))
    BY <2>4 DEF Tied
  <2> DEFINE w == up'
             g == Shifted(h)
  <2>6. /\ w.ts = up.ts /\ w.rowCounter = up.rowCounter /\ w.entries = up.entries
        /\ w.cacheSize = RoomAfter(Head(wire), up.cacheSize)
        /\ w.block = IF Head(wire).meta = "DATA" THEN Head(wire).tokens ELSE <<>>
    BY <2>3
  <2> HIDE DEF w, g
  <2>7. /\ Flow(pk, Tail(wire), rows, Gone, w, g)
        /\ Exact(pk, rows, Gone, h) => Exact(pk, rows, Gone, g)
    BY <1>1, <2>1, <2>5, <2>6, TakenFlow DEF g
  <2>8. up'.block \in Seq(Token)
    BY <2>2, <2>3, FrameFields
  <2>9. Flow(pk, wire', rows, Gone, up', g) /\ wire' \in Seq(Frame)
    BY <2>1, <2>2, <2>7 DEF w
  <2>10. Standing(Gone)'
    BY <2>5, <2>7, <2>8, <2>9, TiedStanding
  <2> QED
    BY <1>1, <2>3, <2>10
<1> QED
  BY <1>2, <1>3 DEF Parse

-----------------------------------------------------------------------------
(* The invariant of the pipe. *)

(* Where the reader is, until it stops: it never stops over a row count. *)
Tracked ==
  /\ ~up.ended => Standing(Gone)
  /\ up.ended => up.block = <<>>
  /\ up.error # "ROW_COUNT_MISMATCH"

PipeInv == PipeShapes /\ Tracked

LEMMA StepTracked ==
  ASSUME PipeInv, [PipeNext]_pvars
  PROVE  Tracked'
<1>1. up \in Reader /\ Tracked
  BY DEF PipeInv, PipeShapes
<1>2. CASE Write
  <2>1. Next /\ UNCHANGED up
    BY <1>2 DEF Write
  <2>2. ~up.ended => Standing(Gone)'
    BY <1>1, <2>1, StepStanding DEF Tracked
  <2> QED
    BY <1>1, <2>1, <2>2 DEF Tracked
<1>3. CASE Crash
  <2>1. UNCHANGED up
    BY <1>3 DEF Crash
  <2>2. ~up.ended => Standing(Gone)'
    BY <1>1, <1>3, CrashStanding DEF Tracked
  <2> QED
    BY <1>1, <2>1, <2>2 DEF Tracked
<1>4. CASE ReadFile
  <2>1. UNCHANGED <<pk, rows>>
    BY <1>4 DEF ReadFile
  <2>2. CASE Parse \/ ParseEnd
    <3>1. ~up.ended
      BY <2>2 DEF Parse, ParseEnd, ParseDefine, ParseIgnored, ParseChunk, ParseData,
                  ParseOversized, ParseTorn, AtFrame, Parsing
    <3> QED
      BY <1>1, <2>1, <2>2, <3>1, ParseAdvances DEF Tracked
  <2>3. CASE ReadRecord
    <3>1. ~up.ended
      BY <2>3 DEF ReadRecord, ReadRow, ReadSetTimestamp, ReadShiftTimestamp, ReadNameAssign,
                  ReadValue, ReadUnmodified, ReadRawBuffer, ReadEof, Reading
    <3>2. up'.ended = up.ended
      BY <1>1, <2>3
         DEF ReadRecord, ReadRow, ReadSetTimestamp, ReadShiftTimestamp, ReadNameAssign,
             ReadValue, ReadUnmodified, ReadRawBuffer, ReadEof, Consumed, Reader
    <3> QED
      BY <1>1, <2>1, <2>3, <3>1, <3>2, ReadAdvances DEF Tracked
  <2> QED
    BY <1>4, <2>2, <2>3 DEF ReadFile
<1>5. CASE Fetch
  <2>1. PICK list \in FetchLists : SetFetch(list)
    BY <1>5 DEF Fetch
  <2>2. UNCHANGED <<pk, wire, rows>> /\ up' = [up EXCEPT !.fetch = list]
    BY <1>5, <2>1 DEF Fetch, SetFetch
  <2>3. /\ up'.block = up.block /\ up'.cacheSize = up.cacheSize /\ up'.ts = up.ts
        /\ up'.rowCounter = up.rowCounter /\ up'.entries = up.entries
        /\ up'.ended = up.ended /\ up'.error = up.error
    BY <1>1, <2>2 DEF Reader
  <2>4. ~up.ended => Standing(Gone)'
    BY <1>1, <2>2, <2>3, SamePlace DEF Tracked
  <2> QED
    BY <1>1, <2>3, <2>4 DEF Tracked
<1>6. CASE UNCHANGED pvars
  <2>1. UNCHANGED <<pk, wire, rows, up>>
    BY <1>6 DEF pvars
  <2>2. ~up.ended => Standing(Gone)'
    BY <1>1, <2>1, SamePlace DEF Tracked
  <2> QED
    BY <1>1, <2>1, <2>2 DEF Tracked
<1> QED
  BY <1>2, <1>3, <1>4, <1>5, <1>6 DEF PipeNext

LEMMA PipeInductive == PipeSpec => []PipeInv
<1>1. PipeInit => PipeInv
  <2> SUFFICES ASSUME PipeInit PROVE PipeInv
    OBVIOUS
  <2>1. PipeShapes /\ Standing(Gone)
    BY InitShapes, InitStanding
  <2>2. up.ended = FALSE /\ up.error = "NONE"
    BY DEF PipeInit, UInit, InitReader
  <2> QED
    BY <2>1, <2>2 DEF PipeInv, Tracked
<1>2. PipeInv /\ [PipeNext]_pvars => PipeInv'
  BY StepShapes, StepTracked DEF PipeInv
<1> QED
  BY <1>1, <1>2, PTL DEF PipeSpec

(* Without a raw buffer the reader is always at the beginning of a record. *)
NoRawBuffers == \A v \in Values : v.type # "RAWBUFFER"

LEMMA NeverAstray ==
  ASSUME NoRawBuffers
  PROVE  PipeSpec => []~up.astray
<1>1. PipeInit => ~up.astray
  BY DEF PipeInit, UInit, InitReader
<1>2. PipeInv /\ ~up.astray /\ [PipeNext]_pvars => (~up.astray)'
  <2> SUFFICES ASSUME PipeInv, ~up.astray, [PipeNext]_pvars PROVE ~up'.astray
    OBVIOUS
  <2>1. ~ReadRawBuffer
    <3> SUFFICES ASSUME Reading({"RAWBUFFER"}) PROVE FALSE
      BY DEF ReadRawBuffer
    <3>1. Standing(Gone)
      BY DEF PipeInv, Tracked, Reading
    <3>2. PICK h, k : Tied(h, k)
      BY <3>1, StandingTied
    <3> QED
      BY <3>1, <3>2, StandingTied, SafeRecord DEF Reading, NoRawBuffers
  <2>2. up \in Reader
    BY DEF PipeInv, PipeShapes
  <2>3. CASE UNCHANGED up
    BY <2>3
  <2>4. CASE Parse \/ ParseEnd
    BY <2>2, <2>4 DEF Parse, ParseEnd, ParseDefine, ParseIgnored, ParseChunk, ParseData,
       ParseOversized, ParseTorn, Reader
  <2>5. CASE ReadRecord
    BY <2>1, <2>2, <2>5 DEF ReadRecord, ReadSetTimestamp, ReadShiftTimestamp, ReadNameAssign,
       ReadRow, ReadValue, ReadUnmodified, ReadEof, Consumed, Reader
  <2>6. CASE \E list \in FetchLists : SetFetch(list)
    BY <2>2, <2>6 DEF SetFetch, Reader
  <2> QED
    BY <2>3, <2>4, <2>5, <2>6 DEF PipeNext, Write, Crash, ReadFile, Fetch, pvars
<1> QED
  BY <1>1, <1>2, PipeInductive, PTL DEF PipeSpec

(***************************************************************************)
(* Whatever was refused, retried, resized or lost, every record the reader *)
(* comes to is one it can read: parseBlock, which tests for neither, never *)
(* follows an index that its dictionary does not hold nor shifts a         *)
(* timestamp that was never set.  A raw buffer is excluded: read_rawbuffer *)
(* skips a wrong number of bytes, and what it takes for a record then is   *)
(* anything.  Without one the reader never goes astray.                    *)
(***************************************************************************)
THEOREM ReadsStayInside ==
  ASSUME NoRawBuffers
  PROVE  PipeSpec => [](NoWildRead /\ ~up.astray)
<1>1. PipeInv => NoWildRead
  <2> SUFFICES ASSUME PipeInv, up.block # <<>>
               PROVE  /\ IsRow(Current) => InDictionary(Current.index)
                      /\ Current.tok = "SHIFT_TIMESTAMP" => up.ts # TsNull
    BY DEF NoWildRead
  <2>1. Standing(Gone)
    BY DEF PipeInv, Tracked
  <2>2. PICK h, k : Tied(h, k)
    BY <2>1, StandingTied
  <2> QED
    BY <2>1, <2>2, StandingTied, SafeRecord
<1> QED
  BY <1>1, NeverAstray, PipeInductive, PTL

(***************************************************************************)
(* The EOF record that close writes agrees with the rows read_eof has      *)
(* counted, on every file, torn or whole: ROW_COUNT_MISMATCH never blames  *)
(* a file without raw buffers that pack.c wrote.                           *)
(***************************************************************************)
THEOREM CountsAgree ==
  ASSUME NoRawBuffers
  PROVE  PipeSpec => [](CountAgrees /\ ~up.astray)
<1>1. PipeInv => CountAgrees
  BY DEF PipeInv, Tracked, CountAgrees
<1> QED
  BY <1>1, NeverAstray, PipeInductive, PTL

(***************************************************************************)
(* A data frame finds the reader's buffers as large as the bucket it was   *)
(* filled in, whatever resizes lie between them in the file, provided each *)
(* resize's announcement was written.                                      *)
(***************************************************************************)
THEOREM BuffersFit == PipeSpec => []ReaderFits
<1>1. PipeInv => ReaderFits
  <2> SUFFICES ASSUME PipeInv, AtFrame("DATA"), ~pk.unheard
               PROVE  Head(wire).cap <= up.cacheSize
    BY DEF ReaderFits
  <2>1. Standing(Gone) /\ up \in Reader
    BY DEF PipeInv, PipeShapes, Tracked, AtFrame, Parsing
  <2>2. PICK h, k : Tied(h, k)
    BY <2>1, StandingTied
  <2>3. wire \in Seq(Frame) /\ wire # <<>> /\ Head(wire).meta = "DATA"
    BY <2>1, StandingTied DEF AtFrame
  <2>4. Head(wire) = wire[1] /\ 1 \in 1 .. Len(wire)
    BY <2>3, FileFields
  <2>5. Announced(h, wire, pk.unheard, pk.cacheSize) /\ up.cacheSize = h.room[1]
    BY <2>2 DEF Tied, Flow
  <2>6. Head(wire).cap = up.cacheSize
    BY <2>3, <2>4, <2>5 DEF Announced
  <2>7. up.cacheSize \in Nat
    BY <2>1, ReaderFields
  <2> QED
    BY <2>6, <2>7
<1> QED
  BY <1>1, PipeInductive, PTL

-----------------------------------------------------------------------------
(* What a step of the pipe shows of itself. *)

LEMMA FlushedHandle ==
  ASSUME NEW s \in Channel, NEW r
  PROVE  ChannelFlushed(s, r).handle = s.handle
<1>1. CASE r = "ok"
  BY <1>1 DEF ChannelFlushed, Channel
<1>2. CASE r # "ok"
  BY <1>2 DEF ChannelFlushed, Channel
<1> QED
  BY <1>1, <1>2

LEMMA FlushableHandle ==
  ASSUME NEW s \in Channel, NEW f \in FlushIfFlushable(s)
  PROVE  f.handle = s.handle
<1>1. f = s \/ \E r \in FlushResults : f = ChannelFlushed(s, r)
  BY DEF FlushIfFlushable, ChannelFlush
<1> QED
  BY <1>1, FlushedHandle

LEMMA WriteHandle ==
  ASSUME NEW s \in Channel, NEW n, NEW u, NEW v, NEW w \in WriteRow(s, n, u, v)
  PROVE  w.handle = s.handle
<1>1. CASE w = WriteNew(s, n, u, v)
  BY <1>1 DEF WriteNew, Put, Channel
<1>2. CASE w = WriteChanged(s, n, v)
  BY <1>2 DEF WriteChanged, Put, Channel
<1>3. CASE w = WriteUnmodified(s, n)
  BY <1>3 DEF WriteUnmodified, Put, Channel
<1> QED
  BY <1>1, <1>2, <1>3 DEF WriteRow

(* An accepted row leaves the handle as it is. *)
LEMMA InjectLive ==
  ASSUME Ready, NEW t \in Times, NEW n \in Names, NEW u \in Units, NEW v \in Values,
         Inject(t, n, u, v)
  PROVE  pk'.handle = pk.handle
<1>1. PICK stamped \in TsHandler(pk, t) :
        \E written \in WriteRow(MadeRoom(stamped, v), n, u, v) :
          \E done \in FlushIfFlushable(CountRow(written)) : Return(done)
  BY DEF Inject
<1> DEFINE m == MadeRoom(stamped, v)
<1>2. PICK written \in WriteRow(m, n, u, v) :
        \E done \in FlushIfFlushable(CountRow(written)) : Return(done)
  BY <1>1
<1>3. PICK done \in FlushIfFlushable(CountRow(written)) : Return(done)
  BY <1>2
<1>4. Formed(stamped) /\ Kept(pk, stamped)
  BY StampedFormed DEF Ready, Inject
<1>5. Formed(m) /\ Kept(stamped, m)
  BY <1>4, RoomFormed
<1>6. m.handle = stamped.handle
  BY <1>4, FlushedHandle DEF MadeRoom, Formed
<1> HIDE DEF m
<1>7. stamped.handle = pk.handle
  <2>1. CASE pk.ts = Tick(t)
    BY <2>1 DEF TsHandler
  <2>2. CASE pk.ts # Tick(t)
    <3> DEFINE x == IF pk.ts = TsNull THEN SetTimestamp(pk, t) ELSE ShiftTimestamp(pk, t)
    <3>1. pk \in Channel /\ t \in Nat /\ Tick(t) \in Nat
      BY PackAssumption, TickNat DEF Ready, Formed
    <3>2. x.handle = pk.handle /\ stamped \in FlushIfFlushable(x)
      BY <2>2, <3>1 DEF TsHandler, SetTimestamp, ShiftTimestamp, Put, Channel
    <3>3. stamped = x \/ \E r \in FlushResults : stamped = ChannelFlushed(x, r)
      BY <3>2 DEF FlushIfFlushable, ChannelFlush
    <3>4. \A r : ChannelFlushed(x, r).handle = x.handle
      BY <3>1 DEF ChannelFlushed, SetTimestamp, ShiftTimestamp, Put, Channel
    <3> HIDE DEF x
    <3> QED
      BY <3>2, <3>3, <3>4
  <2> QED
    BY <2>1, <2>2
<1>8. Formed(written)
  <2>1. ~NameRejected(m, n, u)
    BY <1>4, <1>5 DEF Inject, NameRejected, Kept
  <2> QED
    BY <1>5, <2>1, RowFormed
<1>9. written.handle = m.handle
  BY <1>5, WriteHandle DEF Formed
<1>10. Formed(CountRow(written)) /\ CountRow(written).handle = written.handle
  BY <1>8, CountFormed DEF Formed, CountRow, Channel
<1>11. done.handle = CountRow(written).handle /\ done \in Channel
  BY <1>10, FlushableHandle, FlushableFormed DEF Formed
<1> QED
  BY <1>3, <1>6, <1>7, <1>9, <1>10, <1>11 DEF Return, Channel

(* The log grows by a row at its end, while the channel is there, or stays. *)
LEMMA RowsGrow ==
  ASSUME PipeInv, [PipeNext]_pvars
  PROVE  \/ UNCHANGED rows
         \/ /\ \E r \in Row : rows' = Append(rows, r)
            /\ ~Gone /\ ~Gone' /\ UNCHANGED <<up, got>>
<1>1. Ready
  BY DEF PipeInv, PipeShapes, IInv, TypeOK, Ready, Formed
<1>2. ASSUME NEW t \in Times, NEW v \in Values, NEW n \in Names, NEW u \in Units,
             Inject(t, n, u, v), Write
      PROVE  /\ \E r \in Row : rows' = Append(rows, r)
             /\ ~Gone /\ ~Gone' /\ UNCHANGED <<up, got>>
  <2>1. [time |-> Tick(t), name |-> n, unit |-> u, value |-> v] \in Row
    BY TickNat DEF Row
  <2>2. pk'.handle = pk.handle /\ pk.handle = "live"
    BY <1>1, <1>2, InjectLive DEF Inject, Callable
  <2> QED
    BY <1>2, <2>1, <2>2 DEF Inject, Write, Gone
<1>3. ASSUME ~(\E t \in Times, v \in Values, n \in Names, u \in Units : Inject(t, n, u, v)), Write
      PROVE  UNCHANGED rows
  BY <1>3 DEF Write, Next, InjectLongName, InjectBadTimestamp, InjectLongString, InjectNoRoom,
              Resize, ResizeRefused, Flush, Close, Spill
<1>4. CASE Write
  BY <1>2, <1>3, <1>4
<1>5. CASE ~Write
  BY <1>5 DEF PipeNext, Crash, ReadFile, Fetch, pvars
<1> QED
  BY <1>4, <1>5

(* The four things a step of the reading side can do to what its caller sees. *)
Quiet ==
  /\ up'.entries = up.entries /\ up'.rowCounter = up.rowCounter /\ up'.fetch = up.fetch
  /\ up'.complete = up.complete /\ got' = got

Meets ==   \* a sensor is named
  /\ \E e : /\ up'.entries = Append(up.entries, e)
            /\ e.ignore = ~IsFetchable(up.fetch, e.name)
  /\ up'.rowCounter = up.rowCounter /\ up'.fetch = up.fetch
  /\ up'.complete = up.complete /\ got' = got

Hands ==   \* a row is read
  LET i == Current.index + 1
  IN  /\ up.block # <<>> /\ ~up.ended /\ IsRow(Current) /\ i \in 1 .. Len(up.entries)
      /\ got' = IF up.entries[i].ignore /\ up.fetch # {} THEN got ELSE Append(got, RowRead)
      /\ RowRead \in Delivery
      /\ Len(up'.entries) = Len(up.entries)
      /\ \A j \in 1 .. Len(up.entries) :
           /\ up'.entries[j].name = up.entries[j].name
           /\ up'.entries[j].ignore = up.entries[j].ignore
      /\ up'.rowCounter = up.rowCounter + 1 /\ up'.fetch = up.fetch
      /\ up'.complete = up.complete

Ends ==    \* the EOF record is read
  /\ up.block # <<>> /\ ~up.ended /\ Current.tok = "EOF"
  /\ up'.entries = up.entries /\ up'.rowCounter = up.rowCounter /\ up'.fetch = up.fetch
  /\ up'.complete = TRUE /\ got' = got

LEMMA RowHands ==
  ASSUME up \in Reader, ReadRow
  PROVE  Hands
<1> DEFINE t == Current
           rest == Tail(up.block)
           i == t.index + 1
           old == up.entries[i]
           e == [old EXCEPT !.value = RowRead.value]
           n == up.rowCounter + 1
           E == [up.entries EXCEPT ![i] = e]
<1>1. /\ up.block # <<>> /\ ~up.ended /\ t.tok \in ValueTypes \cup {"SMALL", "UNMODIFIED"}
      /\ t.index < Len(up.entries)
  BY DEF ReadRow, ReadValue, ReadUnmodified, Reading, InDictionary
<1>2. t \in Token /\ up.entries \in Seq(UEntry) /\ up.ts \in Nat \cup {TsNull} /\ n \in Nat
  BY <1>1, ReaderFields, BlockFields DEF Current
<1>3. IsRow(t) /\ (t.tok # "UNMODIFIED" => HasValue(t))
  BY <1>1 DEF IsRow, RowTags, HasValue
<1>4. i \in 1 .. Len(up.entries)
  BY <1>1, <1>2, <1>3, TokenFields
<1>5. old \in UEntry
  BY <1>2, <1>4
<1>6. RowRead = [time |-> up.ts, name |-> old.name, unit |-> old.unit,
                 value |-> IF t.tok = "UNMODIFIED" THEN old.value ELSE t.value]
  BY DEF RowRead
<1>7. t.tok # "UNMODIFIED" => t.value \in Values
  BY <1>2, <1>3, TokenFields
<1> HIDE DEF t, i, old, n, rest
<1>8. RowRead \in Delivery
  BY <1>2, <1>5, <1>6, <1>7 DEF UEntry, Delivery
<1>9. /\ e \in UEntry /\ e.name = old.name /\ e.unit = old.unit /\ e.ignore = old.ignore
      /\ e.value = RowRead.value
      /\ t.tok = "UNMODIFIED" => e = old
      /\ t.tok # "UNMODIFIED" => e = [old EXCEPT !.value = t.value]
  BY <1>5, <1>6, <1>7 DEF UEntry
<1>10. got' = Delivered(e)
  BY <1>1, <1>9 DEF ReadRow, ReadValue, ReadUnmodified, Reading, t, i, old,
                    ValueTypes, IntTypes, BoolTypes
<1>11. [time |-> up.ts, name |-> e.name, unit |-> e.unit, value |-> e.value] = RowRead
  BY <1>6, <1>9
<1>12. got' = IF old.ignore /\ up.fetch # {} THEN got ELSE Append(got, RowRead)
  BY <1>9, <1>10, <1>11 DEF Delivered
<1> HIDE DEF e
<1>13. up'.entries = up.entries \/ up'.entries = E
  <2>1. CASE ReadValue
    <3>1. up' = [up EXCEPT !.block = rest, !.entries = E, !.rowCounter = n]
      BY <1>9, <2>1 DEF ReadValue, Consumed, Reading, Reader, t, i, old, rest, n,
                        ValueTypes, IntTypes, BoolTypes
    <3> HIDE DEF E
    <3> QED
      BY <3>1 DEF Reader
  <2>2. CASE ReadUnmodified
    BY <2>2 DEF ReadUnmodified, Consumed, Reader
  <2> QED
    BY <2>1, <2>2 DEF ReadRow
<1>14. up'.rowCounter = n /\ up'.fetch = up.fetch /\ up'.complete = up.complete
  BY DEF ReadRow, ReadValue, ReadUnmodified, Consumed, Reader, n
<1>15. /\ Len(E) = Len(up.entries)
       /\ \A j \in 1 .. Len(up.entries) :
            E[j].name = up.entries[j].name /\ E[j].ignore = up.entries[j].ignore
  <2>1. E \in Seq(UEntry) /\ Len(E) = Len(up.entries)
    BY <1>2, <1>4, <1>9
  <2>2. ASSUME NEW j \in 1 .. Len(up.entries)
        PROVE  E[j].name = up.entries[j].name /\ E[j].ignore = up.entries[j].ignore
    <3>1. CASE j = i
      BY <1>2, <1>4, <1>9, <3>1 DEF old
    <3>2. CASE j # i
      BY <1>2, <2>2, <3>2
    <3> QED
      BY <3>1, <3>2
  <2> QED
    BY <2>1, <2>2
<1> HIDE DEF E
<1>16. /\ Len(up'.entries) = Len(up.entries)
       /\ \A j \in 1 .. Len(up.entries) :
            /\ up'.entries[j].name = up.entries[j].name
            /\ up'.entries[j].ignore = up.entries[j].ignore
  BY <1>13, <1>15
<1> QED
  BY <1>1, <1>3, <1>4, <1>8, <1>12, <1>14, <1>16 DEF Hands, t, i, old, n

LEMMA ReaderStep ==
  ASSUME PipeInv, ReadFile
  PROVE  (Quiet \/ Meets \/ Hands \/ Ends) /\ UNCHANGED <<pk, rows>>
<1>1. up \in Reader /\ UNCHANGED <<pk, rows>>
  BY DEF PipeInv, PipeShapes, ReadFile
<1>2. CASE Parse \/ ParseEnd
  <2>1. got' = got
    BY <1>2 DEF Parse, ParseEnd, ParseDefine, ParseIgnored, ParseChunk, ParseData,
                ParseOversized, ParseTorn
  <2>2. /\ up'.entries = up.entries /\ up'.rowCounter = up.rowCounter /\ up'.fetch = up.fetch
        /\ up'.complete = up.complete
    <3>1. CASE ParseTorn
      <4>1. CASE up' = [up EXCEPT !.ended = TRUE]
        BY <1>1, <4>1 DEF Reader
      <4>2. CASE up' = [up EXCEPT !.parentError = "EOF", !.parentState = "ON_ERROR",
                                  !.ended = TRUE]
        BY <1>1, <4>2 DEF Reader
      <4>3. CASE up' = [up EXCEPT !.error = "ZSTD", !.parentError = "ZSTD",
                                  !.parentState = "ON_ERROR", !.ended = TRUE]
        BY <1>1, <4>3 DEF Reader
      <4> QED
        BY <3>1, <4>1, <4>2, <4>3 DEF ParseTorn
    <3>2. CASE ~ParseTorn
      BY Zenon, <1>1, <1>2, <3>2
         DEF Parse, ParseEnd, ParseDefine, ParseIgnored, ParseChunk, ParseData, ParseOversized,
             Reader
    <3> QED
      BY <3>1, <3>2
  <2> QED
    BY <1>1, <2>1, <2>2 DEF Quiet
<1>3. CASE ReadSetTimestamp \/ ReadShiftTimestamp \/ ReadRawBuffer
  BY Zenon, <1>1, <1>3 DEF ReadSetTimestamp, ReadShiftTimestamp, ReadRawBuffer, Consumed, Reader, Quiet
<1>4. CASE ReadNameAssign
  <2> DEFINE e == [name |-> Current.name, unit |-> Current.unit, value |-> NoValue,
                   ignore |-> ~IsFetchable(up.fetch, Current.name)]
  <2>1. up' = [up EXCEPT !.block = Tail(up.block), !.entries = Append(up.entries, e)]
        /\ got' = got
    BY <1>1, <1>4 DEF ReadNameAssign, Consumed, Reader
  <2>2. e.ignore = ~IsFetchable(up.fetch, e.name)
    OBVIOUS
  <2> HIDE DEF e
  <2>3. /\ up'.entries = Append(up.entries, e) /\ up'.rowCounter = up.rowCounter
        /\ up'.fetch = up.fetch /\ up'.complete = up.complete
    BY <1>1, <2>1 DEF Reader
  <2> QED
    BY <1>1, <2>1, <2>2, <2>3 DEF Meets
<1>5. CASE ReadRow
  BY <1>1, <1>5, RowHands
<1>6. CASE ReadEof
  <2>1. up.block # <<>> /\ ~up.ended /\ Current.tok = "EOF" /\ got' = got
    BY <1>6 DEF ReadEof, Reading
  <2>2. Current.arg = up.rowCounter
    <3>1. Standing(Gone)
      BY <2>1 DEF PipeInv, Tracked
    <3>2. PICK h, k : Tied(h, k)
      BY <3>1, StandingTied
    <3> QED
      BY <2>1, <3>1, <3>2, StandingTied, SafeRecord
  <2>3. up' = [up EXCEPT !.block = Tail(up.block), !.complete = TRUE]
    BY <1>1, <1>6, <2>2 DEF ReadEof, Consumed, Reader
  <2>4. /\ up'.entries = up.entries /\ up'.rowCounter = up.rowCounter /\ up'.fetch = up.fetch
        /\ up'.complete = TRUE
    BY <1>1, <2>3 DEF Reader
  <2> QED
    BY <1>1, <2>1, <2>4 DEF Ends
<1> QED
  BY <1>2, <1>3, <1>4, <1>5, <1>6 DEF ReadFile, ReadRecord

(* A fetch list, set where the caller may set one. *)
Chooses ==
  /\ LateFetch \/ up.entries = <<>>
  /\ up'.fetch \in FetchLists
  /\ up'.entries = up.entries /\ up'.rowCounter = up.rowCounter
  /\ up'.complete = up.complete /\ got' = got

LEMMA FetchStep ==
  ASSUME PipeInv, Fetch
  PROVE  Chooses /\ UNCHANGED <<pk, rows>>
<1>1. PICK list \in FetchLists : SetFetch(list)
  BY DEF Fetch
<1>2. up \in Reader /\ up' = [up EXCEPT !.fetch = list]
  BY <1>1 DEF PipeInv, PipeShapes, SetFetch
<1> QED
  BY <1>1, <1>2 DEF Fetch, SetFetch, Chooses, Reader

(* The rest leaves the reader alone. *)
LEMMA StepKinds ==
  ASSUME PipeInv, [PipeNext]_pvars
  PROVE  \/ (Quiet \/ Meets \/ Hands \/ Ends \/ Chooses) /\ UNCHANGED <<pk, rows>>
         \/ UNCHANGED <<up, got>>
<1>1. CASE Write \/ Crash \/ UNCHANGED pvars
  BY <1>1 DEF Write, Crash, pvars
<1> QED
  BY <1>1, ReaderStep, FetchStep DEF PipeNext

-----------------------------------------------------------------------------
(* The fetch list. *)

(* Rows come after names; with no late list, a sensor is ignored by today's list. *)
ListInv ==
  /\ up.rowCounter = 0 \/ up.entries # <<>>
  /\ ~LateFetch =>
       \A i \in 1 .. Len(up.entries) :
         up.entries[i].ignore = ~IsFetchable(up.fetch, up.entries[i].name)

LEMMA StepList ==
  ASSUME PipeInv, ListInv, [PipeNext]_pvars
  PROVE  ListInv'
<1>0. up.entries \in Seq(UEntry) /\ Len(up.entries) \in Nat
  <2>1. up.entries \in Seq(UEntry)
    BY ReaderFields DEF PipeInv, PipeShapes
  <2> QED
    BY <2>1
<1>1. CASE Quiet
  BY <1>1 DEF Quiet, ListInv
<1>2. CASE Meets
  <2>1. PICK e : /\ up'.entries = Append(up.entries, e)
                 /\ e.ignore = ~IsFetchable(up.fetch, e.name)
    BY <1>2 DEF Meets
  <2> DEFINE E == up.entries
             F == up'.entries
             l == Len(E)
  <2>2. /\ F = Append(E, e) /\ l \in Nat
    BY <1>0, <2>1
  <2>3. /\ Len(F) = l + 1 /\ F[l + 1] = e /\ \A i \in 1 .. l : F[i] = E[i]
    BY <1>0, <2>2
  <2>4. up'.fetch = up.fetch
    BY <1>2 DEF Meets
  <2>5. ~LateFetch => \A i \in 1 .. l : E[i].ignore = ~IsFetchable(up.fetch, E[i].name)
    BY DEF ListInv
  <2> HIDE DEF E, F, l
  <2>6. \A i \in 1 .. l + 1 : i \in 1 .. l \/ i = l + 1
    BY <2>2
  <2>7. ~LateFetch => \A i \in 1 .. l + 1 : F[i].ignore = ~IsFetchable(up.fetch, F[i].name)
    BY <2>1, <2>3, <2>5, <2>6
  <2>8. F # <<>>
    <3>1. l + 1 # 0
      BY <2>2
    <3>2. Len(<<>>) = 0
      OBVIOUS
    <3> QED
      BY <2>3, <3>1, <3>2
  <2> QED
    BY <2>3, <2>4, <2>7, <2>8 DEF ListInv, F
<1>3. CASE Hands
  <2>1. /\ Len(up'.entries) = Len(up.entries) /\ up'.fetch = up.fetch
        /\ \A j \in 1 .. Len(up.entries) :
             /\ up'.entries[j].name = up.entries[j].name
             /\ up'.entries[j].ignore = up.entries[j].ignore
        /\ Len(up.entries) # 0
    BY <1>0, <1>3 DEF Hands
  <2>2. up'.entries # <<>>
    <3>1. Len(<<>>) = 0
      OBVIOUS
    <3> QED
      BY <2>1, <3>1
  <2> QED
    BY <2>1, <2>2 DEF ListInv
<1>4. CASE Ends
  BY <1>4 DEF Ends, ListInv
<1>5. CASE Chooses
  <2>1. ~LateFetch => \A i \in 1 .. Len(up'.entries) : FALSE
    BY <1>5 DEF Chooses
  <2> QED
    BY <1>5, <2>1 DEF Chooses, ListInv
<1>6. CASE UNCHANGED up
  BY <1>6 DEF ListInv
<1> QED
  BY <1>1, <1>2, <1>3, <1>4, <1>5, <1>6, StepKinds

LEMMA ListInductive == PipeSpec => [](PipeInv /\ ListInv)
<1>1. PipeInit => ListInv
  BY DEF PipeInit, UInit, InitReader, ListInv
<1>2. PipeInv /\ ListInv /\ [PipeNext]_pvars => ListInv'
  BY StepList
<1> QED
  BY <1>1, <1>2, PipeInductive, PTL DEF PipeSpec

(***************************************************************************)
(* Given before a name is read, a fetch list is honoured: parse hands over *)
(* every row of a listed sensor, also where the hashes of toFetch collide. *)
(* (A list set later is not: the run late_fetch shows it.)                 *)
(***************************************************************************)
THEOREM ListHonoured == ~LateFetch => (PipeSpec => FetchHonoured)
<1> SUFFICES ASSUME ~LateFetch PROVE PipeSpec => FetchHonoured
  OBVIOUS
<1> DEFINE Told1 == ReadRow /\ up.entries[Current.index + 1].name \in up.fetch
                      => Len(got') = Len(got) + 1
<1>1. PipeInv /\ ListInv => Told1
  <2> SUFFICES ASSUME PipeInv, ListInv, ReadRow,
                      up.entries[Current.index + 1].name \in up.fetch
               PROVE  Len(got') = Len(got) + 1
    OBVIOUS
  <2>1. Hands /\ got \in Seq(Delivery)
    BY RowHands DEF PipeInv, PipeShapes
  <2>2. IsFetchable(up.fetch, up.entries[Current.index + 1].name)
    BY DEF IsFetchable
  <2>3. ~up.entries[Current.index + 1].ignore
    BY <2>1, <2>2 DEF Hands, ListInv
  <2>4. got' = Append(got, RowRead) /\ RowRead \in Delivery
    BY <2>1, <2>3 DEF Hands
  <2> HIDE DEF RowRead
  <2> QED
    BY <2>1, <2>4
<1>2. PipeInv /\ ListInv => [Told1]_pvars
  BY <1>1
<1> QED
  BY <1>2, ListInductive, PTL DEF FetchHonoured

-----------------------------------------------------------------------------
(* What is read back. *)

BackInv ==
  up.fetch = {} =>
    /\ Len(got) = up.rowCounter
    /\ \A i \in 1 .. Len(got) : i <= Len(rows) /\ SameRow(rows[i], got[i])

(* The row a reader takes off a block of the pipe. *)
LEMMA HandedRow ==
  ASSUME PipeInv, PlainInputs, Hands
  PROVE  up.rowCounter < Len(rows) /\ SameRow(rows[up.rowCounter + 1], RowRead)
<1>1. Standing(Gone) /\ up.block # <<>> /\ IsRow(Current)
  BY DEF Hands, PipeInv, Tracked
<1>2. PICK h, k : Tied(h, k)
  BY <1>1, StandingTied
<1> QED
  BY <1>1, <1>2, StandingTied, RowTold

LEMMA StepBack ==
  ASSUME PipeInv, PlainInputs, BackInv, [PipeNext]_pvars
  PROVE  BackInv'
<1>0. /\ got \in Seq(Delivery) /\ Len(got) \in Nat /\ rows \in Seq(Row) /\ Len(rows) \in Nat
      /\ up.rowCounter \in Nat
  <2>1. got \in Seq(Delivery) /\ rows \in Seq(Row)
    BY DEF PipeInv, PipeShapes, IInv, TypeOK
  <2>2. up.rowCounter \in Nat
    BY ReaderFields DEF PipeInv, PipeShapes
  <2> QED
    BY <2>1, <2>2
<1>1. CASE UNCHANGED rows /\ (Quiet \/ Meets \/ Ends)
  BY <1>1 DEF BackInv, Quiet, Meets, Ends
<1>2. CASE UNCHANGED rows /\ Hands
  <2> SUFFICES ASSUME up'.fetch = {}
               PROVE  /\ Len(got') = up'.rowCounter
                      /\ \A i \in 1 .. Len(got') :
                           i <= Len(rows') /\ SameRow(rows'[i], got'[i])
    BY DEF BackInv
  <2>1. /\ up.fetch = {} /\ got' = Append(got, RowRead) /\ RowRead \in Delivery
        /\ up'.rowCounter = up.rowCounter + 1 /\ rows' = rows
    BY <1>2 DEF Hands
  <2>2. /\ Len(got) = up.rowCounter
        /\ \A i \in 1 .. Len(got) : i <= Len(rows) /\ SameRow(rows[i], got[i])
    BY <2>1 DEF BackInv
  <2>3. up.rowCounter < Len(rows) /\ SameRow(rows[up.rowCounter + 1], RowRead)
    BY <1>2, HandedRow
  <2> DEFINE l == Len(got)
             r == RowRead
             x == up.rowCounter
             L == Len(rows)
  <2>4. /\ l \in Nat /\ Len(got') = l + 1 /\ got'[l + 1] = r
        /\ \A i \in 1 .. l : got'[i] = got[i]
    <3>1. r \in Delivery /\ got' = Append(got, r)
      BY <2>1
    <3> HIDE DEF r
    <3> QED
      BY <1>0, <3>1
  <2>5. l = x /\ x < L /\ L \in Nat /\ up'.rowCounter = x + 1
    BY <1>0, <2>1, <2>2, <2>3
  <2>6. SameRow(rows[l + 1], r)
    BY <2>2, <2>3
  <2>7. \A i \in 1 .. l : i <= L /\ SameRow(rows[i], got[i])
    BY <2>2
  <2> HIDE DEF l, r, x, L
  <2>8. \A i \in 1 .. l + 1 : i \in 1 .. l \/ i = l + 1
    BY <2>4
  <2>9. l + 1 <= L
    BY <2>4, <2>5
  <2>10. \A i \in 1 .. l + 1 : i <= L /\ SameRow(rows[i], got'[i])
    BY <2>4, <2>6, <2>7, <2>8, <2>9
  <2> QED
    BY <2>1, <2>4, <2>5, <2>10 DEF L
<1>3. CASE Chooses
  <2>1. up'.fetch # {}
    BY <1>3, UnpackAssumption DEF Chooses
  <2> QED
    BY <2>1 DEF BackInv
<1>4. CASE UNCHANGED <<up, got>> /\ UNCHANGED rows
  BY <1>4 DEF BackInv
<1>5. CASE UNCHANGED <<up, got>> /\ \E r \in Row : rows' = Append(rows, r)
  <2>1. PICK r \in Row : rows' = Append(rows, r)
    BY <1>5
  <2> DEFINE L == Len(rows)
  <2>2. /\ Len(rows') = L + 1 /\ L \in Nat /\ \A i \in 1 .. L : rows'[i] = rows[i]
    BY <1>0, <2>1
  <2>3. ASSUME up.fetch = {}, NEW i \in 1 .. Len(got)
        PROVE  i <= Len(rows') /\ SameRow(rows'[i], got[i])
    <3>1. i <= L /\ SameRow(rows[i], got[i]) /\ i \in Nat /\ i >= 1
      BY <1>0, <2>3 DEF BackInv
    <3> HIDE DEF L
    <3>2. i \in 1 .. L /\ i <= L + 1
      BY <2>2, <3>1
    <3> QED
      BY <2>2, <3>1, <3>2
  <2> QED
    BY <1>5, <2>3 DEF BackInv
<1> QED
  BY <1>1, <1>2, <1>3, <1>4, <1>5, StepKinds, RowsGrow

(***************************************************************************)
(* What a reader without a fetch list hands over is what was injected, row *)
(* for row from the first: the same time, name and value, whatever was     *)
(* refused, repeated as "unmodified", flushed late, torn off or resized.   *)
(* The inputs are those for which the handlers' memory of a value is       *)
(* exact; the runs wide_integer and unterminated_string show the others.   *)
(***************************************************************************)
THEOREM ReadBackExact == PlainInputs => (PipeSpec => []ReadBackSame)
<1> SUFFICES ASSUME PlainInputs PROVE PipeSpec => []ReadBackSame
  OBVIOUS
<1>1. PipeInit => BackInv
  <2> SUFFICES ASSUME PipeInit PROVE BackInv
    OBVIOUS
  <2>1. got = <<>> /\ up.rowCounter = 0
    BY DEF PipeInit, UInit, InitReader
  <2>2. Len(<<>>) = 0
    OBVIOUS
  <2> QED
    BY <2>1, <2>2 DEF BackInv
<1>2. PipeInv /\ BackInv /\ [PipeNext]_pvars => BackInv'
  BY StepBack
<1>3. PipeInv /\ BackInv => ReadBackSame
  <2> SUFFICES ASSUME PipeInv, BackInv, up.fetch = {}, NEW i \in DOMAIN got
               PROVE  /\ got[i].time = rows[i].time /\ got[i].name = rows[i].name
                      /\ got[i].value = rows[i].value
    BY DEF ReadBackSame
  <2>1. got \in Seq(Delivery)
    BY DEF PipeInv, PipeShapes
  <2>2. i \in 1 .. Len(got)
    BY <2>1
  <2> QED
    BY <2>2 DEF BackInv, SameRow
<1> QED
  BY <1>1, <1>2, <1>3, PipeInductive, PTL DEF PipeSpec

-----------------------------------------------------------------------------
(* The pipe implements the log. *)

(* toFetch keeps a hash of each name: names with equal hashes it cannot tell apart. *)
DistinctHashes == \A m, n \in Names : HashOf[m] = HashOf[n] => m = n

LEMMA AppendLog ==
  ASSUME NEW S, NEW log \in Seq(S), NEW r \in S
  PROVE  /\ Len(Append(log, r)) = Len(log) + 1
         /\ SubSeq(Append(log, r), 1, Len(log)) = log
         /\ Append(log, r)[Len(Append(log, r))] \in S
  OBVIOUS

(* A reader that takes a row off a block delivers the log's next one. *)
LEMMA HandsDelivers ==
  ASSUME PipeInv, ListInv, PlainInputs, OneUnit, DistinctHashes, ~LateFetch,
         Hands, UNCHANGED <<pk, rows>>
  PROVE  Log!Deliver
<1> DEFINE i == Current.index + 1
           r == rows[up.rowCounter + 1]
<1>1. /\ i \in 1 .. Len(up.entries) /\ up'.rowCounter = up.rowCounter + 1
      /\ up'.fetch = up.fetch /\ up'.complete = up.complete
      /\ got' = IF up.entries[i].ignore /\ up.fetch # {} THEN got ELSE Append(got, RowRead)
  BY DEF Hands
<1>2. up.rowCounter < Len(rows) /\ SameRow(r, RowRead)
  BY HandedRow
<1>3. up \in Reader /\ rows \in Seq(Row) /\ up.rowCounter \in Nat
  <2>1. up \in Reader /\ rows \in Seq(Row)
    BY DEF PipeInv, PipeShapes, IInv, TypeOK
  <2> QED
    BY <2>1, ReaderFields
<1>4. r \in Row
  <2> DEFINE x == up.rowCounter
             l == Len(rows)
  <2>1. x \in Nat /\ l \in Nat /\ x < l
    BY <1>2, <1>3
  <2> HIDE DEF x, l
  <2>2. x + 1 \in 1 .. l
    BY <2>1
  <2> QED
    BY <1>3, <2>2 DEF x, l
<1> HIDE DEF r
<1>5. r = RowRead
  BY <1>2, <1>4 DEF SameRow, RowRead, Row
<1>6. r.name = up.entries[i].name
  BY <1>5 DEF RowRead
<1>7. up.entries[i].ignore = (r.name \notin up.fetch)
  <2>1. up.entries[i].ignore = ~IsFetchable(up.fetch, r.name)
    BY <1>1, <1>6 DEF ListInv
  <2>2. r.name \in Names /\ up.fetch \subseteq Names
    BY <1>3, <1>4, ReaderFields DEF Row
  <2>3. IsFetchable(up.fetch, r.name) <=> r.name \in up.fetch
    BY <2>2 DEF IsFetchable, DistinctHashes
  <2> QED
    BY <2>1, <2>3
<1> HIDE DEF i
<1>8. got' = IF up.fetch = {} \/ r.name \in up.fetch THEN Append(got, r) ELSE got
  BY <1>1, <1>5, <1>7
<1>9. UNCHANGED <<rows, pk.handle = "freed", up.fetch, up.complete>>
  BY <1>1
<1> QED
  BY <1>1, <1>2, <1>8, <1>9 DEF Log!Deliver, r

LEMMA StepLog ==
  ASSUME PipeInv, ListInv, PlainInputs, OneUnit, DistinctHashes, ~LateFetch, [PipeNext]_pvars
  PROVE  [Log!LNext]_(Log!lvars)
<1> DEFINE still == UNCHANGED <<up.rowCounter, up.fetch, got, up.complete>>
<1>1. CASE UNCHANGED <<up, got>>
  <2>1. still
    BY <1>1
  <2>2. CASE UNCHANGED rows
    <3>1. CASE Gone' = Gone
      BY <2>1, <2>2, <3>1 DEF Log!lvars, Gone
    <3>2. CASE Gone' # Gone
      <4>1. ~Gone /\ Gone'
        <5>1. Gone => pk' = pk
          BY DEF Gone, PipeNext, Write, Crash, ReadFile, Fetch, pvars, Next, Inject,
                 InjectLongName, InjectBadTimestamp, InjectLongString, InjectNoRoom, Resize,
                 ResizeRefused, Flush, Close, Spill, Callable
        <5> QED
          BY <3>2, <5>1 DEF Gone
      <4>2. Log!CloseLog
        BY <2>1, <2>2, <4>1 DEF Log!CloseLog, Gone
      <4> QED
        BY <4>2 DEF Log!LNext
    <3> QED
      BY <3>1, <3>2
  <2>3. CASE rows' # rows
    <3>1. PICK r \in Row : rows' = Append(rows, r)
      BY <2>3, RowsGrow
    <3>2. ~Gone /\ ~Gone'
      BY <2>3, RowsGrow
    <3>3. rows \in Seq(Row)
      BY DEF PipeInv, PipeShapes, IInv, TypeOK
    <3>4. /\ Len(rows') = Len(rows) + 1 /\ SubSeq(rows', 1, Len(rows)) = rows
          /\ rows'[Len(rows')] \in Row
      BY <3>1, <3>3, AppendLog
    <3>5. Log!AppendRow
      BY <2>1, <3>2, <3>4 DEF Log!AppendRow, Gone
    <3> QED
      BY <3>5 DEF Log!LNext
  <2> QED
    BY <2>2, <2>3
<1>2. CASE UNCHANGED <<pk, rows>> /\ (Quiet \/ Meets)
  BY <1>2 DEF Quiet, Meets, Log!lvars
<1>3. CASE UNCHANGED <<pk, rows>> /\ Hands
  BY <1>3, HandsDelivers DEF Log!LNext
<1>4. CASE UNCHANGED <<pk, rows>> /\ Ends
  <2>1. Standing(Gone) /\ up.block # <<>> /\ Current.tok = "EOF"
    BY <1>4 DEF Ends, PipeInv, Tracked
  <2>2. PICK h, k : Tied(h, k)
    BY <2>1, StandingTied
  <2>3. Gone /\ up.rowCounter = Len(rows)
    BY <2>1, <2>2, StandingTied, EofLast
  <2>4. /\ UNCHANGED <<rows, pk.handle = "freed", up.rowCounter, up.fetch, got>>
        /\ up'.complete = TRUE
    BY <1>4 DEF Ends
  <2>5. Log!Finish
    BY <2>3, <2>4 DEF Log!Finish, Gone
  <2> QED
    BY <2>5 DEF Log!LNext
<1>5. CASE UNCHANGED <<pk, rows>> /\ Chooses
  <2>1. up.rowCounter = 0
    BY <1>5 DEF Chooses, ListInv
  <2>2. up'.fetch \in SUBSET Names
    BY <1>5, UnpackAssumption DEF Chooses
  <2>3. UNCHANGED <<rows, pk.handle = "freed", up.rowCounter, got, up.complete>>
    BY <1>5 DEF Chooses
  <2>4. Log!ChooseNames
    BY <2>1, <2>2, <2>3 DEF Log!ChooseNames
  <2> QED
    BY <2>4 DEF Log!LNext
<1> QED
  BY <1>1, <1>2, <1>3, <1>4, <1>5, StepKinds

(***************************************************************************)
(* A channel written by pack.c and read by unpack.c through a file, while  *)
(* injections are refused, flushes fail and are retried, buckets are       *)
(* resized and the writer may die, is a log: rows reach the callback       *)
(* unchanged, in order, none twice and none skipped, and the reader learns *)
(* of the end only when it has all.  For inputs whose memory is exact, one *)
(* unit, a fetch list given in time and names that their hashes tell       *)
(* apart; each of these is needed.                                         *)
(***************************************************************************)
THEOREM PipeIsLog ==
  PlainInputs /\ OneUnit /\ DistinctHashes /\ ~LateFetch => (PipeSpec => ImplementsLog)
<1> SUFFICES ASSUME PlainInputs, OneUnit, DistinctHashes, ~LateFetch
             PROVE  PipeSpec => ImplementsLog
  OBVIOUS
<1>1. PipeInit => Log!LInit
  BY DEF PipeInit, Init, InitChannel, UInit, InitReader, Log!LInit
<1>2. PipeInv /\ ListInv /\ [PipeNext]_pvars => [Log!LNext]_(Log!lvars)
  BY StepLog
<1> QED
  BY <1>1, <1>2, ListInductive, PTL DEF PipeSpec, ImplementsLog, Log!LSpec

=============================================================================
