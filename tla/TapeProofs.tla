----------------------------- MODULE TapeProofs -----------------------------
(***************************************************************************)
(* The argument that ties the writer to the reader.  Everything the        *)
(* channel has ever encoded is one tape of records; what is in flight is a *)
(* stretch of it: the rest of the reader's block, then the data frames in  *)
(* the file, then the bucket.  Beside each record stands a mark, what a    *)
(* reader knows who has read up to there.  The reader stands at one mark,  *)
(* the packer's dictionary, clock and counter agree with the last one.     *)
(*                                                                         *)
(* The tape is no variable of the specification: the invariant says that   *)
(* one exists.  This module shows that every call of the packing side      *)
(* continues it; the reading side and the theorems are in PipeProofs.      *)
(***************************************************************************)
EXTENDS OticPipe, PackChannelProofs, SequenceTheorems

-----------------------------------------------------------------------------
(* Marks and tapes. *)

Sensor == [name : Names, unit : Units, value : Values \cup {NoValue}]

Mark == [entries : Seq(Sensor), rows : Nat, ts : Nat \cup {TsNull}]

(***************************************************************************)
(* start[i] is how much of the tape lies before the file's i-th frame, and *)
(* room[i] the size of the reader's buffers when it gets there.            *)
(***************************************************************************)
Tape ==
  [rec : [Nat -> Token], mark : [Nat -> Mark], len : Nat,
   start : [Nat -> Nat], room : [Nat -> Nat]]

HasValue(t) == t.tok \in ValueTypes \cup {"SMALL"}

(* What parseBlock takes for granted of a record. *)
Legal(t, m) ==
  /\ IsRow(t) => t.index < Len(m.entries)
  /\ t.tok = "SHIFT_TIMESTAMP" => m.ts # TsNull
  /\ t.tok = "EOF" => t.arg = m.rows
  /\ HasValue(t) => t.tok = Tag(t.value)

(* What it knows after the record. *)
WithValue(e, v) == [name |-> e.name, unit |-> e.unit, value |-> v]

EntriesAfter(t, entries) ==
  IF t.tok = "NAME_ASSIGN"
  THEN Append(entries, [name |-> t.name, unit |-> t.unit, value |-> NoValue])
  ELSE IF HasValue(t)
  THEN [entries EXCEPT ![t.index + 1] = WithValue(entries[t.index + 1], t.value)]
  ELSE entries

TsAfter(t, ts) ==
  IF t.tok = "SET_TIMESTAMP" THEN t.arg
  ELSE IF t.tok = "SHIFT_TIMESTAMP" THEN ts + t.arg ELSE ts

NextMark(t, m) ==
  [entries |-> EntriesAfter(t, m.entries),
   rows |-> IF IsRow(t) THEN m.rows + 1 ELSE m.rows,
   ts |-> TsAfter(t, m.ts)]

Written(h) ==
  \A j \in 1 .. h.len :
    Legal(h.rec[j], h.mark[j - 1]) /\ h.mark[j] = NextMark(h.rec[j], h.mark[j - 1])

-----------------------------------------------------------------------------
(* The tape and the frames. *)

(* These records are on the tape, from behind the given place. *)
Slice(h, tokens, from) == \A j \in 1 .. Len(tokens) : tokens[j] = h.rec[from + j]

Span(f) == IF f.meta = "DATA" THEN Len(f.tokens) ELSE 0
RoomAfter(f, room) == IF f.meta = "CHUNK_SIZE" THEN f.size ELSE room

(* The frames, one behind the other, and then the bucket are the tape's end. *)
Cut(h, frames, bucket) ==
  /\ \A i \in 1 .. Len(frames) :
       /\ h.start[i + 1] = h.start[i] + Span(frames[i])
       /\ frames[i].meta = "DATA" => Slice(h, frames[i].tokens, h.start[i])
  /\ \A i \in 1 .. Len(frames) + 1 : h.start[i] <= h.len
  /\ h.start[Len(frames) + 1] + Len(bucket) = h.len
  /\ Slice(h, bucket, h.start[Len(frames) + 1])

(* Every data frame was filled in a bucket as large as last announced. *)
Announced(h, frames, unheard, cacheSize) ==
  /\ \A i \in 1 .. Len(frames) : h.room[i + 1] = RoomAfter(frames[i], h.room[i])
  /\ ~unheard =>
       /\ \A i \in 1 .. Len(frames) : frames[i].meta = "DATA" => frames[i].cap = h.room[i]
       /\ h.room[Len(frames) + 1] = cacheSize

(* The reader stands where its block begins, and knows what the mark says. *)
Knows(u, m) ==
  /\ u.ts = m.ts /\ u.rowCounter = m.rows /\ Len(u.entries) = Len(m.entries)
  /\ \A i \in 1 .. Len(m.entries) :
       /\ u.entries[i].name = m.entries[i].name
       /\ u.entries[i].unit = m.entries[i].unit
       /\ u.entries[i].value = m.entries[i].value

Follows(u, h) ==
  \E k \in Nat :
    /\ k + Len(u.block) = h.start[1] /\ Slice(h, u.block, k)
    /\ Knows(u, h.mark[k]) /\ u.cacheSize = h.room[1]

-----------------------------------------------------------------------------
(* The tape and the packer. *)

(* The packer's state agrees with a mark, whatever its inputs. *)
Holds(s, log, m) ==
  /\ m.ts = s.ts /\ m.rows = s.rowCounter /\ s.rowCounter = Len(log)
  /\ s.totalEntries <= Len(m.entries)
  /\ \A n \in Known(s.cache) : s.cache[n].index < Len(m.entries)

(* The EOF record is the last, and none is there before the close. *)
EndsOnce(h, closed) == \A j \in 1 .. h.len : h.rec[j].tok = "EOF" => closed /\ j = h.len

(***************************************************************************)
(* With fewer sensors than indices and inputs that the test for            *)
(* "unmodified" tells apart, the tape tells the rows: the n-th row record  *)
(* decodes to the n-th row accepted.  The unit of a sensor's first row is  *)
(* kept for all of them: it is right where there is one unit.              *)
(***************************************************************************)
OneUnit == \A u, w \in Units : u = w
PlainInputs == FewNames /\ PlainValues

Decoded(t, m) ==
  LET e == m.entries[t.index + 1]
  IN  [time |-> m.ts, name |-> e.name, unit |-> e.unit,
       value |-> IF t.tok = "UNMODIFIED" THEN e.value ELSE t.value]

SameRow(r, d) ==
  r.time = d.time /\ r.name = d.name /\ r.value = d.value /\ (OneUnit => r.unit = d.unit)

Tells(log, t, m) == IsRow(t) => m.rows < Len(log) /\ SameRow(log[m.rows + 1], Decoded(t, m))

Told(h, log) == \A j \in 1 .. h.len : Tells(log, h.rec[j], h.mark[j - 1])

Mirrors(s, m) ==
  /\ Len(m.entries) = s.totalEntries
  /\ \A n \in Known(s.cache) :
       LET e == m.entries[s.cache[n].index + 1]
       IN  /\ e.name = n /\ e.value \in Values
           /\ e.value.type = s.cache[n].type /\ e.value.val = s.cache[n].val

Exact(s, log, closed, h) ==
  /\ Told(h, log) /\ Mirrors(s, h.mark[h.len])
  /\ closed \/ Numbered(s.cache, s.totalEntries)

(* A channel record with the frames it has yet to hand over and its tape. *)
Flow(s, frames, log, closed, u, h) ==
  /\ h \in Tape /\ Written(h)
  /\ Cut(h, frames, s.bucket) /\ Announced(h, frames, s.unheard, s.cacheSize)
  /\ Follows(u, h)
  /\ Holds(s, log, h.mark[h.len]) /\ EndsOnce(h, closed)

Carried(s, frames, log, closed, u) ==
  \E h : Flow(s, frames, log, closed, u, h) /\ (PlainInputs => Exact(s, log, closed, h))

-----------------------------------------------------------------------------
(* Records and marks. *)

LEMMA NoValueFact == NoValue.type = "EOF"
  BY DEF NoValue

(* A row record with a value carries one of the caller's; so do the others their fields. *)
LEMMA TokenFields ==
  ASSUME NEW t \in Token
  PROVE  /\ t.tok \in {"SET_TIMESTAMP", "SHIFT_TIMESTAMP", "EOF"} => t.arg \in Nat
         /\ t.tok = "NAME_ASSIGN" => t.name \in Names /\ t.unit \in Units
         /\ IsRow(t) => t.index \in Nat
         /\ HasValue(t) => t.value \in Values
         /\ HasValue(t) => IsRow(t)
         /\ IsRow(t) /\ ~HasValue(t) => t.tok = "UNMODIFIED"
         /\ IsRow(t) => t.tok \notin {"SET_TIMESTAMP", "SHIFT_TIMESTAMP", "EOF", "NAME_ASSIGN"}
  BY DEF Token, IsRow, RowTags, HasValue, ValueTypes, IntTypes, BoolTypes

LEMMA EntriesTyped ==
  ASSUME NEW t \in Token, NEW entries \in Seq(Sensor), IsRow(t) => t.index < Len(entries)
  PROVE  /\ EntriesAfter(t, entries) \in Seq(Sensor)
         /\ Len(entries) <= Len(EntriesAfter(t, entries))
         /\ t.tok # "NAME_ASSIGN" => Len(EntriesAfter(t, entries)) = Len(entries)
         /\ t.tok = "NAME_ASSIGN" => Len(EntriesAfter(t, entries)) = Len(entries) + 1
<1>1. CASE t.tok = "NAME_ASSIGN"
  <2> DEFINE e == [name |-> t.name, unit |-> t.unit, value |-> NoValue]
  <2>1. e \in Sensor
    BY <1>1, TokenFields DEF Sensor
  <2>2. EntriesAfter(t, entries) = Append(entries, e)
    BY <1>1 DEF EntriesAfter
  <2> HIDE DEF e
  <2> QED
    BY <1>1, <2>1, <2>2
<1>2. CASE t.tok # "NAME_ASSIGN" /\ HasValue(t)
  <2> DEFINE e == WithValue(entries[t.index + 1], t.value)
             i == t.index + 1
  <2>1. t.index \in Nat /\ t.index < Len(entries) /\ t.value \in Values
    BY <1>2, TokenFields
  <2>2. i \in 1 .. Len(entries)
    BY <2>1
  <2>3. entries[i] \in Sensor
    BY <2>2
  <2>4. e \in Sensor
    BY <2>1, <2>3 DEF WithValue, Sensor
  <2>5. EntriesAfter(t, entries) = [entries EXCEPT ![i] = e]
    BY <1>2 DEF EntriesAfter
  <2> HIDE DEF e, i
  <2> QED
    BY <1>2, <2>2, <2>4, <2>5
<1>3. CASE t.tok # "NAME_ASSIGN" /\ ~HasValue(t)
  BY <1>3 DEF EntriesAfter
<1> QED
  BY <1>1, <1>2, <1>3

LEMMA NextMarkTyped ==
  ASSUME NEW t \in Token, NEW m \in Mark, Legal(t, m)
  PROVE  NextMark(t, m) \in Mark
<1>1. m.entries \in Seq(Sensor) /\ m.rows \in Nat /\ m.ts \in Nat \cup {TsNull}
  BY DEF Mark
<1>2. EntriesAfter(t, m.entries) \in Seq(Sensor)
  BY <1>1, EntriesTyped DEF Legal
<1>3. TsAfter(t, m.ts) \in Nat \cup {TsNull}
  BY <1>1, TokenFields DEF TsAfter, Legal
<1> QED
  BY <1>1, <1>2, <1>3 DEF NextMark, Mark

-----------------------------------------------------------------------------
(* The tape grows by a record, or is cut at a frame. *)

Extended(h, t) ==
  [rec |-> [h.rec EXCEPT ![h.len + 1] = t],
   mark |-> [h.mark EXCEPT ![h.len + 1] = NextMark(t, h.mark[h.len])],
   len |-> h.len + 1, start |-> h.start, room |-> h.room]

Framed(h, k, f) ==
  [rec |-> h.rec, mark |-> h.mark, len |-> h.len,
   start |-> [h.start EXCEPT ![k + 2] = h.start[k + 1] + Span(f)],
   room |-> [h.room EXCEPT ![k + 2] = RoomAfter(f, h.room[k + 1])]]

LEMMA TapeFields ==
  ASSUME NEW h \in Tape
  PROVE  /\ h.rec \in [Nat -> Token] /\ h.mark \in [Nat -> Mark] /\ h.len \in Nat
         /\ h.start \in [Nat -> Nat] /\ h.room \in [Nat -> Nat]
         /\ h.mark[h.len] \in Mark
  BY DEF Tape

(* What lies on the tape already stays where it is. *)
LEMMA ExtendedFields ==
  ASSUME NEW h \in Tape, NEW t \in Token, Legal(t, h.mark[h.len])
  PROVE  LET x == Extended(h, t)
         IN  /\ x \in Tape /\ x.len = h.len + 1 /\ x.start = h.start /\ x.room = h.room
             /\ x.rec[h.len + 1] = t
             /\ x.mark[h.len + 1] = NextMark(t, h.mark[h.len])
             /\ \A j \in 0 .. h.len : x.rec[j] = h.rec[j] /\ x.mark[j] = h.mark[j]
<1> DEFINE n == NextMark(t, h.mark[h.len])
           l == h.len
<1>1. /\ h.rec \in [Nat -> Token] /\ h.mark \in [Nat -> Mark] /\ l \in Nat
      /\ h.start \in [Nat -> Nat] /\ h.room \in [Nat -> Nat]
  BY TapeFields
<1>2. n \in Mark
  BY TapeFields, NextMarkTyped
<1>3. Extended(h, t) = [rec |-> [h.rec EXCEPT ![l + 1] = t], mark |-> [h.mark EXCEPT ![l + 1] = n],
                        len |-> l + 1, start |-> h.start, room |-> h.room]
  BY DEF Extended
<1> HIDE DEF n, l
<1>4. [h.rec EXCEPT ![l + 1] = t] \in [Nat -> Token] /\ [h.mark EXCEPT ![l + 1] = n] \in [Nat -> Mark]
  BY <1>1, <1>2
<1>5. Extended(h, t) \in Tape
  BY <1>1, <1>3, <1>4 DEF Tape
<1>6. /\ [h.rec EXCEPT ![l + 1] = t][l + 1] = t /\ [h.mark EXCEPT ![l + 1] = n][l + 1] = n
      /\ \A j \in 0 .. l : /\ [h.rec EXCEPT ![l + 1] = t][j] = h.rec[j]
                           /\ [h.mark EXCEPT ![l + 1] = n][j] = h.mark[j]
  BY <1>1
<1> QED
  BY <1>3, <1>5, <1>6 DEF n, l

LEMMA ExtendedWritten ==
  ASSUME NEW h \in Tape, Written(h), NEW t \in Token, Legal(t, h.mark[h.len])
  PROVE  Written(Extended(h, t))
<1> DEFINE x == Extended(h, t)
<1>1. /\ h.len \in Nat /\ x.len = h.len + 1 /\ x.rec[h.len + 1] = t
      /\ x.mark[h.len + 1] = NextMark(t, h.mark[h.len])
      /\ \A j \in 0 .. h.len : x.rec[j] = h.rec[j] /\ x.mark[j] = h.mark[j]
  BY TapeFields, ExtendedFields
<1> HIDE DEF x
<1>2. ASSUME NEW j \in 1 .. x.len
      PROVE  Legal(x.rec[j], x.mark[j - 1]) /\ x.mark[j] = NextMark(x.rec[j], x.mark[j - 1])
  <2>1. CASE j \in 1 .. h.len
    <3>1. j \in 0 .. h.len /\ j - 1 \in 0 .. h.len
      BY <1>1, <2>1
    <3>2. Legal(h.rec[j], h.mark[j - 1]) /\ h.mark[j] = NextMark(h.rec[j], h.mark[j - 1])
      BY <2>1 DEF Written
    <3> QED
      BY <1>1, <3>1, <3>2
  <2>2. CASE j = h.len + 1
    <3>1. j - 1 = h.len /\ h.len \in 0 .. h.len
      BY <1>1, <2>2
    <3>2. x.rec[j] = t /\ x.mark[j] = NextMark(t, h.mark[h.len]) /\ x.mark[j - 1] = h.mark[h.len]
      BY <1>1, <2>2, <3>1
    <3> QED
      BY <3>2
  <2> QED
    BY <1>1, <1>2, <2>1, <2>2
<1> QED
  BY <1>2 DEF Written, x

(* A stretch that ends on the tape is still there on a longer one. *)
LEMMA SliceStays ==
  ASSUME NEW h, NEW x, NEW l \in Nat, \A j \in 0 .. l : x.rec[j] = h.rec[j],
         NEW tokens \in Seq(Token), NEW from \in Nat, from + Len(tokens) <= l,
         Slice(h, tokens, from)
  PROVE  Slice(x, tokens, from)
<1>1. ASSUME NEW j \in 1 .. Len(tokens) PROVE tokens[j] = x.rec[from + j]
  <2>1. from + j \in 0 .. l /\ tokens[j] = h.rec[from + j]
    BY <1>1 DEF Slice
  <2> QED
    BY <2>1
<1> QED
  BY <1>1 DEF Slice

(* The tokens of a data frame are a sequence of records. *)
LEMMA FrameFields ==
  ASSUME NEW f \in Frame
  PROVE  /\ f.meta = "DATA" => f.tokens \in Seq(Token) /\ f.used \in Nat /\ f.cap \in Nat
         /\ f.meta = "CHUNK_SIZE" => f.size \in Nat
         /\ Span(f) \in Nat
         /\ \A r \in Nat : RoomAfter(f, r) \in Nat
<1>1. f.meta = "DATA" => f.tokens \in Seq(Token) /\ f.used \in Nat /\ f.cap \in Nat
  BY DEF Frame
<1>2. f.meta = "CHUNK_SIZE" => f.size \in Nat
  BY DEF Frame
<1>3. Span(f) \in Nat
  BY <1>1 DEF Span
<1>4. \A r \in Nat : RoomAfter(f, r) \in Nat
  BY <1>2 DEF RoomAfter
<1> QED
  BY <1>1, <1>2, <1>3, <1>4

(* A record behind the bucket's last one. *)
LEMMA ExtendedCut ==
  ASSUME NEW h \in Tape, NEW t \in Token, Legal(t, h.mark[h.len]),
         NEW frames \in Seq(Frame), NEW bucket \in Seq(Token), Cut(h, frames, bucket)
  PROVE  Cut(Extended(h, t), frames, Append(bucket, t))
<1> DEFINE x == Extended(h, t)
           k == Len(frames)
           b == Append(bucket, t)
<1>1. h.len \in Nat /\ x.len = h.len + 1
  BY TapeFields, ExtendedFields
<1>8. x.start = h.start /\ h.start \in [Nat -> Nat]
  BY TapeFields, ExtendedFields
<1>9. x.rec[h.len + 1] = t /\ \A j \in 0 .. h.len : x.rec[j] = h.rec[j]
  BY TapeFields, ExtendedFields
<1>0. k \in Nat /\ k = Len(frames)
  OBVIOUS
<1>2. /\ b \in Seq(Token) /\ Len(b) = Len(bucket) + 1 /\ b[Len(bucket) + 1] = t
      /\ \A j \in 1 .. Len(bucket) : b[j] = bucket[j]
      /\ Len(bucket) \in Nat
  OBVIOUS
<1> HIDE DEF x, b, k
<1>3. ASSUME NEW i \in 1 .. k
      PROVE  /\ x.start[i + 1] = x.start[i] + Span(frames[i])
             /\ frames[i].meta = "DATA" => Slice(x, frames[i].tokens, x.start[i])
  <2>1. /\ h.start[i + 1] = h.start[i] + Span(frames[i])
        /\ frames[i].meta = "DATA" => Slice(h, frames[i].tokens, h.start[i])
    BY <1>3 DEF Cut, k
  <2>2. ASSUME frames[i].meta = "DATA" PROVE Slice(x, frames[i].tokens, x.start[i])
    <3>1. frames[i] \in Frame
      BY <1>0, <1>3
    <3>2. frames[i].tokens \in Seq(Token) /\ Span(frames[i]) = Len(frames[i].tokens)
      BY <2>2, <3>1, FrameFields DEF Span
    <3>3. i + 1 \in 1 .. k + 1 /\ i \in Nat
      BY <1>0, <1>3
    <3>4. h.start[i] + Len(frames[i].tokens) <= h.len /\ h.start[i] \in Nat
      BY <1>8, <2>1, <3>2, <3>3 DEF Cut, k
    <3> QED
      BY <1>1, <1>8, <1>9, <2>1, <2>2, <3>2, <3>4, SliceStays
  <2> QED
    BY <1>8, <2>1, <2>2
<1>4. \A i \in 1 .. k + 1 : x.start[i] <= x.len
  <2>1. ASSUME NEW i \in 1 .. k + 1 PROVE x.start[i] <= x.len
    <3>1. h.start[i] <= h.len
      BY <2>1 DEF Cut, k
    <3>2. h.start[i] \in Nat /\ x.start[i] = h.start[i]
      BY <1>0, <1>8, <2>1
    <3> QED
      BY <1>1, <3>1, <3>2
  <2> QED
    BY <2>1
<1>5. h.start[k + 1] + Len(bucket) = h.len /\ Slice(h, bucket, h.start[k + 1])
  BY DEF Cut, k
<1>10. h.start[k + 1] \in Nat /\ x.start[k + 1] = h.start[k + 1]
  BY <1>0, <1>8
<1>11. Len(b) = Len(bucket) + 1 /\ Len(bucket) \in Nat
  BY <1>2
<1> DEFINE from == h.start[k + 1]
<1>12. from \in Nat /\ x.start[k + 1] = from /\ from + Len(bucket) = h.len
  BY <1>5, <1>10
<1> HIDE DEF from
<1>6. x.start[k + 1] + Len(b) = x.len
  BY <1>1, <1>11, <1>12
<1>7. Slice(x, b, x.start[k + 1])
  <2>1. ASSUME NEW j \in 1 .. Len(b) PROVE b[j] = x.rec[x.start[k + 1] + j]
    <3>1. CASE j \in 1 .. Len(bucket)
      <4>1. bucket[j] = h.rec[h.start[k + 1] + j]
        BY <1>5, <3>1 DEF Slice
      <4>2. h.start[k + 1] + j \in 0 .. h.len
        BY <1>1, <1>5, <1>10, <1>11, <3>1
      <4> QED
        BY <1>2, <1>9, <1>10, <3>1, <4>1, <4>2
    <3>2. CASE j = Len(bucket) + 1
      <4>1. from + j = h.len + 1
        BY <1>1, <1>11, <1>12, <3>2
      <4> QED
        BY <1>2, <1>9, <1>12, <3>2, <4>1
    <3> QED
      BY <1>11, <2>1, <3>1, <3>2
  <2> QED
    BY <2>1 DEF Slice
<1> QED
  BY <1>3, <1>4, <1>6, <1>7 DEF Cut, x, b, k

(* A reader further up the tape does not notice. *)
LEMMA ExtendedFollows ==
  ASSUME NEW h \in Tape, NEW t \in Token, Legal(t, h.mark[h.len]), h.start[1] <= h.len,
         NEW u, u.block \in Seq(Token), Follows(u, h)
  PROVE  Follows(u, Extended(h, t))
<1> DEFINE x == Extended(h, t)
<1>1. PICK k \in Nat : /\ k + Len(u.block) = h.start[1] /\ Slice(h, u.block, k)
                       /\ Knows(u, h.mark[k]) /\ u.cacheSize = h.room[1]
  BY DEF Follows
<1>2. /\ h.len \in Nat /\ x.start = h.start /\ x.room = h.room
      /\ \A j \in 0 .. h.len : x.rec[j] = h.rec[j] /\ x.mark[j] = h.mark[j]
  BY TapeFields, ExtendedFields
<1> HIDE DEF x
<1>3. k \in 0 .. h.len /\ k + Len(u.block) <= h.len
  BY <1>1, <1>2
<1>4. Slice(x, u.block, k)
  BY Zenon, <1>1, <1>2, <1>3, SliceStays
<1>5. k + Len(u.block) = x.start[1] /\ Knows(u, x.mark[k]) /\ u.cacheSize = x.room[1]
  BY <1>1, <1>2, <1>3
<1> QED
  BY <1>4, <1>5 DEF Follows, x

LEMMA FramedFields ==
  ASSUME NEW h \in Tape, NEW k \in Nat, NEW f \in Frame
  PROVE  LET x == Framed(h, k, f)
         IN  /\ x \in Tape /\ x.len = h.len /\ x.rec = h.rec /\ x.mark = h.mark
             /\ x.start[k + 2] = h.start[k + 1] + Span(f)
             /\ x.room[k + 2] = RoomAfter(f, h.room[k + 1])
             /\ \A i \in 1 .. k + 1 : x.start[i] = h.start[i] /\ x.room[i] = h.room[i]
<1> DEFINE a == h.start[k + 1] + Span(f)
           r == RoomAfter(f, h.room[k + 1])
           l == k + 2
<1>1. /\ h.rec \in [Nat -> Token] /\ h.mark \in [Nat -> Mark] /\ h.len \in Nat
      /\ h.start \in [Nat -> Nat] /\ h.room \in [Nat -> Nat]
  BY TapeFields
<1>2. h.start[k + 1] \in Nat /\ h.room[k + 1] \in Nat
  BY <1>1
<1>9. Span(f) \in Nat /\ \A m \in Nat : RoomAfter(f, m) \in Nat
  BY FrameFields
<1>3. a \in Nat /\ r \in Nat /\ l \in Nat
  BY <1>2, <1>9
<1>4. Framed(h, k, f) = [rec |-> h.rec, mark |-> h.mark, len |-> h.len,
                         start |-> [h.start EXCEPT ![l] = a], room |-> [h.room EXCEPT ![l] = r]]
  BY DEF Framed
<1>7. \A i \in 1 .. k + 1 : i \in Nat /\ i # l
  OBVIOUS
<1> HIDE DEF a, r, l
<1>5. [h.start EXCEPT ![l] = a] \in [Nat -> Nat] /\ [h.room EXCEPT ![l] = r] \in [Nat -> Nat]
  BY <1>1, <1>3
<1>6. Framed(h, k, f) \in Tape
  BY <1>1, <1>4, <1>5 DEF Tape
<1>8. /\ [h.start EXCEPT ![l] = a][l] = a /\ [h.room EXCEPT ![l] = r][l] = r
      /\ \A i \in 1 .. k + 1 : /\ [h.start EXCEPT ![l] = a][i] = h.start[i]
                               /\ [h.room EXCEPT ![l] = r][i] = h.room[i]
  BY <1>1, <1>3, <1>7
<1> QED
  BY <1>4, <1>6, <1>8 DEF a, r, l

(* A frame behind the file's last one takes the bucket along, or leaves it. *)
LEMMA FramedCut ==
  ASSUME NEW h \in Tape, NEW frames \in Seq(Frame), NEW bucket \in Seq(Token),
         Cut(h, frames, bucket), NEW f \in Frame, NEW b,
         f.meta = "DATA" => f.tokens = bucket /\ b = <<>>,
         f.meta # "DATA" => b = bucket
  PROVE  Cut(Framed(h, Len(frames), f), Append(frames, f), b)
<1> DEFINE k == Len(frames)
           x == Framed(h, k, f)
           F == Append(frames, f)
           from == h.start[k + 1]
<1>0. k \in Nat /\ k = Len(frames)
  OBVIOUS
<1>1. Len(F) = k + 1 /\ F[k + 1] = f /\ \A i \in 1 .. k : F[i] = frames[i]
  OBVIOUS
<1>2. x.len = h.len /\ x.rec = h.rec /\ x.start[k + 2] = from + Span(f)
  BY <1>0, FramedFields
<1>3. \A i \in 1 .. k + 1 : x.start[i] = h.start[i]
  BY <1>0, FramedFields
<1>4. from \in Nat /\ h.len \in Nat
  BY <1>0, TapeFields
<1>5. from + Len(bucket) = h.len /\ Slice(h, bucket, from)
  BY DEF Cut
<1>6. \A i \in 1 .. k : /\ h.start[i + 1] = h.start[i] + Span(frames[i])
                        /\ frames[i].meta = "DATA" => Slice(h, frames[i].tokens, h.start[i])
  BY DEF Cut
<1>7. \A i \in 1 .. k + 1 : h.start[i] <= h.len
  BY DEF Cut
<1>8. x.start[k + 1] = from
  BY <1>0, <1>3
<1> HIDE DEF x, k, F, from
<1>9. k + 1 + 1 = k + 2
  BY <1>0
<1>10. Len(bucket) \in Nat
  OBVIOUS
<1>11. x.start[k + 2] <= x.len /\ x.start[k + 2] + Len(b) = x.len /\ Slice(x, b, x.start[k + 2])
  <2>1. CASE f.meta = "DATA"
    <3>1. Span(f) = Len(bucket) /\ b = <<>>
      BY <2>1 DEF Span
    <3>2. Len(b) = 0
      BY <3>1
    <3>3. x.start[k + 2] = h.len
      BY <1>2, <1>5, <3>1
    <3>4. Slice(x, b, x.start[k + 2])
      BY <3>2 DEF Slice
    <3> QED
      BY <1>2, <1>4, <3>2, <3>3, <3>4
  <2>2. CASE f.meta # "DATA"
    <3>1. Span(f) = 0 /\ b = bucket
      BY <2>2 DEF Span
    <3>2. x.start[k + 2] = from
      BY <1>2, <1>4, <3>1
    <3>3. Slice(x, b, x.start[k + 2])
      BY <1>2, <1>5, <3>1, <3>2 DEF Slice
    <3> QED
      BY <1>2, <1>4, <1>5, <1>10, <3>1, <3>2, <3>3
  <2> QED
    BY <2>1, <2>2
<1>12. ASSUME NEW i \in 1 .. k + 1
       PROVE  /\ x.start[i + 1] = x.start[i] + Span(F[i])
              /\ F[i].meta = "DATA" => Slice(x, F[i].tokens, x.start[i])
  <2>1. CASE i \in 1 .. k
    <3>1. i + 1 \in 1 .. k + 1
      BY <1>0, <2>1
    <3>2. x.start[i + 1] = h.start[i + 1] /\ x.start[i] = h.start[i] /\ F[i] = frames[i]
      BY <1>1, <1>3, <1>12, <2>1, <3>1
    <3> QED
      BY SMT, <1>2, <1>6, <2>1, <3>2 DEF Slice
  <2>2. CASE i = k + 1
    <3>1. x.start[i + 1] = x.start[i] + Span(F[i])
      BY <1>1, <1>2, <1>8, <1>9, <2>2
    <3>2. F[i].meta = "DATA" => Slice(x, F[i].tokens, x.start[i])
      BY <1>1, <1>2, <1>5, <1>8, <2>2 DEF Slice
    <3> QED
      BY <3>1, <3>2
  <2> QED
    BY <1>0, <1>12, <2>1, <2>2
<1>13. \A i \in 1 .. k + 2 : x.start[i] <= x.len
  <2>1. ASSUME NEW i \in 1 .. k + 2 PROVE x.start[i] <= x.len
    <3>1. CASE i \in 1 .. k + 1
      BY <1>2, <1>3, <1>7, <3>1
    <3>2. CASE i = k + 2
      BY <1>11, <3>2
    <3> QED
      BY <1>0, <2>1, <3>1, <3>2
  <2> QED
    BY <2>1
<1>14. Len(F) + 1 = k + 2
  BY <1>0, <1>1
<1>15. Cut(x, F, b)
  BY <1>1, <1>11, <1>12, <1>13, <1>14 DEF Cut
<1> QED
  BY <1>15 DEF x, F, k

LEMMA FramedAnnounced ==
  ASSUME NEW h \in Tape, NEW frames \in Seq(Frame), NEW f \in Frame, NEW unheard, NEW size,
         Announced(h, frames, unheard, size), f.meta = "DATA" => f.cap = size
  PROVE  Announced(Framed(h, Len(frames), f), Append(frames, f), unheard, RoomAfter(f, size))
<1> DEFINE k == Len(frames)
           x == Framed(h, k, f)
           F == Append(frames, f)
<1>0. k \in Nat
  OBVIOUS
<1>1. Len(F) = k + 1 /\ F[k + 1] = f /\ \A i \in 1 .. k : F[i] = frames[i]
  OBVIOUS
<1>2. x.room[k + 2] = RoomAfter(f, h.room[k + 1])
  BY <1>0, FramedFields
<1>3. \A i \in 1 .. k + 1 : x.room[i] = h.room[i]
  BY <1>0, FramedFields
<1>4. \A i \in 1 .. k : h.room[i + 1] = RoomAfter(frames[i], h.room[i])
  BY DEF Announced
<1>5. ~unheard => /\ \A i \in 1 .. k : frames[i].meta = "DATA" => frames[i].cap = h.room[i]
                  /\ h.room[k + 1] = size
  BY DEF Announced
<1>6. k + 1 + 1 = k + 2 /\ k + 1 \in 1 .. k + 1 /\ \A i \in 1 .. k : i \in 1 .. k + 1 /\ i + 1 \in 1 .. k + 1
  BY <1>0
<1>7. \A i \in 1 .. k + 1 : i \in 1 .. k \/ i = k + 1
  BY <1>0
<1> HIDE DEF x, k, F
<1>8. \A i \in 1 .. k + 1 : x.room[i + 1] = RoomAfter(F[i], x.room[i])
  BY <1>1, <1>2, <1>3, <1>4, <1>6, <1>7
<1>9. ~unheard => \A i \in 1 .. k + 1 : F[i].meta = "DATA" => F[i].cap = x.room[i]
  BY <1>1, <1>3, <1>5, <1>6, <1>7
<1>10. ~unheard => x.room[k + 2] = RoomAfter(f, size)
  BY <1>2, <1>5
<1>11. Announced(x, F, unheard, RoomAfter(f, size))
  BY <1>1, <1>6, <1>8, <1>9, <1>10 DEF Announced
<1> QED
  BY <1>11 DEF x, F, k

(* A reader stands where its block begins: at the file's front nothing moves. *)
LEMMA FramedFollows ==
  ASSUME NEW h \in Tape, NEW k \in Nat, NEW f \in Frame, NEW u, Follows(u, h)
  PROVE  Follows(u, Framed(h, k, f))
<1> DEFINE x == Framed(h, k, f)
<1>1. /\ x.rec = h.rec /\ x.mark = h.mark
      /\ \A i \in 1 .. k + 1 : x.start[i] = h.start[i] /\ x.room[i] = h.room[i]
  BY FramedFields
<1>2. 1 \in 1 .. k + 1
  OBVIOUS
<1> HIDE DEF x
<1>3. x.start[1] = h.start[1] /\ x.room[1] = h.room[1]
  BY <1>1, <1>2
<1>4. PICK j \in Nat : /\ j + Len(u.block) = h.start[1] /\ Slice(h, u.block, j)
                       /\ Knows(u, h.mark[j]) /\ u.cacheSize = h.room[1]
  BY DEF Follows
<1>5. Slice(x, u.block, j)
  BY <1>1, <1>4 DEF Slice
<1>6. Follows(u, x)
  BY <1>1, <1>3, <1>4, <1>5 DEF Follows
<1> QED
  BY <1>6 DEF x

-----------------------------------------------------------------------------
(* What a call does to the flow. *)

Begins(log, longer) ==
  Len(log) <= Len(longer) /\ \A i \in 1 .. Len(log) : longer[i] = log[i]

LEMMA WroteFlow ==
  ASSUME NEW s, s.bucket \in Seq(Token), NEW frames \in Seq(Frame), NEW log, NEW u,
         u.block \in Seq(Token), NEW h, Flow(s, frames, log, FALSE, u, h),
         NEW t \in Token, Legal(t, h.mark[h.len]),
         NEW p, p.bucket = Append(s.bucket, t), p.cacheSize = s.cacheSize,
         p.unheard = s.unheard, NEW longer, Holds(p, longer, NextMark(t, h.mark[h.len])),
         NEW closed \in BOOLEAN, t.tok = "EOF" => closed
  PROVE  Flow(p, frames, longer, closed, u, Extended(h, t))
<1> DEFINE x == Extended(h, t)
<1>1. /\ h \in Tape /\ Written(h) /\ Cut(h, frames, s.bucket)
      /\ Announced(h, frames, s.unheard, s.cacheSize)
      /\ Follows(u, h) /\ EndsOnce(h, FALSE)
  BY DEF Flow
<1>2. x \in Tape /\ x.len = h.len + 1 /\ x.room = h.room
  BY <1>1, ExtendedFields
<1>3. x.rec[h.len + 1] = t /\ x.mark[h.len + 1] = NextMark(t, h.mark[h.len])
  BY <1>1, ExtendedFields
<1>4. \A j \in 0 .. h.len : x.rec[j] = h.rec[j]
  BY <1>1, ExtendedFields
<1>5. h.len \in Nat
  BY <1>1, TapeFields
<1>6. Written(x)
  BY <1>1, ExtendedWritten
<1>7. Cut(x, frames, p.bucket)
  BY <1>1, ExtendedCut
<1>8. h.start[1] <= h.len
  <2>1. 1 \in 1 .. Len(frames) + 1
    OBVIOUS
  <2> QED
    BY <1>1, <2>1 DEF Cut
<1>9. Follows(u, x)
  BY <1>1, <1>8, ExtendedFollows
<1> HIDE DEF x
<1>10. Announced(x, frames, p.unheard, p.cacheSize)
  BY <1>1, <1>2 DEF Announced
<1>11. EndsOnce(x, closed)
  <2>1. ASSUME NEW j \in 1 .. x.len, x.rec[j].tok = "EOF" PROVE closed /\ j = x.len
    <3>1. CASE j \in 1 .. h.len
      <4>1. h.rec[j].tok = "EOF"
        BY <1>4, <1>5, <2>1, <3>1
      <4> QED
        BY <1>1, <3>1, <4>1 DEF EndsOnce
    <3>2. CASE j = h.len + 1
      BY <1>2, <1>3, <2>1, <3>2
    <3> QED
      BY <1>2, <1>5, <2>1, <3>1, <3>2
  <2> QED
    BY <2>1 DEF EndsOnce
<1>12. Holds(p, longer, x.mark[x.len])
  BY <1>2, <1>3
<1>13. Flow(p, frames, longer, closed, u, x)
  BY <1>2, <1>6, <1>7, <1>9, <1>10, <1>11, <1>12 DEF Flow
<1> QED
  BY <1>13 DEF x

LEMMA WroteTold ==
  ASSUME NEW h \in Tape, NEW log, Told(h, log), NEW t \in Token, Legal(t, h.mark[h.len]),
         NEW longer, Begins(log, longer), Tells(longer, t, h.mark[h.len]), Len(log) \in Nat,
         Len(longer) \in Nat
  PROVE  Told(Extended(h, t), longer)
<1> DEFINE x == Extended(h, t)
<1>1. x.len = h.len + 1
  BY ExtendedFields
<1>2. x.rec[h.len + 1] = t
  BY ExtendedFields
<1>3. \A j \in 0 .. h.len : x.rec[j] = h.rec[j] /\ x.mark[j] = h.mark[j]
  BY ExtendedFields
<1>4. h.len \in Nat /\ h.mark \in [Nat -> Mark]
  BY TapeFields
<1> HIDE DEF x
<1>5. ASSUME NEW j \in 1 .. x.len PROVE Tells(longer, x.rec[j], x.mark[j - 1])
  <2>1. CASE j \in 1 .. h.len
    <3>1. j \in 0 .. h.len /\ j - 1 \in 0 .. h.len /\ j - 1 \in Nat
      BY <1>4, <2>1
    <3>2. x.rec[j] = h.rec[j] /\ x.mark[j - 1] = h.mark[j - 1]
      BY <1>3, <3>1
    <3>3. Tells(log, h.rec[j], h.mark[j - 1])
      BY <2>1 DEF Told
    <3> DEFINE m == h.mark[j - 1]
    <3>4. m.rows \in Nat
      BY <1>4, <3>1 DEF Mark
    <3> HIDE DEF m
    <3>5. ASSUME IsRow(h.rec[j])
          PROVE  m.rows < Len(longer) /\ SameRow(longer[m.rows + 1], Decoded(h.rec[j], m))
      <4>1. m.rows < Len(log) /\ SameRow(log[m.rows + 1], Decoded(h.rec[j], m))
        BY <3>3, <3>5 DEF Tells, m
      <4>2. m.rows + 1 \in 1 .. Len(log)
        BY <3>4, <4>1
      <4>3. Len(log) <= Len(longer) /\ longer[m.rows + 1] = log[m.rows + 1]
        BY <4>2 DEF Begins
      <4> QED
        BY <3>4, <4>1, <4>3
    <3> QED
      BY <3>2, <3>5 DEF Tells, m
  <2>2. CASE j = h.len + 1
    <3>1. j - 1 = h.len /\ h.len \in 0 .. h.len
      BY <1>4, <2>2
    <3> QED
      BY <1>2, <1>3, <2>2, <3>1
  <2> QED
    BY <1>1, <1>4, <1>5, <2>1, <2>2
<1>6. Told(x, longer)
  BY <1>5 DEF Told
<1> QED
  BY <1>6 DEF x

(* Two channel records the tape cannot tell apart. *)
Alike(s, p) ==
  /\ p.ts = s.ts /\ p.rowCounter = s.rowCounter
  /\ p.totalEntries = s.totalEntries /\ p.cache = s.cache

(* What a cache mirrors depends on its entries alone. *)
LEMMA SameMirrors ==
  ASSUME NEW s, NEW p, NEW m, NEW x, p.cache = s.cache, p.totalEntries = s.totalEntries,
         x.entries = m.entries, Mirrors(s, m)
  PROVE  Mirrors(p, x)
  BY Zenon DEF Mirrors

LEMMA AlikeHolds ==
  ASSUME NEW s, NEW p, Alike(s, p), NEW log, NEW m
  PROVE  /\ Holds(s, log, m) => Holds(p, log, m)
         /\ Mirrors(s, m) => Mirrors(p, m)
  BY DEF Alike, Holds, Mirrors

LEMMA FramedFlow ==
  ASSUME NEW s, s.bucket \in Seq(Token), NEW frames \in Seq(Frame), NEW log, NEW u,
         NEW closed, Carried(s, frames, log, closed, u),
         NEW f \in Frame, NEW p, Alike(s, p), p.unheard = s.unheard,
         p.cacheSize = RoomAfter(f, s.cacheSize),
         f.meta = "DATA" => f.tokens = s.bucket /\ f.cap = s.cacheSize /\ p.bucket = <<>>,
         f.meta # "DATA" => p.bucket = s.bucket
  PROVE  Carried(p, Append(frames, f), log, closed, u)
<1>1. PICK h : /\ Flow(s, frames, log, closed, u, h)
               /\ PlainInputs => Exact(s, log, closed, h)
  BY DEF Carried
<1> DEFINE k == Len(frames)
           x == Framed(h, k, f)
           F == Append(frames, f)
<1>2. /\ h \in Tape /\ Written(h) /\ Cut(h, frames, s.bucket)
      /\ Announced(h, frames, s.unheard, s.cacheSize)
      /\ Follows(u, h) /\ EndsOnce(h, closed) /\ Holds(s, log, h.mark[h.len])
  BY <1>1 DEF Flow
<1>3. k \in Nat
  OBVIOUS
<1>4. x \in Tape /\ x.len = h.len /\ x.rec = h.rec /\ x.mark = h.mark
  BY <1>2, <1>3, FramedFields
<1>5. Cut(x, F, p.bucket)
  BY <1>2, FramedCut
<1>6. Announced(x, F, p.unheard, p.cacheSize)
  BY <1>2, FramedAnnounced
<1>7. Follows(u, x)
  BY <1>2, <1>3, FramedFollows
<1> HIDE DEF x, F, k
<1>8. Written(x) /\ EndsOnce(x, closed) /\ (\A l : Told(h, l) => Told(x, l))
  BY <1>2, <1>4 DEF Written, EndsOnce, Told
<1>9. Holds(p, log, x.mark[x.len])
  BY <1>2, <1>4, AlikeHolds
<1>10. Flow(p, F, log, closed, u, x)
  BY <1>4, <1>5, <1>6, <1>7, <1>8, <1>9 DEF Flow
<1>11. Exact(s, log, closed, h) => Exact(p, log, closed, x)
  <2>1. Mirrors(s, h.mark[h.len]) => Mirrors(p, x.mark[x.len])
    BY <1>4, AlikeHolds
  <2> QED
    BY <1>8, <2>1 DEF Exact, Alike
<1>12. Carried(p, F, log, closed, u)
  BY <1>1, <1>10, <1>11 DEF Carried
<1> QED
  BY <1>12 DEF F

LEMMA SameFlow ==
  ASSUME NEW s, NEW frames, NEW log, NEW u, NEW closed, Carried(s, frames, log, closed, u),
         NEW p, Alike(s, p), p.bucket = s.bucket,
         p.unheard \/ (~s.unheard /\ p.cacheSize = s.cacheSize), p.unheard \in BOOLEAN
  PROVE  Carried(p, frames, log, closed, u)
<1>1. PICK h : /\ Flow(s, frames, log, closed, u, h)
               /\ PlainInputs => Exact(s, log, closed, h)
  BY DEF Carried
<1>2. Announced(h, frames, p.unheard, p.cacheSize)
  BY <1>1 DEF Flow, Announced
<1>3. Holds(p, log, h.mark[h.len])
  BY <1>1, AlikeHolds DEF Flow
<1>4. Flow(p, frames, log, closed, u, h)
  BY <1>1, <1>2, <1>3 DEF Flow
<1>5. Exact(s, log, closed, h) => Exact(p, log, closed, h)
  BY AlikeHolds DEF Exact, Alike
<1> QED
  BY <1>1, <1>4, <1>5 DEF Carried

-----------------------------------------------------------------------------
(* The packing side's calls, piece by piece. *)

(* What a call has sent so far lies behind what was in the file before. *)
Carries(s, file, log, closed, u) == Carried(s, file \o s.sent, log, closed, u)

(* The same of a record, a file, a log and a reader that are what they should be. *)
Bears(s, file, log, closed, u) ==
  /\ Formed(s) /\ file \in Seq(Frame) /\ log \in Seq(Row) /\ u.block \in Seq(Token)
  /\ Carries(s, file, log, closed, u)

(* Before and after the close. *)
Open(s, file, log, u) == Bears(s, file, log, FALSE, u)
Shut(s, file, log, u) == Bears(s, file, log, TRUE, u)

LEMMA ChannelFields ==
  ASSUME NEW s, Formed(s)
  PROVE  /\ s \in Channel /\ s.bucket \in Seq(Token) /\ s.sent \in Seq(Frame)
         /\ s.used \in Nat /\ s.cacheSize \in Nat /\ s.rowCounter \in Nat
         /\ s.totalEntries \in Nat /\ s.ts \in Nat \cup {TsNull}
         /\ s.cache \in [Names -> Entry \cup {NoEntry}]
         /\ s.unheard \in BOOLEAN
<1>1. s.totalEntries \in 0 .. IndexMod - 1
  BY DEF Formed, Channel
<1>2. s.totalEntries \in Nat
  BY <1>1, IndexModType
<1> QED
  BY <1>2 DEF Formed, Channel

LEMMA PutFields ==
  ASSUME NEW s \in Channel, NEW t, NEW n
  PROVE  /\ Put(s, t, n).bucket = Append(s.bucket, t)
         /\ Put(s, t, n).cacheSize = s.cacheSize /\ Put(s, t, n).unheard = s.unheard
         /\ Put(s, t, n).sent = s.sent /\ Alike(s, Put(s, t, n))
         /\ Put(s, t, n).handle = s.handle
  BY DEF Put, Channel, Alike

(* One more frame sent is one more frame behind the file. *)
LEMMA SentBehind ==
  ASSUME NEW file \in Seq(Frame), NEW sent \in Seq(Frame), NEW f \in Frame
  PROVE  /\ file \o sent \in Seq(Frame)
         /\ file \o Append(sent, f) = Append(file \o sent, f)
<1> DEFINE a == file \o Append(sent, f)
           b == Append(file \o sent, f)
           k == Len(file)
           l == Len(sent)
           z == Append(sent, f)
           c == file \o sent
<1>1. k \in Nat /\ l \in Nat /\ z \in Seq(Frame) /\ Len(z) = l + 1 /\ z[l + 1] = f
      /\ \A i \in 1 .. l : z[i] = sent[i]
  OBVIOUS
<1>2. /\ c \in Seq(Frame) /\ Len(c) = k + l
      /\ \A i \in 1 .. k + l : c[i] = IF i <= k THEN file[i] ELSE sent[i - k]
  BY ConcatProperties
<1>3. /\ a \in Seq(Frame) /\ Len(a) = k + Len(z)
      /\ \A i \in 1 .. k + Len(z) : a[i] = IF i <= k THEN file[i] ELSE z[i - k]
  BY <1>1, ConcatProperties
<1>4. b \in Seq(Frame) /\ Len(b) = Len(c) + 1 /\ b[Len(c) + 1] = f
      /\ \A i \in 1 .. Len(c) : b[i] = c[i]
  BY <1>2
<1> HIDE DEF a, b, c, k, l, z
<1>5. Len(a) = k + l + 1 /\ Len(b) = k + l + 1
  <2>1. Len(a) = k + (l + 1) /\ Len(b) = (k + l) + 1
    BY Zenon, <1>1, <1>2, <1>3, <1>4
  <2> QED
    BY SMT, <1>1, <2>1
<1>6. ASSUME NEW i \in 1 .. Len(a) PROVE a[i] = b[i]
  <2>1. CASE i \in 1 .. k + l /\ i <= k
    <3>1. a[i] = file[i]
      BY <1>1, <1>3, <1>5, <1>6, <2>1
    <3>2. b[i] = c[i] /\ c[i] = file[i]
      BY <1>2, <1>4, <2>1
    <3> QED
      BY <3>1, <3>2
  <2>2. CASE i \in 1 .. k + l /\ ~(i <= k)
    <3>1. i - k \in 1 .. l
      BY <1>1, <2>2
    <3>2. a[i] = z[i - k] /\ z[i - k] = sent[i - k]
      BY <1>1, <1>3, <1>5, <1>6, <2>2, <3>1
    <3>3. b[i] = c[i] /\ c[i] = sent[i - k]
      BY <1>2, <1>4, <2>2
    <3> QED
      BY <3>2, <3>3
  <2>3. CASE i = k + l + 1
    <3>1. i - k = l + 1 /\ ~(i <= k) /\ i \in 1 .. k + Len(z)
      BY <1>1, <2>3
    <3>2. a[i] = z[l + 1]
      BY <1>3, <3>1
    <3>3. b[i] = f
      BY <1>2, <1>4, <2>3
    <3> QED
      BY <1>1, <3>2, <3>3
  <2> QED
    BY <1>1, <1>5, <1>6, <2>1, <2>2, <2>3
<1>7. a = b
  BY <1>3, <1>4, <1>5, <1>6, SeqEqual
<1> QED
  BY <1>2, <1>7 DEF a, b, c, z

LEMMA SentBehindOf ==
  ASSUME NEW file \in Seq(Frame), NEW s, NEW p, NEW f \in Frame,
         s.sent \in Seq(Frame), p.sent = Append(s.sent, f)
  PROVE  /\ file \o s.sent \in Seq(Frame)
         /\ file \o p.sent = Append(file \o s.sent, f)
<1> DEFINE sent == s.sent
<1>1. sent \in Seq(Frame)
  OBVIOUS
<1> QED
  BY <1>1, SentBehind

(* The clock and the handle stay as they are. *)
Steady(s, p) == p.ts = s.ts /\ p.handle = s.handle

(* A flush takes the bucket to the file, tears a frame or changes nothing. *)
LEMMA FlushedBears ==
  ASSUME NEW s, NEW file, NEW log, NEW closed, NEW u, Bears(s, file, log, closed, u),
         NEW r \in FlushResults
  PROVE  /\ Bears(ChannelFlushed(s, r), file, log, closed, u)
         /\ Steady(s, ChannelFlushed(s, r))
<1>0. /\ Formed(s) /\ file \in Seq(Frame) /\ log \in Seq(Row) /\ u.block \in Seq(Token)
      /\ Carries(s, file, log, closed, u)
  BY DEF Bears
<1> USE <1>0
<1> SUFFICES /\ Carries(ChannelFlushed(s, r), file, log, closed, u)
             /\ Steady(s, ChannelFlushed(s, r))
  BY FlushedFormed DEF Bears
<1> DEFINE p == ChannelFlushed(s, r)
<1>1. /\ s \in Channel /\ s.bucket \in Seq(Token) /\ s.sent \in Seq(Frame)
      /\ s.used \in Nat /\ s.cacheSize \in Nat
  BY ChannelFields
<1>2. Alike(s, p) /\ p.cacheSize = s.cacheSize /\ p.unheard = s.unheard
  BY <1>1 DEF ChannelFlushed, Channel, Alike
<1>6. p.handle = s.handle
  BY <1>1 DEF ChannelFlushed, Channel
<1>3. CASE r = "ok"
  <2> DEFINE f == DataFrame(s.bucket, s.used, s.cacheSize)
  <2>1. f \in Frame
    BY <1>1 DEF DataFrame, Frame
  <2>2. f.meta = "DATA" /\ f.tokens = s.bucket /\ f.cap = s.cacheSize
    BY DEF DataFrame
  <2>3. p.sent = Append(s.sent, f) /\ p.bucket = <<>>
    BY <1>1, <1>3 DEF ChannelFlushed, Channel
  <2> HIDE DEF f, p
  <2>4. p.cacheSize = RoomAfter(f, s.cacheSize)
    BY <1>2, <2>2 DEF RoomAfter
  <2>5. file \o s.sent \in Seq(Frame) /\ file \o p.sent = Append(file \o s.sent, f)
    BY Zenon, <1>1, <2>1, <2>3, SentBehindOf
  <2>6. Carried(p, Append(file \o s.sent, f), log, closed, u)
    BY <1>1, <1>2, <2>1, <2>2, <2>3, <2>4, <2>5, FramedFlow DEF Carries
  <2>7. Carries(p, file, log, closed, u) /\ Steady(s, p)
    BY <1>2, <1>6, <2>5, <2>6 DEF Carries, Alike, Steady
  <2> QED
    BY <2>7 DEF p
<1>4. CASE r = "data"
  <2>1. TornFrame \in Frame /\ TornFrame.meta = "TORN"
    BY DEF TornFrame, Frame
  <2>2. p.sent = Append(s.sent, TornFrame) /\ p.bucket = s.bucket
    BY <1>1, <1>4 DEF ChannelFlushed, Channel
  <2> HIDE DEF p
  <2>3. p.cacheSize = RoomAfter(TornFrame, s.cacheSize)
    BY <1>2, <2>1 DEF RoomAfter
  <2>4. file \o s.sent \in Seq(Frame) /\ file \o p.sent = Append(file \o s.sent, TornFrame)
    BY Zenon, <1>1, <2>1, <2>2, SentBehindOf
  <2>5. Carried(p, Append(file \o s.sent, TornFrame), log, closed, u)
    BY <1>1, <1>2, <2>1, <2>2, <2>3, <2>4, FramedFlow DEF Carries
  <2>6. Carries(p, file, log, closed, u) /\ Steady(s, p)
    BY <1>2, <1>6, <2>4, <2>5 DEF Carries, Alike, Steady
  <2> QED
    BY <2>6 DEF p
<1>5. CASE r # "ok" /\ r # "data"
  <2>1. p.sent = s.sent /\ p.bucket = s.bucket
    BY <1>1, <1>5 DEF ChannelFlushed, Channel
  <2>2. p.unheard \in BOOLEAN
    BY <1>2, ChannelFields
  <2> HIDE DEF p
  <2>3. Carries(p, file, log, closed, u) /\ Steady(s, p)
    BY <1>2, <1>6, <2>1, <2>2, SameFlow DEF Carries, Alike, Steady
  <2> QED
    BY <2>3 DEF p
<1> QED
  BY <1>3, <1>4, <1>5

LEMMA FlushableBears ==
  ASSUME NEW s, NEW file, NEW log, NEW closed, NEW u, Bears(s, file, log, closed, u),
         NEW f \in FlushIfFlushable(s)
  PROVE  Bears(f, file, log, closed, u) /\ Steady(s, f)
<1>1. f = s \/ \E r \in FlushResults : f = ChannelFlushed(s, r)
  BY DEF FlushIfFlushable, ChannelFlush
<1> QED
  BY <1>1, FlushedBears DEF Steady

LEMMA RoomBears ==
  ASSUME NEW s, NEW file, NEW log, NEW closed, NEW u, Bears(s, file, log, closed, u), NEW v
  PROVE  Bears(MadeRoom(s, v), file, log, closed, u) /\ Steady(s, MadeRoom(s, v))
<1>1. "ok" \in FlushResults
  BY PackAssumption
<1> QED
  BY <1>1, FlushedBears DEF MadeRoom, Steady

(* A record that is no row goes to the bucket. *)
LEMMA WroteCarries ==
  ASSUME NEW s, Formed(s), NEW file \in Seq(Frame), NEW log, Len(log) \in Nat, NEW u,
         u.block \in Seq(Token), NEW h, Flow(s, file \o s.sent, log, FALSE, u, h),
         PlainInputs => Exact(s, log, FALSE, h),
         NEW t \in Token, ~IsRow(t), Legal(t, h.mark[h.len]),
         NEW p, p.bucket = Append(s.bucket, t), p.cacheSize = s.cacheSize,
         p.unheard = s.unheard, p.sent = s.sent,
         NEW closed \in BOOLEAN, t.tok = "EOF" => closed,
         Holds(p, log, NextMark(t, h.mark[h.len])),
         PlainInputs /\ Mirrors(s, h.mark[h.len]) => Mirrors(p, NextMark(t, h.mark[h.len])),
         closed \/ (p.cache = s.cache /\ p.totalEntries = s.totalEntries)
  PROVE  Carries(p, file, log, closed, u)
<1> DEFINE x == Extended(h, t)
           F == file \o s.sent
<1>1. s.bucket \in Seq(Token) /\ s.sent \in Seq(Frame)
  BY ChannelFields
<1>2. F \in Seq(Frame)
  BY <1>1, ConcatProperties
<1> HIDE DEF F
<1>3. Flow(p, F, log, closed, u, x)
  BY <1>1, <1>2, WroteFlow DEF F
<1>4. ASSUME PlainInputs PROVE Exact(p, log, closed, x)
  <2>1. h \in Tape /\ Told(h, log) /\ Mirrors(s, h.mark[h.len]) /\ Numbered(s.cache, s.totalEntries)
    BY <1>4 DEF Exact, Flow
  <2>2. Begins(log, log) /\ Tells(log, t, h.mark[h.len])
    BY DEF Begins, Tells
  <2>3. Told(x, log)
    BY <2>1, <2>2, WroteTold
  <2>4. x.mark[x.len] = NextMark(t, h.mark[h.len])
    BY <2>1, ExtendedFields
  <2> HIDE DEF x
  <2>5. Mirrors(p, x.mark[x.len])
    BY <1>4, <2>1, <2>4
  <2>6. closed \/ Numbered(p.cache, p.totalEntries)
    BY <2>1
  <2> QED
    BY <2>3, <2>5, <2>6 DEF Exact
<1> HIDE DEF x
<1> QED
  BY <1>3, <1>4 DEF Carries, Carried, F

(* The timestamp handler: the clock moves with the records that say so. *)
LEMMA StampedBears ==
  ASSUME NEW s, NEW file, NEW log, NEW u, Open(s, file, log, u),
         NEW t \in Times, ~TsRejected(s, t), NEW f \in TsHandler(s, t)
  PROVE  Open(f, file, log, u) /\ f.ts = Tick(t) /\ f.handle = s.handle
<1>0. /\ Formed(s) /\ file \in Seq(Frame) /\ log \in Seq(Row) /\ u.block \in Seq(Token)
      /\ Carries(s, file, log, FALSE, u)
  BY DEF Open, Bears
<1> USE <1>0
<1> DEFINE n == Tick(t)
<1>1. n \in Nat /\ s.ts \in Nat \cup {TsNull} /\ s \in Channel
  BY TickNat, ChannelFields
<1>2. CASE s.ts = n
  BY <1>2 DEF TsHandler
<1>3. CASE s.ts # n
  <2> DEFINE k == IF s.ts = TsNull THEN TsToken("SET_TIMESTAMP", n)
                  ELSE TsToken("SHIFT_TIMESTAMP", n - s.ts)
             q == IF s.ts = TsNull
                  THEN [s EXCEPT !.ts = n, !.timeStart = IF @ = TsNull THEN t ELSE @]
                  ELSE [s EXCEPT !.ts = n, !.timeEnd = t]
             z == ArgTokenSize(k.arg)
             p == Put(q, k, z)
  <2>1. s.ts # TsNull => s.ts \in Nat /\ n - s.ts \in Nat /\ s.ts + (n - s.ts) = n
    BY <1>1 DEF TsRejected
  <2>2. /\ k \in Token /\ ~IsRow(k) /\ k.arg \in Nat
        /\ s.ts = TsNull => k.tok = "SET_TIMESTAMP" /\ k.arg = n
        /\ s.ts # TsNull => k.tok = "SHIFT_TIMESTAMP" /\ k.arg = n - s.ts
    BY <1>1, <2>1 DEF TsToken, Token, IsRow, RowTags, ValueTypes, IntTypes, BoolTypes
  <2>3. t \in Nat
    BY PackAssumption
  <2>4. /\ q \in Channel /\ q.ts = n /\ q.rowCounter = s.rowCounter /\ q.bucket = s.bucket
        /\ q.totalEntries = s.totalEntries /\ q.cache = s.cache /\ q.sent = s.sent
        /\ q.cacheSize = s.cacheSize /\ q.unheard = s.unheard /\ q.handle = s.handle
    <3>1. n \in Nat \cup {TsNull} /\ t \in Nat \cup {TsNull}
      BY <1>1, <2>3
    <3>2. CASE s.ts = TsNull
      <4> DEFINE a == IF s.timeStart = TsNull THEN t ELSE s.timeStart
      <4>1. a \in Nat \cup {TsNull}
        BY <1>1, <3>1 DEF Channel
      <4>2. q = [s EXCEPT !.ts = n, !.timeStart = a]
        BY Zenon, <3>2
      <4> HIDE DEF a, q
      <4> QED
        BY <1>1, <3>1, <4>1, <4>2 DEF Channel
    <3>3. CASE s.ts # TsNull
      BY <1>1, <3>1, <3>3 DEF Channel
    <3> QED
      BY <3>2, <3>3
  <2>5. f \in FlushIfFlushable(p)
    BY <1>3 DEF TsHandler, SetTimestamp, ShiftTimestamp, TsToken
  <2>6. Formed(p)
    <3>1. Geometry(s) /\ Sticks(s)
      BY DEF Formed
    <3>2. q.threshold = s.threshold /\ q.state = s.state /\ q.flushFailed = s.flushFailed
      BY <1>1 DEF Channel
    <3> HIDE DEF q
    <3>3. Formed(q)
      BY <2>4, <3>1, <3>2 DEF Formed, Geometry, Sticks
    <3>4. z \in Nat
      <4>1. k.arg \in Nat
        BY <2>2
      <4>2. z \in 2 .. 11
        BY <4>1, ArgSize
      <4> HIDE DEF z
      <4> QED
        BY <4>2
    <3> QED
      BY <2>2, <3>3, <3>4, PutFormed
  <2>7. /\ p.bucket = Append(s.bucket, k) /\ p.cacheSize = s.cacheSize /\ p.unheard = s.unheard
        /\ p.sent = s.sent /\ Alike(q, p) /\ p.handle = s.handle
    <3> HIDE DEF k, q, z
    <3> QED
      BY <2>4, PutFields
  <2>8. /\ p.ts = n /\ p.rowCounter = s.rowCounter /\ p.totalEntries = s.totalEntries
        /\ p.cache = s.cache
    BY <2>4, <2>7 DEF Alike
  <2> HIDE DEF p, q, k, z
  <2>9. PICK h : /\ Flow(s, file \o s.sent, log, FALSE, u, h)
                 /\ PlainInputs => Exact(s, log, FALSE, h)
    BY DEF Carries, Carried
  <2> DEFINE m == h.mark[h.len]
             x == NextMark(k, m)
  <2>10. Holds(s, log, m)
    BY <2>9 DEF Flow
  <2>11. Legal(k, m)
    BY <2>2, <2>10, TokenFields DEF Legal, Holds
  <2>12. x.entries = m.entries /\ x.rows = m.rows /\ x.ts = n
    <3>1. EntriesAfter(k, m.entries) = m.entries
      BY <2>2 DEF EntriesAfter, HasValue, ValueTypes, IntTypes, BoolTypes
    <3>2. TsAfter(k, m.ts) = n
      BY <2>1, <2>2, <2>10 DEF TsAfter, Holds
    <3> QED
      BY <2>2, <3>1, <3>2 DEF NextMark
  <2> HIDE DEF x
  <2>13. Holds(p, log, x)
    BY <2>8, <2>10, <2>12 DEF Holds
  <2>14. Mirrors(s, m) => Mirrors(p, x)
    BY Zenon, <2>8, <2>12, SameMirrors
  <2>15. k.tok # "EOF"
    BY <2>2
  <2>17. Len(log) \in Nat
    OBVIOUS
  <2>16. Carries(p, file, log, FALSE, u)
    BY <2>17, <2>2, <2>7, <2>8, <2>9, <2>11, <2>13, <2>14, <2>15, WroteCarries DEF x, m
  <2>18. Bears(p, file, log, FALSE, u)
    BY <2>6, <2>16 DEF Bears
  <2> QED
    <3>1. Bears(f, file, log, FALSE, u) /\ Steady(p, f)
      BY Zenon, <2>5, <2>18, FlushableBears
    <3> QED
      BY Zenon, <2>7, <2>8, <3>1 DEF Steady, Open
<1> QED
  BY <1>2, <1>3

-----------------------------------------------------------------------------
(* A row. *)

LEMMA KnownEntry ==
  ASSUME NEW cache \in [Names -> Entry \cup {NoEntry}], NEW n \in Known(cache)
  PROVE  n \in Names /\ cache[n] \in Entry /\ cache[n].index \in Nat
<1>1. n \in Names /\ cache[n] \in Entry
  BY DEF Known
<1>2. cache[n].index \in 0 .. IndexMod - 1
  BY <1>1 DEF Entry
<1> QED
  BY <1>1, <1>2, IndexModType

(* entry_insert_routine hands out the index it was given, and changes no other. *)
LEMMA InsertedIndex ==
  ASSUME NEW cache \in [Names -> Entry \cup {NoEntry}], NEW n \in Names, NEW unit, NEW i,
         NEW last, NEW c, c = Inserted(cache, n, unit, i, last), NEW k \in Known(c)
  PROVE  c[k].index = i \/ (k \in Known(cache) /\ c[k].index = cache[k].index)
<1>1. k \in Names /\ c[k] # NoEntry
  BY DEF Known
<1>2. CASE SameIndex(cache, n, i) = {}
  <2> DEFINE e == [unit |-> unit, index |-> i, type |-> last.type, val |-> last.val,
                   terminated |-> last.terminated]
  <2>1. c = [cache EXCEPT ![n] = e] /\ e.index = i
    BY <1>2 DEF Inserted
  <2> HIDE DEF e
  <2>2. ASSUME k = n PROVE c[k].index = i
    BY <2>1, <2>2
  <2>3. ASSUME k # n PROVE k \in Known(cache) /\ c[k].index = cache[k].index
    <3>1. c[k] = cache[k]
      BY <1>1, <2>1, <2>3
    <3>2. cache[k] # NoEntry
      BY <1>1, <3>1
    <3> QED
      BY <1>1, <3>1, <3>2 DEF Known
  <2>4. c[k].index = i \/ (k \in Known(cache) /\ c[k].index = cache[k].index)
    BY <2>2, <2>3
  <2> QED
    BY <2>4
<1>3. CASE SameIndex(cache, n, i) # {}
  <2> DEFINE m == CHOOSE m \in SameIndex(cache, n, i) : TRUE
  <2>1. m \in SameIndex(cache, n, i)
    BY <1>3
  <2>2. m \in Known(cache)
    BY <2>1 DEF SameIndex
  <2>3. c = [cache EXCEPT ![m] = WithLast(cache[m], last)]
    BY <1>3 DEF Inserted
  <2> HIDE DEF m
  <2>4. m \in Names /\ cache[m] \in Entry
    BY <2>2, KnownEntry
  <2>5. WithLast(cache[m], last).index = cache[m].index
    BY <2>4 DEF WithLast, Entry
  <2>6. c[k].index = cache[k].index /\ k \in Known(cache)
    <3>1. CASE k = m
      BY <2>2, <2>3, <2>4, <2>5, <3>1
    <3>2. CASE k # m
      BY <1>1, <2>3, <3>2 DEF Known
    <3> QED
      BY <3>1, <3>2
  <2> QED
    BY <2>6
<1> QED
  BY <1>2, <1>3

LEMMA CountFields ==
  ASSUME NEW s \in Channel
  PROVE  LET c == CountRow(s)
         IN  /\ c.rowCounter = s.rowCounter + 1 /\ c.ts = s.ts /\ c.cache = s.cache
             /\ c.totalEntries = s.totalEntries /\ c.bucket = s.bucket /\ c.sent = s.sent
             /\ c.cacheSize = s.cacheSize /\ c.unheard = s.unheard /\ c.handle = s.handle
  BY DEF CountRow, Channel

(* What the row's record tells, and how the dictionaries stay in step. *)
LEMMA WroteRow ==
  ASSUME NEW s, s.bucket \in Seq(Token), s.sent \in Seq(Frame), NEW file \in Seq(Frame),
         NEW log, Len(log) \in Nat, NEW longer, Len(longer) \in Nat, Begins(log, longer),
         NEW u, u.block \in Seq(Token), NEW h, Flow(s, file \o s.sent, log, FALSE, u, h),
         PlainInputs => Told(h, log),
         NEW t \in Token, IsRow(t), Legal(t, h.mark[h.len]),
         NEW p, p.bucket = Append(s.bucket, t), p.cacheSize = s.cacheSize,
         p.unheard = s.unheard, p.sent = s.sent,
         Holds(p, longer, NextMark(t, h.mark[h.len])),
         PlainInputs => /\ Tells(longer, t, h.mark[h.len])
                        /\ Mirrors(p, NextMark(t, h.mark[h.len]))
                        /\ Numbered(p.cache, p.totalEntries)
  PROVE  Carries(p, file, longer, FALSE, u)
<1> DEFINE x == Extended(h, t)
           F == file \o s.sent
<1>1. F \in Seq(Frame)
  BY ConcatProperties
<1>2. t.tok # "EOF"
  BY TokenFields
<1> HIDE DEF F
<1>3. Flow(p, F, longer, FALSE, u, x)
  BY <1>1, <1>2, WroteFlow DEF F
<1>4. ASSUME PlainInputs PROVE Exact(p, longer, FALSE, x)
  <2>1. h \in Tape /\ Told(h, log)
    BY <1>4 DEF Flow
  <2>2. Told(x, longer)
    BY <1>4, <2>1, WroteTold
  <2>3. x.mark[x.len] = NextMark(t, h.mark[h.len])
    BY <2>1, ExtendedFields
  <2> HIDE DEF x
  <2> QED
    BY <1>4, <2>2, <2>3 DEF Exact
<1> HIDE DEF x
<1> QED
  BY <1>3, <1>4 DEF Carries, Carried, F

LEMMA MarkFields ==
  ASSUME NEW m \in Mark
  PROVE  /\ m.entries \in Seq(Sensor) /\ Len(m.entries) \in Nat /\ m.rows \in Nat
         /\ m.ts \in Nat \cup {TsNull}
<1>1. m.entries \in Seq(Sensor) /\ m.rows \in Nat /\ m.ts \in Nat \cup {TsNull}
  BY DEF Mark
<1> QED
  BY <1>1

IndexOf(s, n) == IF n \in Known(s.cache) THEN s.cache[n].index ELSE s.totalEntries

(* q is what m becomes when the sensor of the given index takes a value. *)
Learns(m, q, size, i, n, v) ==
  /\ Len(q.entries) = size /\ q.entries[i + 1].name = n /\ q.entries[i + 1].value = v
  /\ \A j \in 1 .. Len(m.entries) : j # i + 1 => q.entries[j] = m.entries[j]

(* Reader and packer learn the row's value at the same index. *)
LEMMA PlainRow ==
  ASSUME PlainInputs, NEW s, Formed(s), NEW log, NEW m \in Mark, Holds(s, log, m),
         Mirrors(s, m), Numbered(s.cache, s.totalEntries), NEW n \in Names,
         NEW unit \in Units, NEW v \in Values, NEW w \in WriteRow(s, n, unit, v),
         Formed(w), NEW q, Learns(m, q, w.totalEntries, IndexOf(s, n), n, v)
  PROVE  Mirrors(CountRow(w), q) /\ Numbered(w.cache, w.totalEntries)
<1> DEFINE i == IndexOf(s, n)
<1>13. /\ Len(q.entries) = w.totalEntries /\ q.entries[i + 1].name = n
       /\ q.entries[i + 1].value = v
       /\ \A j \in 1 .. Len(m.entries) : j # i + 1 => q.entries[j] = m.entries[j]
  BY DEF Learns
<1>14. i = IF n \in Known(s.cache) THEN s.cache[n].index ELSE s.totalEntries
  BY DEF IndexOf
<1> HIDE DEF i
<1> USE <1>13, <1>14
<1>1. FewNames /\ PlainValues
  BY DEF PlainInputs
<1>2. Remembers(s.cache)
  <2>1. ASSUME NEW k \in Known(s.cache)
        PROVE  \E z \in Values : z.type = s.cache[k].type /\ z.val = s.cache[k].val
    BY DEF Mirrors
  <2> QED
    BY <2>1 DEF Remembers
<1>3. /\ Known(w.cache) = Known(s.cache) \cup {n}
      /\ \A k \in Known(s.cache) : k # n => w.cache[k] = s.cache[k]
      /\ w.cache[n].type = v.type /\ w.cache[n].val = v.val /\ w.cache[n].index = i
  BY <1>1, <1>2, RowRemembers
<1>4. Numbered(w.cache, w.totalEntries)
  BY <1>1, RowNumbered
<1>5. \A k \in Known(s.cache) : s.cache[k].index \in Nat /\ s.cache[k].index < Len(m.entries)
  <2>1. \A k \in Known(s.cache) : s.cache[k].index < Len(m.entries)
    BY DEF Holds
  <2> QED
    BY <2>1, ChannelFields, KnownEntry
<1>6. i \in Nat
  BY <1>5, ChannelFields
<1>7. Len(m.entries) \in Nat
  BY MarkFields
<1>8. \A j, k \in Known(w.cache) : w.cache[j].index = w.cache[k].index => j = k
  BY <1>4 DEF Numbered
<1>9. Mirrors(w, q)
  <2>1. ASSUME NEW k \in Known(w.cache)
        PROVE  LET e == q.entries[w.cache[k].index + 1]
               IN  /\ e.name = k /\ e.value \in Values
                   /\ e.value.type = w.cache[k].type /\ e.value.val = w.cache[k].val
    <3>1. CASE k = n
      BY Zenon, <1>3, <3>1
    <3>2. CASE k # n
      <4> DEFINE l == s.cache[k].index
      <4>1. k \in Known(s.cache) /\ w.cache[k] = s.cache[k]
        BY <1>3, <2>1, <3>2
      <4>2. l \in Nat /\ l < Len(m.entries)
        BY <1>5, <4>1
      <4>3. l # i
        <5>1. n \in Known(w.cache)
          BY <1>3
        <5> QED
          BY <1>3, <1>8, <2>1, <3>2, <4>1, <5>1
      <4> HIDE DEF l
      <4>4. l + 1 \in 1 .. Len(m.entries) /\ l + 1 # i + 1
        BY <1>6, <1>7, <4>2, <4>3
      <4>5. q.entries[l + 1] = m.entries[l + 1]
        BY <4>4
      <4>6. LET e == m.entries[l + 1]
            IN  /\ e.name = k /\ e.value \in Values
                /\ e.value.type = s.cache[k].type /\ e.value.val = s.cache[k].val
        BY Zenon, <4>1 DEF Mirrors, l
      <4> QED
        BY Zenon, <4>1, <4>5, <4>6 DEF l
    <3> QED
      BY Zenon, <3>1, <3>2
  <2> QED
    BY Zenon, <2>1 DEF Mirrors
<1>10. CountRow(w).cache = w.cache /\ CountRow(w).totalEntries = w.totalEntries
  BY ChannelFields, CountFields
<1> QED
  BY Zenon, <1>4, <1>9, <1>10, SameMirrors

Accepted(t, n, unit, v) == [time |-> Tick(t), name |-> n, unit |-> unit, value |-> v]

LEMMA AppendBegins ==
  ASSUME NEW S, NEW log \in Seq(S), NEW r \in S
  PROVE  /\ Begins(log, Append(log, r)) /\ Len(log) \in Nat
         /\ Len(Append(log, r)) = Len(log) + 1 /\ Append(log, r)[Len(log) + 1] = r
  BY DEF Begins

LEMMA RepeatedFields ==
  ASSUME NEW s \in Channel, NEW n, NEW w, w = WriteUnmodified(s, n)
  PROVE  /\ w.bucket = Append(s.bucket, RepeatToken(s.cache[n].index)) /\ w.cache = s.cache
         /\ w.cacheSize = s.cacheSize /\ w.unheard = s.unheard /\ w.sent = s.sent /\ w.ts = s.ts
         /\ w.rowCounter = s.rowCounter /\ w.totalEntries = s.totalEntries /\ w.handle = s.handle
<1> DEFINE k == RepeatToken(s.cache[n].index)
           z == ArgTokenSize(s.cache[n].index)
<1>1. WriteUnmodified(s, n) = Put(s, k, z)
  BY Zenon DEF WriteUnmodified
<1> HIDE DEF k, z
<1>2. /\ Put(s, k, z).bucket = Append(s.bucket, k) /\ Put(s, k, z).cacheSize = s.cacheSize
      /\ Put(s, k, z).unheard = s.unheard /\ Put(s, k, z).sent = s.sent /\ Alike(s, Put(s, k, z))
      /\ Put(s, k, z).handle = s.handle
  BY PutFields
<1> QED
  BY Zenon, <1>1, <1>2 DEF Alike, k

LEMMA ChangedFields ==
  ASSUME NEW s \in Channel, NEW n, NEW v, NEW w, w = WriteChanged(s, n, v)
  PROVE  /\ w.bucket = Append(s.bucket, ValueToken(s.cache[n].index, v))
         /\ w.cacheSize = s.cacheSize /\ w.unheard = s.unheard /\ w.sent = s.sent /\ w.ts = s.ts
         /\ w.rowCounter = s.rowCounter /\ w.totalEntries = s.totalEntries /\ w.handle = s.handle
<1> DEFINE k == ValueToken(s.cache[n].index, v)
           z == ValueTokenSize(s.cache[n].index, v)
           c == [s.cache EXCEPT ![n] = WithLast(s.cache[n], NextLast(v))]
           q == [s EXCEPT !.cache = c]
<1>1. WriteChanged(s, n, v) = Put(q, k, z)
  BY Zenon DEF WriteChanged
<1> HIDE DEF c, k, z
<1>2. Put(q, k, z) = [s EXCEPT !.cache = c, !.bucket = Append(s.bucket, k), !.used = s.used + z,
                               !.overrun = s.overrun \/ s.used + z > s.cacheSize]
  BY DEF Put, Channel
<1>3. w = [s EXCEPT !.cache = c, !.bucket = Append(s.bucket, k), !.used = s.used + z,
                    !.overrun = s.overrun \/ s.used + z > s.cacheSize]
  BY Zenon, <1>1, <1>2
<1>4. /\ w.bucket = Append(s.bucket, k)
      /\ w.cacheSize = s.cacheSize /\ w.unheard = s.unheard /\ w.sent = s.sent /\ w.ts = s.ts
      /\ w.rowCounter = s.rowCounter /\ w.totalEntries = s.totalEntries /\ w.handle = s.handle
  BY <1>3 DEF Channel
<1> QED
  BY Zenon, <1>1, <1>2, <1>3, <1>4 DEF k

Remembered(c, n, v) == [c EXCEPT ![n] = WithLast(c[n], NextLast(v))]

LEMMA ChangedCache ==
  ASSUME NEW s \in Channel, NEW n, NEW v
  PROVE  WriteChanged(s, n, v).cache = Remembered(s.cache, n, v)
<1> DEFINE i == s.cache[n].index
           c == [s.cache EXCEPT ![n] = WithLast(s.cache[n], NextLast(v))]
           k == ValueToken(i, v)
           z == ValueTokenSize(i, v)
<1>1. WriteChanged(s, n, v) = Put([s EXCEPT !.cache = c], k, z)
  BY Zenon DEF WriteChanged
<1> HIDE DEF c, k, z
<1>2. Put([s EXCEPT !.cache = c], k, z).cache = c
  BY DEF Put, Channel
<1> QED
  BY Zenon, <1>1, <1>2 DEF c, Remembered

(* A row of a sensor the dictionary holds: one record, repeating or not. *)
LEMMA KnownBears ==
  ASSUME NEW s, NEW file, NEW log, NEW u, Open(s, file, log, u),
         NEW t \in Times, s.ts = Tick(t), NEW n \in Known(s.cache), NEW unit \in Units,
         NEW v \in Values, NEW w \in WriteRow(s, n, unit, v), Formed(w)
  PROVE  /\ Open(CountRow(w), file, Append(log, Accepted(t, n, unit, v)), u)
         /\ CountRow(w).handle = s.handle
<1>0. /\ Formed(s) /\ file \in Seq(Frame) /\ log \in Seq(Row) /\ u.block \in Seq(Token)
      /\ Carries(s, file, log, FALSE, u)
  BY DEF Open, Bears
<1> USE <1>0
<1> DEFINE row == Accepted(t, n, unit, v)
           longer == Append(log, row)
           i == s.cache[n].index
           repeated == w = WriteUnmodified(s, n) /\ TRUE \in Unmodified(s.cache[n], v)
           k == IF repeated THEN RepeatToken(i) ELSE ValueToken(i, v)
           p == CountRow(w)
<1>1. n \in Names /\ s.cache[n] \in Entry /\ i \in Nat
  BY ChannelFields, KnownEntry
<1>2. row \in Row
  <2>1. Tick(t) \in Nat
    BY TickNat
  <2> QED
    BY <1>1, <2>1 DEF Accepted, Row
<1>3. /\ s \in Channel /\ s.bucket \in Seq(Token) /\ s.sent \in Seq(Frame)
      /\ s.cache \in [Names -> Entry \cup {NoEntry}] /\ s.totalEntries \in Nat
      /\ s.rowCounter \in Nat
  BY ChannelFields
<1>4. repeated \/ w = WriteChanged(s, n, v)
  BY DEF WriteRow
<1>5. v.type \in ValueTypes
  BY BaseAssumption DEF Value
<1>6. /\ k \in Token /\ IsRow(k) /\ k.index = i /\ k.tok # "NAME_ASSIGN"
      /\ repeated => k.tok = "UNMODIFIED" /\ ~HasValue(k)
      /\ ~repeated => k.tok # "UNMODIFIED" /\ HasValue(k) /\ k.value = v /\ k.tok = Tag(v)
  BY <1>1, <1>5 DEF RepeatToken, ValueToken, Tag, Token, IsRow, RowTags, HasValue, ValueTypes,
     IntTypes, BoolTypes
<1>7. /\ w.bucket = Append(s.bucket, k) /\ w.cacheSize = s.cacheSize /\ w.unheard = s.unheard
      /\ w.sent = s.sent /\ w.ts = s.ts /\ w.rowCounter = s.rowCounter
      /\ w.totalEntries = s.totalEntries /\ w.handle = s.handle
  <2>1. CASE repeated
    BY SMT, <1>3, <2>1, RepeatedFields
  <2>2. CASE ~repeated
    <3>1. w = WriteChanged(s, n, v) /\ k = ValueToken(i, v)
      BY Zenon, <1>4, <2>2
    <3> HIDE DEF k
    <3> QED
      BY SMT, <1>3, <3>1, ChangedFields
  <2> QED
    BY Zenon, <2>1, <2>2
<1>8. \A j \in Known(w.cache) : j \in Known(s.cache) /\ w.cache[j].index = s.cache[j].index
  <2>1. CASE w.cache = s.cache
    BY <2>1
  <2>2. CASE w.cache = [s.cache EXCEPT ![n] = WithLast(s.cache[n], NextLast(v))]
    <3> DEFINE e == WithLast(s.cache[n], NextLast(v))
    <3>1. e.index = i
      BY <1>1 DEF WithLast, Entry
    <3> HIDE DEF e
    <3>2. ASSUME NEW j \in Known(w.cache)
          PROVE  j \in Known(s.cache) /\ w.cache[j].index = s.cache[j].index
      <4>1. CASE j = n
        BY <1>1, <1>3, <2>2, <3>1, <4>1 DEF e
      <4>2. CASE j # n
        BY <1>1, <1>3, <2>2, <4>2 DEF Known
      <4> QED
        BY <4>1, <4>2
    <3> QED
      BY <3>2
  <2>3. w.cache = s.cache \/ w.cache = [s.cache EXCEPT ![n] = WithLast(s.cache[n], NextLast(v))]
    <3>1. w = WriteUnmodified(s, n) => w.cache = s.cache
      BY SMT, <1>3, RepeatedFields
    <3>2. s \in Channel
      BY <1>3
    <3>3. WriteChanged(s, n, v).cache = Remembered(s.cache, n, v)
      BY Zenon, <3>2, ChangedCache
    <3> QED
      BY Zenon, <1>4, <3>1, <3>3 DEF Remembered
  <2> QED
    BY <2>1, <2>2, <2>3
<1>9. /\ p.rowCounter = s.rowCounter + 1 /\ p.ts = s.ts /\ p.cache = w.cache
      /\ p.totalEntries = s.totalEntries /\ p.bucket = Append(s.bucket, k) /\ p.sent = s.sent
      /\ p.cacheSize = s.cacheSize /\ p.unheard = s.unheard /\ p.handle = s.handle
  <2>1. w \in Channel
    BY ChannelFields
  <2> HIDE DEF k
  <2> QED
    BY Zenon, <1>7, <2>1, CountFields
<1>10. PICK h : /\ Flow(s, file \o s.sent, log, FALSE, u, h)
                /\ PlainInputs => Exact(s, log, FALSE, h)
  BY DEF Carries, Carried
<1> DEFINE m == h.mark[h.len]
           x == NextMark(k, m)
<1>11. m \in Mark /\ Holds(s, log, m)
  BY <1>10, TapeFields DEF Flow
<1>12. /\ m.entries \in Seq(Sensor) /\ Len(m.entries) \in Nat /\ m.rows = Len(log)
       /\ m.ts = Tick(t) /\ i < Len(m.entries) /\ s.rowCounter = Len(log)
  BY <1>11, MarkFields DEF Holds
<1>13. Legal(k, m)
  BY <1>6, <1>12, TokenFields DEF Legal
<1>14. x.rows = m.rows + 1 /\ x.ts = m.ts /\ Len(x.entries) = Len(m.entries)
  <2>1. TsAfter(k, m.ts) = m.ts
    BY <1>6, TokenFields DEF TsAfter
  <2>2. Len(EntriesAfter(k, m.entries)) = Len(m.entries)
    BY <1>6, <1>12, EntriesTyped
  <2> QED
    BY <1>6, <2>1, <2>2 DEF NextMark
<1>15. i + 1 \in 1 .. Len(m.entries)
  <2> DEFINE l == Len(m.entries)
  <2>1. i \in Nat /\ l \in Nat /\ i < l
    BY <1>1, <1>12
  <2> HIDE DEF i, l
  <2>2. i + 1 \in 1 .. l
    BY <2>1
  <2> QED
    BY <2>2 DEF l
<1>16. /\ ~repeated => x.entries = [m.entries EXCEPT ![i + 1] = WithValue(m.entries[i + 1], v)]
       /\ repeated => x.entries = m.entries
  BY Zenon, <1>6 DEF NextMark, EntriesAfter
<1>17. Begins(log, longer) /\ Len(log) \in Nat /\ Len(longer) = Len(log) + 1
       /\ longer[Len(log) + 1] = row
  BY <1>2, AppendBegins
<1>18. Len(longer) \in Nat
  BY <1>17
<1> HIDE DEF k, p, x, longer
<1>19. Holds(p, longer, x)
  <2>1. \A j \in Known(p.cache) : p.cache[j].index < Len(x.entries)
    BY <1>8, <1>9, <1>11, <1>14 DEF Holds
  <2>2. p.totalEntries <= Len(x.entries)
    BY <1>9, <1>11, <1>14 DEF Holds
  <2> QED
    BY <1>9, <1>11, <1>12, <1>14, <1>17, <2>1, <2>2 DEF Holds
<1>20. ASSUME PlainInputs
       PROVE  /\ Told(h, log) /\ Tells(longer, k, m)
              /\ Mirrors(p, x) /\ Numbered(p.cache, p.totalEntries)
  <2>1. Told(h, log) /\ Mirrors(s, m) /\ Numbered(s.cache, s.totalEntries)
    BY <1>10, <1>20 DEF Exact
  <2> DEFINE e == m.entries[i + 1]
  <2>2. /\ e \in Sensor /\ e.name = n /\ e.value \in Values
        /\ e.value.type = s.cache[n].type /\ e.value.val = s.cache[n].val
    <3>1. e \in Sensor
      BY <1>12, <1>15
    <3> QED
      BY Zenon, <2>1, <3>1 DEF Mirrors
  <2>3. OneUnit => e.unit = unit
    BY Zenon, <2>2 DEF OneUnit, Sensor
  <2>4. ASSUME repeated PROVE e.value = v
    <3>1. <<s.cache[n].val, v.val>> \notin Extends
      BY <1>20 DEF PlainInputs, PlainValues
    <3>2. /\ s.cache[n].type = v.type
          /\ v.type \in BoolTypes \cup {"NULL"} \/ s.cache[n].val = v.val
      BY <2>4, <3>1 DEF Unmodified
    <3>3. SameValue(e.value, v)
      BY Zenon, <2>2, <3>2 DEF SameValue
    <3> QED
      BY Zenon, <1>20, <2>2, <3>3 DEF PlainInputs, PlainValues
  <2> HIDE DEF e
  <2>5. SameRow(row, Decoded(k, m))
    <3>1. repeated => k.tok = "UNMODIFIED" /\ e.value = v
      BY <1>6, <2>4
    <3>2. ~repeated => k.tok # "UNMODIFIED" /\ k.value = v
      BY <1>6
    <3>3. (IF k.tok = "UNMODIFIED" THEN e.value ELSE k.value) = v
      BY <3>1, <3>2
    <3>4. Decoded(k, m) = [time |-> m.ts, name |-> e.name, unit |-> e.unit, value |-> v]
      BY Zenon, <1>6, <3>3 DEF Decoded, e
    <3> QED
      BY <1>12, <2>2, <2>3, <3>4 DEF Accepted, SameRow
  <2>6. Tells(longer, k, m)
    BY <1>12, <1>17, <2>5 DEF Tells
  <2>7. /\ x.entries[i + 1].name = n /\ x.entries[i + 1].value = v
        /\ \A j \in 1 .. Len(m.entries) : j # i + 1 => x.entries[j] = m.entries[j]
    <3>1. CASE repeated
      BY Zenon, <1>16, <2>2, <2>4, <3>1 DEF e
    <3>2. CASE ~repeated
      <4> DEFINE z == WithValue(e, v)
      <4>1. z.name = n /\ z.value = v
        BY <2>2 DEF WithValue
      <4>2. x.entries = [m.entries EXCEPT ![i + 1] = z]
        BY <1>16, <3>2 DEF e
      <4> HIDE DEF z
      <4> QED
        BY <1>12, <1>15, <4>1, <4>2
    <3> QED
      BY <3>1, <3>2
  <2>8. Len(x.entries) = w.totalEntries
    BY Zenon, <1>7, <1>14, <2>1 DEF Mirrors
  <2>9. Mirrors(p, x) /\ Numbered(w.cache, w.totalEntries)
    <3>1. Learns(m, x, w.totalEntries, IndexOf(s, n), n, v)
      BY <2>7, <2>8 DEF Learns, IndexOf
    <3> QED
      BY <1>1, <1>11, <1>20, <2>1, <3>1, PlainRow DEF p
  <2> QED
    BY <1>7, <1>9, <2>1, <2>6, <2>9
<1>21. Carries(p, file, longer, FALSE, u)
  BY <1>3, <1>6, <1>9, <1>10, <1>13, <1>17, <1>18, <1>19, <1>20, WroteRow DEF x
<1>22. Formed(p) /\ longer \in Seq(Row)
  BY <1>2, CountFormed DEF p, longer
<1> QED
  BY <1>9, <1>21, <1>22 DEF p, longer, Bears, Open

LEMMA NextIndex ==
  ASSUME NEW i \in Nat, NEW b \in Nat, i < b
  PROVE  (i + 1) % b <= i + 1 /\ (i + 1 < b => (i + 1) % b = i + 1)
<1>1. CASE i + 1 < b
  <2>1. (i + 1) % b = i + 1
    BY <1>1
  <2> QED
    BY <2>1
<1>2. CASE i + 1 = b
  <2>1. (i + 1) % b \in 0 .. b - 1
    BY <1>2
  <2> QED
    BY <1>2, <2>1
<1> QED
  BY <1>1, <1>2

(* As long as a name is new there is an index left for it. *)
LEMMA RoomLeft ==
  ASSUME IsFiniteSet(Names), NEW cache, NEW k \in Nat, Numbered(cache, k), NEW n \in Names,
         n \notin Known(cache)
  PROVE  k + 1 <= Cardinality(Names)
<1> DEFINE S == Known(cache) \cup {n}
<1>1. IsFiniteSet(Known(cache)) /\ S \in SUBSET Names
  BY FS_Subset DEF Known
<1>2. Cardinality(S) = k + 1
  BY <1>1, FS_AddElement DEF Numbered
<1> HIDE DEF S
<1> QED
  BY <1>1, <1>2, FS_Subset

(* A new sensor: its name goes before its value. *)
LEMMA NewBears ==
  ASSUME NEW s, NEW file, NEW log, NEW u, Open(s, file, log, u),
         NEW t \in Times, s.ts = Tick(t), NEW n \in Names, n \notin Known(s.cache),
         NEW unit \in Units, NEW v \in Values, NEW w, w = WriteNew(s, n, unit, v), Formed(w)
  PROVE  /\ Open(CountRow(w), file, Append(log, Accepted(t, n, unit, v)), u)
         /\ CountRow(w).handle = s.handle
<1>0. /\ Formed(s) /\ file \in Seq(Frame) /\ log \in Seq(Row) /\ u.block \in Seq(Token)
      /\ Carries(s, file, log, FALSE, u)
  BY DEF Open, Bears
<1> USE <1>0
<1> DEFINE row == Accepted(t, n, unit, v)
           longer == Append(log, row)
           i == s.totalEntries
           c == Inserted(s.cache, n, unit, i, FirstLast(v))
           k == NameToken(n, unit)
           l == ValueToken(i, v)
           q == Put([s EXCEPT !.cache = c], k, NameTokenSize(n, unit))
           p == CountRow(w)
<1>1. /\ s \in Channel /\ s.bucket \in Seq(Token) /\ s.sent \in Seq(Frame)
      /\ s.cache \in [Names -> Entry \cup {NoEntry}] /\ i \in Nat /\ s.rowCounter \in Nat
  BY ChannelFields
<1>2. row \in Row
  <2>1. Tick(t) \in Nat
    BY TickNat
  <2> QED
    BY <2>1 DEF Accepted, Row
<1>3. v.type \in ValueTypes
  BY BaseAssumption DEF Value
<1>4. /\ k \in Token /\ ~IsRow(k) /\ k.tok = "NAME_ASSIGN" /\ k.name = n /\ k.unit = unit
      /\ l \in Token /\ IsRow(l) /\ l.index = i /\ l.value = v /\ HasValue(l)
      /\ l.tok # "UNMODIFIED" /\ l.tok = Tag(v)
  BY <1>1, <1>3 DEF NameToken, ValueToken, Tag, Token, IsRow, RowTags, HasValue, ValueTypes,
     IntTypes, BoolTypes
<1>5. /\ q.bucket = Append(s.bucket, k) /\ q.cacheSize = s.cacheSize /\ q.unheard = s.unheard
      /\ q.sent = s.sent /\ q.ts = s.ts /\ q.rowCounter = s.rowCounter
      /\ q.totalEntries = i /\ q.cache = c /\ q.handle = s.handle
  <2> HIDE DEF c, k
  <2> QED
    BY <1>1 DEF Put, Channel
<1>6. /\ w.bucket = Append(q.bucket, l) /\ w.cacheSize = q.cacheSize /\ w.unheard = q.unheard
      /\ w.sent = q.sent /\ w.ts = s.ts /\ w.rowCounter = s.rowCounter /\ w.cache = c
      /\ w.totalEntries = (i + 1) % IndexMod /\ w.handle = s.handle
  <2> DEFINE r == [q EXCEPT !.totalEntries = (q.totalEntries + 1) % IndexMod]
  <2>1. w = Put(r, l, ValueTokenSize(i, v))
    BY DEF WriteNew
  <2>2. /\ r.bucket = q.bucket /\ r.cacheSize = q.cacheSize /\ r.unheard = q.unheard
        /\ r.sent = q.sent /\ r.ts = q.ts /\ r.rowCounter = q.rowCounter /\ r.cache = q.cache
        /\ r.totalEntries = (q.totalEntries + 1) % IndexMod /\ r.handle = q.handle
        /\ Put(r, l, ValueTokenSize(i, v)).handle = r.handle
        /\ Put(r, l, ValueTokenSize(i, v)).bucket = Append(r.bucket, l)
        /\ Put(r, l, ValueTokenSize(i, v)).cacheSize = r.cacheSize
        /\ Put(r, l, ValueTokenSize(i, v)).unheard = r.unheard
        /\ Put(r, l, ValueTokenSize(i, v)).sent = r.sent
        /\ Put(r, l, ValueTokenSize(i, v)).ts = r.ts
        /\ Put(r, l, ValueTokenSize(i, v)).rowCounter = r.rowCounter
        /\ Put(r, l, ValueTokenSize(i, v)).cache = r.cache
        /\ Put(r, l, ValueTokenSize(i, v)).totalEntries = r.totalEntries
    <3> HIDE DEF l, c, k
    <3> QED
      BY <1>1 DEF Put, Channel
  <2> HIDE DEF q, r, l
  <2> QED
    BY <1>5, <2>1, <2>2
<1>7. /\ p.rowCounter = s.rowCounter + 1 /\ p.ts = s.ts /\ p.cache = c
      /\ p.totalEntries = (i + 1) % IndexMod /\ p.bucket = Append(q.bucket, l)
      /\ p.sent = q.sent /\ p.cacheSize = q.cacheSize /\ p.unheard = q.unheard
      /\ p.handle = s.handle
  <2> HIDE DEF q, l, c
  <2>1. w \in Channel
    BY ChannelFields
  <2>2. /\ p.rowCounter = w.rowCounter + 1 /\ p.ts = w.ts /\ p.cache = w.cache
        /\ p.totalEntries = w.totalEntries /\ p.bucket = w.bucket /\ p.sent = w.sent
        /\ p.cacheSize = w.cacheSize /\ p.unheard = w.unheard /\ p.handle = w.handle
    BY Zenon, <2>1, CountFields
  <2>3. w.rowCounter = s.rowCounter
    BY Zenon, <1>5, <1>6
  <2> QED
    BY Zenon, <1>6, <2>2, <2>3
<1>8. (i + 1) % IndexMod <= i + 1
  <2>1. i \in 0 .. IndexMod - 1
    BY DEF Formed, Channel
  <2> QED
    BY <2>1, IndexModType, NextIndex
<1>9. PICK h : /\ Flow(s, file \o s.sent, log, FALSE, u, h)
               /\ PlainInputs => Exact(s, log, FALSE, h)
  BY DEF Carries, Carried
<1> DEFINE m == h.mark[h.len]
           y == NextMark(k, m)
           x == NextMark(l, y)
           e == [name |-> n, unit |-> unit, value |-> NoValue]
           g == Extended(h, k)
<1>10. m \in Mark /\ Holds(s, log, m) /\ h \in Tape
  BY <1>9, TapeFields DEF Flow
<1>11. /\ m.entries \in Seq(Sensor) /\ Len(m.entries) \in Nat /\ m.rows = Len(log)
       /\ m.ts = Tick(t) /\ i <= Len(m.entries) /\ s.rowCounter = Len(log)
  BY <1>10, MarkFields DEF Holds
<1>12. Legal(k, m)
  BY <1>4, TokenFields DEF Legal
<1>13. y \in Mark /\ y.entries = Append(m.entries, e) /\ y.rows = m.rows /\ y.ts = m.ts
  <2>1. TsAfter(k, m.ts) = m.ts /\ EntriesAfter(k, m.entries) = Append(m.entries, e)
    BY <1>4, TokenFields DEF TsAfter, EntriesAfter
  <2>2. y \in Mark
    BY <1>4, <1>10, <1>12, NextMarkTyped
  <2> HIDE DEF e
  <2> QED
    BY Zenon, <1>4, <2>1, <2>2 DEF NextMark
<1>14. e \in Sensor /\ e.name = n /\ e.unit = unit
  BY DEF Sensor
<1> HIDE DEF e, y, k, l
<1>15. /\ Len(y.entries) = Len(m.entries) + 1 /\ y.entries[Len(m.entries) + 1] = e
       /\ \A j \in 1 .. Len(m.entries) : y.entries[j] = m.entries[j]
  <2> DEFINE E == m.entries
  <2>1. E \in Seq(Sensor) /\ e \in Sensor /\ y.entries = Append(E, e)
    BY <1>11, <1>13, <1>14
  <2> HIDE DEF E
  <2>2. /\ Len(y.entries) = Len(E) + 1 /\ y.entries[Len(E) + 1] = e
        /\ \A j \in 1 .. Len(E) : y.entries[j] = E[j]
    BY <2>1
  <2> QED
    BY <2>2 DEF E
<1>16. i < Len(y.entries)
  <2> DEFINE old == Len(m.entries)
             new == Len(y.entries)
  <2>1. i \in Nat /\ old \in Nat /\ i <= old /\ new = old + 1
    BY Zenon, <1>1, <1>11, <1>15
  <2> HIDE DEF i, old, new
  <2>2. i < new
    BY SMT, <2>1
  <2> QED
    BY <2>2 DEF new
<1>17. Legal(l, y)
  BY <1>4, <1>16, TokenFields DEF Legal
<1>18. /\ x.rows = y.rows + 1 /\ x.ts = y.ts /\ Len(x.entries) = Len(y.entries)
       /\ x.entries = [y.entries EXCEPT ![i + 1] = WithValue(y.entries[i + 1], v)]
  <2>1. TsAfter(l, y.ts) = y.ts
    BY <1>4, TokenFields DEF TsAfter
  <2>2. Len(EntriesAfter(l, y.entries)) = Len(y.entries)
    <3>1. y.entries \in Seq(Sensor) /\ l.index < Len(y.entries) /\ l.tok # "NAME_ASSIGN"
      BY <1>4, <1>13, <1>16, MarkFields, TokenFields
    <3> QED
      BY <1>4, <3>1, EntriesTyped
  <2>3. EntriesAfter(l, y.entries) = [y.entries EXCEPT ![i + 1] = WithValue(y.entries[i + 1], v)]
    BY <1>4, TokenFields DEF EntriesAfter
  <2> QED
    BY <1>4, <2>1, <2>2, <2>3 DEF NextMark
<1>19. Begins(log, longer) /\ Len(log) \in Nat /\ Len(longer) = Len(log) + 1
       /\ longer[Len(log) + 1] = row
  BY <1>2, AppendBegins
<1>20. Len(longer) \in Nat
  BY <1>19
<1>21. \A j \in Known(c) : c[j].index < Len(m.entries) + 1
  <2>0. c = Inserted(s.cache, n, unit, i, FirstLast(v))
    OBVIOUS
  <2>1. ASSUME NEW j \in Known(c) PROVE c[j].index < Len(m.entries) + 1
    <3>1. c[j].index = i \/ (j \in Known(s.cache) /\ c[j].index = s.cache[j].index)
      <4> HIDE DEF c, i
      <4> QED
        BY SMT, <1>1, <2>0, InsertedIndex
    <3>2. j \in Known(s.cache) => s.cache[j].index \in Nat /\ s.cache[j].index < Len(m.entries)
      BY <1>1, <1>10, KnownEntry DEF Holds
    <3>3. i \in Nat /\ Len(m.entries) \in Nat /\ i <= Len(m.entries)
      BY <1>1, <1>11
    <3> DEFINE size == Len(m.entries)
               a == c[j].index
    <3>4. a = i \/ (a \in Nat /\ a < size)
      BY <3>1, <3>2
    <3>5. i \in Nat /\ size \in Nat /\ i <= size
      BY <3>3
    <3> HIDE DEF a, size, i
    <3>6. a < size + 1
      BY <3>4, <3>5
    <3> QED
      BY <3>6 DEF a, size
  <2> QED
    BY <2>1
<1> HIDE DEF k, l, p, q, x, y, c, longer, g
<1>22. Holds(q, log, y)
  BY <1>1, <1>5, <1>11, <1>13, <1>15, <1>21 DEF Holds
<1>23. Holds(p, longer, x)
  <2>1. \A j \in Known(p.cache) : p.cache[j].index < Len(x.entries)
    BY <1>7, <1>15, <1>18, <1>21
  <2>2. p.totalEntries <= Len(x.entries)
    <3> DEFINE next == (i + 1) % IndexMod
               old == Len(m.entries)
    <3>1. next \in Nat
      BY <1>1, IndexModType
    <3>2. i \in Nat /\ old \in Nat /\ i <= old /\ next <= i + 1 /\ Len(x.entries) = old + 1
      BY Zenon, <1>1, <1>8, <1>11, <1>15, <1>18
    <3>3. p.totalEntries = next
      BY Zenon, <1>7
    <3> HIDE DEF i, next, old
    <3>4. next <= old + 1
      BY SMT, <3>1, <3>2
    <3> QED
      BY Zenon, <3>2, <3>3, <3>4
  <2> QED
    BY <1>7, <1>11, <1>13, <1>18, <1>19, <2>1, <2>2 DEF Holds
<1>24. /\ Flow(q, file \o q.sent, log, FALSE, u, g) /\ g.mark[g.len] = y
       /\ PlainInputs => Told(g, log)
  <2>1. file \o s.sent \in Seq(Frame)
    BY <1>1, ConcatProperties
  <2>2. k.tok # "EOF"
    BY <1>4
  <2>3. Flow(q, file \o s.sent, log, FALSE, u, g)
    BY <1>1, <1>4, <1>5, <1>9, <1>12, <1>22, <2>1, <2>2, WroteFlow DEF y, g
  <2>4. ASSUME PlainInputs PROVE Told(g, log)
    <3>1. Told(h, log)
      BY <1>9, <2>4 DEF Exact
    <3>2. Begins(log, log) /\ Tells(log, k, m)
      BY <1>4, <1>19 DEF Begins, Tells
    <3> QED
      BY <1>4, <1>10, <1>12, <1>19, <3>1, <3>2, WroteTold DEF g
  <2>5. g.mark[g.len] = y
    BY <1>4, <1>10, <1>12, ExtendedFields DEF g, y
  <2> QED
    BY <1>5, <2>3, <2>4, <2>5
<1>25. ASSUME PlainInputs
       PROVE  Tells(longer, l, y) /\ Mirrors(p, x) /\ Numbered(p.cache, p.totalEntries)
  <2>1. Mirrors(s, m) /\ Numbered(s.cache, i)
    BY <1>9, <1>25 DEF Exact
  <2>2. Len(m.entries) = i
    BY Zenon, <2>1 DEF Mirrors
  <2>3. Decoded(l, y) = row
    BY Zenon, <1>4, <1>11, <1>13, <1>14, <1>15, <2>2 DEF Decoded, Accepted
  <2>4. Tells(longer, l, y)
    BY <1>11, <1>13, <1>19, <2>3 DEF Tells, SameRow
  <2>5. i + 1 \in 1 .. Len(y.entries)
    BY <1>1, <1>15, <2>2
  <2>6. /\ x.entries[i + 1].name = n /\ x.entries[i + 1].value = v
        /\ \A j \in 1 .. Len(m.entries) : j # i + 1 => x.entries[j] = m.entries[j]
    <3> DEFINE z == WithValue(y.entries[i + 1], v)
    <3>1. z.name = n /\ z.value = v
      BY <1>14, <1>15, <2>2 DEF WithValue
    <3>2. x.entries = [y.entries EXCEPT ![i + 1] = z] /\ y.entries \in Seq(Sensor)
      BY <1>13, <1>18, MarkFields
    <3> HIDE DEF z
    <3>3. x.entries[i + 1] = z /\ \A j \in 1 .. Len(y.entries) : j # i + 1 => x.entries[j] = y.entries[j]
      BY <2>5, <3>2
    <3>4. \A j \in 1 .. Len(m.entries) : j \in 1 .. Len(y.entries)
      BY <1>11, <1>15
    <3> QED
      BY <1>15, <3>1, <3>3, <3>4
  <2>7. (i + 1) % IndexMod = i + 1
    <3>1. FewNames
      BY <1>25 DEF PlainInputs
    <3>2. i + 1 <= Cardinality(Names)
      BY <1>1, <2>1, <3>1, RoomLeft DEF FewNames
    <3>3. Cardinality(Names) \in Nat /\ Cardinality(Names) < IndexMod /\ IndexMod \in Nat
      BY <3>1, IndexModType, FS_CardinalityType DEF FewNames
    <3>4. i + 1 < IndexMod
      BY <1>1, <3>2, <3>3
    <3> QED
      BY <1>1, <3>3, <3>4, NextIndex
  <2>8. Len(x.entries) = w.totalEntries
    BY <1>6, <1>15, <1>18, <2>2, <2>7
  <2>9. w \in WriteRow(s, n, unit, v)
    BY DEF WriteRow
  <2>10. Mirrors(p, x) /\ Numbered(w.cache, w.totalEntries)
    <3>1. Learns(m, x, w.totalEntries, IndexOf(s, n), n, v)
      BY <2>6, <2>8 DEF Learns, IndexOf
    <3> QED
      BY <1>10, <1>25, <2>1, <2>9, <3>1, PlainRow DEF p
  <2> QED
    BY <1>6, <1>7, <2>4, <2>10
<1>26. q.bucket \in Seq(Token) /\ q.sent \in Seq(Frame)
  BY <1>1, <1>4, <1>5
<1>27. Carries(p, file, longer, FALSE, u)
  BY <1>4, <1>7, <1>17, <1>19, <1>20, <1>23, <1>24, <1>25, <1>26, WroteRow DEF x
<1>28. Formed(p) /\ longer \in Seq(Row)
  BY <1>2, CountFormed DEF p, longer
<1> QED
  BY <1>7, <1>27, <1>28 DEF p, longer, Bears, Open

-----------------------------------------------------------------------------
(* The calls. *)

LEMMA RowBears ==
  ASSUME NEW s, NEW file, NEW log, NEW u, Open(s, file, log, u), NEW t \in Times,
         s.ts = Tick(t), NEW n \in Names, NEW unit \in Units, ~NameRejected(s, n, unit),
         NEW v \in Values, NEW w \in WriteRow(s, n, unit, v)
  PROVE  /\ Open(CountRow(w), file, Append(log, Accepted(t, n, unit, v)), u)
         /\ CountRow(w).handle = s.handle
<1>1. Formed(s)
  BY DEF Open, Bears
<1>2. Formed(w)
  BY <1>1, RowFormed
<1>3. CASE n \in Known(s.cache)
  BY <1>2, <1>3, KnownBears
<1>4. CASE n \notin Known(s.cache)
  <2>1. w = WriteNew(s, n, unit, v)
    BY <1>4 DEF WriteRow
  <2> QED
    BY <1>2, <1>4, <2>1, NewBears
<1> QED
  BY <1>3, <1>4

LEMMA FailedBears ==
  ASSUME NEW s, NEW file, NEW log, NEW closed, NEW u, Bears(s, file, log, closed, u), NEW v,
         NEW error \in Errors
  PROVE  /\ Bears(Failed(s, v, error), file, log, closed, u)
         /\ Failed(s, v, error).handle = s.handle
<1> DEFINE p == Failed(s, v, error)
<1>1. Formed(s) /\ Carries(s, file, log, closed, u)
  BY DEF Bears
<1>2. /\ Alike(s, p) /\ p.bucket = s.bucket /\ p.unheard = s.unheard
      /\ p.cacheSize = s.cacheSize /\ p.sent = s.sent /\ p.handle = s.handle
  BY <1>1 DEF Formed, Channel, Alike, Failed
<1>3. Formed(p)
  BY <1>1, FailedFormed
<1>4. p.unheard \in BOOLEAN
  BY <1>3, ChannelFields
<1> HIDE DEF p
<1>5. Carries(p, file, log, closed, u)
  BY <1>1, <1>2, <1>4, SameFlow DEF Carries
<1>6. Bears(p, file, log, closed, u) /\ p.handle = s.handle
  BY <1>2, <1>3, <1>5 DEF Bears
<1> QED
  BY <1>6 DEF p

(* What the packing side knows between two calls. *)
Standing(closed) == pk.sent = <<>> /\ Bears(pk, wire, rows, closed, up)

(* The call has taken the record in hand to a good end: its return keeps it. *)
LEMMA Returns ==
  ASSUME NEW s, NEW log, NEW closed, Bears(s, wire, log, closed, up), Return(s),
         rows' = log, up' = up
  PROVE  Standing(closed)' /\ pk'.handle = s.handle
<1> DEFINE p == [s EXCEPT !.sent = <<>>]
<1>0. /\ Formed(s) /\ wire \in Seq(Frame) /\ log \in Seq(Row) /\ up.block \in Seq(Token)
      /\ Carries(s, wire, log, closed, up)
  BY DEF Bears
<1>8. s \in Channel /\ <<>> \in Seq(Frame)
  BY <1>0, ChannelFields
<1>9. p \in Channel
  BY <1>8 DEF Channel
<1>1. /\ p.sent = <<>> /\ p.handle = s.handle /\ Alike(s, p)
      /\ p.bucket = s.bucket /\ p.unheard = s.unheard /\ p.cacheSize = s.cacheSize
      /\ p.threshold = s.threshold /\ p.flushFailed = s.flushFailed /\ p.state = s.state
  BY <1>8 DEF Channel, Alike
<1>2. Formed(p) /\ p.unheard \in BOOLEAN
  BY <1>0, <1>1, <1>9 DEF Formed, Geometry, Sticks, Channel
<1>3. pk' = p /\ wire' = wire \o s.sent
  BY DEF Return
<1>4. wire' \in Seq(Frame) /\ wire' \o p.sent = wire'
  <2>1. s.sent \in Seq(Frame)
    BY <1>0, ChannelFields
  <2> QED
    BY <1>0, <1>1, <1>3, <2>1, ConcatProperties, ConcatEmptySeq
<1> HIDE DEF p
<1>5. Carried(p, wire', log, closed, up)
  BY <1>0, <1>1, <1>2, <1>3, SameFlow DEF Carries
<1>6. Carries(p, wire', log, closed, up)
  BY <1>4, <1>5 DEF Carries
<1>7. Bears(p, wire', log, closed, up)
  BY <1>0, <1>2, <1>4, <1>6 DEF Bears
<1> QED
  BY <1>1, <1>3, <1>7 DEF Standing

LEMMA InjectStanding ==
  ASSUME Standing(FALSE), NEW t \in Times, NEW n \in Names, NEW unit \in Units,
         NEW v \in Values, Inject(t, n, unit, v), UNCHANGED up
  PROVE  Standing(FALSE)' /\ pk'.handle = "live"
<1>1. PICK stamped \in TsHandler(pk, t) :
        \E written \in WriteRow(MadeRoom(stamped, v), n, unit, v) :
          \E done \in FlushIfFlushable(CountRow(written)) : Return(done)
  BY DEF Inject
<1> DEFINE m == MadeRoom(stamped, v)
           longer == Append(rows, Accepted(t, n, unit, v))
<1>2. PICK written \in WriteRow(m, n, unit, v) :
        \E done \in FlushIfFlushable(CountRow(written)) : Return(done)
  BY <1>1
<1>3. PICK done \in FlushIfFlushable(CountRow(written)) : Return(done)
  BY <1>2
<1>4. /\ Open(pk, wire, rows, up) /\ ~TsRejected(pk, t) /\ pk.handle = "live"
      /\ ~NameRejected(pk, n, unit)
  BY DEF Standing, Open, Inject, Callable
<1>5. /\ Open(stamped, wire, rows, up) /\ stamped.ts = Tick(t)
      /\ stamped.handle = "live"
  BY <1>4, StampedBears
<1>6. Open(m, wire, rows, up) /\ m.ts = Tick(t) /\ m.handle = "live"
  BY <1>5, RoomBears DEF Steady, Open
<1>7. ~NameRejected(m, n, unit)
  <2>1. Formed(pk) /\ Formed(stamped)
    BY <1>4, <1>5 DEF Bears, Open
  <2>2. Kept(pk, stamped) /\ Kept(stamped, m)
    BY <1>4, <2>1, StampedFormed, RoomFormed
  <2> QED
    BY <1>4, <2>2 DEF NameRejected, Kept
<1> HIDE DEF m
<1>8. Open(CountRow(written), wire, longer, up) /\ CountRow(written).handle = "live"
  BY <1>6, <1>7, RowBears
<1>9. rows' = longer
  BY DEF Inject, Accepted
<1> HIDE DEF longer
<1>10. Open(done, wire, longer, up) /\ done.handle = "live"
  BY Zenon, <1>8, FlushableBears DEF Steady, Open
<1> QED
  BY <1>3, <1>9, <1>10, Returns DEF Open

(* A refused injection may stamp, flush and fail; the log stays as it is. *)
LEMMA RefusalStanding ==
  ASSUME Standing(FALSE), UNCHANGED up, NEW t \in Times, NEW v \in Values,
         \/ InjectBadTimestamp(t, v) \/ InjectLongString(t, v) \/ InjectNoRoom(t, v)
         \/ \E n \in Names, unit \in Units : InjectLongName(t, n, unit, v)
  PROVE  Standing(FALSE)' /\ pk'.handle = "live"
<1>1. Open(pk, wire, rows, up) /\ pk.handle = "live" /\ rows' = rows
  BY DEF Standing, Open, InjectBadTimestamp, InjectLongString, InjectNoRoom, InjectLongName, Callable
<1>2. ASSUME ~TsRejected(pk, t), NEW s \in TsHandler(pk, t)
      PROVE  Open(s, wire, rows, up) /\ s.handle = "live"
  BY <1>1, <1>2, StampedBears
<1>3. ASSUME NEW s, Open(s, wire, rows, up), s.handle = "live",
             NEW error \in Errors, Return(Failed(s, v, error))
      PROVE  Standing(FALSE)' /\ pk'.handle = "live"
  <2> DEFINE f == Failed(s, v, error)
  <2>1. Open(f, wire, rows, up) /\ f.handle = "live"
    BY <1>3, FailedBears DEF Open
  <2>2. Return(f)
    BY <1>3
  <2> HIDE DEF f
  <2> QED
    BY <1>1, <2>1, <2>2, Returns DEF Open
<1>4. CASE InjectBadTimestamp(t, v)
  <2>1. Return(Failed(pk, v, "INVALID_TIMESTAMP")) /\ "INVALID_TIMESTAMP" \in Errors
    BY <1>4 DEF InjectBadTimestamp, Errors
  <2> QED
    BY <1>1, <1>3, <2>1
<1>5. CASE InjectLongString(t, v)
  <2>1. PICK s \in TsHandler(pk, t) : Return(Failed(s, v, "BUFFER_OVERFLOW"))
    BY <1>5 DEF InjectLongString
  <2>2. ~TsRejected(pk, t) /\ "BUFFER_OVERFLOW" \in Errors
    BY <1>5 DEF InjectLongString, Errors
  <2>3. Open(s, wire, rows, up) /\ s.handle = "live"
    BY <1>2, <2>2
  <2> QED
    BY <1>3, <2>1, <2>2, <2>3
<1>6. CASE InjectNoRoom(t, v)
  <2>1. PICK s \in TsHandler(pk, t), r \in FlushResults : Return(ChannelFlushed(s, r))
    BY <1>6 DEF InjectNoRoom
  <2>2. ~TsRejected(pk, t)
    BY <1>6 DEF InjectNoRoom
  <2>3. Open(s, wire, rows, up) /\ s.handle = "live"
    BY <1>2, <2>2
  <2> DEFINE f == ChannelFlushed(s, r)
  <2>4. Open(f, wire, rows, up) /\ f.handle = "live"
    BY <2>3, FlushedBears DEF Steady, Open
  <2>5. Return(f)
    BY <2>1
  <2> HIDE DEF f
  <2> QED
    BY <1>1, <2>4, <2>5, Returns DEF Open
<1>7. CASE \E n \in Names, unit \in Units : InjectLongName(t, n, unit, v)
  <2>1. PICK n \in Names, unit \in Units : InjectLongName(t, n, unit, v)
    BY <1>7
  <2>2. PICK s \in TsHandler(pk, t) : Return(Failed(MadeRoom(s, v), v, "BUFFER_OVERFLOW"))
    BY <2>1 DEF InjectLongName
  <2>3. ~TsRejected(pk, t) /\ "BUFFER_OVERFLOW" \in Errors
    BY <2>1 DEF InjectLongName, Errors
  <2>4. Open(s, wire, rows, up) /\ s.handle = "live"
    BY <1>2, <2>3
  <2> DEFINE m == MadeRoom(s, v)
  <2>5. Open(m, wire, rows, up) /\ m.handle = "live"
    BY <2>4, RoomBears DEF Steady, Open
  <2>6. Return(Failed(m, v, "BUFFER_OVERFLOW"))
    BY <2>2
  <2> HIDE DEF m
  <2> QED
    BY <1>3, <2>3, <2>5, <2>6
<1> QED
  BY <1>4, <1>5, <1>6, <1>7

LEMMA FlushStanding ==
  ASSUME Standing(FALSE), Flush, UNCHANGED up
  PROVE  Standing(FALSE)' /\ pk'.handle = "live"
<1>1. PICK r \in FlushResults : Return(ChannelFlushed(pk, r))
  BY DEF Flush, ChannelFlush
<1>2. Open(pk, wire, rows, up) /\ pk.handle = "live" /\ rows' = rows
  BY DEF Standing, Open, Flush, Callable
<1> DEFINE f == ChannelFlushed(pk, r)
<1>3. Open(f, wire, rows, up) /\ f.handle = "live"
  BY <1>2, FlushedBears DEF Steady, Open
<1>4. Return(f)
  BY <1>1
<1> HIDE DEF f
<1> QED
  BY <1>2, <1>3, <1>4, Returns DEF Open

(* The close forgets the dictionary: nothing is written after it. *)
Emptied(s) == [s EXCEPT !.handle = "freed", !.cache = EmptyCache]

LEMMA EmptiedShut ==
  ASSUME NEW s, NEW file, NEW log, NEW u, Shut(s, file, log, u), NEW p, p = Emptied(s)
  PROVE  Shut(p, file, log, u) /\ p.handle = "freed"
<1>0. /\ Formed(s) /\ file \in Seq(Frame) /\ log \in Seq(Row) /\ u.block \in Seq(Token)
      /\ Carries(s, file, log, TRUE, u)
  BY DEF Shut, Bears
<1>1. s \in Channel /\ EmptyCache \in [Names -> Entry \cup {NoEntry}]
  BY <1>0, ChannelFields DEF EmptyCache
<1>2. p \in Channel
  BY <1>1 DEF Channel, Emptied
<1>3. /\ p.handle = "freed" /\ p.cache = EmptyCache /\ p.ts = s.ts
      /\ p.rowCounter = s.rowCounter /\ p.totalEntries = s.totalEntries /\ p.sent = s.sent
      /\ p.bucket = s.bucket /\ p.unheard = s.unheard /\ p.cacheSize = s.cacheSize
      /\ p.threshold = s.threshold /\ p.flushFailed = s.flushFailed /\ p.state = s.state
  BY <1>1 DEF Channel, Emptied
<1>4. Formed(p)
  BY <1>0, <1>2, <1>3 DEF Formed, Geometry, Sticks
<1>5. Known(p.cache) = {}
  BY <1>3 DEF Known, EmptyCache
<1> DEFINE F == file \o s.sent
<1>6. PICK h : Flow(s, F, log, TRUE, u, h) /\ (PlainInputs => Exact(s, log, TRUE, h))
  BY <1>0 DEF Carries, Carried
<1>7. Holds(p, log, h.mark[h.len])
  BY <1>3, <1>5, <1>6 DEF Flow, Holds
<1>8. Flow(p, F, log, TRUE, u, h)
  BY <1>3, <1>6, <1>7 DEF Flow
<1>9. Exact(s, log, TRUE, h) => Exact(p, log, TRUE, h)
  BY Zenon, <1>3, <1>5 DEF Exact, Mirrors
<1>10. Carries(p, file, log, TRUE, u)
  BY <1>3, <1>6, <1>8, <1>9 DEF Carries, Carried
<1> QED
  BY <1>0, <1>3, <1>4, <1>10 DEF Shut, Bears

(* The EOF record ends the tape. *)
LEMMA EofShut ==
  ASSUME NEW s, NEW file, NEW log, NEW u, Open(s, file, log, u),
         NEW p, p = Put(s, EofToken(s.rowCounter), ArgTokenSize(s.rowCounter))
  PROVE  Shut(p, file, log, u)
<1> DEFINE n == s.rowCounter
           t == EofToken(n)
           z == ArgTokenSize(n)
<1>0. /\ Formed(s) /\ file \in Seq(Frame) /\ log \in Seq(Row) /\ u.block \in Seq(Token)
      /\ Carries(s, file, log, FALSE, u)
  BY DEF Open, Bears
<1>1. s \in Channel /\ n \in Nat
  BY <1>0, ChannelFields
<1>2. t \in Token /\ ~IsRow(t) /\ t.tok = "EOF" /\ t.arg = n /\ z \in Nat
  <2>1. z \in 2 .. 11
    BY <1>1, ArgSize
  <2> HIDE DEF n, z
  <2>2. z \in Nat
    BY <2>1
  <2> QED
    BY <1>1, <2>2 DEF EofToken, Token, IsRow, RowTags, ValueTypes, IntTypes, BoolTypes
<1> HIDE DEF t, z
<1>3. p = Put(s, t, z)
  BY DEF t, z
<1>4. Formed(p)
  BY <1>0, <1>2, <1>3, PutFormed
<1>5. /\ p.bucket = Append(s.bucket, t) /\ p.cacheSize = s.cacheSize /\ p.unheard = s.unheard
      /\ p.sent = s.sent /\ Alike(s, p)
  BY <1>1, <1>3, PutFields
<1>6. PICK h : /\ Flow(s, file \o s.sent, log, FALSE, u, h)
               /\ PlainInputs => Exact(s, log, FALSE, h)
  BY <1>0 DEF Carries, Carried
<1> DEFINE m == h.mark[h.len]
           x == NextMark(t, m)
<1>7. Holds(s, log, m)
  BY <1>6 DEF Flow
<1>8. Legal(t, m)
  BY <1>2, <1>7, TokenFields DEF Legal, Holds
<1>9. x.entries = m.entries /\ x.rows = m.rows /\ x.ts = m.ts
  <2>1. EntriesAfter(t, m.entries) = m.entries
    BY <1>2 DEF EntriesAfter, HasValue, ValueTypes, IntTypes, BoolTypes
  <2>2. TsAfter(t, m.ts) = m.ts
    BY <1>2 DEF TsAfter
  <2> QED
    BY <1>2, <2>1, <2>2 DEF NextMark
<1> HIDE DEF x
<1>10. Holds(p, log, x)
  BY <1>5, <1>7, <1>9 DEF Holds, Alike
<1>12. p.cache = s.cache /\ p.totalEntries = s.totalEntries
  BY <1>5 DEF Alike
<1>11. Mirrors(s, m) => Mirrors(p, x)
  <2> HIDE DEF m
  <2> QED
    BY Zenon, <1>9, <1>12, SameMirrors
<1>13. Len(log) \in Nat
  BY <1>0
<1>14. Carries(p, file, log, TRUE, u)
  BY <1>0, <1>2, <1>5, <1>6, <1>8, <1>10, <1>11, <1>12, <1>13, WroteCarries DEF x, m
<1> QED
  BY <1>0, <1>4, <1>14 DEF Shut, Bears

LEMMA CloseStanding ==
  ASSUME Standing(FALSE), Close, UNCHANGED up
  PROVE  Standing(TRUE)' /\ pk'.handle = "freed"
<1> DEFINE p == Put(pk, EofToken(pk.rowCounter), ArgTokenSize(pk.rowCounter))
<1>1. PICK r \in FlushResults :
         Return([ChannelFlushed(p, r) EXCEPT !.handle = "freed", !.cache = EmptyCache])
  BY DEF Close, ChannelFlush
<1>2. Open(pk, wire, rows, up) /\ rows' = rows
  BY DEF Standing, Open, Close
<1>3. Shut(p, wire, rows, up)
  BY <1>2, EofShut
<1> HIDE DEF p
<1> DEFINE f == ChannelFlushed(p, r)
           g == [f EXCEPT !.handle = "freed", !.cache = EmptyCache]
<1>4. Shut(f, wire, rows, up)
  BY <1>3, FlushedBears DEF Shut
<1>5. Return(g)
  BY <1>1
<1> HIDE DEF f
<1>6. Shut(g, wire, rows, up) /\ g.handle = "freed"
  <2>1. g = Emptied(f)
    BY DEF Emptied
  <2> HIDE DEF g
  <2> QED
    BY Zenon, <1>4, <2>1, EmptiedShut
<1> HIDE DEF g
<1> QED
  BY <1>2, <1>5, <1>6, Returns DEF Shut

LEMMA ResizedBears ==
  ASSUME NEW s, NEW file, NEW log, NEW closed, NEW u, Bears(s, file, log, closed, u),
         NEW size \in Nat, ResizeAllowed(s, size), NEW moved \in BOOLEAN, NEW heard \in BOOLEAN,
         s.handle # "freed", Formed(Resized(s, size, moved, heard))
  PROVE  /\ Bears(Resized(s, size, moved, heard), file, log, closed, u)
         /\ Resized(s, size, moved, heard).handle # "freed"
<1> DEFINE p == Resized(s, size, moved, heard)
           f == ChunkFrame(size)
<1>0. /\ Formed(s) /\ file \in Seq(Frame) /\ log \in Seq(Row) /\ u.block \in Seq(Token)
      /\ Carries(s, file, log, closed, u)
  BY DEF Bears
<1>1. /\ s \in Channel /\ s.bucket \in Seq(Token) /\ s.sent \in Seq(Frame)
      /\ s.unheard \in BOOLEAN
  BY <1>0, ChannelFields
<1>2. Alike(s, p) /\ p.bucket = s.bucket /\ p.cacheSize = size
  BY <1>1 DEF Resized, Channel, Alike
<1>3. /\ p.sent = IF heard THEN Append(s.sent, f) ELSE s.sent
      /\ p.unheard = (s.unheard \/ ~heard) /\ p.handle # "freed"
  BY <1>1 DEF Resized, Channel
<1>4. f \in Frame /\ f.meta = "CHUNK_SIZE" /\ f.size = size
  BY DEF ChunkFrame, Frame
<1> HIDE DEF f, p
<1>5. CASE heard
  <2>1. p.sent = Append(s.sent, f) /\ p.unheard = s.unheard
    BY <1>1, <1>3, <1>5
  <2>2. p.cacheSize = RoomAfter(f, s.cacheSize)
    BY <1>2, <1>4 DEF RoomAfter
  <2>3. file \o s.sent \in Seq(Frame) /\ file \o p.sent = Append(file \o s.sent, f)
    BY Zenon, <1>0, <1>1, <1>4, <2>1, SentBehindOf
  <2>4. Carried(p, Append(file \o s.sent, f), log, closed, u)
    BY <1>0, <1>1, <1>2, <1>4, <2>1, <2>2, <2>3, FramedFlow DEF Carries
  <2>5. Carries(p, file, log, closed, u)
    BY <2>3, <2>4 DEF Carries
  <2> QED
    BY <1>0, <1>3, <2>5 DEF Bears, p
<1>6. CASE ~heard
  <2>1. p.sent = s.sent /\ p.unheard = TRUE
    BY <1>1, <1>3, <1>6
  <2>2. Carries(p, file, log, closed, u)
    BY <1>0, <1>2, <2>1, SameFlow DEF Carries
  <2> QED
    BY <1>0, <1>3, <2>2 DEF Bears, p
<1> QED
  BY <1>5, <1>6

LEMMA ResizeStanding ==
  ASSUME Standing(FALSE), NEW size \in Sizes, Resize(size), UNCHANGED up
  PROVE  Standing(FALSE)' /\ pk'.handle # "freed"
<1> DEFINE k == NewSize(size)
<1>1. PICK moved, heard \in BOOLEAN : Return(Resized(pk, k, moved, heard))
  BY DEF Resize
<1>2. k \in Nat /\ k > MinBucket /\ ResizeAllowed(pk, k)
  BY PackAssumption DEF Resize, ResizeAllowed, NewSize, DefaultBucket
<1>3. Open(pk, wire, rows, up) /\ pk.handle # "freed" /\ rows' = rows
  BY DEF Standing, Open, Resize, Callable
<1> HIDE DEF k
<1> DEFINE f == Resized(pk, k, moved, heard)
<1>4. Formed(pk)
  BY <1>3 DEF Open, Bears
<1>5. Formed(f)
  BY <1>2, <1>4, ResizedFormed
<1>6. Open(f, wire, rows, up) /\ f.handle # "freed"
  BY Zenon, <1>2, <1>3, <1>5, ResizedBears DEF Open
<1>7. Return(f)
  BY <1>1
<1> HIDE DEF f
<1> QED
  BY <1>3, <1>6, <1>7, Returns DEF Open

LEMMA ResizeRefusedStanding ==
  ASSUME Standing(FALSE), NEW size \in Sizes, ResizeRefused(size), UNCHANGED up
  PROVE  Standing(FALSE)' /\ pk'.handle = "live"
<1> DEFINE e == IF pk.state = "OPENED" THEN "ALLOCATION_FAILURE" ELSE "AT_INVALID_STATE"
           f == [pk EXCEPT !.parentState = "ON_ERROR", !.parentError = e]
<1>1. e \in Errors /\ "ON_ERROR" \in States
  BY DEF Errors, States
<1>2. Return(f)
  BY DEF ResizeRefused
<1>3. /\ pk.handle = "live" /\ rows' = rows
      /\ Formed(pk) /\ wire \in Seq(Frame) /\ rows \in Seq(Row) /\ up.block \in Seq(Token)
      /\ Carries(pk, wire, rows, FALSE, up)
  BY DEF Standing, Bears, ResizeRefused, Callable
<1> HIDE DEF e
<1>4. pk \in Channel
  BY <1>3, ChannelFields
<1>5. f \in Channel
  BY <1>1, <1>4 DEF Channel
<1>6. /\ Alike(pk, f) /\ f.bucket = pk.bucket /\ f.unheard = pk.unheard
      /\ f.cacheSize = pk.cacheSize /\ f.sent = pk.sent /\ f.handle = pk.handle
      /\ f.threshold = pk.threshold /\ f.flushFailed = pk.flushFailed /\ f.state = pk.state
  BY <1>4 DEF Channel, Alike
<1>7. Formed(f) /\ f.unheard \in BOOLEAN
  BY <1>3, <1>5, <1>6 DEF Formed, Geometry, Sticks, Channel
<1> HIDE DEF f
<1>8. Carries(f, wire, rows, FALSE, up)
  BY <1>3, <1>6, <1>7, SameFlow DEF Carries
<1>9. Open(f, wire, rows, up) /\ f.handle = "live"
  BY <1>3, <1>6, <1>7, <1>8 DEF Open, Bears
<1> QED
  BY <1>2, <1>3, <1>9, Returns DEF Open

(* What follows a compressed block too long for ztd_out is not modelled. *)
LEMMA SpillStanding ==
  ASSUME Standing(FALSE), Spill, UNCHANGED up
  PROVE  Standing(FALSE)' /\ pk'.handle = "dangling"
<1> DEFINE f == [pk EXCEPT !.handle = "dangling"]
<1>1. pk' = f /\ wire' = wire /\ rows' = rows
  BY DEF Spill
<1>2. /\ Formed(pk) /\ wire \in Seq(Frame) /\ rows \in Seq(Row) /\ up.block \in Seq(Token)
      /\ Carries(pk, wire, rows, FALSE, up) /\ pk.sent = <<>>
  BY DEF Standing, Bears
<1>3. pk \in Channel
  BY <1>2, ChannelFields
<1>4. f \in Channel
  BY <1>3 DEF Channel
<1>5. /\ Alike(pk, f) /\ f.bucket = pk.bucket /\ f.unheard = pk.unheard
      /\ f.cacheSize = pk.cacheSize /\ f.sent = pk.sent /\ f.handle = "dangling"
      /\ f.threshold = pk.threshold /\ f.flushFailed = pk.flushFailed /\ f.state = pk.state
  BY <1>3 DEF Channel, Alike
<1>6. Formed(f) /\ f.unheard \in BOOLEAN
  BY <1>2, <1>4, <1>5 DEF Formed, Geometry, Sticks, Channel
<1> HIDE DEF f
<1>7. Carries(f, wire, rows, FALSE, up)
  BY <1>2, <1>5, <1>6, SameFlow DEF Carries
<1> QED
  BY <1>1, <1>2, <1>5, <1>6, <1>7 DEF Standing, Bears

(* Every call of the packing side continues the tape; the close is the last. *)
Gone == pk.handle = "freed"

LEMMA StepStanding ==
  ASSUME Standing(Gone), Next, UNCHANGED up
  PROVE  Standing(Gone)'
<1>1. pk.handle = "live" /\ Gone = FALSE
  <2>1. Callable
    BY DEF Next, Inject, InjectLongName, InjectBadTimestamp, InjectLongString, InjectNoRoom,
           Resize, ResizeRefused, Flush, Close, Spill
  <2> QED
    BY <2>1 DEF Gone, Callable
<1>2. Standing(FALSE)
  BY <1>1
<1>3. ASSUME Standing(FALSE)' /\ pk'.handle # "freed" PROVE Standing(Gone)'
  <2>1. Gone' = FALSE
    BY <1>3 DEF Gone
  <2> QED
    BY <1>3, <2>1 DEF Standing
<1>4. ASSUME NEW t \in Times, NEW v \in Values, NEW n \in Names, NEW u \in Units,
             Inject(t, n, u, v)
      PROVE  Standing(Gone)'
  BY <1>2, <1>3, <1>4, InjectStanding
<1>5. ASSUME NEW t \in Times, NEW v \in Values,
             \/ InjectBadTimestamp(t, v) \/ InjectLongString(t, v) \/ InjectNoRoom(t, v)
             \/ \E n \in Names, unit \in Units : InjectLongName(t, n, unit, v)
      PROVE  Standing(Gone)'
  BY <1>2, <1>3, <1>5, RefusalStanding
<1>6. ASSUME NEW size \in Sizes, Resize(size) PROVE Standing(Gone)'
  BY <1>2, <1>3, <1>6, ResizeStanding
<1>7. ASSUME NEW size \in Sizes, ResizeRefused(size) PROVE Standing(Gone)'
  BY <1>2, <1>3, <1>7, ResizeRefusedStanding
<1>8. CASE Flush
  BY <1>2, <1>3, <1>8, FlushStanding
<1>9. CASE Close
  <2>1. Standing(TRUE)' /\ pk'.handle = "freed"
    BY <1>2, <1>9, CloseStanding
  <2>2. Gone' = TRUE
    BY <2>1 DEF Gone
  <2> QED
    BY <2>1, <2>2 DEF Standing
<1>10. CASE Spill
  BY <1>2, <1>3, <1>10, SpillStanding
<1> QED
  BY <1>4, <1>5, <1>6, <1>7, <1>8, <1>9, <1>10 DEF Next

(* The writer dies, perhaps with a header in the file. *)
LEMMA CrashStanding ==
  ASSUME Standing(Gone), Crash
  PROVE  Standing(Gone)'
<1>1. /\ Formed(pk) /\ wire \in Seq(Frame) /\ rows \in Seq(Row) /\ up.block \in Seq(Token)
      /\ Carries(pk, wire, rows, Gone, up) /\ pk.sent = <<>>
  BY DEF Standing, Bears
<1>2. wire \o <<>> = wire
  BY <1>1, ConcatEmptySeq
<1>3. Carried(pk, wire, rows, Gone, up)
  BY <1>1, <1>2 DEF Carries
<1>4. pk' = pk /\ rows' = rows /\ up' = up /\ Gone' = Gone
  BY DEF Crash, Gone
<1>5. CASE UNCHANGED wire
  BY <1>4, <1>5 DEF Standing, Bears, Carries, Carried, Flow
<1>6. CASE wire' = Append(wire, TornFrame)
  <2>1. TornFrame \in Frame /\ TornFrame.meta # "DATA" /\ TornFrame.meta # "CHUNK_SIZE"
    BY DEF TornFrame, Frame
  <2>2. pk.bucket \in Seq(Token)
    BY <1>1, ChannelFields
  <2>3. pk.cacheSize = RoomAfter(TornFrame, pk.cacheSize)
    BY <2>1 DEF RoomAfter
  <2>4. Carried(pk, Append(wire, TornFrame), rows, Gone, up)
    BY <1>1, <1>3, <2>1, <2>2, <2>3, FramedFlow DEF Alike
  <2>5. wire' \in Seq(Frame) /\ wire' \o <<>> = wire'
    BY <1>1, <1>6, <2>1, ConcatEmptySeq
  <2>6. Carries(pk, wire', rows, Gone, up)
    BY <1>1, <1>6, <2>4, <2>5 DEF Carries
  <2> QED
    BY <1>1, <1>4, <2>5, <2>6 DEF Standing, Bears
<1> QED
  BY <1>5, <1>6 DEF Crash

(* At the start the tape is empty, and the file holds the definition's four frames. *)
LEMMA InitStanding ==
  ASSUME PipeInit
  PROVE  Standing(Gone)
<1> DEFINE blank == [entries |-> <<>>, rows |-> 0, ts |-> TsNull]
           room == [n \in Nat |-> IF n <= 4 THEN DefaultBucket ELSE BucketSize]
           h == [rec |-> [n \in Nat |-> EofToken(0)], mark |-> [n \in Nat |-> blank],
                 len |-> 0, start |-> [n \in Nat |-> 0], room |-> room]
<1>1. /\ BucketSize \in Nat /\ pk = InitChannel /\ rows = <<>> /\ up = InitReader
      /\ wire = <<DefineFrame, TypeFrame, CompressionFrame, ChunkFrame(BucketSize)>>
  BY PackAssumption DEF PipeInit, Init, UInit
<1>2. Formed(pk) /\ wire \in Seq(Frame) /\ rows \in Seq(Row)
  BY InitFormed DEF PipeInit, Ready, TypeOK
<1>3. /\ pk.sent = <<>> /\ pk.bucket = <<>> /\ pk.cacheSize = BucketSize /\ pk.unheard = FALSE
      /\ pk.ts = TsNull /\ pk.rowCounter = 0 /\ pk.totalEntries = 0 /\ pk.cache = EmptyCache
      /\ Gone = FALSE
  BY <1>1 DEF InitChannel, Gone
<1>4. /\ up.block = <<>> /\ up.ts = TsNull /\ up.rowCounter = 0 /\ up.entries = <<>>
      /\ up.cacheSize = DefaultBucket
  BY <1>1 DEF InitReader
<1>5. blank \in Mark
  BY DEF Mark
<1>6. blank.entries = <<>> /\ blank.rows = 0 /\ blank.ts = TsNull
  OBVIOUS
<1>7. EofToken(0) \in Token
  BY DEF EofToken, Token
<1>8. room \in [Nat -> Nat]
  BY <1>1 DEF DefaultBucket
<1>9. room[1] = DefaultBucket /\ room[2] = DefaultBucket /\ room[3] = DefaultBucket
      /\ room[4] = DefaultBucket /\ room[5] = BucketSize
  OBVIOUS
<1> HIDE DEF blank, room
<1>10. h \in Tape
  BY <1>5, <1>7, <1>8 DEF Tape
<1>11. /\ h.len = 0 /\ h.room = room /\ h.mark[0] = blank
       /\ \A i \in Nat : h.start[i] = 0
  OBVIOUS
<1> HIDE DEF h
<1>12. /\ Len(wire) = 4 /\ wire[1] = DefineFrame /\ wire[2] = TypeFrame
       /\ wire[3] = CompressionFrame /\ wire[4] = ChunkFrame(BucketSize)
  BY <1>1
<1>13. \A i \in 1 .. 4 : i = 1 \/ i = 2 \/ i = 3 \/ i = 4
  OBVIOUS
<1>14. \A i \in 1 .. 4 : wire[i].meta # "DATA" /\ Span(wire[i]) = 0
  BY <1>12, <1>13 DEF DefineFrame, TypeFrame, CompressionFrame, ChunkFrame, Span
<1>15. /\ RoomAfter(wire[1], DefaultBucket) = DefaultBucket
       /\ RoomAfter(wire[2], DefaultBucket) = DefaultBucket
       /\ RoomAfter(wire[3], DefaultBucket) = DefaultBucket
       /\ RoomAfter(wire[4], DefaultBucket) = BucketSize
  BY <1>12 DEF DefineFrame, TypeFrame, CompressionFrame, ChunkFrame, RoomAfter
<1>16. Cut(h, wire, <<>>)
  <2>1. \A i \in 1 .. 4 + 1 : i \in Nat
    OBVIOUS
  <2>2. \A i \in 1 .. 4 : i \in Nat /\ i + 1 \in Nat
    OBVIOUS
  <2>3. Slice(h, <<>>, 0) /\ Len(<<>>) = 0
    BY DEF Slice
  <2>4. \A i \in 1 .. 4 : h.start[i + 1] = h.start[i] + Span(wire[i])
    BY <1>11, <1>14, <2>2
  <2>5. h.start[5] = 0
    BY <1>11
  <2> QED
    BY <1>11, <1>12, <1>14, <2>1, <2>3, <2>4, <2>5 DEF Cut
<1>17. Announced(h, wire, pk.unheard, pk.cacheSize)
  <2>1. \A i \in 1 .. 4 : h.room[i + 1] = RoomAfter(wire[i], h.room[i])
    BY <1>9, <1>11, <1>13, <1>15
  <2> QED
    BY <1>3, <1>9, <1>11, <1>12, <1>14, <2>1 DEF Announced
<1>18. Follows(up, h)
  <2>1. Knows(up, h.mark[0])
    BY <1>4, <1>6, <1>11 DEF Knows
  <2>2. Len(up.block) = 0 /\ Slice(h, up.block, 0)
    BY <1>4 DEF Slice
  <2>3. h.start[1] = 0 /\ up.cacheSize = h.room[1]
    BY <1>4, <1>9, <1>11
  <2> QED
    BY <2>1, <2>2, <2>3 DEF Follows
<1>19. Known(pk.cache) = {}
  BY <1>3 DEF Known, EmptyCache
<1>20. Len(rows) = 0 /\ Len(blank.entries) = 0
  BY <1>1, <1>6
<1>21. Holds(pk, rows, blank)
  BY <1>3, <1>6, <1>19, <1>20 DEF Holds
<1>22. Mirrors(pk, blank)
  BY <1>3, <1>19, <1>20 DEF Mirrors
<1>23. Numbered(pk.cache, pk.totalEntries)
  <2>1. NumberedInv /\ pk.handle = "live"
    BY <1>1, InitNumbered DEF PipeInit, InitChannel
  <2> QED
    BY <2>1 DEF NumberedInv
<1>24. \A j \in 1 .. h.len : FALSE
  BY <1>11
<1>25. Written(h) /\ EndsOnce(h, Gone) /\ Told(h, rows)
  BY <1>24 DEF Written, EndsOnce, Told
<1>26. Flow(pk, wire, rows, Gone, up, h)
  BY <1>3, <1>10, <1>11, <1>16, <1>17, <1>18, <1>21, <1>25 DEF Flow
<1>27. Exact(pk, rows, Gone, h)
  BY <1>11, <1>22, <1>23, <1>25 DEF Exact
<1>28. Carried(pk, wire, rows, Gone, up)
  BY <1>26, <1>27 DEF Carried
<1>29. wire \o <<>> = wire
  BY <1>2, ConcatEmptySeq
<1>30. Carries(pk, wire, rows, Gone, up)
  BY <1>3, <1>28, <1>29 DEF Carries
<1>31. up.block \in Seq(Token)
  BY <1>4
<1> QED
  BY <1>2, <1>3, <1>30, <1>31 DEF Standing, Bears

=============================================================================
