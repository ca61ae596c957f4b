--------------------------- MODULE EachTapeProofs ---------------------------
(***************************************************************************)
(* What the packing side of OticContainers leaves in the file for each     *)
(* channel id: as far as a reader gets, the data frames of the id are a    *)
(* tape, all records of the id in order, each legal behind the ones before *)
(* it, and the bucket of the id's live channel is the end of that tape.    *)
(* A frame without its tag or its body ends what a reader gets to.         *)
(***************************************************************************)
EXTENDS ContainerProofs

-----------------------------------------------------------------------------
(* Tapes, one for each channel id. *)

(* What a reader of an id knows: the names in order, the rows, the time. *)
Mark == [names : Seq(Sensors), rows : Nat, ts : Times \cup {NoTime}]
Blank == [names |-> <<>>, rows |-> 0, ts |-> NoTime]

(* start[i] is how much of the tape lies before the file's i-th frame. *)
Tape == [rec : [Nat -> Record], mark : [Nat -> Mark], len : Nat, start : [Nat -> Nat]]

(* What the reader takes for granted of a record, and knows after it. *)
Legal(r, m) == r.rec = "ROW" => r.index < Len(m.names)

NextMark(r, m) ==
  [names |-> IF r.rec = "NAME" THEN Append(m.names, r.sensor) ELSE m.names,
   rows |-> IF r.rec = "ROW" THEN m.rows + 1 ELSE m.rows,
   ts |-> IF r.rec = "TIME" THEN r.time ELSE m.ts]

Recorded(h) ==
  /\ h.mark[0] = Blank
  /\ \A j \in 1 .. h.len :
       Legal(h.rec[j], h.mark[j - 1]) /\ h.mark[j] = NextMark(h.rec[j], h.mark[j - 1])

(* These records are on the tape, from behind the given place. *)
Slice(h, records, from) == \A j \in 1 .. Len(records) : records[j] = h.rec[from + j]

Carries(f, id) == f.meta = "DATA" /\ f.id = id
Span(f, id) == IF Carries(f, id) THEN Len(f.block) ELSE 0

(* A reader gets past the first i frames. *)
Reach(frames, i) == \A j \in 1 .. i : Good(frames[j])
Clean(frames) == Reach(frames, Len(frames))

(* As far as a reader gets, the data frames of the id are the tape, one behind the other. *)
Cut(h, frames, id) ==
  /\ h.start[1] <= h.len
  /\ \A i \in 1 .. Len(frames) : Reach(frames, i) =>
       /\ h.start[i + 1] = h.start[i] + Span(frames[i], id)
       /\ h.start[i + 1] <= h.len /\ \A j \in 1 .. i : h.start[j] <= h.start[i + 1]
       /\ Carries(frames[i], id) => Slice(h, frames[i].block, h.start[i])

(* A time that otic_ts_handler does not refuse. *)
NotBefore(t, ts) == ts # NoTime => ts <= t

(***************************************************************************)
(* A row record has the value of a row.  If no id is defined twice, the    *)
(* n-th one decodes to the n-th row, and an EOF record counts all rows of  *)
(* a log whose channel (one of enders) was closed; times do not go back.   *)
(***************************************************************************)
Decoded(r, m) == [time |-> m.ts, sensor |-> m.names[r.index + 1], value |-> r.value]

Recounts(log, enders, r, m) ==
  /\ r.rec = "ROW" =>
       /\ \E j \in 1 .. Len(log) : log[j].value = r.value
       /\ ~Reopen => m.rows < Len(log) /\ log[m.rows + 1] = Decoded(r, m)
  /\ r.rec = "EOF" /\ ~Reopen => enders # {} /\ r.count = Len(log)
  /\ r.rec = "TIME" /\ ~Reopen => NotBefore(r.time, m.ts)

Recounted(h, log, enders) == \A j \in 1 .. h.len : Recounts(log, enders, h.rec[j], h.mark[j - 1])

Filed(h, frames, id, log, enders) ==
  h \in Tape /\ Recorded(h) /\ Cut(h, frames, id) /\ Recounted(h, log, enders)

(* A channel's bucket is the tape's end, and the channel has named no more than its reader knows. *)
Matches(c, m) ==
  /\ Len(c.names) <= Len(m.names)
  /\ ~Reopen => m.names = c.names /\ m.rows = c.rowCounter /\ m.ts = c.ts

Joined(h, from, c) ==
  /\ from + Len(c.bucket) = h.len /\ Slice(h, c.bucket, from)
  /\ Matches(c, h.mark[h.len])

Stands(h, frames, id, log, enders, c) ==
  Filed(h, frames, id, log, enders) /\ Joined(h, h.start[Len(frames) + 1], c)

-----------------------------------------------------------------------------
(* The tape grows by a record. *)

Extended(h, r) ==
  [rec |-> [h.rec EXCEPT ![h.len + 1] = r],
   mark |-> [h.mark EXCEPT ![h.len + 1] = NextMark(r, h.mark[h.len])],
   len |-> h.len + 1, start |-> h.start]

LEMMA TapeFields ==
  ASSUME NEW h \in Tape
  PROVE  /\ h.rec \in [Nat -> Record] /\ h.mark \in [Nat -> Mark] /\ h.len \in Nat
         /\ h.start \in [Nat -> Nat] /\ h.mark[h.len] \in Mark
  BY DEF Tape

LEMMA MarkFields ==
  ASSUME NEW m \in Mark
  PROVE  m.names \in Seq(Sensors) /\ m.rows \in Nat /\ m.ts \in Times \cup {NoTime}
  BY DEF Mark

LEMMA RecordKinds ==
  ASSUME NEW r \in Record
  PROVE  /\ r.rec \in {"TIME", "NAME", "ROW", "EOF"}
         /\ r.rec = "TIME" => r.time \in Times
         /\ r.rec = "NAME" => r.sensor \in Sensors
         /\ r.rec = "ROW" => r.index \in Nat /\ r.value \in Numbers
         /\ r.rec = "EOF" => r.count \in Nat
  BY DEF Record

LEMMA NextMarkTyped ==
  ASSUME NEW r \in Record, NEW m \in Mark
  PROVE  /\ NextMark(r, m) \in Mark
         /\ r.rec = "NAME" => NextMark(r, m) = [names |-> Append(m.names, r.sensor),
                                                rows |-> m.rows, ts |-> m.ts]
         /\ r.rec = "TIME" => NextMark(r, m) = [names |-> m.names, rows |-> m.rows, ts |-> r.time]
         /\ r.rec = "ROW" => NextMark(r, m) = [names |-> m.names, rows |-> m.rows + 1, ts |-> m.ts]
         /\ r.rec = "EOF" => NextMark(r, m) = [names |-> m.names, rows |-> m.rows, ts |-> m.ts]
<1>1. m.names \in Seq(Sensors) /\ m.rows \in Nat /\ m.ts \in Times \cup {NoTime}
  BY MarkFields
<1> DEFINE a == IF r.rec = "NAME" THEN Append(m.names, r.sensor) ELSE m.names
           b == IF r.rec = "ROW" THEN m.rows + 1 ELSE m.rows
           c == IF r.rec = "TIME" THEN r.time ELSE m.ts
<1>2. a \in Seq(Sensors)
  BY <1>1, RecordKinds
<1>3. b \in Nat
  BY <1>1
<1>4. c \in Times \cup {NoTime}
  BY <1>1, RecordKinds
<1>5. NextMark(r, m) = [names |-> a, rows |-> b, ts |-> c]
  BY DEF NextMark
<1>6. /\ r.rec = "NAME" => a = Append(m.names, r.sensor) /\ b = m.rows /\ c = m.ts
      /\ r.rec = "TIME" => a = m.names /\ b = m.rows /\ c = r.time
      /\ r.rec = "ROW" => a = m.names /\ b = m.rows + 1 /\ c = m.ts
      /\ r.rec = "EOF" => a = m.names /\ b = m.rows /\ c = m.ts
  OBVIOUS
<1> HIDE DEF a, b, c
<1>7. NextMark(r, m) \in Mark
  BY <1>2, <1>3, <1>4, <1>5 DEF Mark
<1> QED
  BY <1>5, <1>6, <1>7

(* What lies on the tape already stays where it is. *)
LEMMA ExtendedFields ==
  ASSUME NEW h \in Tape, NEW r \in Record
  PROVE  LET x == Extended(h, r)
         IN  /\ x \in Tape /\ x.len = h.len + 1 /\ x.start = h.start
             /\ x.rec[h.len + 1] = r
             /\ x.mark[h.len + 1] = NextMark(r, h.mark[h.len])
             /\ \A j \in 0 .. h.len : x.rec[j] = h.rec[j] /\ x.mark[j] = h.mark[j]
<1> DEFINE n == NextMark(r, h.mark[h.len])
           l == h.len
<1>1. /\ h.rec \in [Nat -> Record] /\ h.mark \in [Nat -> Mark] /\ l \in Nat
      /\ h.start \in [Nat -> Nat]
  BY TapeFields
<1>2. n \in Mark
  BY TapeFields, NextMarkTyped
<1>3. Extended(h, r) = [rec |-> [h.rec EXCEPT ![l + 1] = r], mark |-> [h.mark EXCEPT ![l + 1] = n],
                        len |-> l + 1, start |-> h.start]
  BY DEF Extended
<1> HIDE DEF n, l
<1>4. [h.rec EXCEPT ![l + 1] = r] \in [Nat -> Record] /\ [h.mark EXCEPT ![l + 1] = n] \in [Nat -> Mark]
  BY <1>1, <1>2
<1>5. Extended(h, r) \in Tape
  BY <1>1, <1>3, <1>4 DEF Tape
<1>6. /\ [h.rec EXCEPT ![l + 1] = r][l + 1] = r /\ [h.mark EXCEPT ![l + 1] = n][l + 1] = n
      /\ \A j \in 0 .. l : /\ [h.rec EXCEPT ![l + 1] = r][j] = h.rec[j]
                           /\ [h.mark EXCEPT ![l + 1] = n][j] = h.mark[j]
  BY <1>1
<1> QED
  BY <1>3, <1>5, <1>6 DEF n, l

(* A stretch that ends on the tape is still there on a longer one. *)
LEMMA SliceStays ==
  ASSUME NEW h, NEW x, NEW l \in Nat, \A j \in 0 .. l : x.rec[j] = h.rec[j],
         NEW records \in Seq(Record), NEW from \in Nat, from + Len(records) <= l,
         Slice(h, records, from)
  PROVE  Slice(x, records, from)
<1>1. ASSUME NEW j \in 1 .. Len(records) PROVE records[j] = x.rec[from + j]
  <2>1. from + j \in 0 .. l /\ records[j] = h.rec[from + j]
    BY <1>1 DEF Slice
  <2> QED
    BY <2>1
<1> QED
  BY <1>1 DEF Slice

LEMMA FrameFields ==
  ASSUME NEW f \in Frame, NEW id
  PROVE  /\ Carries(f, id) => f.block \in Seq(Record) /\ Span(f, id) = Len(f.block)
         /\ ~Carries(f, id) => Span(f, id) = 0
         /\ Span(f, id) \in Nat
<1>1. f.meta = "DATA" => f.block \in Seq(Record)
  BY FrameFacts DEF Frame
<1> QED
  BY <1>1 DEF Carries, Span

LEMMA ExtendedFiled ==
  ASSUME NEW frames \in Seq(Frame), NEW id, NEW log, NEW enders,
         NEW h, Filed(h, frames, id, log, enders), NEW r \in Record,
         Legal(r, h.mark[h.len]), Recounts(log, enders, r, h.mark[h.len])
  PROVE  Filed(Extended(h, r), frames, id, log, enders)
<1> DEFINE x == Extended(h, r)
           l == h.len
<1>0. h \in Tape
  BY DEF Filed
<1>1. /\ l \in Nat /\ x \in Tape /\ x.len = l + 1 /\ x.start = h.start /\ x.rec[l + 1] = r
      /\ x.mark[l + 1] = NextMark(r, h.mark[l])
      /\ \A j \in 0 .. l : x.rec[j] = h.rec[j] /\ x.mark[j] = h.mark[j]
      /\ h.start \in [Nat -> Nat]
  BY Zenon, <1>0, TapeFields, ExtendedFields
<1>2. Recorded(h) /\ Cut(h, frames, id) /\ Recounted(h, log, enders)
  BY DEF Filed
<1>9. Legal(r, h.mark[l]) /\ Recounts(log, enders, r, h.mark[l])
  OBVIOUS
<1>10. /\ \A j \in 1 .. l : /\ Legal(h.rec[j], h.mark[j - 1])
                            /\ h.mark[j] = NextMark(h.rec[j], h.mark[j - 1])
                            /\ Recounts(log, enders, h.rec[j], h.mark[j - 1])
       /\ h.mark[0] = Blank
  BY <1>2 DEF Recorded, Recounted
<1>11. /\ h.start[1] <= l
       /\ \A i \in 1 .. Len(frames) : Reach(frames, i) =>
            /\ h.start[i + 1] = h.start[i] + Span(frames[i], id)
            /\ h.start[i + 1] <= l /\ \A j \in 1 .. i : h.start[j] <= h.start[i + 1]
            /\ Carries(frames[i], id) => Slice(h, frames[i].block, h.start[i])
  BY <1>2 DEF Cut
<1> HIDE DEF x, l
<1>3. ASSUME NEW j \in 1 .. x.len
      PROVE  /\ Legal(x.rec[j], x.mark[j - 1]) /\ x.mark[j] = NextMark(x.rec[j], x.mark[j - 1])
             /\ Recounts(log, enders, x.rec[j], x.mark[j - 1])
  <2>1. CASE j \in 1 .. l
    <3>1. j \in 0 .. l /\ j - 1 \in 0 .. l
      BY <1>1, <2>1
    <3> QED
      BY <1>1, <1>10, <2>1, <3>1
  <2>2. CASE j = l + 1
    <3>1. j - 1 = l /\ l \in 0 .. l
      BY <1>1, <2>2
    <3>2. x.rec[j] = r /\ x.mark[j] = NextMark(r, h.mark[l]) /\ x.mark[j - 1] = h.mark[l]
      BY <1>1, <2>2, <3>1
    <3> QED
      BY <1>9, <3>2
  <2> QED
    BY <1>1, <1>3, <2>1, <2>2
<1>4. x.mark[0] = Blank
  <2>1. 0 \in 0 .. l
    BY <1>1
  <2> QED
    BY <1>1, <1>10, <2>1
<1>5. ASSUME NEW i \in 1 .. Len(frames), Reach(frames, i)
      PROVE  /\ x.start[i + 1] = x.start[i] + Span(frames[i], id)
             /\ x.start[i + 1] <= x.len /\ \A j \in 1 .. i : x.start[j] <= x.start[i + 1]
             /\ Carries(frames[i], id) => Slice(x, frames[i].block, x.start[i])
  <2>1. /\ h.start[i + 1] = h.start[i] + Span(frames[i], id)
        /\ h.start[i + 1] <= l /\ \A j \in 1 .. i : h.start[j] <= h.start[i + 1]
        /\ Carries(frames[i], id) => Slice(h, frames[i].block, h.start[i])
    BY <1>5, <1>11
  <2>5. i \in Nat /\ i + 1 \in Nat /\ frames[i] \in Frame
    OBVIOUS
  <2>2. i \in Nat /\ h.start[i] \in Nat /\ h.start[i + 1] \in Nat /\ frames[i] \in Frame
    BY <1>1, <2>5
  <2>3. ASSUME Carries(frames[i], id) PROVE Slice(x, frames[i].block, x.start[i])
    <3>1. frames[i].block \in Seq(Record) /\ Span(frames[i], id) = Len(frames[i].block)
      BY <2>2, <2>3, FrameFields
    <3>2. h.start[i] + Len(frames[i].block) <= l
      BY <2>1, <3>1
    <3> QED
      BY Zenon, <1>1, <2>1, <2>2, <2>3, <3>1, <3>2, SliceStays
  <2>4. x.start[i + 1] <= x.len
    <3> DEFINE s == h.start[i + 1]
    <3>1. s \in Nat /\ s <= l /\ x.start[i + 1] = s
      BY <1>1, <2>1, <2>2
    <3> HIDE DEF s
    <3> QED
      BY <1>1, <3>1
  <2> QED
    BY <1>1, <2>1, <2>3, <2>4
<1>6. x.start[1] <= x.len
  <2> DEFINE s == h.start[1]
  <2>1. s \in Nat /\ s <= l /\ x.start[1] = s
    BY <1>1, <1>11
  <2> HIDE DEF s
  <2> QED
    BY <1>1, <2>1
<1>7. Recorded(x) /\ Cut(x, frames, id) /\ Recounted(x, log, enders)
  BY <1>3, <1>4, <1>5, <1>6 DEF Recorded, Cut, Recounted
<1> QED
  BY <1>1, <1>7 DEF Filed, x

(* A record behind the bucket's last one. *)
LEMMA ExtendedStands ==
  ASSUME NEW frames \in Seq(Frame), NEW id, NEW log, NEW enders,
         NEW c \in PackChan, NEW h, Stands(h, frames, id, log, enders, c),
         NEW r \in Record, Legal(r, h.mark[h.len]), Recounts(log, enders, r, h.mark[h.len]),
         NEW d, d.bucket = Append(c.bucket, r), Matches(d, NextMark(r, h.mark[h.len]))
  PROVE  LET x == Extended(h, r)
         IN  Stands(x, frames, id, log, enders, d) /\ x.start = h.start
<1> DEFINE x == Extended(h, r)
           l == h.len
           b == c.bucket
           e == d.bucket
           from == h.start[Len(frames) + 1]
           n == Len(b)
<1>1. /\ h \in Tape /\ l \in Nat /\ x \in Tape /\ x.len = l + 1 /\ x.start = h.start
      /\ x.rec[l + 1] = r /\ x.mark[l + 1] = NextMark(r, h.mark[l])
      /\ \A j \in 0 .. l : x.rec[j] = h.rec[j]
      /\ h.start \in [Nat -> Nat]
  BY Zenon, TapeFields, ExtendedFields DEF Stands, Filed
<1>2. from \in Nat
  BY <1>1
<1>3. from + n = l /\ Slice(h, b, from)
  BY DEF Stands, Joined
<1>4. b \in Seq(Record) /\ e = Append(b, r)
  BY ChanFields
<1>5. /\ Len(e) = n + 1 /\ e[n + 1] = r /\ n \in Nat /\ \A j \in 1 .. n : e[j] = b[j]
  <2> HIDE DEF b, e
  <2> QED
    BY <1>4
<1>6. Filed(x, frames, id, log, enders)
  BY ExtendedFiled DEF Stands
<1>7. Matches(d, x.mark[x.len])
  BY <1>1
<1>8. x.start[Len(frames) + 1] = from
  BY <1>1
<1> HIDE DEF x, l, b, e, from, n
<1>9. from + Len(e) = x.len
  BY <1>1, <1>2, <1>3, <1>5
<1>10. ASSUME NEW j \in 1 .. Len(e) PROVE e[j] = x.rec[from + j]
  <2>1. CASE j \in 1 .. n
    <3>1. b[j] = h.rec[from + j]
      BY <1>3, <2>1 DEF Slice, n
    <3>2. from + j \in 0 .. l
      BY <1>1, <1>2, <1>3, <1>5, <2>1
    <3> QED
      BY <1>1, <1>5, <2>1, <3>1, <3>2
  <2>2. CASE j = n + 1
    <3>1. from + j = l + 1
      BY <1>1, <1>2, <1>3, <1>5, <2>2
    <3> QED
      BY <1>1, <1>5, <2>2, <3>1
  <2> QED
    BY <1>5, <1>10, <2>1, <2>2
<1>11. Joined(x, from, d)
  BY <1>7, <1>9, <1>10 DEF Joined, Slice, e
<1> QED
  BY <1>1, <1>6, <1>8, <1>11 DEF Stands, x

(* The tape of an id, in one formula with the place where its file begins. *)
Standing(frames, id, log, enders, c) ==
  \E h : Stands(h, frames, id, log, enders, c) /\ h.start[1] = 0

LEMMA StampedStanding ==
  ASSUME NEW frames \in Seq(Frame), NEW id, NEW log, NEW enders,
         NEW c \in PackChan, Standing(frames, id, log, enders, c), NEW t \in Times, NotBefore(t, c.ts)
  PROVE  Standing(frames, id, log, enders, Stamped(c, t))
<1>1. PICK h : Stands(h, frames, id, log, enders, c) /\ h.start[1] = 0
  BY DEF Standing
<1>2. CASE c.ts = t
  BY <1>2 DEF Stamped
<1>3. CASE c.ts # t
  <2> DEFINE d == Stamped(c, t)
             r == TimeRecord(t)
             m == h.mark[h.len]
  <2>1. r \in Record /\ r.rec = "TIME" /\ r.time = t
    BY RecordFacts DEF TimeRecord
  <2>2. m \in Mark /\ Matches(c, m)
    BY <1>1, TapeFields DEF Stands, Filed, Joined
  <2>3. /\ d.bucket = Append(c.bucket, r) /\ d.names = c.names /\ d.ts = t
        /\ d.rowCounter = c.rowCounter
    BY <1>3 DEF Stamped, PackChan
  <2>4. NextMark(r, m) = [names |-> m.names, rows |-> m.rows, ts |-> t]
    BY <2>1, <2>2, NextMarkTyped
  <2>5. Legal(r, m) /\ Recounts(log, enders, r, m)
    BY <2>1, <2>2 DEF Legal, Recounts, Matches
  <2>6. Matches(d, NextMark(r, m))
    BY <2>2, <2>3, <2>4 DEF Matches
  <2> HIDE DEF d, r
  <2>7. Stands(Extended(h, r), frames, id, log, enders, d) /\ Extended(h, r).start = h.start
    BY <1>1, <2>1, <2>3, <2>5, <2>6, ExtendedStands
  <2> QED
    BY <1>1, <2>7 DEF Standing, d
<1> QED
  BY <1>2, <1>3

LEMMA NamedStanding ==
  ASSUME NEW frames \in Seq(Frame), NEW id, NEW log, NEW enders,
         NEW c \in PackChan, Standing(frames, id, log, enders, c), NEW n \in Sensors
  PROVE  Standing(frames, id, log, enders, Named(c, n))
<1>1. PICK h : Stands(h, frames, id, log, enders, c) /\ h.start[1] = 0
  BY DEF Standing
<1>2. CASE Contains(c.names, n)
  BY <1>2 DEF Named
<1>3. CASE ~Contains(c.names, n)
  <2> DEFINE d == Named(c, n)
             r == NameRecord(n)
             m == h.mark[h.len]
             a == Append(c.names, n)
             b == Append(c.bucket, r)
             p == Append(m.names, n)
  <2>1. r \in Record /\ r.rec = "NAME" /\ r.sensor = n
    BY RecordFacts DEF NameRecord
  <2>2. m \in Mark /\ Matches(c, m)
    BY <1>1, TapeFields DEF Stands, Filed, Joined
  <2>3. d = [c EXCEPT !.names = a, !.bucket = b]
    BY <1>3 DEF Named
  <2>4. NextMark(r, m) = [names |-> p, rows |-> m.rows, ts |-> m.ts]
    BY <2>1, <2>2, NextMarkTyped
  <2>5. Legal(r, m) /\ Recounts(log, enders, r, m)
    BY <2>1 DEF Legal, Recounts
  <2>6. Len(c.names) <= Len(m.names) => Len(a) <= Len(p)
    <3>1. c.names \in Seq(Sensors) /\ m.names \in Seq(Sensors)
      BY <2>2, ChanFields, MarkFields
    <3>2. /\ Len(a) = Len(c.names) + 1 /\ Len(c.names) \in Nat
          /\ Len(p) = Len(m.names) + 1 /\ Len(m.names) \in Nat
      BY <3>1
    <3> QED
      BY SMT, <3>2
  <2>7. m.names = c.names => p = a
    OBVIOUS
  <2> HIDE DEF r, a, b, p
  <2>8. d.bucket = b /\ d.names = a /\ d.ts = c.ts /\ d.rowCounter = c.rowCounter
    BY <2>3 DEF PackChan
  <2>9. Matches(d, NextMark(r, m))
    BY <2>2, <2>4, <2>6, <2>7, <2>8 DEF Matches
  <2> HIDE DEF d
  <2>10. Stands(Extended(h, r), frames, id, log, enders, d) /\ Extended(h, r).start = h.start
    BY <1>1, <2>1, <2>5, <2>8, <2>9, ExtendedStands DEF b
  <2> QED
    BY <1>1, <2>10 DEF Standing, d
<1> QED
  BY <1>2, <1>3
(* The row record tells the log's last row. *)
LEMMA WrittenStanding ==
  ASSUME NEW frames \in Seq(Frame), NEW id, NEW log, NEW enders,
         NEW c \in PackChan, Standing(frames, id, log, enders, c),
         NEW n \in Sensors, Contains(c.names, n), NEW v \in Numbers,
         \E j \in 1 .. Len(log) : log[j].value = v,
         ~Reopen => /\ c.rowCounter < Len(log)
                    /\ log[c.rowCounter + 1] = [time |-> c.ts, sensor |-> n, value |-> v]
  PROVE  Standing(frames, id, log, enders, Written(c, n, v))
<1>1. PICK h : Stands(h, frames, id, log, enders, c) /\ h.start[1] = 0
  BY DEF Standing
<1> DEFINE d == Written(c, n, v)
           i == IndexOf(c, n)
           r == RowRecord(i, v)
           m == h.mark[h.len]
           b == Append(c.bucket, r)
           k == c.rowCounter + 1
<1>2. i \in Nat /\ i < Len(c.names) /\ c.names[i + 1] = n
  BY IndexFound
<1>3. r \in Record /\ r.rec = "ROW" /\ r.index = i /\ r.value = v
  BY <1>2, RecordFacts DEF RowRecord
<1>4. m \in Mark /\ Matches(c, m)
  BY <1>1, TapeFields DEF Stands, Filed, Joined
<1>5. d = [c EXCEPT !.bucket = b, !.rowCounter = k]
  BY DEF Written
<1>6. NextMark(r, m) = [names |-> m.names, rows |-> m.rows + 1, ts |-> m.ts]
  BY <1>3, <1>4, NextMarkTyped
<1>7. Legal(r, m)
  <2> DEFINE x == Len(c.names)
             y == Len(m.names)
  <2>3. c.names \in Seq(Sensors) /\ m.names \in Seq(Sensors)
    BY <1>4, ChanFields, MarkFields
  <2>4. x \in Nat /\ y \in Nat
    BY SMT, <2>3
  <2>1. x \in Nat /\ y \in Nat /\ x <= y /\ i \in Nat /\ i < x
    BY <1>2, <1>4, <2>4 DEF Matches
  <2> HIDE DEF x, y, i
  <2>2. i < y
    BY <2>1
  <2> QED
    BY <1>3, <2>2 DEF Legal, y
<1>8. Recounts(log, enders, r, m)
  <2>1. ~Reopen => Decoded(r, m) = [time |-> c.ts, sensor |-> n, value |-> v]
    BY <1>2, <1>3, <1>4 DEF Decoded, Matches
  <2>2. ~Reopen => m.rows = c.rowCounter
    BY <1>4 DEF Matches
  <2> HIDE DEF r, m
  <2> QED
    BY <1>3, <2>1, <2>2 DEF Recounts
<1>9. m.rows = c.rowCounter => m.rows + 1 = k
  OBVIOUS
<1> HIDE DEF r, b, k
<1>10. d.bucket = b /\ d.names = c.names /\ d.ts = c.ts /\ d.rowCounter = k
  BY <1>5 DEF PackChan
<1>11. Matches(d, NextMark(r, m))
  BY <1>4, <1>6, <1>9, <1>10 DEF Matches
<1> HIDE DEF d
<1>12. Stands(Extended(h, r), frames, id, log, enders, d) /\ Extended(h, r).start = h.start
  BY <1>1, <1>3, <1>7, <1>8, <1>10, <1>11, ExtendedStands DEF b
<1> QED
  BY <1>1, <1>12 DEF Standing, d

LEMMA EndedStanding ==
  ASSUME NEW frames \in Seq(Frame), NEW id, NEW log, NEW enders,
         NEW c \in PackChan, Standing(frames, id, log, enders, c),
         ~Reopen => enders # {} /\ c.rowCounter = Len(log)
  PROVE  Standing(frames, id, log, enders, Ended(c))
<1>1. PICK h : Stands(h, frames, id, log, enders, c) /\ h.start[1] = 0
  BY DEF Standing
<1> DEFINE d == Ended(c)
           r == EofRecord(c.rowCounter)
           m == h.mark[h.len]
           b == Append(c.bucket, r)
<1>2. r \in Record /\ r.rec = "EOF" /\ r.count = c.rowCounter
  BY RecordFacts, ChanFields DEF EofRecord
<1>3. m \in Mark /\ Matches(c, m)
  BY <1>1, TapeFields DEF Stands, Filed, Joined
<1>4. d = [c EXCEPT !.bucket = b]
  BY DEF Ended
<1>5. NextMark(r, m) = [names |-> m.names, rows |-> m.rows, ts |-> m.ts]
  BY <1>2, <1>3, NextMarkTyped
<1>6. Legal(r, m) /\ Recounts(log, enders, r, m)
  BY <1>2 DEF Legal, Recounts
<1> HIDE DEF r, b
<1>7. d.bucket = b /\ d.names = c.names /\ d.ts = c.ts /\ d.rowCounter = c.rowCounter
  BY <1>4 DEF PackChan
<1>8. Matches(d, NextMark(r, m))
  BY <1>3, <1>5, <1>7 DEF Matches
<1> HIDE DEF d
<1>9. Stands(Extended(h, r), frames, id, log, enders, d) /\ Extended(h, r).start = h.start
  BY <1>1, <1>2, <1>6, <1>7, <1>8, ExtendedStands DEF b
<1> QED
  BY <1>1, <1>9 DEF Standing, d

-----------------------------------------------------------------------------
(* The file grows by frames of which at most one, the p-th, is the id's. *)

Framed(h, k, p, n) ==
  [rec |-> h.rec, mark |-> h.mark, len |-> h.len,
   start |-> [i \in Nat |-> IF i <= k THEN h.start[i]
                            ELSE IF i <= k + p THEN h.start[k + 1] ELSE h.start[k + 1] + n]]

IsFramed(x, h, k, p, n) ==
  /\ x \in Tape /\ x.rec = h.rec /\ x.mark = h.mark /\ x.len = h.len
  /\ \A i \in Nat : /\ i <= k + 1 => x.start[i] = h.start[i]
                    /\ i > k /\ i <= k + p => x.start[i] = h.start[k + 1]
                    /\ i > k + p => x.start[i] = h.start[k + 1] + n

LEMMA FramedFields ==
  ASSUME NEW h \in Tape, NEW k \in Nat, NEW p \in Nat, p >= 1, NEW n \in Nat
  PROVE  IsFramed(Framed(h, k, p, n), h, k, p, n)
<1> DEFINE s == [i \in Nat |-> IF i <= k THEN h.start[i]
                               ELSE IF i <= k + p THEN h.start[k + 1] ELSE h.start[k + 1] + n]
<1>1. /\ h.rec \in [Nat -> Record] /\ h.mark \in [Nat -> Mark] /\ h.len \in Nat
      /\ h.start \in [Nat -> Nat]
  BY TapeFields
<1> DEFINE g == h.start
<1> HIDE DEF g
<1>2. g \in [Nat -> Nat] /\ s = [i \in Nat |-> IF i <= k THEN g[i] ELSE IF i <= k + p THEN g[k + 1] ELSE g[k + 1] + n]
  BY <1>1 DEF g
<1> HIDE DEF s
<1>3. s \in [Nat -> Nat]
  BY <1>2
<1>4. \A i \in Nat : /\ i <= k + 1 => s[i] = g[i]
                     /\ i > k /\ i <= k + p => s[i] = g[k + 1]
                     /\ i > k + p => s[i] = g[k + 1] + n
  <2>1. \A i \in Nat : i <= k + 1 => i <= k \/ (i = k + 1 /\ i <= k + p /\ ~(i <= k))
    OBVIOUS
  <2>2. \A i \in Nat : /\ i > k => ~(i <= k)
                       /\ i > k + p => ~(i <= k) /\ ~(i <= k + p)
    OBVIOUS
  <2>3. \A i \in Nat : s[i] = IF i <= k THEN g[i] ELSE IF i <= k + p THEN g[k + 1] ELSE g[k + 1] + n
    BY <1>2
  <2> QED
    BY <2>1, <2>2, <2>3
<1>5. Framed(h, k, p, n) = [rec |-> h.rec, mark |-> h.mark, len |-> h.len, start |-> s]
  BY DEF Framed, s
<1>6. Framed(h, k, p, n) \in Tape
  BY <1>1, <1>3, <1>5 DEF Tape
<1> QED
  BY <1>4, <1>5, <1>6 DEF g, IsFramed

LEMMA ReachShorter ==
  ASSUME NEW frames \in Seq(Frame), NEW x \in Seq(Frame), NEW i \in 1 .. Len(frames),
         Reach(frames \o x, i)
  PROVE  Reach(frames, i) /\ (frames \o x)[i] = frames[i]
<1> DEFINE k == Len(frames)
<1>1. \A j \in 1 .. k : (frames \o x)[j] = frames[j]
  OBVIOUS
<1>2. k \in Nat
  OBVIOUS
<1> HIDE DEF k
<1>3. \A j \in 1 .. i : j \in 1 .. k
  BY <1>2 DEF k
<1> QED
  BY <1>1, <1>3 DEF Reach, k

LEMMA AppendedFiled ==
  ASSUME NEW frames \in Seq(Frame), NEW x \in Seq(Frame), NEW id, NEW log, NEW enders,
         NEW h, Filed(h, frames, id, log, enders),
         NEW p \in Nat, p >= 1, NEW n \in Nat, h.start[Len(frames) + 1] + n <= h.len,
         \A i \in 1 .. Len(x) :
           /\ i # p => ~Carries(x[i], id)
           /\ i = p => /\ Carries(x[i], id) /\ Len(x[i].block) = n
                       /\ Slice(h, x[i].block, h.start[Len(frames) + 1])
  PROVE  Filed(Framed(h, Len(frames), p, n), frames \o x, id, log, enders)
<1> DEFINE k == Len(frames)
           q == Len(x)
           F == frames \o x
           y == Framed(h, k, p, n)
           s0 == h.start[k + 1]
           l == h.len
<1>1. /\ h \in Tape /\ Recorded(h) /\ Cut(h, frames, id) /\ Recounted(h, log, enders)
  BY DEF Filed
<1>2. k \in Nat /\ q \in Nat /\ Len(F) = k + q /\ F \in Seq(Frame) /\ \A j \in 1 .. q : F[k + j] = x[j]
  OBVIOUS
<1>3. h.start \in [Nat -> Nat] /\ l \in Nat
  BY <1>1, TapeFields
<1>12. s0 \in Nat
  BY <1>2, <1>3
<1>17. IsFramed(y, h, k, p, n)
  BY <1>1, <1>2, FramedFields
<1>4. /\ y \in Tape /\ y.rec = h.rec /\ y.mark = h.mark /\ y.len = l
      /\ \A i \in Nat : /\ i <= k + 1 => y.start[i] = h.start[i]
                        /\ i > k /\ i <= k + p => y.start[i] = s0
                        /\ i > k + p => y.start[i] = s0 + n
  BY <1>17 DEF IsFramed
<1>5. Recorded(y) /\ Recounted(y, log, enders)
  BY <1>1, <1>4 DEF Recorded, Recounted
<1>6. /\ h.start[1] <= l
      /\ \A i \in 1 .. k : Reach(frames, i) =>
           /\ h.start[i + 1] = h.start[i] + Span(frames[i], id)
           /\ h.start[i + 1] <= l /\ \A j \in 1 .. i : h.start[j] <= h.start[i + 1]
           /\ Carries(frames[i], id) => Slice(h, frames[i].block, h.start[i])
  BY <1>1 DEF Cut
<1>16. s0 + n <= l
  OBVIOUS
<1>8. \A i \in 1 .. q : /\ i # p => ~Carries(x[i], id)
                        /\ i = p => Carries(x[i], id) /\ Len(x[i].block) = n /\ Slice(h, x[i].block, s0)
  OBVIOUS
<1>13. \A i \in 1 .. k : Reach(F, i) => Reach(frames, i) /\ F[i] = frames[i]
  BY ReachShorter
<1>14. \A i \in 1 .. q : x[i] \in Frame
  OBVIOUS
<1>15. \A r, g : Slice(h, r, g) => Slice(y, r, g)
  BY <1>4 DEF Slice
<1> HIDE DEF k, q, F, y, s0, l
<1>7. s0 + n <= l /\ s0 <= l
  BY <1>3, <1>12, <1>16
<1>9. y.start[1] <= y.len
  <2>1. y.start[1] = h.start[1]
    BY <1>2, <1>4
  <2> QED
    BY <1>4, <1>6, <2>1
<1>10. ASSUME NEW i \in 1 .. Len(F), Reach(F, i)
       PROVE  /\ y.start[i + 1] = y.start[i] + Span(F[i], id)
              /\ y.start[i + 1] <= y.len /\ \A j \in 1 .. i : y.start[j] <= y.start[i + 1]
              /\ Carries(F[i], id) => Slice(y, F[i].block, y.start[i])
  <2>1. CASE i \in 1 .. k
    <3>1. /\ y.start[i] = h.start[i] /\ y.start[i + 1] = h.start[i + 1]
          /\ \A j \in 1 .. i : y.start[j] = h.start[j]
      BY <1>2, <1>4, <2>1
    <3> QED
      BY <1>4, <1>6, <1>10, <1>13, <1>15, <2>1, <3>1
  <2>2. CASE i \notin 1 .. k
    <3> DEFINE j == i - k
    <3>1. j \in 1 .. q /\ i = k + j
      BY <1>2, <2>2
    <3> HIDE DEF j
    <3>2. F[i] = x[j] /\ F[i] \in Frame
      BY <1>2, <1>14, <3>1
    <3>6. \A e \in 1 .. k : y.start[e] \in Nat /\ y.start[e] <= s0
      <4> SUFFICES ASSUME NEW e \in 1 .. k PROVE y.start[e] \in Nat /\ y.start[e] <= s0
        OBVIOUS
      <4>1. k \in 1 .. k /\ e \in 1 .. k /\ e \in Nat /\ e <= k + 1
        BY <1>2
      <4>2. Reach(F, k)
        BY <1>2, <1>10, <2>2 DEF Reach
      <4>3. h.start[e] <= h.start[k + 1]
        BY <1>6, <1>13, <4>1, <4>2
      <4> QED
        BY <1>3, <1>4, <4>1, <4>3 DEF s0
    <3>7. \A e \in 1 .. i : e \in Nat /\ (e \in 1 .. k \/ e > k)
      BY <1>2
    <3>3. CASE j < p
      <4>1. y.start[i] = s0 /\ y.start[i + 1] = s0 /\ \A e \in 1 .. i : e > k => y.start[e] = s0
        BY <1>2, <1>4, <3>1, <3>3
      <4>2. ~Carries(F[i], id)
        BY <1>8, <3>1, <3>2, <3>3
      <4>3. Span(F[i], id) = 0
        BY <4>2 DEF Span
      <4>4. \A e \in 1 .. i : y.start[e] <= y.start[i + 1]
        BY <1>12, <3>6, <3>7, <4>1
      <4> QED
        BY <1>4, <1>7, <1>12, <4>1, <4>2, <4>3, <4>4
    <3>4. CASE j = p
      <4>1. y.start[i] = s0 /\ y.start[i + 1] = s0 + n /\ \A e \in 1 .. i : e > k => y.start[e] = s0
        BY <1>2, <1>4, <3>1, <3>4
      <4>2. Carries(F[i], id) /\ Len(F[i].block) = n /\ Slice(h, F[i].block, s0)
        BY <1>8, <3>1, <3>2, <3>4
      <4>3. Span(F[i], id) = n
        BY <4>2 DEF Span
      <4>4. \A e \in 1 .. i : y.start[e] <= y.start[i + 1]
        <5> SUFFICES ASSUME NEW e \in 1 .. i PROVE y.start[e] <= y.start[i + 1]
          OBVIOUS
        <5> DEFINE a == y.start[e]
                   b == y.start[i + 1]
        <5>1. (a \in Nat /\ a <= s0) \/ a = s0
          BY <3>6, <3>7, <4>1
        <5>2. b = s0 + n
          BY <4>1
        <5> HIDE DEF a, b
        <5>3. a <= b
          BY <1>12, <5>1, <5>2
        <5> QED
          BY <5>3 DEF a, b
      <4> QED
        BY <1>4, <1>7, <1>15, <4>1, <4>2, <4>3, <4>4
    <3>5. CASE j > p
      <4>1. /\ y.start[i] = s0 + n /\ y.start[i + 1] = s0 + n
            /\ \A e \in 1 .. i : e > k => y.start[e] \in {s0, s0 + n}
        BY SMT, <1>2, <1>4, <3>1, <3>5
      <4>2. ~Carries(F[i], id)
        BY <1>8, <3>1, <3>2, <3>5
      <4>3. Span(F[i], id) = 0
        BY <4>2 DEF Span
      <4>4. \A e \in 1 .. i : y.start[e] <= y.start[i + 1]
        <5> SUFFICES ASSUME NEW e \in 1 .. i PROVE y.start[e] <= y.start[i + 1]
          OBVIOUS
        <5> DEFINE a == y.start[e]
                   b == y.start[i + 1]
        <5>1. (a \in Nat /\ a <= s0) \/ a \in {s0, s0 + n}
          BY <3>6, <3>7, <4>1
        <5>2. b = s0 + n
          BY <4>1
        <5> HIDE DEF a, b
        <5>3. a <= b
          BY <1>12, <5>1, <5>2
        <5> QED
          BY <5>3 DEF a, b
      <4> QED
        BY <1>4, <1>7, <1>12, <4>1, <4>2, <4>3, <4>4
    <3> QED
      BY <3>1, <3>3, <3>4, <3>5
  <2> QED
    BY <2>1, <2>2
<1>11. Cut(y, F, id)
  BY <1>9, <1>10 DEF Cut
<1> QED
  BY <1>4, <1>5, <1>11 DEF Filed, y, F, k

(* Behind a frame no reader gets past, anything may follow. *)
LEMMA FouledFiled ==
  ASSUME NEW frames \in Seq(Frame), NEW x \in Seq(Frame), NEW id, NEW log, NEW enders,
         NEW h, Filed(h, frames, id, log, enders),
         ~Clean(frames) \/ Fouling(x)
  PROVE  Filed(h, frames \o x, id, log, enders)
<1> DEFINE k == Len(frames)
           q == Len(x)
           F == frames \o x
<1>1. h \in Tape /\ Recorded(h) /\ Cut(h, frames, id) /\ Recounted(h, log, enders)
  BY DEF Filed
<1>2. /\ k \in Nat /\ q \in Nat /\ Len(F) = k + q
      /\ \A j \in 1 .. q : F[k + j] = x[j]
      /\ \A j \in 1 .. k : F[j] = frames[j]
  OBVIOUS
<1>3. \A i \in 1 .. k : Reach(F, i) => Reach(frames, i) /\ F[i] = frames[i]
  BY ReachShorter
<1>4. (\E j \in 1 .. k : ~Good(frames[j])) \/ (\A j \in 1 .. q : ~Good(x[j]))
  BY DEF Clean, Reach, Fouling
<1> HIDE DEF k, q, F
<1>5. ASSUME NEW i \in 1 .. Len(F), Reach(F, i) PROVE i \in 1 .. k
  <2> SUFFICES ASSUME i \notin 1 .. k PROVE FALSE
    OBVIOUS
  <2>1. i - k \in 1 .. q /\ i = k + (i - k) /\ i \in 1 .. i /\ \A j \in 1 .. k : j \in 1 .. i
    BY <1>2
  <2>2. ~Good(F[i]) \/ \E j \in 1 .. k : ~Good(F[j])
    BY <1>2, <1>4, <2>1
  <2> QED
    BY <1>5, <2>1, <2>2 DEF Reach
<1>6. Cut(h, F, id)
  BY <1>1, <1>3, <1>5 DEF Cut, k
<1> QED
  BY <1>1, <1>6 DEF Filed, F

(* The log grows, the channel is closed. *)
LEMMA LongerFiled ==
  ASSUME NEW frames, NEW id, NEW log, NEW enders, NEW more, NEW closers,
         NEW h, Filed(h, frames, id, log, enders),
         Len(log) \in Nat, Len(more) \in Nat, Len(log) <= Len(more),
         \A i \in 1 .. Len(log) : more[i] = log[i],
         enders # {} /\ ~Reopen => closers # {} /\ Len(more) = Len(log)
  PROVE  Filed(h, frames, id, more, closers)
<1> DEFINE L == Len(log)
           M == Len(more)
<1>1. L \in Nat /\ M \in Nat /\ L <= M /\ \A i \in 1 .. L : more[i] = log[i]
  OBVIOUS
<1>2. enders # {} /\ ~Reopen => closers # {} /\ M = L
  OBVIOUS
<1>3. h \in Tape
  BY DEF Filed
<1>4. ASSUME NEW j \in 1 .. h.len, Recounts(log, enders, h.rec[j], h.mark[j - 1])
      PROVE  Recounts(more, closers, h.rec[j], h.mark[j - 1])
  <2> DEFINE r == h.rec[j]
             m == h.mark[j - 1]
             R == m.rows
  <2>1. R \in Nat
    <3>1. j - 1 \in Nat
      BY <1>3, TapeFields
    <3>2. m \in Mark
      BY <1>3, <3>1, TapeFields
    <3> QED
      BY <3>2, MarkFields
  <2>2. /\ r.rec = "ROW" =>
             /\ \E i \in 1 .. L : log[i].value = r.value
             /\ ~Reopen => R < L /\ log[R + 1] = Decoded(r, m)
        /\ r.rec = "EOF" /\ ~Reopen => enders # {} /\ r.count = L
        /\ r.rec = "TIME" /\ ~Reopen => NotBefore(r.time, m.ts)
    BY <1>4 DEF Recounts
  <2> HIDE DEF r, m, R, L, M
  <2>3. r.rec = "ROW" => \E i \in 1 .. M : more[i].value = r.value
    <3>1. \A i \in 1 .. L : i \in 1 .. M
      BY <1>1
    <3> QED
      BY <1>1, <2>2, <3>1
  <2>4. R < L => R < M /\ more[R + 1] = log[R + 1]
    <3>1. R < L => R < M /\ R + 1 \in 1 .. L
      BY <1>1, <2>1
    <3> QED
      BY <1>1, <3>1
  <2>5. /\ r.rec = "ROW" => /\ \E i \in 1 .. M : more[i].value = r.value
                            /\ ~Reopen => R < M /\ more[R + 1] = Decoded(r, m)
        /\ r.rec = "EOF" /\ ~Reopen => closers # {} /\ r.count = M
        /\ r.rec = "TIME" /\ ~Reopen => NotBefore(r.time, m.ts)
    BY <1>2, <2>2, <2>3, <2>4
  <2> QED
    BY <2>5 DEF Recounts, r, m, R, M
<1>5. Recounted(h, more, closers)
  BY <1>4 DEF Filed, Recounted
<1> QED
  BY <1>5 DEF Filed

-----------------------------------------------------------------------------
(* What one call of a channel does to the tape of its id. *)

Filing(frames, id, log, enders) ==
  \E h : Filed(h, frames, id, log, enders) /\ h.start[1] = 0

LEMMA FouledFiling ==
  ASSUME NEW frames \in Seq(Frame), NEW x \in Seq(Frame), NEW id, NEW log, NEW enders,
         Filing(frames, id, log, enders), ~Clean(frames) \/ Fouling(x)
  PROVE  Filing(frames \o x, id, log, enders)
  BY FouledFiled DEF Filing

LEMMA StillFouled ==
  ASSUME NEW frames \in Seq(Frame), NEW x \in Seq(Frame),
         ~Clean(frames) \/ (Fouling(x) /\ x # <<>>)
  PROVE  ~Clean(frames \o x)
<1> DEFINE k == Len(frames)
           q == Len(x)
           F == frames \o x
<1>1. /\ k \in Nat /\ q \in Nat /\ Len(F) = k + q
      /\ \A j \in 1 .. q : F[k + j] = x[j]
      /\ \A j \in 1 .. k : F[j] = frames[j]
      /\ x # <<>> => q # 0
  OBVIOUS
<1>2. (\E j \in 1 .. k : ~Good(frames[j])) \/ ((\A j \in 1 .. q : ~Good(x[j])) /\ q # 0)
  BY <1>1 DEF Clean, Reach, Fouling
<1> HIDE DEF k, q, F
<1>5. \A j \in 1 .. k : F[j] = frames[j]
  BY <1>1
<1>3. /\ \A j \in 1 .. k : j \in 1 .. Len(F)
      /\ q # 0 => k + 1 \in 1 .. Len(F) /\ 1 \in 1 .. q
  BY <1>1
<1>4. \E j \in 1 .. Len(F) : ~Good(F[j])
  <2>1. CASE \E j \in 1 .. k : ~Good(frames[j])
    <3>1. PICK j \in 1 .. k : ~Good(frames[j])
      BY <2>1
    <3>2. F[j] = frames[j] /\ j \in 1 .. Len(F)
      BY <1>3, <1>5, Zenon
    <3> QED
      BY <3>1, <3>2
  <2>2. CASE (\A j \in 1 .. q : ~Good(x[j])) /\ q # 0
    <3>1. F[k + 1] = x[1] /\ ~Good(x[1])
      BY <1>1, <1>3, <2>2
    <3> QED
      BY <1>3, <2>2, <3>1
  <2> QED
    BY <1>2, <2>1, <2>2
<1> QED
  BY <1>4 DEF Clean, Reach, F

LEMMA FlushedStanding ==
  ASSUME NEW frames \in Seq(Frame), NEW c \in PackChan, c.id \in ChannelIds, NEW log, NEW enders,
         Standing(frames, c.id, log, enders, c), NEW r \in FlushResults
  PROVE  LET F == frames \o FlushedFrames(c, r)
         IN  /\ Clean(F) => Standing(F, c.id, log, enders, FlushedChannel(c, r))
             /\ Filing(F, c.id, log, enders)
<1>1. PICK h : Stands(h, frames, c.id, log, enders, c) /\ h.start[1] = 0
  BY DEF Standing
<1> DEFINE id == c.id
           F == frames \o FlushedFrames(c, r)
           d == FlushedChannel(c, r)
<1>2. /\ h \in Tape /\ Filed(h, frames, id, log, enders)
      /\ Joined(h, h.start[Len(frames) + 1], c)
  BY <1>1 DEF Stands, Filed
<1>3. CASE r = "ok"
  <2> DEFINE b == c.bucket
             n == Len(b)
             k == Len(frames)
             f == DataFrame(id, b)
             x == <<f>>
             y == Framed(h, k, 1, n)
             s0 == h.start[k + 1]
  <2>1. b \in Seq(Record) /\ n \in Nat /\ k \in Nat
    BY ChanFields
  <2>2. f \in Frame /\ f.meta = "DATA" /\ f.id = id /\ f.block = b /\ x \in Seq(Frame)
        /\ Len(x) = 1 /\ x[1] = f
    BY <2>1, FrameFacts DEF DataFrame
  <2>3. F = frames \o x /\ d = [c EXCEPT !.bucket = <<>>]
    BY <1>3 DEF FlushedFrames, FlushedChannel
  <2>4. s0 + n = h.len /\ Slice(h, b, s0) /\ Matches(c, h.mark[h.len])
    BY <1>2 DEF Joined
  <2>5. s0 \in Nat /\ h.len \in Nat
    BY <1>2, <2>1, TapeFields
  <2>6. s0 + n <= h.len
    BY <2>4, <2>5
  <2>7. \A i \in 1 .. Len(x) : /\ i # 1 => ~Carries(x[i], id)
                               /\ i = 1 => Carries(x[i], id) /\ Len(x[i].block) = n /\ Slice(h, x[i].block, s0)
    BY <2>2, <2>4 DEF Carries
  <2>15. IsFramed(y, h, k, 1, n)
    BY <1>2, <2>1, FramedFields
  <2>8. /\ y.mark = h.mark /\ y.len = h.len
        /\ \A i \in Nat : /\ i <= k + 1 => y.start[i] = h.start[i]
                          /\ i > k + 1 => y.start[i] = s0 + n
    BY <2>15 DEF IsFramed
  <2>9. /\ d.bucket = <<>> /\ d.names = c.names /\ d.ts = c.ts /\ d.rowCounter = c.rowCounter
    BY <2>3 DEF PackChan
  <2>10. Len(F) = k + 1
    BY <2>2, <2>3
  <2> HIDE DEF x, n, k, s0, f, d, F
  <2>11. Filed(y, frames \o x, id, log, enders)
    BY SMT, <1>2, <2>1, <2>2, <2>6, <2>7, AppendedFiled DEF k, s0
  <2> HIDE DEF y
  <2>12. y.start[1] = 0 /\ y.start[Len(F) + 1] = s0 + n
    BY <1>1, <2>1, <2>8, <2>10
  <2>13. Joined(y, y.start[Len(F) + 1], d)
    <3>1. Len(<<>>) = 0
      OBVIOUS
    <3>2. s0 + n + 0 = h.len /\ n \in Nat
      BY <2>1, <2>4, <2>5
    <3>3. Matches(d, h.mark[h.len])
      BY <2>4, <2>9 DEF Matches
    <3>4. Slice(y, <<>>, y.start[Len(F) + 1])
      BY <3>1 DEF Slice
    <3> QED
      BY <2>8, <2>9, <2>12, <3>1, <3>2, <3>3, <3>4 DEF Joined
  <2>14. Standing(F, id, log, enders, d) /\ Filing(F, id, log, enders)
    BY <2>3, <2>11, <2>12, <2>13 DEF Standing, Stands, Filing
  <2> QED
    BY <2>14 DEF F, d
<1>4. CASE r = "data"
  <2> DEFINE x == <<MetaFrame("TORN", id)>>
  <2>1. x \in Seq(Frame) /\ Fouling(x) /\ x # <<>> /\ F = frames \o x
    <3> DEFINE m == MetaFrame("TORN", id)
    <3>1. m \in Frame /\ m.meta = "TORN"
      BY FrameFacts DEF MetaFrame
    <3>2. FlushedFrames(c, r) = x
      BY <1>4 DEF FlushedFrames
    <3> HIDE DEF m
    <3>3. <<m>> \in Seq(Frame) /\ Fouling(<<m>>) /\ <<m>> # <<>>
      BY <3>1 DEF Fouling, Good
    <3> QED
      BY Zenon, <3>2, <3>3 DEF m
  <2> HIDE DEF x
  <2>2. ~Clean(F) /\ Filing(F, id, log, enders)
    BY <1>1, <1>2, <2>1, StillFouled, FouledFiling DEF Filing
  <2> QED
    BY <2>2
<1>5. CASE r # "ok" /\ r # "data"
  <2>1. F = frames
    BY <1>5 DEF FlushedFrames
  <2>2. d = [c EXCEPT !.state = "ON_ERROR", !.error = "FLUSH_FAILED"]
    BY <1>5 DEF FlushedChannel
  <2>3. d.bucket = c.bucket /\ d.names = c.names /\ d.ts = c.ts /\ d.rowCounter = c.rowCounter
    BY <2>2 DEF PackChan
  <2> HIDE DEF d, F
  <2>4. Joined(h, h.start[Len(frames) + 1], d)
    BY <1>2, <2>3 DEF Joined, Matches
  <2>5. Standing(F, id, log, enders, d) /\ Filing(F, id, log, enders)
    BY <1>1, <1>2, <2>1, <2>4 DEF Standing, Stands, Filing
  <2> QED
    BY <2>5 DEF F, d
<1> QED
  BY <1>3, <1>4, <1>5

(* The same contents, or another id's frames behind the file. *)
SameContents(c, d) ==
  d.id = c.id /\ d.bucket = c.bucket /\ d.names = c.names /\ d.ts = c.ts /\ d.rowCounter = c.rowCounter

LEMMA JoinedSame ==
  ASSUME NEW h, NEW from, NEW c, NEW d, SameContents(c, d), Joined(h, from, c)
  PROVE  Joined(h, from, d)
  BY DEF Joined, Matches, SameContents

-----------------------------------------------------------------------------
(* The packing side, id by id. *)

Closers(id) == {g \in Handles : chan[g].id = id /\ chan[g].use = "closed"}
InUse == {g \in Handles : chan[g].use # "unused"}
Unused(id) == \A g \in InUse : chan[g].id # id

(***************************************************************************)
(* As long as a reader can get to the end of the file, the bucket of an    *)
(* id's live channel continues the file.                                   *)
(***************************************************************************)
Continues(h, id) ==
  Clean(file) => \A g \in Live : chan[g].id = id => Joined(h, h.start[Len(file) + 1], chan[g])

Packs(h, id) ==
  /\ Filed(h, file, id, sent[id], Closers(id)) /\ h.start[1] = 0
  /\ Continues(h, id)
  /\ ~Reopen /\ Unused(id) => h.len = 0

Packed(id) == \E h : Packs(h, id)

(* If no id is defined twice, there is one channel to an id, and it counts the id's rows. *)
Books ==
  ~Reopen =>
    /\ \A g, h \in InUse : chan[g].id = chan[h].id => g = h
    /\ \A g \in Live : chan[g].rowCounter = Len(sent[chan[g].id])
    /\ \A id \in ChannelIds : Unused(id) => sent[id] = <<>>

LEMMA PackedStanding ==
  ASSUME NEW g \in Live, Packed(chan[g].id)
  PROVE  LET id == chan[g].id
         IN  /\ Clean(file) => Standing(file, id, sent[id], Closers(id), chan[g])
             /\ Filing(file, id, sent[id], Closers(id))
  BY DEF Packed, Packs, Continues, Standing, Stands, Filing

(* No other live channel has the id. *)
LEMMA StandingPacked ==
  ASSUME PackExact', NEW g \in Live', NEW id \in ChannelIds, chan'[g].id = id,
         Clean(file') => Standing(file', id, sent'[id], Closers(id)', chan'[g]),
         Filing(file', id, sent'[id], Closers(id)')
  PROVE  Packed(id)'
<1>1. g \in Handles /\ ~Unused(id)'
  BY DEF Live, Unused, InUse
<1>2. \A k \in Live' : chan'[k].id = id => k = g
  BY DEF PackExact
<1>3. CASE Clean(file')
  <2>1. PICK h : Stands(h, file', id, sent'[id], Closers(id)', chan'[g]) /\ h.start[1] = 0
    BY <1>3 DEF Standing
  <2>2. Continues(h, id)'
    BY <1>2, <2>1 DEF Continues, Stands
  <2>3. Packs(h, id)'
    BY <1>1, <2>1, <2>2 DEF Packs, Stands
  <2> QED
    BY <2>3 DEF Packed
<1>4. CASE ~Clean(file')
  <2>1. PICK h : Filed(h, file', id, sent'[id], Closers(id)') /\ h.start[1] = 0
    BY DEF Filing
  <2>2. Continues(h, id)'
    BY <1>4 DEF Continues
  <2>3. Packs(h, id)'
    BY <1>1, <2>1, <2>2 DEF Packs
  <2> QED
    BY <2>3 DEF Packed
<1> QED
  BY <1>3, <1>4

(***************************************************************************)
(* A call that neither touches the live channel of the id nor writes a     *)
(* frame of it; or that touches it behind a frame no reader gets past.     *)
(***************************************************************************)
Spared(id) ==
  /\ sent'[id] = sent[id] /\ Closers(id)' = Closers(id)
  /\ Unused(id)' => Unused(id)
  /\ \A g \in Live' : chan'[g].id = id /\ Clean(file') =>
       g \in Live /\ SameContents(chan[g], chan'[g])

LEMMA SparedPacked ==
  ASSUME file \in Seq(Frame), NEW x \in Seq(Frame), file' = file \o x,
         NEW id, \A i \in 1 .. Len(x) : ~Carries(x[i], id),
         Packed(id), Spared(id)
  PROVE  Packed(id)'
<1>1. PICK h : Packs(h, id)
  BY DEF Packed
<1>2. Filed(h, file, id, sent[id], Closers(id)) /\ h.start[1] = 0 /\ h \in Tape
  BY <1>1 DEF Packs, Filed
<1>3. CASE Clean(file)
  <2> DEFINE k == Len(file)
             p == Len(x) + 1
             y == Framed(h, k, p, 0)
             s0 == h.start[k + 1]
  <2>1. k \in Nat /\ p \in Nat /\ p >= 1 /\ 0 \in Nat /\ Len(x) \in Nat /\ Len(file') = k + Len(x)
    BY file \in Seq(Frame)
  <2>2. IsFramed(y, h, k, p, 0)
    BY <1>2, <2>1, FramedFields
  <2>3. s0 + 0 <= h.len
    <3>1. h.start[1] <= h.len
          /\ \A i \in 1 .. k : Reach(file, i) => h.start[i + 1] <= h.len
      BY <1>2 DEF Filed, Cut
    <3>2. s0 \in Nat /\ h.len \in Nat
      BY <1>2, <2>1, TapeFields
    <3>3. s0 <= h.len
      <4>1. CASE k = 0
        BY <3>1, <4>1
      <4>2. CASE k # 0
        <5>1. k \in 1 .. k
          BY <2>1, <4>2
        <5> QED
          BY <1>3, <3>1, <5>1 DEF Clean
      <4> QED
        BY <4>1, <4>2
    <3> HIDE DEF s0
    <3> QED
      BY <3>2, <3>3
  <2>4. \A i \in 1 .. Len(x) : /\ i # p => ~Carries(x[i], id)
                               /\ i = p => FALSE
    BY <2>1
  <2> HIDE DEF p, y
  <2>5. Filed(y, file', id, sent[id], Closers(id))
    <3>1. Filed(Framed(h, Len(file), p, 0), file \o x, id, sent[id], Closers(id))
      BY <1>2, <2>1, <2>3, <2>4, AppendedFiled
    <3> QED
      BY <3>1 DEF y
  <2>6. y.start[1] = 0 /\ y.start[Len(file') + 1] = s0 /\ y.len = h.len /\ y.rec = h.rec /\ y.mark = h.mark
    <3>1. /\ y.rec = h.rec /\ y.mark = h.mark /\ y.len = h.len
          /\ \A i \in Nat : /\ i <= k + 1 => y.start[i] = h.start[i]
                            /\ i > k /\ i <= k + p => y.start[i] = s0
      BY <2>2 DEF IsFramed
    <3>2. k + Len(x) + 1 > k /\ k + Len(x) + 1 <= k + p /\ 1 <= k + 1
      BY <2>1 DEF p
    <3> HIDE DEF k, s0
    <3> QED
      BY SMT, <1>2, <2>1, <3>1, <3>2
  <2>7. PICK z : /\ Filed(z, file', id, sent[id], Closers(id))
                 /\ z.start[1] = 0 /\ z.start[Len(file') + 1] = s0
                 /\ z.len = h.len /\ z.rec = h.rec /\ z.mark = h.mark
    BY <2>5, <2>6
  <2>8. Continues(z, id)'
    <3> SUFFICES ASSUME Clean(file'), NEW g \in Live', chan'[g].id = id
                 PROVE  Joined(z, z.start[Len(file') + 1], chan'[g])
      BY DEF Continues
    <3>1. g \in Live /\ SameContents(chan[g], chan'[g]) /\ chan[g].id = id
      BY DEF Spared, SameContents
    <3>2. Joined(h, s0, chan[g])
      BY <1>1, <1>3, <3>1 DEF Packs, Continues
    <3>3. Joined(h, s0, chan'[g])
      BY <3>1, <3>2, JoinedSame
    <3> QED
      BY <2>7, <3>3 DEF Joined, Slice
  <2>9. Packs(z, id)'
    BY <1>1, <2>7, <2>8 DEF Packs, Spared
  <2> QED
    BY <2>9 DEF Packed
<1>4. CASE ~Clean(file)
  <2>1. Filed(h, file', id, sent[id], Closers(id)) /\ ~Clean(file')
    BY <1>2, <1>4, FouledFiled, StillFouled
  <2>2. Packs(h, id)'
    BY <1>1, <1>2, <2>1 DEF Packs, Spared, Continues
  <2> QED
    BY <2>2 DEF Packed
<1> QED
  BY <1>3, <1>4

Writes == PackInv /\ PackTyped /\ Books /\ \A id \in ChannelIds : Packed(id)

LEMMA BooksSame ==
  ASSUME Books, sent' = sent, InUse' = InUse, \A h \in InUse : chan'[h].id = chan[h].id,
         \A h \in Live' : h \in Live /\ chan'[h].rowCounter = chan[h].rowCounter
  PROVE  Books'
<1>1. Live' \subseteq InUse'
  BY DEF Live, InUse
<1> QED
  BY <1>1 DEF Books, Unused

(* The tape of an id is done with, or will not be read to its end. *)
LEMMA FilingPacked ==
  ASSUME NEW id \in ChannelIds, Filing(file', id, sent'[id], Closers(id)'), ~Unused(id)',
         ~Clean(file') \/ \A g \in Live' : chan'[g].id # id
  PROVE  Packed(id)'
<1>1. PICK h : Filed(h, file', id, sent'[id], Closers(id)') /\ h.start[1] = 0
  BY DEF Filing
<1>2. Packs(h, id)'
  BY <1>1 DEF Packs, Continues
<1> QED
  BY <1>2 DEF Packed

LEMMA OthersPacked ==
  ASSUME PackTyped, NEW g \in Live, NEW d \in PackChan, d.id = chan[g].id, d.use \in {"live", "closed"},
         chan' = [chan EXCEPT ![g] = d],
         NEW x \in Seq(Frame), file' = file \o x, \A i \in 1 .. Len(x) : x[i].id = chan[g].id,
         NEW id \in ChannelIds, id # chan[g].id, sent'[id] = sent[id], Packed(id)
  PROVE  Packed(id)'
<1>1. \A h \in Handles : chan'[h] = IF h = g THEN d ELSE chan[h]
  BY DEF PackTyped
<1>2. Closers(id)' = Closers(id) /\ (Unused(id)' => Unused(id))
  BY <1>1 DEF Closers, Unused, InUse, Live
<1>3. \A h \in Live' : chan'[h].id = id => h \in Live /\ SameContents(chan[h], chan'[h])
  BY <1>1 DEF Live, SameContents
<1>4. Spared(id)
  BY <1>2, <1>3 DEF Spared
<1>5. \A i \in 1 .. Len(x) : ~Carries(x[i], id)
  BY DEF Carries
<1> QED
  BY <1>4, <1>5, SparedPacked DEF PackTyped

(* The live channel of an id, if ids are not defined twice, is none that closed it. *)
LEMMA NoCloser ==
  ASSUME Books, NEW g \in Live, chan[g].id \in ChannelIds
  PROVE  ~Reopen => Closers(chan[g].id) = {}
  BY DEF Books, Closers, Live, InUse

LEMMA OneFrames ==
  ASSUME NEW c \in PackChan, c.id \in ChannelIds, NEW r \in FlushResults
  PROVE  FlushedFrames(c, r) \in Seq(Frame) /\ \A i \in 1 .. Len(FlushedFrames(c, r)) : FlushedFrames(c, r)[i].id = c.id
<1> DEFINE f == DataFrame(c.id, c.bucket)
           m == MetaFrame("TORN", c.id)
           x == FlushedFrames(c, r)
<1>1. f.id = c.id /\ m.id = c.id
  BY DEF DataFrame, MetaFrame
<1>2. x \in Seq(Frame) /\ x \in {<<f>>, <<m>>, <<>>}
  BY FlushedTyped
<1> HIDE DEF f, m, x
<1>3. \A i \in 1 .. Len(x) : x[i] \in {f, m}
  BY <1>2
<1> QED
  BY <1>1, <1>2, <1>3 DEF x

(***************************************************************************)
(* A call at work on the channel of an id: with what it has written so far *)
(* behind the file, the channel continues the id's tape.                   *)
(***************************************************************************)
Keeps(w, id, frames, log, enders) ==
  /\ Clean(frames) => Standing(frames, id, log, enders, w.chan)
  /\ Filing(frames, id, log, enders)

Continued(w, id, frames, log, enders) ==
  /\ w.chan \in PackChan /\ w.chan.id = id /\ w.out \in Seq(Frame)
  /\ Keeps(w, id, frames \o w.out, log, enders)

Clocked(w, t, k) == w.chan.ts = t /\ w.chan.rowCounter = k

LEMMA ContinuedBegins ==
  ASSUME NEW c \in PackChan, NEW frames \in Seq(Frame), NEW log, NEW enders,
         Clean(frames) => Standing(frames, c.id, log, enders, c), Filing(frames, c.id, log, enders)
  PROVE  Continued(Begun(c), c.id, frames, log, enders)
<1>1. <<>> \in Seq(Frame) /\ frames \o <<>> = frames
  OBVIOUS
<1>2. Begun(c).chan = c /\ Begun(c).out = <<>>
  BY DEF Begun
<1>3. Keeps(Begun(c), c.id, frames, log, enders)
  BY <1>2 DEF Keeps
<1> QED
  BY Zenon, <1>1, <1>2, <1>3 DEF Continued

LEMMA ContinuedOn ==
  ASSUME NEW w, NEW id, NEW frames \in Seq(Frame), NEW log, NEW enders,
         Continued(w, id, frames, log, enders), NEW d \in PackChan, d.id = id,
         ASSUME NEW F \in Seq(Frame), Standing(F, id, log, enders, w.chan)
         PROVE  Standing(F, id, log, enders, d)
  PROVE  Continued(On(w, d), id, frames, log, enders)
<1> DEFINE F == frames \o w.out
<1>1. On(w, d).chan = d /\ On(w, d).out = w.out
  BY DEF On
<1>2. F \in Seq(Frame) /\ Keeps(w, id, F, log, enders) /\ w.out \in Seq(Frame)
  BY DEF Continued
<1> HIDE DEF F
<1>3. Keeps(On(w, d), id, F, log, enders)
  BY Zenon, <1>1, <1>2 DEF Keeps
<1> QED
  BY Zenon, <1>1, <1>2, <1>3 DEF Continued, F

LEMMA ContinuedFlushed ==
  ASSUME NEW w, NEW id \in ChannelIds, NEW frames \in Seq(Frame), NEW log, NEW enders,
         Continued(w, id, frames, log, enders), NEW r \in FlushResults
  PROVE  Continued(Flushed(w, r), id, frames, log, enders)
<1> DEFINE F == frames \o w.out
           x == FlushedFrames(w.chan, r)
           d == FlushedChannel(w.chan, r)
           z == Flushed(w, r)
<1>1. z.chan = d /\ z.out = w.out \o x
  BY DEF Flushed
<1>2. F \in Seq(Frame) /\ Keeps(w, id, F, log, enders) /\ w.out \in Seq(Frame)
      /\ w.chan \in PackChan /\ w.chan.id = id
  BY DEF Continued
<1>3. d \in PackChan /\ d.id = id /\ x \in Seq(Frame)
  BY <1>2, FlushedTyped
<1>4. frames \o z.out = F \o x /\ z.out \in Seq(Frame)
  <2> DEFINE a == frames
             b == w.out
             e == x
  <2>1. a \in Seq(Frame) /\ b \in Seq(Frame) /\ e \in Seq(Frame)
    BY <1>2, <1>3
  <2>2. frames \o z.out = a \o (b \o e) /\ F \o x = (a \o b) \o e /\ z.out = b \o e
    BY <1>1
  <2> HIDE DEF a, b, e
  <2>3. a \o (b \o e) = (a \o b) \o e /\ b \o e \in Seq(Frame)
    BY SMT, <2>1
  <2> QED
    BY Zenon, <2>2, <2>3
<1>5. CASE Clean(F)
  <2>1. /\ Clean(F \o x) => Standing(F \o x, id, log, enders, d)
        /\ Filing(F \o x, id, log, enders)
    BY <1>2, <1>5, FlushedStanding DEF Keeps
  <2> HIDE DEF F, x, d, z
  <2>2. Keeps(z, id, F \o x, log, enders)
    BY Zenon, <1>1, <2>1 DEF Keeps
  <2> QED
    BY Zenon, <1>1, <1>3, <1>4, <2>2 DEF Continued, z
<1>6. CASE ~Clean(F)
  <2> HIDE DEF F, x, d, z
  <2>1. Filing(F \o x, id, log, enders) /\ ~Clean(F \o x)
    BY <1>2, <1>3, <1>6, FouledFiling, StillFouled DEF Keeps
  <2>2. Keeps(z, id, F \o x, log, enders)
    BY Zenon, <2>1 DEF Keeps
  <2> QED
    BY Zenon, <1>1, <1>3, <1>4, <2>2 DEF Continued, z
<1> QED
  BY <1>5, <1>6

LEMMA FlushedClock ==
  ASSUME NEW w, NEW r, w.chan \in PackChan
  PROVE  /\ Flushed(w, r).chan.ts = w.chan.ts
         /\ Flushed(w, r).chan.rowCounter = w.chan.rowCounter
<1> DEFINE c == w.chan
<1>1. FlushedChannel(c, r).ts = c.ts /\ FlushedChannel(c, r).rowCounter = c.rowCounter
  BY DEF FlushedChannel, PackChan
<1>2. Flushed(w, r).chan = FlushedChannel(c, r)
  BY DEF Flushed
<1> HIDE DEF c
<1> QED
  BY Zenon, <1>1, <1>2 DEF c

LEMMA ContinuedMaybe ==
  ASSUME NEW w, NEW id \in ChannelIds, NEW frames \in Seq(Frame), NEW log, NEW enders,
         Continued(w, id, frames, log, enders), NEW z,
         z \in FlushedOrNot(w) \/ z \in RoomMade(w)
  PROVE  /\ Continued(z, id, frames, log, enders)
         /\ z.chan.ts = w.chan.ts /\ z.chan.rowCounter = w.chan.rowCounter
<1>1. z = w \/ \E r \in FlushResults : z = Flushed(w, r)
  BY ContainerAssumption DEF FlushedOrNot, RoomMade
<1>2. CASE z = w
  BY <1>2
<1>3. ASSUME NEW r \in FlushResults, z = Flushed(w, r)
      PROVE  /\ Continued(z, id, frames, log, enders)
             /\ z.chan.ts = w.chan.ts /\ z.chan.rowCounter = w.chan.rowCounter
  <2>1. w.chan \in PackChan
    BY DEF Continued
  <2> QED
    BY Zenon, <1>3, <2>1, ContinuedFlushed, FlushedClock
<1> QED
  BY Zenon, <1>1, <1>2, <1>3

(* The time of a row goes on the tape unless it is the clock's. *)
LEMMA ContinuedTimed ==
  ASSUME NEW c \in PackChan, c.id \in ChannelIds, NEW frames \in Seq(Frame), NEW log, NEW enders,
         Continued(Begun(c), c.id, frames, log, enders),
         NEW t \in Times, ~Late(c, t), NEW w \in Timed(c, t)
  PROVE  Continued(w, c.id, frames, log, enders) /\ Clocked(w, t, c.rowCounter)
<1> DEFINE id == c.id
           s == Stamped(c, t)
<1>1. s \in PackChan /\ s.ts = t
  BY StampedTyped
<1>2. s.id = id /\ s.rowCounter = c.rowCounter
  BY DEF Stamped, PackChan
<1>3. NotBefore(t, c.ts)
  <2>1. c.ts # NoTime => c.ts \in Nat /\ t \in Nat /\ ~(t < c.ts)
    BY ChanFields, FileAssumption DEF Late
  <2>2. \A a, b \in Nat : ~(a < b) => b <= a
    OBVIOUS
  <2> QED
    BY Zenon, <2>1, <2>2 DEF NotBefore
<1>4. CASE c.ts = t
  <2>1. w = Begun(c) /\ Begun(c).chan = c
    BY <1>4 DEF Timed, Begun
  <2> QED
    BY <1>4, <2>1 DEF Clocked
<1>5. CASE c.ts # t
  <2>1. w \in FlushedOrNot(Begun(s))
    BY <1>5 DEF Timed
  <2>2. ASSUME NEW F \in Seq(Frame), Standing(F, id, log, enders, c)
        PROVE  Standing(F, id, log, enders, s)
    BY <1>3, <2>2, StampedStanding
  <2>3. On(Begun(c), s) = Begun(s) /\ Begun(c).chan = c /\ Begun(s).chan = s
    BY DEF On, Begun
  <2> HIDE DEF s, id
  <2>4. Continued(On(Begun(c), s), id, frames, log, enders)
    <3>1. ASSUME NEW F \in Seq(Frame), Standing(F, id, log, enders, Begun(c).chan)
          PROVE  Standing(F, id, log, enders, s)
      BY <2>2, <2>3, <3>1
    <3> QED
      BY <1>1, <1>2, <3>1, ContinuedOn DEF id
  <2>5. Continued(w, id, frames, log, enders) /\ w.chan.ts = s.ts /\ w.chan.rowCounter = s.rowCounter
    <3>1. id \in ChannelIds /\ Continued(Begun(s), id, frames, log, enders)
      BY Zenon, <2>3, <2>4 DEF id
    <3>2. /\ Continued(w, id, frames, log, enders)
          /\ w.chan.ts = Begun(s).chan.ts /\ w.chan.rowCounter = Begun(s).chan.rowCounter
      BY <2>1, <3>1, ContinuedMaybe
    <3> QED
      BY Zenon, <2>3, <3>2
  <2> QED
    BY Zenon, <1>1, <1>2, <2>5 DEF Clocked, id
<1> QED
  BY <1>4, <1>5

LEMMA LongerStanding ==
  ASSUME NEW frames, NEW id, NEW log, NEW enders, NEW more, NEW c,
         Len(log) \in Nat, Len(more) \in Nat, Len(log) <= Len(more),
         \A i \in 1 .. Len(log) : more[i] = log[i],
         enders # {} /\ ~Reopen => Len(more) = Len(log)
  PROVE  /\ Standing(frames, id, log, enders, c) => Standing(frames, id, more, enders, c)
         /\ Filing(frames, id, log, enders) => Filing(frames, id, more, enders)
<1>1. \A h : Filed(h, frames, id, log, enders) => Filed(h, frames, id, more, enders)
  BY LongerFiled
<1> QED
  BY <1>1 DEF Standing, Stands, Filing

LEMMA AppendedRow ==
  ASSUME NEW S, NEW log \in Seq(S), NEW r \in S
  PROVE  LET more == Append(log, r)
         IN  /\ Len(log) \in Nat /\ Len(more) = Len(log) + 1 /\ Len(more) \in Nat /\ Len(log) <= Len(more)
             /\ Len(log) < Len(more) /\ more[Len(log) + 1] = r /\ Len(log) + 1 \in 1 .. Len(more)
             /\ \A i \in 1 .. Len(log) : more[i] = log[i]
  OBVIOUS

(* The record of an accepted row continues the tape of its id, behind its time. *)
LEMMA RowStanding ==
  ASSUME NEW frames \in Seq(Frame), NEW id, NEW log, NEW enders, NEW c \in PackChan,
         Standing(frames, id, log, enders, c), NEW n \in Sensors, NEW v \in Numbers,
         NEW k \in 1 .. Len(log), log[k] = [time |-> c.ts, sensor |-> n, value |-> v],
         ~Reopen => c.rowCounter < Len(log) /\ k = c.rowCounter + 1
  PROVE  Standing(frames, id, log, enders, Written(Named(c, n), n, v))
<1> DEFINE m == Named(c, n)
<1>1. m \in PackChan /\ m.ts = c.ts /\ Contains(m.names, n)
  BY NamedTyped
<1>2. m.rowCounter = c.rowCounter
  BY DEF Named, PackChan
<1>3. Standing(frames, id, log, enders, m)
  BY NamedStanding
<1> HIDE DEF m
<1>4. \E j \in 1 .. Len(log) : log[j].value = v
  OBVIOUS
<1>5. ~Reopen => /\ m.rowCounter < Len(log)
                 /\ log[m.rowCounter + 1] = [time |-> m.ts, sensor |-> n, value |-> v]
  BY <1>1, <1>2
<1>6. Standing(frames, id, log, enders, Written(m, n, v))
  BY <1>1, <1>3, <1>4, <1>5, WrittenStanding
<1> QED
  BY <1>6 DEF m

LEMMA RowCounted ==
  ASSUME NEW c \in PackChan, NEW n \in Sensors, NEW v \in Numbers
  PROVE  Written(Named(c, n), n, v).rowCounter = c.rowCounter + 1
<1> DEFINE m == Named(c, n)
           k == m.rowCounter + 1
<1>1. m \in PackChan /\ m.rowCounter = c.rowCounter
  BY NamedTyped DEF PackChan, Named
<1> HIDE DEF m
<1>2. \E b : Written(m, n, v) = [m EXCEPT !.bucket = b, !.rowCounter = k]
  BY DEF Written
<1> HIDE DEF k
<1>3. Written(m, n, v).rowCounter = k
  BY <1>1, <1>2 DEF PackChan
<1> QED
  BY <1>1, <1>3 DEF m, k

(* What the call leaves is the tapes of all ids, the one it worked on and the others. *)
LEMMA WorkPacked ==
  ASSUME PackTyped, PackExact', NEW g \in Live, NEW w, WorkTyped(chan[g], w), Leaves(g, w),
         NEW i \in ChannelIds, i = chan[g].id,
         \A j \in ChannelIds : j # i => sent'[j] = sent[j] /\ Packed(j),
         Continued(w, i, file, sent'[i], Closers(i))
  PROVE  \A j \in ChannelIds : Packed(j)'
<1> DEFINE d == w.chan
           x == w.out
<1>1. chan' = [chan EXCEPT ![g] = d] /\ file' = file \o x
  BY DEF Leaves
<1>2. d \in PackChan /\ d.use = "live" /\ d.id = i /\ x \in Seq(Frame) /\ \A e \in 1 .. Len(x) : x[e].id = i
  BY DEF WorkTyped, Live
<1> HIDE DEF d, x
<1>3. /\ \A h \in Handles : chan'[h] = IF h = g THEN d ELSE chan[h]
      /\ g \in Handles /\ chan[g].use = "live"
  BY <1>1 DEF PackTyped, Live
<1>4. Closers(i)' = Closers(i) /\ g \in Live'
  BY <1>2, <1>3 DEF Closers, Live
<1>5. Packed(i)'
  <2>1. Keeps(w, i, file', sent'[i], Closers(i)')
    BY Zenon, <1>1, <1>4 DEF Continued, x
  <2>2. /\ Clean(file') => Standing(file', i, sent'[i], Closers(i)', chan'[g])
        /\ Filing(file', i, sent'[i], Closers(i)')
        /\ chan'[g].id = i
    BY Zenon, <1>2, <1>3, <2>1 DEF Keeps, d
  <2> QED
    BY <1>4, <2>2, StandingPacked
<1>6. ASSUME NEW j \in ChannelIds, j # i PROVE Packed(j)'
  <2>1. sent'[j] = sent[j] /\ Packed(j)
    BY <1>6
  <2> QED
    BY <1>1, <1>2, <1>6, <2>1, OthersPacked
<1> QED
  BY <1>5, <1>6

(* The rows are counted by their channel. *)
LEMMA WorkBooks ==
  ASSUME PackTyped, Books, NEW g \in Live, NEW w, WorkTyped(chan[g], w), Leaves(g, w),
         NEW i \in ChannelIds, i = chan[g].id,
         \A j \in ChannelIds : j # i => sent'[j] = sent[j],
         chan[g].rowCounter = Len(sent[i]) => w.chan.rowCounter = Len(sent'[i])
  PROVE  Books'
<1> DEFINE d == w.chan
<1>1. \A h \in Handles : chan'[h] = IF h = g THEN d ELSE chan[h]
  BY DEF Leaves, PackTyped
<1>2. g \in Handles /\ chan[g].use = "live" /\ d.use = "live" /\ d.id = i
  BY DEF Live, WorkTyped
<1> HIDE DEF d
<1>3. \A h \in Handles : chan'[h].id = chan[h].id /\ chan'[h].use = chan[h].use
  BY <1>1, <1>2
<1> SUFFICES ASSUME ~Reopen
             PROVE  /\ \A k, h \in InUse' : chan'[k].id = chan'[h].id => k = h
                    /\ \A k \in Live' : chan'[k].rowCounter = Len(sent'[chan'[k].id])
                    /\ \A j \in ChannelIds : Unused(j)' => sent'[j] = <<>>
  BY DEF Books
<1>4. /\ \A k, h \in InUse : chan[k].id = chan[h].id => k = h
      /\ \A k \in Live : chan[k].rowCounter = Len(sent[chan[k].id])
      /\ \A j \in ChannelIds : Unused(j) => sent[j] = <<>>
  BY DEF Books
<1>5. \A k, h \in InUse' : chan'[k].id = chan'[h].id => k = h
  BY <1>3, <1>4 DEF InUse
<1>6. ASSUME NEW k \in Live' PROVE chan'[k].rowCounter = Len(sent'[chan'[k].id])
  <2>1. k \in Live /\ k \in Handles
    BY <1>3 DEF Live
  <2>2. CASE k = g
    BY <1>1, <1>2, <1>4, <2>1, <2>2 DEF d
  <2>3. CASE k # g
    <3>1. chan'[k] = chan[k] /\ chan[k].id \in ChannelIds /\ chan[k].id # i
      BY <1>1, <1>4, <2>1, <2>3 DEF PackTyped, Live, InUse
    <3> QED
      BY <1>4, <2>1, <3>1
  <2> QED
    BY <2>2, <2>3
<1>7. ASSUME NEW j \in ChannelIds, Unused(j)' PROVE sent'[j] = <<>>
  <2>1. Unused(j)
    BY <1>3, <1>7 DEF Unused, InUse
  <2>2. j # i
    BY <1>2, <2>1 DEF Unused, InUse
  <2> QED
    BY <1>4, <2>1, <2>2
<1> QED
  BY <1>5, <1>6, <1>7

LEMMA FlushCallPacked ==
  ASSUME Writes, PackExact', NEW g \in Handles, ChannelFlush(g)
  PROVE  Books' /\ \A id \in ChannelIds : Packed(id)'
<1>1. g \in Live /\ PackTyped /\ Books
  BY DEF ChannelFlush, Writes
<1>2. PICK r \in FlushResults : Leaves(g, Flushed(Begun(chan[g]), r))
  BY DEF ChannelFlush
<1>3. chan[g] \in PackChan /\ chan[g].id \in ChannelIds /\ file \in Seq(Frame) /\ sent' = sent
  BY <1>1 DEF Live, PackTyped, ChannelFlush
<1>4. PICK c \in PackChan : c = chan[g]
  BY <1>3
<1>5. PICK i \in ChannelIds : i = c.id
  BY <1>3, <1>4
<1> DEFINE b == Begun(c)
           w == Flushed(b, r)
<1>6. WorkTyped(c, b) /\ b.chan = c /\ Continued(b, i, file, sent[i], Closers(i))
  <2>1. /\ Clean(file) => Standing(file, i, sent[i], Closers(i), c)
        /\ Filing(file, i, sent[i], Closers(i))
    BY <1>1, <1>3, <1>4, <1>5, PackedStanding DEF Writes
  <2> QED
    BY <1>3, <1>5, <2>1, WorkBegins, ContinuedBegins DEF Begun
<1> HIDE DEF b
<1>7. WorkTyped(c, w) /\ Continued(w, i, file, sent[i], Closers(i)) /\ w.chan.rowCounter = c.rowCounter
  BY <1>3, <1>4, <1>5, <1>6, WorkFlushed, ContinuedFlushed, FlushedClock
<1>8. Leaves(g, w)
  BY <1>2, <1>4 DEF b
<1> HIDE DEF w
<1>9. \A j \in ChannelIds : Packed(j)'
  BY <1>1, <1>3, <1>4, <1>5, <1>7, <1>8, WorkPacked DEF Writes
<1>10. Books'
  BY <1>1, <1>3, <1>4, <1>5, <1>7, <1>8, WorkBooks
<1> QED
  BY <1>9, <1>10

(* A refused row may leave its time, and the channel its new clock. *)
LEMMA RefusedPacked ==
  ASSUME Writes, PackExact', NEW g \in Handles, NEW t \in Times, NEW state \in {"ON_ERROR", "CLOSED"},
         InjectRefused(g, t, state)
  PROVE  Books' /\ \A id \in ChannelIds : Packed(id)'
<1>1. g \in Live /\ PackTyped /\ Books /\ sent' = sent
  BY DEF InjectRefused, Writes
<1>3. chan[g] \in PackChan /\ chan[g].id \in ChannelIds /\ file \in Seq(Frame)
  BY <1>1 DEF Live, PackTyped
<1>4. PICK c \in PackChan : c = chan[g]
  BY <1>3
<1>5. PICK i \in ChannelIds : i = c.id
  BY <1>3, <1>4
<1> DEFINE E == Closers(i)
           Fits(w) == /\ WorkTyped(c, w) /\ Continued(w, i, file, sent[i], E)
                      /\ w.chan.rowCounter = c.rowCounter
<1>6. Fits(Begun(c))
  <2>1. /\ Clean(file) => Standing(file, i, sent[i], E, c)
        /\ Filing(file, i, sent[i], E)
    BY <1>1, <1>3, <1>4, <1>5, PackedStanding DEF Writes
  <2> QED
    BY <1>3, <1>5, <2>1, WorkBegins, ContinuedBegins DEF Begun
<1> HIDE DEF E
<1>7. ASSUME NEW w, Fits(w) PROVE Fits(On(w, Failed(w.chan, "REFUSED", state)))
  <2> DEFINE d == Failed(w.chan, "REFUSED", state)
  <2>1. w.chan \in PackChan /\ w.chan.id = i
    BY <1>7 DEF Continued
  <2>2. Grown(w.chan, d)
    BY <2>1, FailedTyped
  <2>3. d \in PackChan /\ d.id = i /\ SameContents(w.chan, d)
    <3>1. SameContents(w.chan, d)
      BY <2>1 DEF Failed, PackChan, SameContents
    <3> QED
      BY <2>1, <2>2, <3>1 DEF Grown
  <2> HIDE DEF d
  <2>4. ASSUME NEW F \in Seq(Frame), Standing(F, i, sent[i], E, w.chan)
        PROVE  Standing(F, i, sent[i], E, d)
    BY <2>3, <2>4, JoinedSame DEF Standing, Stands
  <2>5. Continued(On(w, d), i, file, sent[i], E)
    BY <1>3, <1>7, <2>3, <2>4, ContinuedOn
  <2>6. WorkTyped(c, On(w, d))
    BY <1>7, <2>2, WorkGoesOn
  <2>7. On(w, d).chan.rowCounter = c.rowCounter
    <3>1. On(w, d).chan = d
      BY DEF On
    <3> QED
      BY Zenon, <1>7, <2>3, <3>1 DEF SameContents
  <2> QED
    BY <2>5, <2>6, <2>7 DEF d
<1>8. ASSUME NEW w \in Timed(c, t), ~Late(c, t) PROVE Fits(w)
  <2>1. c.id \in ChannelIds /\ Continued(Begun(c), c.id, file, sent[i], E)
    BY <1>5, <1>6
  <2>2. WorkTyped(c, w)
    BY <1>8, <2>1, WorkTimed
  <2>3. Continued(w, c.id, file, sent[i], E) /\ Clocked(w, t, c.rowCounter)
    BY <1>3, <1>8, <2>1, ContinuedTimed
  <2> QED
    BY <1>5, <2>2, <2>3 DEF Clocked
<1>9. ASSUME NEW w, Fits(w), NEW x \in RoomMade(w) PROVE Fits(x)
  <2>1. c.id \in ChannelIds
    BY <1>5
  <2>2. WorkTyped(c, x)
    BY <1>9, <2>1, WorkRoom
  <2>3. Continued(x, i, file, sent[i], E) /\ x.chan.rowCounter = w.chan.rowCounter
    <3> DEFINE log == sent[i]
    <3>1. Continued(w, i, file, log, E) /\ (x \in FlushedOrNot(w) \/ x \in RoomMade(w))
      BY <1>9
    <3> HIDE DEF log, Fits
    <3>2. Continued(x, i, file, log, E) /\ x.chan.rowCounter = w.chan.rowCounter
      BY Zenon, <1>3, <3>1, ContinuedMaybe
    <3> QED
      BY <3>2 DEF log
  <2> QED
    BY Zenon, <1>9, <2>2, <2>3
<1>10. ASSUME NEW w, Fits(w), NEW r \in FlushResults PROVE Fits(Flushed(w, r))
  <2>1. c.id \in ChannelIds /\ w.chan \in PackChan
    BY <1>5, <1>10 DEF Continued
  <2> QED
    BY Zenon, <1>3, <1>10, <2>1, WorkFlushed, ContinuedFlushed, FlushedClock
<1>11. \E w : Fits(w) /\ Leaves(g, w)
  <2> DEFINE refused(w) == On(w, Failed(w.chan, "REFUSED", state))
  <2>1. CASE Leaves(g, Begun(Failed(c, "REFUSED", state)))
    <3>1. refused(Begun(c)) = Begun(Failed(c, "REFUSED", state))
      BY DEF On, Begun
    <3>2. Fits(refused(Begun(c)))
      BY <1>6, <1>7
    <3> HIDE DEF Fits
    <3> QED
      BY <2>1, <3>1, <3>2
  <2> HIDE DEF Fits
  <2>2. CASE ~Late(c, t) /\ \E w \in Timed(c, t) : \E x \in RoomMade(w) : Leaves(g, refused(x))
    <3>1. PICK w \in Timed(c, t) : \E x \in RoomMade(w) : Leaves(g, refused(x))
      BY <2>2
    <3>2. PICK x \in RoomMade(w) : Leaves(g, refused(x))
      BY <3>1
    <3>3. Fits(refused(x))
      BY <1>7, <1>8, <1>9, <2>2, <3>1, <3>2
    <3> QED
      BY <3>2, <3>3
  <2>3. CASE ~Late(c, t) /\ \E w \in Timed(c, t) : \E r \in FlushResults : Leaves(g, Flushed(w, r))
    <3>1. PICK w \in Timed(c, t) : \E r \in FlushResults : Leaves(g, Flushed(w, r))
      BY <2>3
    <3>2. PICK r \in FlushResults : Leaves(g, Flushed(w, r))
      BY <3>1
    <3>3. Fits(Flushed(w, r))
      BY <1>8, <1>10, <2>3, <3>1
    <3> QED
      BY <3>2, <3>3
  <2>4. \/ Leaves(g, Begun(Failed(c, "REFUSED", state)))
        \/ ~Late(c, t) /\ \E w \in Timed(c, t) : \E x \in RoomMade(w) : Leaves(g, refused(x))
        \/ ~Late(c, t) /\ \E w \in Timed(c, t) : \E r \in FlushResults : Leaves(g, Flushed(w, r))
    BY Zenon, <1>4 DEF InjectRefused
  <2> QED
    BY <2>1, <2>2, <2>3, <2>4
<1>12. PICK w : WorkTyped(c, w) /\ Continued(w, i, file, sent[i], E) /\ w.chan.rowCounter = c.rowCounter
                /\ Leaves(g, w)
  BY <1>11
<1>13. \A j \in ChannelIds : Packed(j)'
  BY <1>1, <1>3, <1>4, <1>5, <1>12, WorkPacked DEF Writes, E
<1>14. Books'
  BY <1>1, <1>3, <1>4, <1>5, <1>12, WorkBooks
<1> QED
  BY <1>13, <1>14

LEMMA InjectPacked ==
  ASSUME Writes, PackExact', NEW g \in Handles, NEW t \in Times, NEW n \in Sensors, NEW v \in Numbers,
         Inject(g, t, n, v)
  PROVE  Books' /\ \A id \in ChannelIds : Packed(id)'
<1>1. g \in Live /\ PackTyped /\ Books /\ ~Late(chan[g], t)
  BY DEF Inject, Writes
<1>3. chan[g] \in PackChan /\ chan[g].id \in ChannelIds /\ file \in Seq(Frame)
  BY <1>1 DEF Live, PackTyped
<1>4. PICK c \in PackChan : c = chan[g]
  BY <1>3
<1>5. PICK i \in ChannelIds : i = c.id
  BY <1>3, <1>4
<1> DEFINE E == Closers(i)
           row == [time |-> t, sensor |-> n, value |-> v]
           log == sent[i]
           more == Append(log, row)
           k == Len(log) + 1
<1>6. log \in Seq(Row) /\ row \in Row
  BY <1>1 DEF PackTyped, Row
<1>7. sent'[i] = more /\ \A j \in ChannelIds : j # i => sent'[j] = sent[j]
  BY <1>1, <1>4, <1>5 DEF Inject, PackTyped
<1>8. /\ Len(log) \in Nat /\ Len(more) = k /\ Len(more) \in Nat /\ Len(log) <= Len(more)
      /\ Len(log) < Len(more) /\ more[k] = row /\ k \in 1 .. Len(more)
      /\ \A j \in 1 .. Len(log) : more[j] = log[j]
  <2> HIDE DEF log, row
  <2> QED
    BY <1>6, AppendedRow
<1>9. ~Reopen => E = {} /\ c.rowCounter = Len(log)
  BY <1>1, <1>3, <1>4, <1>5, NoCloser DEF Books
<1> DEFINE b == Begun(c)
<1>10. WorkTyped(c, b) /\ Continued(b, i, file, more, E)
  <2>1. /\ Clean(file) => Standing(file, i, log, E, c)
        /\ Filing(file, i, log, E)
    BY <1>1, <1>3, <1>4, <1>5, PackedStanding DEF Writes
  <2>2. /\ Clean(file) => Standing(file, i, more, E, c)
        /\ Filing(file, i, more, E)
    <3> HIDE DEF log, more, E
    <3> QED
      BY <1>8, <1>9, <2>1, LongerStanding
  <2> QED
    BY <1>3, <1>5, <2>2, WorkBegins, ContinuedBegins
<1>11. PICK w \in Timed(c, t) :
         \E x \in RoomMade(w) :
           \E z \in FlushedOrNot(On(x, Written(Named(x.chan, n), n, v))) : Leaves(g, z)
  BY Zenon, <1>4 DEF Inject
<1>12. PICK x \in RoomMade(w) :
         \E z \in FlushedOrNot(On(x, Written(Named(x.chan, n), n, v))) : Leaves(g, z)
  BY <1>11
<1> DEFINE d == Written(Named(x.chan, n), n, v)
           y == On(x, d)
<1>13. PICK z \in FlushedOrNot(y) : Leaves(g, z)
  BY <1>12
<1> HIDE DEF E, b, more, log
<1>14. WorkTyped(c, x) /\ Continued(x, i, file, more, E) /\ Clocked(x, t, c.rowCounter)
  <2>1. c.id \in ChannelIds /\ ~Late(c, t)
    BY <1>1, <1>4, <1>5
  <2>2. WorkTyped(c, w) /\ Continued(w, i, file, more, E) /\ Clocked(w, t, c.rowCounter)
    BY <1>3, <1>5, <1>10, <1>11, <2>1, WorkTimed, ContinuedTimed DEF b
  <2>3. WorkTyped(c, x)
    BY <1>12, <2>1, <2>2, WorkRoom
  <2>4. /\ Continued(x, i, file, more, E)
        /\ x.chan.ts = w.chan.ts /\ x.chan.rowCounter = w.chan.rowCounter
    BY <1>3, <1>12, <2>2, ContinuedMaybe
  <2> QED
    BY <2>2, <2>3, <2>4 DEF Clocked
<1>15. x.chan \in PackChan /\ x.chan.id = i /\ x.chan.ts = t /\ x.chan.rowCounter = c.rowCounter
  BY <1>14 DEF Continued, Clocked
<1>16. Grown(x.chan, d) /\ d \in PackChan /\ d.id = i /\ d.rowCounter = c.rowCounter + 1
  BY <1>15, RowTyped, RowCounted DEF Grown
<1>17. ASSUME NEW F \in Seq(Frame), Standing(F, i, more, E, x.chan)
       PROVE  Standing(F, i, more, E, d)
  <2>1. more[k] = [time |-> x.chan.ts, sensor |-> n, value |-> v] /\ k \in 1 .. Len(more)
    BY <1>8, <1>15
  <2>2. ~Reopen => x.chan.rowCounter < Len(more) /\ k = x.chan.rowCounter + 1
    BY <1>8, <1>9, <1>15
  <2> HIDE DEF k
  <2> QED
    BY <1>15, <1>17, <2>1, <2>2, RowStanding
<1> HIDE DEF d
<1>18. WorkTyped(c, y) /\ Continued(y, i, file, more, E) /\ y.chan = d
  BY <1>3, <1>14, <1>16, <1>17, WorkGoesOn, ContinuedOn DEF On
<1> HIDE DEF y
<1>19. WorkTyped(c, z) /\ Continued(z, i, file, more, E) /\ z.chan.rowCounter = c.rowCounter + 1
  <2>1. c.id \in ChannelIds
    BY <1>5
  <2>2. WorkTyped(c, z)
    BY <1>13, <1>18, <2>1, WorkMaybeFlushed
  <2>3. Continued(z, i, file, more, E) /\ z.chan.rowCounter = y.chan.rowCounter
    BY <1>3, <1>13, <1>18, ContinuedMaybe
  <2> QED
    BY <1>16, <1>18, <2>2, <2>3
<1>20. \A j \in ChannelIds : Packed(j)'
  <2>1. \A j \in ChannelIds : j # i => sent'[j] = sent[j] /\ Packed(j)
    BY <1>7 DEF Writes
  <2> QED
    BY <1>1, <1>4, <1>5, <1>7, <1>13, <1>19, <2>1, WorkPacked DEF E
<1>21. Books'
  <2>1. c.rowCounter = Len(sent[i]) => z.chan.rowCounter = Len(sent'[i])
    BY <1>7, <1>8, <1>19 DEF log
  <2> QED
    BY <1>1, <1>4, <1>5, <1>7, <1>13, <1>19, <2>1, WorkBooks
<1> QED
  BY <1>20, <1>21

-----------------------------------------------------------------------------
(* Closing: a last block of each channel that is closed. *)

LEMMA EndedContinues ==
  ASSUME NEW frames \in Seq(Frame), NEW id, NEW log, NEW enders, NEW closers, NEW c \in PackChan,
         Clean(frames) => Standing(frames, id, log, enders, c), Filing(frames, id, log, enders),
         Len(log) \in Nat, ~Reopen => closers # {} /\ c.rowCounter = Len(log)
  PROVE  /\ Clean(frames) => Standing(frames, id, log, closers, Ended(c))
         /\ Filing(frames, id, log, closers)
<1>1. \A h : Filed(h, frames, id, log, enders) => Filed(h, frames, id, log, closers)
  <2>1. Len(log) <= Len(log) /\ \A i \in 1 .. Len(log) : log[i] = log[i]
    OBVIOUS
  <2>2. enders # {} /\ ~Reopen => closers # {} /\ Len(log) = Len(log)
    OBVIOUS
  <2> QED
    BY <2>1, <2>2, LongerFiled
<1>2. Standing(frames, id, log, enders, c) => Standing(frames, id, log, closers, c)
  BY <1>1 DEF Standing, Stands
<1>3. Filing(frames, id, log, closers)
  BY <1>1 DEF Filing
<1> QED
  BY <1>2, <1>3, EndedStanding

(* At most one of the new frames is the id's, and it is the bucket. *)
LEMMA LastFiled ==
  ASSUME NEW frames \in Seq(Frame), NEW x \in Seq(Frame), NEW id, NEW log, NEW enders, NEW c \in PackChan,
         Clean(frames) => Standing(frames, id, log, enders, c), Filing(frames, id, log, enders),
         \A i, j \in 1 .. Len(x) : Carries(x[i], id) /\ Carries(x[j], id) => i = j,
         \A i \in 1 .. Len(x) : Carries(x[i], id) => x[i].block = c.bucket
  PROVE  Filing(frames \o x, id, log, enders)
<1>1. CASE ~Clean(frames)
  BY <1>1, FouledFiling
<1>2. CASE Clean(frames)
  <2> DEFINE k == Len(frames)
             b == c.bucket
  <2>1. PICK h : Stands(h, frames, id, log, enders, c) /\ h.start[1] = 0
    BY <1>2 DEF Standing
  <2> DEFINE from == h.start[k + 1]
  <2>2. /\ h \in Tape /\ Filed(h, frames, id, log, enders) /\ b \in Seq(Record) /\ k \in Nat
        /\ from + Len(b) = h.len /\ Slice(h, b, from)
    BY <2>1, ChanFields DEF Stands, Filed, Joined
  <2>3. from \in Nat /\ h.len \in Nat /\ Len(b) \in Nat /\ Len(x) \in Nat
    <3>1. h.start \in [Nat -> Nat] /\ h.len \in Nat /\ k + 1 \in Nat
      <4>1. k + 1 \in Nat
        <5> HIDE DEF k
        <5> QED
          BY <2>2
      <4>2. h \in Tape
        BY <2>2
      <4> HIDE DEF k
      <4> QED
        BY <4>1, <4>2, TapeFields
    <3>2. Len(b) \in Nat /\ Len(x) \in Nat
      <4> HIDE DEF b
      <4> QED
        BY <2>2
    <3> HIDE DEF k, b
    <3> QED
      BY <3>1, <3>2
  <2>4. \E p \in Nat, n \in Nat :
          /\ p >= 1 /\ from + n <= h.len
          /\ \A i \in 1 .. Len(x) :
               /\ i # p => ~Carries(x[i], id)
               /\ i = p => Carries(x[i], id) /\ Len(x[i].block) = n /\ Slice(h, x[i].block, from)
    <3> HIDE DEF from, b, k
    <3>1. CASE \E p \in 1 .. Len(x) : Carries(x[p], id)
      <4>1. PICK p \in 1 .. Len(x) : Carries(x[p], id)
        BY <3>1
      <4>2. p \in Nat /\ p >= 1 /\ from + Len(b) <= h.len
        BY <2>2, <2>3
      <4>3. x[p].block = b
        BY <4>1 DEF b
      <4> QED
        BY <2>2, <2>3, <4>1, <4>2, <4>3
    <3>2. CASE ~\E p \in 1 .. Len(x) : Carries(x[p], id)
      <4>1. /\ Len(x) + 1 \in Nat /\ Len(x) + 1 >= 1 /\ from + 0 <= h.len /\ 0 \in Nat
            /\ \A i \in 1 .. Len(x) : i # Len(x) + 1
        BY <2>2, <2>3
      <4> QED
        BY <3>2, <4>1
    <3> QED
      BY <3>1, <3>2
  <2>5. PICK p \in Nat, n \in Nat :
          /\ p >= 1 /\ from + n <= h.len
          /\ \A i \in 1 .. Len(x) :
               /\ i # p => ~Carries(x[i], id)
               /\ i = p => Carries(x[i], id) /\ Len(x[i].block) = n /\ Slice(h, x[i].block, from)
    BY <2>4
  <2> DEFINE y == Framed(h, k, p, n)
  <2>6. Filed(y, frames \o x, id, log, enders)
    BY <2>2, <2>5, AppendedFiled
  <2>7. y.start[1] = 0
    <3>1. IsFramed(y, h, k, p, n)
      BY <2>2, <2>5, FramedFields
    <3> HIDE DEF y, k
    <3>2. 1 <= k + 1 /\ 1 \in Nat
      BY <2>2
    <3> QED
      BY <2>1, <3>1, <3>2 DEF IsFramed
  <2> QED
    BY <2>6, <2>7 DEF Filing
<1> QED
  BY <1>1, <1>2

(* A channel that is closed with its bucket continuing the file. *)
LEMMA ClosePacked ==
  ASSUME Writes, NEW g \in Handles, ChannelClose(g)
  PROVE  Books' /\ \A id \in ChannelIds : Packed(id)'
<1>1. PICK r \in FlushResults : /\ chan' = [chan EXCEPT ![g] = ChannelClosed(chan[g], r)]
                                /\ file' = file \o FlushedFrames(Ended(chan[g]), r)
  BY DEF ChannelClose
<1> DEFINE c == chan[g]
           e == Ended(c)
           d == ChannelClosed(c, r)
           x == FlushedFrames(e, r)
<1>2. g \in Live /\ c \in PackChan /\ c.use = "live" /\ c.id \in ChannelIds /\ sent' = sent
  BY DEF ChannelClose, Live, Writes, PackTyped
<1>3. e \in PackChan /\ e.id = c.id /\ d \in PackChan /\ d.use = "closed" /\ d.id = c.id
  BY <1>2, EndedTyped, ChannelClosedTyped
<1>4. PICK id \in ChannelIds : id = c.id
  BY <1>2
<1>5. x \in Seq(Frame) /\ \A i \in 1 .. Len(x) : x[i].id = id
  BY <1>3, <1>4, OneFrames
<1>6. /\ \A i, j \in 1 .. Len(x) : i = j
      /\ \A i \in 1 .. Len(x) : Carries(x[i], id) => x[i].block = e.bucket
  <2> DEFINE f == DataFrame(e.id, e.bucket)
             m == MetaFrame("TORN", e.id)
  <2>1. x \in {<<f>>, <<m>>, <<>>}
    BY <1>3, <1>4, FlushedTyped
  <2>2. f.block = e.bucket /\ m.meta # "DATA"
    BY DEF DataFrame, MetaFrame
  <2> HIDE DEF f, m, x
  <2>3. \A i \in 1 .. Len(x) : i = 1 /\ x[i] \in {f, m}
    <3>1. CASE x = <<f>>
      BY <3>1
    <3>2. CASE x = <<m>>
      BY <3>2
    <3>3. CASE x = <<>>
      <4>1. Len(x) = 0
        BY <3>3
      <4> QED
        BY <4>1
    <3> QED
      BY <2>1, <3>1, <3>2, <3>3
  <2> QED
    BY <2>2, <2>3 DEF Carries
<1> HIDE DEF x, d, e
<1>7. /\ \A h \in Handles : chan'[h] = IF h = g THEN d ELSE chan[h]
      /\ chan' = [chan EXCEPT ![g] = d] /\ file' = file \o x
  BY <1>1 DEF Writes, PackTyped, d, x, e
<1>8. Packed(id)'
  <2> DEFINE E == Closers(id)
             D == Closers(id)'
  <2>1. g \in D /\ chan'[g].id = id
    BY <1>3, <1>4, <1>7 DEF Closers
  <2>2. /\ Clean(file) => Standing(file, id, sent[id], E, c)
        /\ Filing(file, id, sent[id], E)
    BY <1>2, <1>4, PackedStanding DEF Writes
  <2>3. ~Reopen => D # {} /\ c.rowCounter = Len(sent[id])
    BY <1>2, <1>4, <2>1 DEF Writes, Books
  <2>4. Len(sent[id]) \in Nat /\ file \in Seq(Frame)
    BY DEF Writes, PackTyped
  <2> HIDE DEF E, D, c
  <2>5. /\ Clean(file) => Standing(file, id, sent[id], D, Ended(c))
        /\ Filing(file, id, sent[id], D)
    BY <1>2, <2>2, <2>3, <2>4, EndedContinues
  <2>6. Filing(file \o x, id, sent[id], D)
    BY <1>3, <1>5, <1>6, <2>4, <2>5, LastFiled DEF e
  <2>7. \A h \in Live' : chan'[h].id # id
    <3>1. \A h \in Handles : chan'[h].use = "live" => h # g /\ h \in Live /\ chan'[h].id = chan[h].id
      BY <1>3, <1>7 DEF Live
    <3> QED
      BY <1>2, <1>4, <3>1 DEF Live, Writes, PackInv, PackExact, c
  <2>8. ~Unused(id)'
    BY <1>3, <1>7, <2>1 DEF Unused, InUse
  <2> QED
    BY <1>2, <1>7, <2>6, <2>7, <2>8, FilingPacked DEF D
<1>9. ASSUME NEW j \in ChannelIds, j # id PROVE Packed(j)'
  <2>1. sent'[j] = sent[j] /\ Packed(j) /\ PackTyped
    BY <1>2 DEF Writes
  <2> QED
    BY <1>2, <1>3, <1>4, <1>5, <1>7, <1>9, <2>1, OthersPacked
<1>10. Books'
  <2>1. InUse' = InUse /\ \A h \in InUse : chan'[h].id = chan[h].id
    BY <1>2, <1>3, <1>7 DEF InUse
  <2>2. \A h \in Live' : h \in Live /\ chan'[h].rowCounter = chan[h].rowCounter
    BY <1>3, <1>7 DEF Live
  <2> QED
    BY <1>2, <2>1, <2>2, BooksSame DEF Writes
<1> QED
  BY <1>8, <1>9, <1>10

-----------------------------------------------------------------------------
(* The calls of the container. *)

(* Whatever a channel that is gone left in its bucket will never be in the file. *)
Truncated(h, l) == [rec |-> h.rec, mark |-> h.mark, len |-> l, start |-> h.start]

LEMMA TruncatedFiled ==
  ASSUME NEW frames \in Seq(Frame), NEW id, NEW log, NEW enders,
         NEW h, Filed(h, frames, id, log, enders), Clean(frames)
  PROVE  LET l == h.start[Len(frames) + 1]
         IN  l \in Nat /\ l <= h.len /\ Filed(Truncated(h, l), frames, id, log, enders)
<1> DEFINE k == Len(frames)
           l == h.start[k + 1]
           y == Truncated(h, l)
<1>1. h \in Tape /\ Recorded(h) /\ Cut(h, frames, id) /\ Recounted(h, log, enders)
  BY DEF Filed
<1>2. k \in Nat
  OBVIOUS
<1>3. h.start \in [Nat -> Nat] /\ h.len \in Nat /\ h.rec \in [Nat -> Record] /\ h.mark \in [Nat -> Mark]
  BY <1>1, TapeFields
<1>4. /\ h.start[1] <= h.len
      /\ \A i \in 1 .. k : /\ h.start[i + 1] = h.start[i] + Span(frames[i], id)
                           /\ h.start[i + 1] <= h.len /\ \A j \in 1 .. i : h.start[j] <= h.start[i + 1]
                           /\ Carries(frames[i], id) => Slice(h, frames[i].block, h.start[i])
  <2>1. \A i \in 1 .. k : Reach(frames, i)
    BY <1>2 DEF Clean, Reach
  <2> QED
    BY <1>1, <2>1 DEF Cut
<1> HIDE DEF k
<1>5. l \in Nat
  BY <1>2, <1>3
<1>6. l <= h.len /\ h.start[1] <= l
  <2>1. CASE k = 0
    <3>1. k + 1 = 1
      BY <2>1
    <3> QED
      BY <1>4, <1>5, <3>1
  <2>2. CASE k # 0
    <3>1. k \in 1 .. k /\ 1 \in 1 .. k
      BY <1>2, <2>2
    <3> QED
      BY <1>4, <3>1
  <2> QED
    BY <2>1, <2>2
<1>7. \A i \in 1 .. k : h.start[i + 1] <= l
  <2> SUFFICES ASSUME NEW i \in 1 .. k PROVE h.start[i + 1] <= l
    OBVIOUS
  <2>1. k \in 1 .. k /\ (i = k \/ i + 1 \in 1 .. k)
    BY <1>2
  <2>2. CASE i = k
    BY <1>5, <2>2
  <2>3. CASE i + 1 \in 1 .. k
    BY <1>4, <2>1, <2>3
  <2> QED
    BY <2>1, <2>2, <2>3
<1>8. y \in Tape /\ y.rec = h.rec /\ y.mark = h.mark /\ y.len = l /\ y.start = h.start
  BY <1>3, <1>5 DEF Truncated, Tape
<1> HIDE DEF y, l
<1>9. Recorded(y) /\ Recounted(y, log, enders)
  <2>1. \A j \in 1 .. l : j \in 1 .. h.len
    <3> DEFINE n == h.len
    <3>1. n \in Nat /\ l \in Nat /\ l <= n
      BY Zenon, <1>3, <1>5, <1>6
    <3> HIDE DEF n
    <3>2. \A j \in 1 .. l : j \in 1 .. n
      BY SMT, <3>1
    <3> QED
      BY Zenon, <3>2 DEF n
  <2> QED
    BY <1>1, <1>8, <2>1 DEF Recorded, Recounted
<1>10. Cut(y, frames, id)
  BY <1>4, <1>6, <1>7, <1>8 DEF Cut, Slice, k
<1> QED
  BY <1>5, <1>6, <1>8, <1>9, <1>10 DEF Filed, k, l, y

(* A new channel begins where the file ends. *)
LEMMA NewStanding ==
  ASSUME NEW frames \in Seq(Frame), NEW x \in Seq(Frame), NEW id, NEW log, NEW enders,
         NEW h, Filed(h, frames, id, log, enders), h.start[1] = 0, Clean(frames),
         ~Reopen => h.len = 0, \A i \in 1 .. Len(x) : ~Carries(x[i], id)
  PROVE  Standing(frames \o x, id, log, enders, NewChannel(id, "live"))
<1> DEFINE k == Len(frames)
           F == frames \o x
           p == Len(x) + 1
           l == h.start[k + 1]
           t == Truncated(h, l)
           y == Framed(t, k, p, 0)
           c == NewChannel(id, "live")
<1>1. k \in Nat /\ p \in Nat /\ p >= 1 /\ Len(x) \in Nat /\ Len(F) = k + Len(x)
  OBVIOUS
<1>2. h \in Tape /\ l \in Nat /\ l <= h.len /\ Filed(t, frames, id, log, enders)
  BY TruncatedFiled DEF Filed
<1>3. t.start = h.start /\ t.len = l /\ t \in Tape
  BY <1>2 DEF Truncated, Filed
<1>4. IsFramed(y, t, k, p, 0)
  BY <1>1, <1>3, FramedFields
<1>5. Filed(y, F, id, log, enders)
  <2>1. \A i \in 1 .. Len(x) : i # p
    BY <1>1
  <2>2. t.start[k + 1] + 0 <= t.len
    <3> HIDE DEF l, t
    <3> QED
      BY <1>2, <1>3 DEF l
  <2> QED
    BY <1>1, <1>2, <2>1, <2>2, AppendedFiled
<1>6. y.start[1] = 0 /\ y.start[Len(F) + 1] = l /\ y.len = l
  <2>1. /\ y.len = t.len
        /\ \A i \in Nat : /\ i <= k + 1 => y.start[i] = t.start[i]
                          /\ i > k /\ i <= k + p => y.start[i] = t.start[k + 1]
    BY <1>4 DEF IsFramed
  <2>2. k + Len(x) + 1 > k /\ k + Len(x) + 1 <= k + p /\ 1 <= k + 1 /\ k + Len(x) + 1 \in Nat
    BY <1>1
  <2> HIDE DEF k, y, t, F
  <2> QED
    BY SMT, <1>1, <1>3, <2>1, <2>2 DEF l
<1>7. c.bucket = <<>> /\ c.names = <<>> /\ c.rowCounter = 0 /\ c.ts = NoTime
  BY DEF NewChannel
<1>8. Recorded(y) /\ y \in Tape
  BY <1>5 DEF Filed
<1> HIDE DEF y, l, F, c, k, t, p
<1>9. Slice(y, c.bucket, l) /\ l + Len(c.bucket) = y.len
  BY <1>2, <1>6, <1>7 DEF Slice
<1>10. Matches(c, y.mark[y.len])
  <2>1. Len(y.mark[y.len].names) \in Nat
    <3>1. y.mark[y.len].names \in Seq(Sensors)
      BY <1>8, TapeFields, MarkFields
    <3> QED
      BY Zenon, <3>1, LenProperties
  <2>2. ~Reopen => y.len = 0 /\ y.mark[0] = Blank
    <3>1. ~Reopen => h.len = 0
      OBVIOUS
    <3> QED
      BY <1>2, <1>6, <1>8, <3>1 DEF Recorded
  <2> QED
    BY <1>7, <2>1, <2>2 DEF Matches, Blank
<1> QED
  BY <1>5, <1>6, <1>9, <1>10 DEF Standing, Stands, Joined, F, c

LEMMA DefinePacked ==
  ASSUME Writes, PackExact', NEW id \in Ids, DefineChannel(id)
  PROVE  Books' /\ \A i \in ChannelIds : Packed(i)'
<1> DEFINE n == pack.next
           c == NewChannel(id, "live")
           f == MetaFrame("DEFINE", id)
<1>1. /\ id \in ChannelIds /\ n \in Handles /\ sent' = sent /\ chan' = [chan EXCEPT ![n] = c]
      /\ ~Reopen => \A h \in Handles : chan[h].id # id
      /\ file' = Append(file, f) \/ file' = file
  BY DEF DefineChannel, ChannelIds
<1>2. chan[n].use = "unused"
  <2>1. n >= n
    BY DEF Writes, PackTyped, Pack
  <2> QED
    BY <1>1, <2>1 DEF Writes, PackInv
<1>3. c.use = "live" /\ c.id = id /\ c.rowCounter = 0
  BY DEF NewChannel
<1>4. f.meta = "DEFINE" /\ f \in Frame
  BY <1>1, FrameFacts DEF MetaFrame
<1> HIDE DEF c, f
<1>5. \A h \in Handles : chan'[h] = IF h = n THEN c ELSE chan[h]
  BY <1>1 DEF Writes, PackTyped
<1>6. PICK x \in Seq(Frame) : file' = file \o x /\ \A i \in 1 .. Len(x) : x[i].meta # "DATA"
  <2>1. file \in Seq(Frame)
    BY DEF Writes, PackTyped
  <2>2. CASE file' = file
    <3>1. <<>> \in Seq(Frame) /\ file' = file \o <<>> /\ \A i \in 1 .. Len(<<>>) : FALSE
      BY <2>1, <2>2
    <3> QED
      BY <3>1
  <2>3. CASE file' = Append(file, f)
    <3>1. <<f>> \in Seq(Frame) /\ file' = file \o <<f>>
      BY <1>4, <2>1, <2>3
    <3>2. \A i \in 1 .. Len(<<f>>) : <<f>>[i] = f
      OBVIOUS
    <3> QED
      BY <1>4, <3>1, <3>2
  <2> QED
    BY <1>1, <2>2, <2>3
<1>7. \A i : \A j \in 1 .. Len(x) : ~Carries(x[j], i)
  BY <1>6 DEF Carries
<1>8. Closers(id)' = Closers(id) /\ \A i \in ChannelIds : i # id => Closers(i)' = Closers(i)
  BY <1>2, <1>3, <1>5 DEF Closers
<1>9. n \in Live' /\ chan'[n].id = id /\ chan'[n] = c
  BY <1>1, <1>3, <1>5 DEF Live
<1>10. Packed(id)'
  <2>1. PICK h : Packs(h, id)
    BY <1>1 DEF Writes, Packed
  <2>2. Filed(h, file, id, sent[id], Closers(id)) /\ h.start[1] = 0 /\ (~Reopen => h.len = 0)
    BY <1>1, <2>1 DEF Packs, Unused, InUse
  <2>3. file \in Seq(Frame)
    BY DEF Writes, PackTyped
  <2>4. CASE Clean(file)
    <3>1. Standing(file \o x, id, sent[id], Closers(id), NewChannel(id, "live"))
      BY <1>7, <2>2, <2>3, <2>4, NewStanding
    <3>2. Standing(file', id, sent'[id], Closers(id)', chan'[n])
      BY <1>1, <1>6, <1>8, <1>9, <3>1 DEF c
    <3>3. Filing(file', id, sent'[id], Closers(id)')
      BY <3>2 DEF Standing, Stands, Filing
    <3> QED
      BY <1>1, <1>9, <3>2, <3>3, StandingPacked
  <2>5. CASE ~Clean(file)
    <3>1. Filing(file, id, sent[id], Closers(id))
      BY <2>2 DEF Filing
    <3>2. Filing(file', id, sent'[id], Closers(id)') /\ ~Clean(file')
      BY <1>1, <1>6, <1>8, <2>3, <2>5, <3>1, FouledFiling, StillFouled
    <3>3. ~Unused(id)'
      BY <1>9 DEF Unused, InUse, Live
    <3> QED
      BY <1>1, <3>2, <3>3, FilingPacked
  <2> QED
    BY <2>4, <2>5
<1>11. ASSUME NEW i \in ChannelIds, i # id PROVE Packed(i)'
  <2>1. Spared(i)
    <3>1. Unused(i)' => Unused(i)
      BY <1>2, <1>5 DEF Unused, InUse
    <3>2. \A h \in Live' : chan'[h].id = i => h \in Live /\ SameContents(chan[h], chan'[h])
      BY <1>3, <1>5, <1>11 DEF Live, SameContents
    <3> QED
      BY <1>1, <1>8, <1>11, <3>1, <3>2 DEF Spared
  <2>2. file \in Seq(Frame) /\ Packed(i)
    BY DEF Writes, PackTyped
  <2> QED
    BY <1>6, <1>7, <2>1, <2>2, SparedPacked
<1>12. Books'
  <2> SUFFICES ASSUME ~Reopen
               PROVE  /\ \A k, h \in InUse' : chan'[k].id = chan'[h].id => k = h
                      /\ \A k \in Live' : chan'[k].rowCounter = Len(sent'[chan'[k].id])
                      /\ \A j \in ChannelIds : Unused(j)' => sent'[j] = <<>>
    BY DEF Books
  <2>1. /\ \A k, h \in InUse : chan[k].id = chan[h].id => k = h
        /\ \A k \in Live : chan[k].rowCounter = Len(sent[chan[k].id])
        /\ \A j \in ChannelIds : Unused(j) => sent[j] = <<>>
    BY DEF Writes, Books
  <2>2. \A h \in InUse' : h = n \/ (h \in InUse /\ chan'[h] = chan[h] /\ chan[h].id # id)
    BY <1>1, <1>5 DEF InUse
  <2>3. \A k, h \in InUse' : chan'[k].id = chan'[h].id => k = h
    BY <1>9, <2>1, <2>2
  <2>4. Unused(id)
    BY <1>1 DEF Unused, InUse
  <2>5. sent[id] = <<>> /\ Len(<<>>) = 0
    BY <1>1, <2>1, <2>4
  <2>6. \A k \in Live' : chan'[k].rowCounter = Len(sent'[chan'[k].id])
    BY <1>1, <1>3, <1>5, <1>9, <2>1, <2>5 DEF Live
  <2>7. \A j \in ChannelIds : Unused(j)' => Unused(j)
    BY <1>2, <1>5 DEF Unused, InUse
  <2> QED
    BY <1>1, <2>1, <2>3, <2>6, <2>7
<1> QED
  BY <1>10, <1>11, <1>12

(* Calls that write nothing for a reader, and touch channels only behind what no reader gets past. *)
LEMMA SparedAll ==
  ASSUME Writes, NEW x \in Seq(Frame), file' = file \o x, Fouling(x), sent' = sent, InUse' = InUse,
         \A h \in Handles : chan'[h].use = "closed" <=> chan[h].use = "closed",
         \A h \in InUse : chan'[h].id = chan[h].id,
         \A h \in Live' : h \in Live /\ chan'[h].rowCounter = chan[h].rowCounter
                          /\ (x = <<>> => SameContents(chan[h], chan'[h]))
  PROVE  Books' /\ \A id \in ChannelIds : Packed(id)'
<1>1. file \in Seq(Frame) /\ (x = <<>> \/ ~Clean(file'))
  BY StillFouled DEF Writes, PackTyped
<1>2. Books'
  BY BooksSame DEF Writes
<1>3. ASSUME NEW id \in ChannelIds PROVE Packed(id)'
  <2>1. \A i \in 1 .. Len(x) : ~Carries(x[i], id)
    BY DEF Fouling, Good, Carries
  <2>2. Closers(id)' = Closers(id)
    BY DEF Closers, InUse
  <2>3. Unused(id)' => Unused(id)
    BY DEF Unused
  <2>4. Spared(id)
    BY <1>1, <2>2, <2>3 DEF Spared, Live
  <2> QED
    BY <1>1, <2>1, <2>4, SparedPacked DEF Writes
<1> QED
  BY <1>2, <1>3

LEMMA QuietPacked ==
  ASSUME Writes, UNCHANGED <<chan, sent, file>>
  PROVE  Books' /\ \A id \in ChannelIds : Packed(id)'
<1>1. <<>> \in Seq(Frame) /\ file' = file \o <<>>
  BY DEF Writes, PackTyped
<1>2. Fouling(<<>>)
  BY DEF Fouling
<1>3. InUse' = InUse /\ Live' = Live
  BY DEF InUse, Live
<1> QED
  BY <1>1, <1>2, <1>3, SparedAll DEF SameContents

(* What closeChannel frees is lost to the file. *)
LEMMA CloseChannelPacked ==
  ASSUME Writes, NEW id, CloseChannel(id)
  PROVE  Books' /\ \A i \in ChannelIds : Packed(i)'
<1>1. pack.linked \subseteq Live /\ sent' = sent /\ file' = file
      /\ \E found \in SUBSET pack.linked :
           chan' = [h \in Handles |-> IF h \in found THEN [chan[h] EXCEPT !.use = "dropped"]
                                      ELSE chan[h]]
  <2> DEFINE found == {h \in pack.linked : chan[h].id = id}
  <2>1. found \in SUBSET pack.linked
    OBVIOUS
  <2> QED
    BY <2>1 DEF CloseChannel, Walkable
<1>2. PICK found \in SUBSET pack.linked :
        chan' = [h \in Handles |-> IF h \in found THEN [chan[h] EXCEPT !.use = "dropped"]
                                   ELSE chan[h]]
  BY <1>1
<1>3. \A h \in Handles : /\ chan[h] \in PackChan
                         /\ h \in found => chan[h].use = "live"
  BY <1>1 DEF Writes, PackTyped, Live
<1>4. \A h \in Handles : /\ h \in found => chan'[h].use = "dropped" /\ chan'[h].id = chan[h].id
                         /\ h \notin found => chan'[h] = chan[h]
  BY <1>2, <1>3 DEF PackChan
<1>5. <<>> \in Seq(Frame) /\ file' = file \o <<>>
  BY <1>1 DEF Writes, PackTyped
<1>6. Fouling(<<>>)
  BY DEF Fouling
<1>7. InUse' = InUse /\ \A h \in InUse : chan'[h].id = chan[h].id
  BY <1>3, <1>4 DEF InUse
<1>8. \A h \in Live' : h \in Live /\ chan'[h] = chan[h]
  BY <1>4 DEF Live
<1>9. \A h \in Handles : chan'[h].use = "closed" <=> chan[h].use = "closed"
  BY <1>3, <1>4
<1> QED
  BY <1>1, <1>5, <1>6, <1>7, <1>8, <1>9, SparedAll DEF SameContents

LEMMA PackFlushPacked ==
  ASSUME Writes, PackFlush
  PROVE  Books' /\ \A id \in ChannelIds : Packed(id)'
<1>1. PICK x \in Seq(Frame) : /\ file' = file \o x /\ Fouling(x)
                              /\ \A h \in Handles :
                                   /\ Drained(chan[h], chan'[h])
                                   /\ x = <<>> => chan'[h].bucket = chan[h].bucket
  BY PackFlushFrames DEF Writes
<1>2. InUse' = InUse /\ Live' = Live /\ sent' = sent
  <2>1. \A h \in Handles : chan'[h].use = chan[h].use
    BY Zenon, <1>1 DEF Drained
  <2>2. InUse' = InUse /\ Live' = Live
    BY Zenon, <2>1 DEF InUse, Live
  <2>3. sent' = sent
    BY Zenon DEF PackFlush
  <2> QED
    BY Zenon, <2>2, <2>3
<1>3. \A h \in Handles : chan'[h].use = "closed" <=> chan[h].use = "closed"
  BY <1>1 DEF Drained
<1>4. \A h \in Live' : /\ h \in Live /\ chan'[h].rowCounter = chan[h].rowCounter
                       /\ x = <<>> => SameContents(chan[h], chan'[h])
  BY <1>1, <1>2 DEF Live, Drained, SameContents
<1>5. \A h \in InUse : chan'[h].id = chan[h].id
  BY <1>1 DEF InUse, Drained
<1> QED
  BY <1>1, <1>2, <1>3, <1>4, <1>5, SparedAll

(* otic_pack_close: at most one frame of each id, the last block of its channel. *)
LEMMA PackClosePacked ==
  ASSUME Writes, PackClose
  PROVE  Books' /\ \A id \in ChannelIds : Packed(id)'
<1>1. PICK x \in Seq(Frame), list \in Seq(pack.linked) :
        /\ file' = file \o x /\ Len(list) = Len(x)
        /\ \A i, j \in 1 .. Len(x) : list[i] = list[j] => i = j
        /\ \A i \in 1 .. Len(x) :
             \/ x[i] = DataFrame(chan[list[i]].id, Ended(chan[list[i]]).bucket)
             \/ x[i] = MetaFrame("TORN", chan[list[i]].id)
  BY PackCloseFrames DEF Writes
<1>2. /\ pack.linked \subseteq Live /\ sent' = sent
      /\ \A h \in Handles : /\ chan'[h].id = chan[h].id
                            /\ h \in pack.linked => chan'[h].use = "closed"
                            /\ h \notin pack.linked => chan'[h] = chan[h]
  BY Zenon, PackCloseFrames DEF Writes, PackClose
<1>3. \A h \in Handles : h \in Live <=> h \in pack.linked
  BY <1>2 DEF Writes, PackInv, PackExact, Live
<1>4. Live' = {}
  BY <1>2, <1>3 DEF Live
<1>5. InUse' = InUse
  BY <1>2, <1>3 DEF InUse, Live
<1>6. \A i \in 1 .. Len(x) : list[i] \in Live
  BY <1>1, <1>2
<1>7. \A id : \A i \in 1 .. Len(x) :
        Carries(x[i], id) => chan[list[i]].id = id /\ x[i].block = Ended(chan[list[i]]).bucket
  <2>1. /\ \A i, b : DataFrame(i, b).id = i /\ DataFrame(i, b).block = b
        /\ \A i, m : MetaFrame(m, i).meta = m
    BY DEF DataFrame, MetaFrame
  <2> QED
    BY <1>1, <2>1 DEF Carries
<1>8. Books'
  BY <1>2, <1>4, <1>5, BooksSame DEF Writes, InUse
<1>9. file \in Seq(Frame)
  BY DEF Writes, PackTyped
<1>10. ASSUME NEW id \in ChannelIds PROVE Packed(id)'
  <2>1. CASE \E g \in Live : chan[g].id = id
    <3>1. PICK g \in Live : chan[g].id = id
      BY <2>1
    <3> DEFINE c == chan[g]
               e == Ended(c)
               E == Closers(id)
               D == Closers(id)'
    <3>2. c \in PackChan /\ c.id = id /\ e \in PackChan
      BY <3>1, EndedTyped DEF Writes, PackTyped, Live
    <3>3. g \in D
      BY <1>2, <1>3, <3>1 DEF Closers, Live
    <3>4. /\ Clean(file) => Standing(file, id, sent[id], E, c)
          /\ Filing(file, id, sent[id], E)
      BY <3>1, PackedStanding DEF Writes
    <3>5. ~Reopen => D # {} /\ c.rowCounter = Len(sent[id])
      BY <3>1, <3>3 DEF Writes, Books
    <3>6. Len(sent[id]) \in Nat
      BY DEF Writes, PackTyped
    <3>7. \A i \in 1 .. Len(x) : Carries(x[i], id) => list[i] = g /\ x[i].block = e.bucket
      <4>1. ASSUME NEW i \in 1 .. Len(x), Carries(x[i], id)
            PROVE  list[i] = g /\ x[i].block = e.bucket
        <5>1. list[i] \in Live /\ chan[list[i]].id = id
              /\ x[i].block = Ended(chan[list[i]]).bucket
          BY Zenon, <1>6, <1>7, <4>1
        <5>2. \A a, b \in Live : chan[a].id = chan[b].id => a = b
          BY Zenon DEF Writes, PackInv, PackExact
        <5>3. list[i] = g
          BY Zenon, <3>1, <5>1, <5>2
        <5> QED
          BY Zenon, <5>1, <5>3
      <4> QED
        BY Zenon, <4>1
    <3>8. \A i, j \in 1 .. Len(x) : Carries(x[i], id) /\ Carries(x[j], id) => i = j
      BY SMT, <1>1, <3>7
    <3> HIDE DEF D, E, c, e
    <3>9. /\ Clean(file) => Standing(file, id, sent[id], D, Ended(c))
          /\ Filing(file, id, sent[id], D)
      BY <1>9, <3>2, <3>4, <3>5, <3>6, EndedContinues
    <3>10. Filing(file \o x, id, sent[id], D)
      BY <1>9, <3>2, <3>7, <3>8, <3>9, LastFiled DEF e
    <3>11. Filing(file', id, sent'[id], Closers(id)')
      BY <1>1, <1>2, <3>10 DEF D
    <3>12. ~Unused(id)'
      BY <1>2, <1>5, <3>1 DEF Unused, InUse, Live
    <3> QED
      BY <1>4, <3>11, <3>12, FilingPacked
  <2>2. CASE ~\E g \in Live : chan[g].id = id
    <3>1. \A i \in 1 .. Len(x) : ~Carries(x[i], id)
      BY <1>6, <1>7, <2>2
    <3>2. Closers(id)' = Closers(id)
      BY <1>2, <1>3, <2>2 DEF Closers
    <3>3. Unused(id)' => Unused(id)
      BY <1>2, <1>5 DEF Unused, InUse
    <3>4. Spared(id)
      BY <1>2, <1>4, <3>2, <3>3 DEF Spared
    <3> QED
      BY <1>1, <1>9, <3>1, <3>4, SparedPacked DEF Writes
  <2> QED
    BY <2>1, <2>2
<1> QED
  BY <1>8, <1>10

LEMMA WritesInductive ==
  ASSUME Writes, PackNext
  PROVE  Writes'
<1>1. PackInv' /\ PackTyped'
  BY PackNextKeeps, PackStepTyped DEF Writes
<1>2. PackExact'
  BY <1>1 DEF PackInv
<1>3. ASSUME NEW h \in Handles, Working(h)
      PROVE  Books' /\ \A id \in ChannelIds : Packed(id)'
  BY <1>2, <1>3, InjectPacked, RefusedPacked, FlushCallPacked DEF Working
<1>4. ASSUME NEW h \in Handles, ChannelClose(h)
      PROVE  Books' /\ \A id \in ChannelIds : Packed(id)'
  BY <1>2, <1>4, ClosePacked
<1>5. ASSUME NEW id \in Ids, DefineChannel(id)
      PROVE  Books' /\ \A i \in ChannelIds : Packed(i)'
  BY <1>2, <1>5, DefinePacked
<1>6. ASSUME NEW id \in Ids, DefineRefused(id)
      PROVE  Books' /\ \A i \in ChannelIds : Packed(i)'
  BY <1>6, QuietPacked DEF DefineRefused
<1>7. ASSUME NEW id \in Ids, CloseChannel(id)
      PROVE  Books' /\ \A i \in ChannelIds : Packed(i)'
  BY <1>7, CloseChannelPacked
<1>8. CASE PackFlush
  BY <1>1, <1>8, PackFlushPacked DEF Writes
<1>9. CASE ClearErrorFlag
  BY <1>1, <1>9, QuietPacked DEF ClearErrorFlag, Writes
<1>10. CASE PackClose
  BY <1>1, <1>10, PackClosePacked DEF Writes
<1>11. Books' /\ \A i \in ChannelIds : Packed(i)'
  BY <1>3, <1>4, <1>5, <1>6, <1>7, <1>8, <1>9, <1>10, PackCalls DEF Writes
<1> QED
  BY <1>1, <1>11 DEF Writes

LEMMA InitWrites == PackInit => Writes
<1> SUFFICES ASSUME PackInit PROVE Writes
  OBVIOUS
<1>1. PackInv /\ PackTyped
  BY InitPack, InitPackTyped
<1>2. InUse = {} /\ Live = {}
  BY DEF PackInit, InUse, Live, NewChannel
<1>3. Books
  BY <1>2 DEF Books, PackInit, Live
<1>4. ASSUME NEW id \in ChannelIds PROVE Packed(id)
  <2>2. PICK r \in Record : TRUE
    BY RecordFacts
  <2> DEFINE h == [rec |-> [i \in Nat |-> r], mark |-> [i \in Nat |-> Blank], len |-> 0,
                   start |-> [i \in Nat |-> 0]]
  <2>3. Blank \in Mark
    <3>1. <<>> \in Seq(Sensors)
      OBVIOUS
    <3> QED
      BY <3>1 DEF Blank, Mark
  <2>4. h \in Tape /\ h.start[1] = 0 /\ h.len = 0 /\ h.mark[0] = Blank
    BY <2>2, <2>3 DEF Tape
  <2> HIDE DEF h
  <2>5. file = <<>> /\ Len(file) = 0
    BY DEF PackInit
  <2>6. Filed(h, file, id, sent[id], Closers(id))
    BY <2>4, <2>5 DEF Filed, Recorded, Cut, Recounted
  <2>7. Continues(h, id)
    BY <1>2 DEF Continues
  <2> QED
    BY <2>4, <2>6, <2>7 DEF Packs, Packed
<1> QED
  BY <1>1, <1>3, <1>4 DEF Writes

=============================================================================
