---------------------------- MODULE EachLogProofs ----------------------------
(***************************************************************************)
(* The readers of OticContainers follow the tapes of their ids: what the   *)
(* record at hand refers to is known, and the row it tells is the next one *)
(* of the id's log.                                                        *)
(***************************************************************************)
EXTENDS EachTapeProofs

-----------------------------------------------------------------------------
(* The reader on the tape of its id. *)

(* What a reader knows is what the mark at its place says. *)
Learnt(c) == [names |-> c.entries, rows |-> c.rowCounter, ts |-> c.ts]

(* Its block is the stretch of the tape that lies before the file. *)
Follows(h, c) ==
  \E k \in Nat : k + Len(c.block) = h.start[1] /\ Slice(h, c.block, k) /\ h.mark[k] = Learnt(c)

(* A reader that has read a record knows what the next mark says. *)
LEMMA LearntNext ==
  ASSUME NEW c \in ReadChan, c.block # <<>>, NEW r \in Record
  PROVE  NextMark(r, Learnt(c)) = Learnt(After(c, r))
<1>1. /\ After(c, r).ts = IF r.rec = "TIME" THEN r.time ELSE c.ts
      /\ After(c, r).entries = IF r.rec = "NAME" THEN Append(c.entries, r.sensor) ELSE c.entries
      /\ After(c, r).rowCounter = IF r.rec = "ROW" THEN c.rowCounter + 1 ELSE c.rowCounter
  BY AfterTyped
<1>2. Learnt(c).names = c.entries /\ Learnt(c).rows = c.rowCounter /\ Learnt(c).ts = c.ts
  BY DEF Learnt
<1> QED
  BY <1>1, <1>2 DEF NextMark, Learnt

(* The record at hand is the one on the tape behind what the reader knows. *)
LEMMA TakenRecord ==
  ASSUME NEW frames \in Seq(Frame), NEW id, NEW log, NEW enders,
         NEW h, Filed(h, frames, id, log, enders),
         NEW c \in ReadChan, c.block # <<>>, Follows(h, c)
  PROVE  LET r == Head(c.block)
         IN  /\ r \in Record /\ Defined(c, r) /\ Recounts(log, enders, r, Learnt(c))
             /\ Follows(h, After(c, r))
<1> DEFINE b == c.block
           r == Head(b)
           d == After(c, r)
           s == h.start[1]
<1>1. /\ h \in Tape /\ Recorded(h) /\ Recounted(h, log, enders) /\ s <= h.len
  BY DEF Filed, Cut
<1>2. h.start \in [Nat -> Nat] /\ h.len \in Nat
  BY <1>1, TapeFields
<1>3. s \in Nat
  BY <1>2
<1>4. PICK k \in Nat : k + Len(b) = s /\ Slice(h, b, k) /\ h.mark[k] = Learnt(c)
  BY DEF Follows
<1>5. b \in Seq(Record) /\ b # <<>>
  BY ReadFields
<1> HIDE DEF b
<1>6. /\ r \in Record /\ Tail(b) \in Seq(Record) /\ Len(b) \in Nat /\ Len(Tail(b)) = Len(b) - 1
      /\ Len(b) >= 1 /\ r = b[1] /\ \A j \in 1 .. Len(Tail(b)) : Tail(b)[j] = b[j + 1]
  BY <1>5
<1> HIDE DEF r, s
<1>7. k + 1 \in 1 .. h.len /\ (k + 1) - 1 = k
  BY <1>1, <1>2, <1>3, <1>4, <1>6
<1>8. r = h.rec[k + 1]
  <2>1. 1 \in 1 .. Len(b)
    BY <1>6
  <2> QED
    BY <1>4, <1>6, <2>1 DEF Slice
<1>9. Legal(r, Learnt(c)) /\ h.mark[k + 1] = NextMark(r, Learnt(c)) /\ Recounts(log, enders, r, Learnt(c))
  BY <1>1, <1>4, <1>7, <1>8 DEF Recorded, Recounted
<1>10. Defined(c, r)
  BY <1>9 DEF Legal, Defined, Learnt
<1>11. d.block = Tail(b) /\ h.mark[k + 1] = Learnt(d)
  BY <1>5, <1>6, <1>9, AfterTyped, LearntNext DEF b
<1>12. (k + 1) + Len(Tail(b)) = s /\ k + 1 \in Nat
  BY <1>3, <1>4, <1>6
<1>13. Slice(h, Tail(b), k + 1)
  <2> SUFFICES ASSUME NEW j \in 1 .. Len(Tail(b)) PROVE Tail(b)[j] = h.rec[k + 1 + j]
    BY DEF Slice
  <2>1. j + 1 \in 1 .. Len(b) /\ k + (j + 1) = k + 1 + j
    BY <1>6
  <2>2. b[j + 1] = h.rec[k + (j + 1)]
    BY <1>4, <2>1 DEF Slice
  <2> QED
    BY <1>6, <2>1, <2>2
<1> HIDE DEF d
<1>14. Follows(h, d)
  BY <1>11, <1>12, <1>13 DEF Follows, s
<1> QED
  BY <1>6, <1>9, <1>10, <1>14 DEF r, d, b

(* A frame is taken off the file: the tape is the same, but less of it is ahead. *)
Shifted(h) == [rec |-> h.rec, mark |-> h.mark, len |-> h.len, start |-> [i \in Nat |-> h.start[i + 1]]]

LEMMA ShiftedFiled ==
  ASSUME NEW frames \in Seq(Frame), frames # <<>>, Good(Head(frames)), NEW id, NEW log, NEW enders,
         NEW h, Filed(h, frames, id, log, enders)
  PROVE  LET f == Head(frames)
             y == Shifted(h)
         IN  /\ Filed(y, Tail(frames), id, log, enders)
             /\ y.rec = h.rec /\ y.mark = h.mark
             /\ y.start[1] = h.start[1] + Span(f, id)
             /\ Carries(f, id) => Slice(h, f.block, h.start[1])
<1> DEFINE f == Head(frames)
           F == Tail(frames)
           k == Len(frames)
           y == Shifted(h)
           s == h.start
<1>1. h \in Tape /\ Recorded(h) /\ Cut(h, frames, id) /\ Recounted(h, log, enders)
  BY DEF Filed
<1>2. s \in [Nat -> Nat] /\ h.len \in Nat /\ h.rec \in [Nat -> Record] /\ h.mark \in [Nat -> Mark]
  BY <1>1, TapeFields
<1>3. /\ k \in Nat /\ k >= 1 /\ f = frames[1] /\ F \in Seq(Frame) /\ Len(F) = k - 1
      /\ \A i \in 1 .. Len(F) : F[i] = frames[i + 1]
  OBVIOUS
<1>4. \A i \in 1 .. k : Reach(frames, i) =>
        /\ s[i + 1] = s[i] + Span(frames[i], id)
        /\ s[i + 1] <= h.len /\ \A j \in 1 .. i : s[j] <= s[i + 1]
        /\ Carries(frames[i], id) => Slice(h, frames[i].block, s[i])
  BY <1>1 DEF Cut
<1>5. y = [rec |-> h.rec, mark |-> h.mark, len |-> h.len, start |-> [i \in Nat |-> s[i + 1]]]
  BY DEF Shifted
<1>13. Good(f)
  OBVIOUS
<1> HIDE DEF f, F, k, y, s
<1>6. /\ y \in Tape /\ y.rec = h.rec /\ y.mark = h.mark /\ y.len = h.len
      /\ \A i \in Nat : y.start[i] = s[i + 1]
  <2> DEFINE z == [i \in Nat |-> s[i + 1]]
  <2>0. ASSUME NEW i \in Nat PROVE s[i + 1] \in Nat
    <3>1. s \in [Nat -> Nat]
      BY Zenon, <1>2
    <3>2. i + 1 \in Nat
      BY SMT
    <3> QED
      BY Zenon, <3>1, <3>2
  <2>1. z \in [Nat -> Nat] /\ \A i \in Nat : z[i] = s[i + 1]
    BY <2>0
  <2>2. y = [rec |-> h.rec, mark |-> h.mark, len |-> h.len, start |-> z]
    BY <1>5
  <2> HIDE DEF z
  <2> QED
    BY <1>2, <2>1, <2>2 DEF Tape
<1>7. Reach(frames, 1) /\ 1 \in 1 .. k
  BY <1>3, <1>13 DEF Reach
<1>8. \A i \in 1 .. Len(F) : Reach(F, i) => i + 1 \in 1 .. k /\ Reach(frames, i + 1)
  <2> SUFFICES ASSUME NEW i \in 1 .. Len(F), Reach(F, i)
               PROVE  i + 1 \in 1 .. k /\ Reach(frames, i + 1)
    OBVIOUS
  <2>1. ASSUME NEW j \in 1 .. i + 1 PROVE Good(frames[j])
    <3>1. CASE j = 1
      BY <1>3, <1>13, <3>1
    <3>2. CASE j # 1
      <4>1. j - 1 \in 1 .. i /\ j - 1 \in 1 .. Len(F) /\ (j - 1) + 1 = j
        BY <1>3, <3>2
      <4> QED
        BY <1>3, <4>1 DEF Reach
    <3> QED
      BY <3>1, <3>2
  <2> QED
    BY <1>3, <2>1 DEF Reach
<1>9. s[2] = s[1] + Span(f, id) /\ s[2] <= h.len /\ (Carries(f, id) => Slice(h, f.block, s[1]))
  <2>1. 1 + 1 = 2
    OBVIOUS
  <2> QED
    BY <1>3, <1>4, <1>7, <2>1
<1>10. y.start[1] = s[2]
  <2>1. 1 + 1 = 2 /\ 1 \in Nat
    OBVIOUS
  <2> QED
    BY <1>6, <2>1
<1>11. ASSUME NEW i \in 1 .. Len(F), Reach(F, i)
       PROVE  /\ y.start[i + 1] = y.start[i] + Span(F[i], id)
              /\ y.start[i + 1] <= y.len /\ \A j \in 1 .. i : y.start[j] <= y.start[i + 1]
              /\ Carries(F[i], id) => Slice(y, F[i].block, y.start[i])
  <2> DEFINE n == i + 1
  <2>1. n \in 1 .. k /\ Reach(frames, n) /\ F[i] = frames[n] /\ n \in Nat /\ i \in Nat
    BY <1>3, <1>8, <1>11
  <2>2. y.start[i] = s[n] /\ y.start[n] = s[n + 1]
    BY <1>6, <2>1
  <2>3. \A j \in 1 .. i : y.start[j] = s[j + 1] /\ j + 1 \in 1 .. n
    <3>1. \A j \in 1 .. i : j \in Nat /\ j + 1 \in 1 .. i + 1
      BY <2>1
    <3> QED
      BY <1>6, <3>1
  <2> HIDE DEF n
  <2>4. /\ s[n + 1] = s[n] + Span(frames[n], id)
        /\ s[n + 1] <= h.len /\ \A j \in 1 .. n : s[j] <= s[n + 1]
        /\ Carries(frames[n], id) => Slice(h, frames[n].block, s[n])
    BY <1>4, <2>1
  <2>5. Slice(h, frames[n].block, s[n]) => Slice(y, frames[n].block, s[n])
    BY <1>6 DEF Slice
  <2>6. /\ y.start[n] = y.start[i] + Span(F[i], id)
        /\ y.start[n] <= y.len /\ \A j \in 1 .. i : y.start[j] <= y.start[n]
        /\ Carries(F[i], id) => Slice(y, F[i].block, y.start[i])
    BY <1>6, <2>1, <2>2, <2>3, <2>4, <2>5
  <2> QED
    BY <2>6 DEF n
<1>12. Cut(y, F, id) /\ Recorded(y) /\ Recounted(y, log, enders)
  <2>1. Cut(y, F, id)
    BY <1>6, <1>9, <1>10, <1>11 DEF Cut
  <2> QED
    BY <1>1, <1>6, <2>1 DEF Recorded, Recounted
<1> QED
  BY <1>6, <1>9, <1>10, <1>12 DEF Filed, f, F, y, s

LEMMA EmptyFiled ==
  ASSUME NEW frames, NEW id, NEW log, NEW enders, NEW h, Filed(h, frames, id, log, enders)
  PROVE  Filed(h, <<>>, id, log, enders)
<1>1. Len(<<>>) = 0
  OBVIOUS
<1> QED
  BY <1>1 DEF Filed, Cut

-----------------------------------------------------------------------------
(* The reading side, id by id. *)

Reads(h, id) ==
  /\ Filed(h, file, id, sent[id], Closers(id))
  /\ \A g \in LiveReaders : reader[g].id = id =>
       Follows(h, reader[g]) /\ Len(got[id]) = reader[g].rowCounter
  /\ unp.fresh => h.start[1] = 0

(***************************************************************************)
(* Only the current reader is in the middle of a block; before the first   *)
(* frame nobody has been handed anything; generate reads plain values.     *)
(***************************************************************************)
Orderly ==
  /\ \A g \in LiveReaders : reader[g].block # <<>> => unp.at = g
  /\ unp.fresh => unp.at = NoReader /\ \A id \in ChannelIds : got[id] = <<>>
  /\ unp.by = "generate" => ~HasSmall

ReadsOn == Orderly /\ \A id \in ChannelIds : \E h : Reads(h, id)

(* No reader has been selected, and nothing handed over. *)
Pristine ==
  /\ unp.fresh /\ unp.linked = {} /\ unp.at = NoReader /\ ~unp.astray
  /\ \A h \in Readers : reader[h].use = "unused"
  /\ \A id \in ChannelIds : got[id] = <<>>

(* What the tape says as long as reading goes on; nothing happens afterwards. *)
OnTape ==
  /\ ContainersTyped
  /\ phase = "write" => Writes /\ Pristine
  /\ phase = "read" /\ ~unp.ended /\ ~unp.astray => ReadsOn

-----------------------------------------------------------------------------
(* Frames. *)

(* A frame that is no block of a selected channel. *)
LEMMA PassedReads ==
  ASSUME ReadTyped, file \in Seq(Frame), file # <<>>, Good(Head(file)), ReadsOn, unp.at = NoReader,
         LiveReaders' = LiveReaders, unp'.at = NoReader, unp'.by = unp.by, ~unp'.fresh,
         file' = Tail(file), UNCHANGED <<got, sent, chan>>,
         \A g \in LiveReaders : /\ reader'[g].id = reader[g].id /\ reader'[g].block = reader[g].block
                                /\ Learnt(reader'[g]) = Learnt(reader[g])
                                /\ ~Carries(Head(file), reader[g].id)
  PROVE  ReadsOn'
<1>1. Orderly'
  BY DEF ReadsOn, Orderly, HasSmall
<1>2. ASSUME NEW id \in ChannelIds PROVE \E h : Reads(h, id)'
  <2>1. PICK h : Reads(h, id)
    BY DEF ReadsOn
  <2> DEFINE f == Head(file)
             y == Shifted(h)
  <2>2. Filed(h, file, id, sent[id], Closers(id))
    BY <2>1 DEF Reads
  <2>3. /\ Filed(y, Tail(file), id, sent[id], Closers(id))
        /\ y.rec = h.rec /\ y.mark = h.mark /\ y.start[1] = h.start[1] + Span(f, id)
    BY <2>2, ShiftedFiled
  <2>4. h.start[1] \in Nat
    BY <2>2, TapeFields DEF Filed
  <2> HIDE DEF y
  <2>5. PICK z : /\ Filed(z, Tail(file), id, sent[id], Closers(id))
                 /\ z.rec = h.rec /\ z.mark = h.mark /\ z.start[1] = h.start[1] + Span(f, id)
    BY <2>3
  <2>6. ASSUME NEW g \in LiveReaders', reader'[g].id = id
        PROVE  Follows(z, reader'[g]) /\ Len(got'[id]) = reader'[g].rowCounter
    <3>1. /\ g \in LiveReaders /\ reader[g].id = id /\ reader'[g].block = reader[g].block
          /\ Learnt(reader'[g]) = Learnt(reader[g]) /\ ~Carries(f, id)
      BY <2>6
    <3>2. Follows(h, reader[g]) /\ Len(got[id]) = reader[g].rowCounter
      BY <2>1, <3>1 DEF Reads
    <3>3. z.start[1] = h.start[1]
      BY <2>4, <2>5, <3>1 DEF Span
    <3>4. Follows(z, reader'[g])
      BY <2>5, <3>1, <3>2, <3>3 DEF Follows, Slice
    <3>5. reader'[g].rowCounter = reader[g].rowCounter
      BY <3>1 DEF Learnt
    <3> QED
      BY <3>2, <3>4, <3>5
  <2>7. Filed(z, file', id, sent'[id], Closers(id)')
    BY <2>5 DEF Closers
  <2>8. Reads(z, id)'
    BY <2>6, <2>7 DEF Reads
  <2> QED
    BY <2>8
<1> QED
  BY <1>1, <1>2 DEF ReadsOn

(* A block goes to the reader of its id. *)
LEMMA BlockReads ==
  ASSUME ReadTyped, ReaderExact, file \in Seq(Frame), ReadsOn, ReadBlock, UNCHANGED <<sent, chan>>
  PROVE  ReadsOn'
<1> DEFINE f == Head(file)
<1>1. PICK g \in FoundFor(f.id) :
        /\ unp' = [unp EXCEPT !.fresh = FALSE, !.at = g, !.inCall = TRUE]
        /\ reader' = [reader EXCEPT ![g].block = f.block]
  BY DEF ReadBlock
<1>2. /\ file # <<>> /\ f.meta = "DATA" /\ file' = Tail(file) /\ got' = got /\ unp.at = NoReader
  BY DEF ReadBlock, AtFrame, Reading
<1>3. g \in LiveReaders /\ reader[g].id = f.id /\ g \in Readers /\ reader[g] \in ReadChan
  BY <1>1 DEF FoundFor, ReaderExact, LiveReaders, ReadTyped
<1>4. unp'.at = g /\ ~unp'.fresh /\ unp'.by = unp.by
  BY <1>1, <1>3 DEF ReadTyped, Unp
<1> DEFINE d == [reader[g] EXCEPT !.block = f.block]
<1>5. /\ d.use = reader[g].use /\ d.id = f.id /\ d.block = f.block /\ Learnt(d) = Learnt(reader[g])
      /\ d.rowCounter = reader[g].rowCounter
  BY <1>3 DEF ReadChan, Learnt
<1>6. \A i \in Readers : reader'[i] = IF i = g THEN d ELSE reader[i]
  BY <1>1 DEF ReadTyped
<1> HIDE DEF d
<1>7. LiveReaders' = LiveReaders
  BY <1>5, <1>6 DEF LiveReaders
<1>8. \A i \in LiveReaders : reader[i].block = <<>>
  BY <1>2 DEF ReadsOn, Orderly, NoReader, LiveReaders, Readers
<1>9. Orderly'
  <2>1. \A i \in LiveReaders' : reader'[i].block # <<>> => i = g
    BY <1>6, <1>7, <1>8 DEF LiveReaders
  <2> QED
    BY <1>4, <2>1 DEF ReadsOn, Orderly, HasSmall
<1>10. ASSUME NEW id \in ChannelIds PROVE \E h : Reads(h, id)'
  <2>1. PICK h : Reads(h, id)
    BY DEF ReadsOn
  <2> DEFINE y == Shifted(h)
  <2>2. Filed(h, file, id, sent[id], Closers(id)) /\ Good(f)
    BY <1>2, <2>1 DEF Reads, Good
  <2>3. /\ Filed(y, Tail(file), id, sent[id], Closers(id))
        /\ y.rec = h.rec /\ y.mark = h.mark /\ y.start[1] = h.start[1] + Span(f, id)
        /\ Carries(f, id) => Slice(h, f.block, h.start[1])
    BY <1>2, <2>2, ShiftedFiled
  <2>4. h.start[1] \in Nat
    BY <2>2, TapeFields DEF Filed
  <2> HIDE DEF y
  <2>5. PICK z : /\ Filed(z, Tail(file), id, sent[id], Closers(id))
                 /\ z.rec = h.rec /\ z.mark = h.mark /\ z.start[1] = h.start[1] + Span(f, id)
    BY <2>3
  <2>6. ASSUME NEW i \in LiveReaders', reader'[i].id = id
        PROVE  Follows(z, reader'[i]) /\ Len(got'[id]) = reader'[i].rowCounter
    <3>1. i \in LiveReaders /\ i \in Readers
      BY <1>7 DEF LiveReaders
    <3>2. CASE i = g
      <4>1. reader'[i] = d /\ id = f.id /\ Carries(f, id) /\ reader[g].block = <<>>
        BY <1>2, <1>3, <1>5, <1>6, <1>8, <2>6, <3>1, <3>2 DEF Carries
      <4>2. Follows(h, reader[g]) /\ Len(got[id]) = reader[g].rowCounter
        BY <1>3, <2>1, <4>1 DEF Reads
      <4>3. h.mark[h.start[1]] = Learnt(reader[g])
        <5>1. Len(<<>>) = 0
          OBVIOUS
        <5>2. PICK k \in Nat : k + Len(reader[g].block) = h.start[1] /\ h.mark[k] = Learnt(reader[g])
          BY <4>2 DEF Follows
        <5>3. k = h.start[1]
          BY <4>1, <5>1, <5>2
        <5> QED
          BY <5>2, <5>3
      <4>4. z.start[1] = h.start[1] + Len(f.block)
        BY <2>5, <4>1 DEF Span
      <4>5. Follows(z, d)
        BY Zenon, <1>5, <2>3, <2>4, <2>5, <4>1, <4>3, <4>4 DEF Follows, Slice
      <4> QED
        BY <1>2, <1>5, <4>1, <4>2, <4>5
    <3>3. CASE i # g
      <4>1. reader'[i] = reader[i] /\ reader[i].id = id /\ id # f.id
        BY <1>3, <1>6, <2>6, <3>1, <3>3 DEF ReaderExact
      <4>2. Follows(h, reader[i]) /\ Len(got[id]) = reader[i].rowCounter
        BY <2>1, <3>1, <4>1 DEF Reads
      <4>3. z.start[1] = h.start[1]
        BY <2>4, <2>5, <4>1 DEF Span, Carries
      <4>4. Follows(z, reader[i])
        BY <2>5, <4>2, <4>3 DEF Follows, Slice
      <4> QED
        BY <1>2, <4>1, <4>2, <4>4
    <3> QED
      BY <3>2, <3>3
  <2>7. Filed(z, file', id, sent'[id], Closers(id)')
    BY <1>2, <2>5 DEF Closers
  <2>8. Reads(z, id)'
    BY <1>4, <2>6, <2>7 DEF Reads
  <2> QED
    BY <2>8
<1> QED
  BY <1>9, <1>10 DEF ReadsOn

(***************************************************************************)
(* The readers that stay know and hold what they did, and no row is handed *)
(* over; if frames are gone, it is all of them.                            *)
(***************************************************************************)
LEMMA SameReads ==
  ASSUME ReadsOn, file' \in {file, <<>>}, UNCHANGED <<got, sent, chan>>,
         \A g \in LiveReaders' : g \in LiveReaders /\ reader'[g] = reader[g],
         unp'.by = unp.by, unp'.fresh => unp.fresh /\ unp'.at = NoReader,
         \A g \in LiveReaders' : reader'[g].block # <<>> => unp'.at = g
  PROVE  ReadsOn'
<1>1. Orderly'
  BY DEF ReadsOn, Orderly, HasSmall
<1>2. ASSUME NEW id \in ChannelIds PROVE \E h : Reads(h, id)'
  <2>1. PICK h : Reads(h, id)
    BY DEF ReadsOn
  <2>2. Filed(h, file, id, sent[id], Closers(id))
    BY <2>1 DEF Reads
  <2>3. Filed(h, file', id, sent'[id], Closers(id)')
    BY <2>2, EmptyFiled DEF Closers
  <2>4. Reads(h, id)'
    BY <2>1, <2>3 DEF Reads
  <2> QED
    BY <2>4
<1> QED
  BY <1>1, <1>2 DEF ReadsOn

LEMMA FrameReads ==
  ASSUME ReadTyped, ReaderExact, file \in Seq(Frame), ReadsOn, ReadFrame, UNCHANGED <<sent, chan>>,
         ~unp'.ended, ~unp'.astray
  PROVE  ReadsOn'
<1>0. unp \in Unp
  BY DEF ReadTyped
<1>1. CASE ReadDefine
  <2>1. /\ file # <<>> /\ Head(file).meta = "DEFINE" /\ unp.at = NoReader /\ unp' = Past(Head(file))
        /\ file' = Tail(file) /\ got' = got
        /\ reader' = [h \in Readers |-> IF h \in FoundFor(Head(file).id)
                                        THEN [reader[h] EXCEPT !.state = "OPENED"] ELSE reader[h]]
    BY <1>1 DEF ReadDefine, AtFrame, Reading
  <2>2. unp'.at = NoReader /\ ~unp'.fresh /\ unp'.by = unp.by
    BY <1>0, <2>1, UnpMoves
  <2>3. \A c \in ReadChan : LET d == [c EXCEPT !.state = "OPENED"]
                            IN  d.use = c.use /\ d.id = c.id /\ d.block = c.block /\ Learnt(d) = Learnt(c)
    BY DEF ReadChan, Learnt
  <2>4. \A h \in Readers : /\ reader'[h].use = reader[h].use /\ reader'[h].id = reader[h].id
                           /\ reader'[h].block = reader[h].block
                           /\ Learnt(reader'[h]) = Learnt(reader[h])
    BY <2>1, <2>3 DEF ReadTyped
  <2>5. LiveReaders' = LiveReaders
    BY <2>4 DEF LiveReaders
  <2>6. Good(Head(file)) /\ \A id : ~Carries(Head(file), id)
    BY <2>1 DEF Good, Carries
  <2>7. \A g \in LiveReaders : /\ reader'[g].id = reader[g].id /\ reader'[g].block = reader[g].block
                               /\ Learnt(reader'[g]) = Learnt(reader[g])
                               /\ ~Carries(Head(file), reader[g].id)
    BY <2>4, <2>6 DEF LiveReaders
  <2> QED
    BY <2>1, <2>2, <2>5, <2>6, <2>7, PassedReads
<1>2. CASE ReadBlock
  BY <1>2, BlockReads
<1>3. CASE SkipBlock
  <2>1. /\ file # <<>> /\ Head(file).meta = "DATA" /\ unp.at = NoReader /\ unp' = Past(Head(file))
        /\ file' = Tail(file) /\ UNCHANGED <<reader, got>> /\ FoundFor(Head(file).id) = {}
    BY <1>3 DEF SkipBlock, AtFrame, Reading
  <2>2. unp'.at = NoReader /\ ~unp'.fresh /\ unp'.by = unp.by
    BY <1>0, <2>1, UnpMoves
  <2>3. Good(Head(file)) /\ LiveReaders' = LiveReaders
    BY <2>1 DEF Good, LiveReaders
  <2>4. \A g \in LiveReaders : /\ reader'[g] = reader[g]
                               /\ ~Carries(Head(file), reader[g].id)
    BY <2>1 DEF ReaderExact, FoundFor, Carries
  <2> QED
    BY <2>1, <2>2, <2>3, <2>4, PassedReads
<1>4. CASE ReadTorn
  <2>1. /\ file # <<>> /\ unp.at = NoReader /\ file' = Tail(file) /\ UNCHANGED <<reader, got>>
        /\ \/ \E e : unp' = Stopped(e)
           \/ unp' \in {AtEnd, Astray}
           \/ Len(file) = 1 /\ unp' = Past(Head(file))
    <3>1. /\ file # <<>> /\ unp.at = NoReader /\ file' = Tail(file) /\ UNCHANGED <<reader, got>>
      BY <1>4 DEF ReadTorn, AtFrame, Reading
    <3>2. \A errors : Misread(errors) \subseteq {Stopped(e) : e \in errors} \cup {AtEnd, Astray}
      BY DEF Misread
    <3>3. \/ \E e : unp' = Stopped(e)
          \/ unp' \in {AtEnd, Astray}
          \/ Len(file) = 1 /\ unp' = Past(Head(file))
      BY <1>4, <3>2 DEF ReadTorn
    <3> QED
      BY <3>1, <3>3
  <2>2. Len(file) = 1 /\ unp' = Past(Head(file))
    BY <1>0, <2>1, UnpMoves
  <2>3. unp'.at = NoReader /\ ~unp'.fresh /\ unp'.by = unp.by
    BY <1>0, <2>1, <2>2, UnpMoves
  <2>4. file' = <<>>
    BY <2>1, <2>2
  <2>5. \A g \in LiveReaders' : g \in LiveReaders /\ reader'[g] = reader[g] /\ reader[g].block = <<>>
    BY <2>1 DEF LiveReaders, ReadsOn, Orderly, NoReader, Readers
  <2> QED
    BY <2>1, <2>3, <2>4, <2>5, SameReads
<1>5. CASE ReadTornDefine \/ ReadUntagged \/ ReadEnd
  <2>1. (\E e : unp' = Stopped(e)) \/ unp' \in {AtEnd, Astray}
    BY <1>5 DEF ReadTornDefine, ReadUntagged, ReadEnd, Misread
  <2> QED
    BY <1>0, <2>1, UnpMoves
<1> QED
  BY <1>1, <1>2, <1>3, <1>4, <1>5 DEF ReadFrame

-----------------------------------------------------------------------------
(* Records. *)

(* The record at hand refers to a name of its channel's, and tells a row of its id's log. *)
LEMMA AtHand ==
  ASSUME ReadTyped, file \in Seq(Frame), ReadsOn, NEW g \in LiveReaders, reader[g].block # <<>>
  PROVE  LET c == reader[g]
             r == Head(c.block)
         IN  /\ c \in ReadChan /\ r \in Record /\ c.id \in ChannelIds /\ unp.at = g /\ ~unp.fresh
             /\ Defined(c, r) /\ Recounts(sent[c.id], Closers(c.id), r, Learnt(c))
             /\ Len(got[c.id]) = c.rowCounter
<1> DEFINE c == reader[g]
<1>1. c \in ReadChan /\ c.id \in ChannelIds /\ unp.at = g /\ ~unp.fresh
  BY DEF LiveReaders, ReadTyped, ReadsOn, Orderly, NoReader, Readers
<1>2. PICK h : Reads(h, c.id)
  BY <1>1 DEF ReadsOn
<1>3. /\ Filed(h, file, c.id, sent[c.id], Closers(c.id)) /\ Follows(h, c)
      /\ Len(got[c.id]) = c.rowCounter
  BY <1>2 DEF Reads
<1> HIDE DEF c
<1>4. c.block # <<>>
  BY DEF c
<1> QED
  BY <1>1, <1>3, <1>4, TakenRecord DEF c

(* generate reads no small integers, so that what it takes at a time is one record. *)
LEMMA PlainLine ==
  ASSUME ReadTyped, file \in Seq(Frame), sent \in [ChannelIds -> Seq(Row)], ReadsOn,
         InBlock("generate")
  PROVE  LET r == Head(reader[unp.at].block)
         IN  Line(reader[unp.at]) = <<r>> /\ (r.rec = "ROW" => r.value \notin Small)
<1> DEFINE c == reader[unp.at]
           r == Head(c.block)
           log == sent[c.id]
<1>1. /\ c \in ReadChan /\ r \in Record /\ c.id \in ChannelIds
      /\ Recounts(sent[c.id], Closers(c.id), r, Learnt(c))
  BY AtHand DEF InBlock
<1>2. r.rec = "ROW" => r.value \notin Small
  <2> SUFFICES ASSUME r.rec = "ROW" PROVE r.value \notin Small
    OBVIOUS
  <2>1. PICK j \in 1 .. Len(log) : log[j].value = r.value
    BY <1>1 DEF Recounts
  <2>2. log \in Seq(Row)
    BY <1>1
  <2>3. j \in DOMAIN log
    <3> HIDE DEF log
    <3> QED
      BY <2>1, <2>2
  <2>4. ~HasSmall
    BY DEF InBlock, ReadsOn, Orderly
  <2> QED
    BY <1>1, <2>1, <2>3, <2>4 DEF HasSmall
<1> QED
  BY <1>2 DEF Line

(* A record is read, and the row it may tell is handed over. *)
Taken(g) ==
  /\ reader' = [reader EXCEPT ![g] = After(reader[g], Head(reader[g].block))]
  /\ got' = [got EXCEPT ![reader[g].id] = @ \o Delivered(reader[g], Head(reader[g].block))]
  /\ file' = file /\ unp'.at = unp.at /\ unp'.by = unp.by /\ unp'.fresh = unp.fresh /\ ~unp'.astray

LEMMA LineTaken ==
  ASSUME ReadTyped, file \in Seq(Frame), sent \in [ChannelIds -> Seq(Row)], ReadsOn, GenerateLine
  PROVE  LET r == Head(reader[unp.at].block)
         IN  /\ Taken(unp.at) /\ Line(reader[unp.at]) = <<r>>
             /\ Last(Line(reader[unp.at])) = r /\ Head(Line(reader[unp.at])) = r
             /\ unp'.ended <=> r.rec = "EOF"
<1> DEFINE g == unp.at
           c == reader[g]
           r == Head(c.block)
           line == Line(c)
<1>1. InBlock("generate") /\ g \in LiveReaders /\ c.block # <<>> /\ ~unp.astray /\ unp \in Unp
  BY DEF GenerateLine, InBlock, ReadTyped
<1>2. Defined(c, r)
  BY <1>1, AtHand
<1>3. line = <<r>> /\ (r.rec = "ROW" => r.value \notin Small)
  BY <1>1, PlainLine
<1>4. /\ Last(line) = r /\ Head(line) = r /\ Len(line) = 1 /\ line[1] = r
      /\ \A i \in DOMAIN line : line[i] = r
  <2> HIDE DEF line, r
  <2> QED
    BY <1>3 DEF Last
<1>5. ~Lost(line) /\ ~\E i \in DOMAIN line : ~Defined(c, line[i])
  BY <1>2, <1>3, <1>4 DEF Lost
<1>6. AfterLine(c, line) = After(c, r) /\ DeliveredLine(c, line) = Delivered(c, r)
  BY <1>4 DEF AfterLine, DeliveredLine
<1> DEFINE e == (Last(line).rec = "EOF")
<1>7. /\ reader' = [reader EXCEPT ![g] = AfterLine(c, line)]
      /\ got' = [got EXCEPT ![c.id] = @ \o DeliveredLine(c, line)]
      /\ unp' = [unp EXCEPT !.inCall = FALSE, !.ended = e] /\ file' = file
  BY Zenon, <1>5 DEF GenerateLine, Current
<1>8. e <=> r.rec = "EOF"
  BY <1>4
<1> HIDE DEF e, line
<1>9. unp'.at = unp.at /\ unp'.by = unp.by /\ unp'.fresh = unp.fresh /\ ~unp'.astray /\ unp'.ended = e
  BY <1>1, <1>7 DEF Unp
<1>10. Taken(g)
  BY <1>6, <1>7, <1>9 DEF Taken
<1> QED
  BY <1>3, <1>4, <1>8, <1>9, <1>10 DEF line

LEMMA RecordTaken ==
  ASSUME ReadTyped, file \in Seq(Frame), sent \in [ChannelIds -> Seq(Row)], ReadsOn,
         ParseRecord \/ GenerateLine
  PROVE  unp.at \in LiveReaders /\ reader[unp.at].block # <<>> /\ Taken(unp.at)
<1>1. unp.at \in LiveReaders /\ reader[unp.at].block # <<>> /\ ~unp.astray
  BY DEF ParseRecord, GenerateLine, InBlock
<1>2. CASE ParseRecord
  <2>1. Defined(reader[unp.at], Head(reader[unp.at].block))
    BY <1>1, AtHand
  <2> QED
    BY Zenon, <1>1, <1>2, <2>1 DEF ParseRecord, Current, Taken
<1>3. CASE GenerateLine
  BY <1>1, <1>3, LineTaken
<1> QED
  BY <1>2, <1>3

LEMMA TwoLengths ==
  ASSUME NEW S, NEW a \in Seq(S), NEW b \in Seq(S)
  PROVE  Len(a \o b) = Len(a) + Len(b) /\ Len(a) \in Nat /\ Len(b) \in Nat
  OBVIOUS

LEMMA RecordReads ==
  ASSUME ReadTyped, ReaderExact, file \in Seq(Frame), ReadsOn, NEW g \in LiveReaders,
         reader[g].block # <<>>, Taken(g), UNCHANGED <<sent, chan>>
  PROVE  ReadsOn'
<1> DEFINE c == reader[g]
           r == Head(c.block)
           d == After(c, r)
           rows == Delivered(c, r)
<1>1. /\ c \in ReadChan /\ r \in Record /\ c.id \in ChannelIds /\ unp.at = g /\ ~unp.fresh
      /\ Defined(c, r) /\ Len(got[c.id]) = c.rowCounter /\ g \in Readers
  BY AtHand DEF LiveReaders
<1>2. d.use = c.use /\ d.id = c.id /\ d.rowCounter = IF r.rec = "ROW" THEN c.rowCounter + 1 ELSE c.rowCounter
  BY <1>1, AfterTyped
<1>3. rows \in Seq(Delivery) /\ Len(rows) = IF r.rec = "ROW" THEN 1 ELSE 0
  <2>1. /\ rows \in Seq(Delivery)
        /\ r.rec # "ROW" => rows = <<>>
        /\ r.rec = "ROW" => \E x : rows = <<x>>
    BY Zenon, <1>1, DeliveredTyped
  <2> HIDE DEF rows
  <2>2. CASE rows = <<>>
    BY <2>1, <2>2
  <2>3. CASE \E x : rows = <<x>>
    BY <2>1, <2>3
  <2> QED
    BY <2>1, <2>2, <2>3
<1>4. /\ reader' = [reader EXCEPT ![g] = d] /\ got' = [got EXCEPT ![c.id] = @ \o rows]
      /\ file' = file /\ unp'.at = g /\ unp'.by = unp.by /\ ~unp'.fresh
  BY <1>1 DEF Taken
<1> HIDE DEF d, rows, r
<1>5. \A i \in Readers : reader'[i] = IF i = g THEN d ELSE reader[i]
  BY <1>4 DEF ReadTyped
<1>6. LiveReaders' = LiveReaders
  BY <1>2, <1>5 DEF LiveReaders
<1>7. \A id \in ChannelIds : got'[id] = IF id = c.id THEN got[id] \o rows ELSE got[id]
  BY <1>4 DEF ReadTyped
<1>8. Len(got'[c.id]) = d.rowCounter
  <2> DEFINE o == got[c.id]
  <2>1. o \in Seq(Delivery) /\ got'[c.id] = o \o rows /\ Len(o) = c.rowCounter
    BY <1>1, <1>7 DEF ReadTyped
  <2> HIDE DEF o
  <2>2. rows \in Seq(Delivery)
    BY <1>3
  <2>3. Len(o \o rows) = Len(o) + Len(rows) /\ Len(o) \in Nat
    BY <2>1, <2>2, TwoLengths
  <2> QED
    BY <1>2, <1>3, <2>1, <2>3
<1>9. Orderly'
  <2>1. \A i \in LiveReaders' : reader'[i].block # <<>> => i = g
    BY <1>1, <1>5, <1>6 DEF LiveReaders, ReadsOn, Orderly
  <2> QED
    BY <1>4, <2>1 DEF ReadsOn, Orderly, HasSmall
<1>10. ASSUME NEW id \in ChannelIds PROVE \E h : Reads(h, id)'
  <2>1. PICK h : Reads(h, id)
    BY DEF ReadsOn
  <2>2. Filed(h, file, id, sent[id], Closers(id))
    BY <2>1 DEF Reads
  <2>3. ASSUME NEW i \in LiveReaders', reader'[i].id = id
        PROVE  Follows(h, reader'[i]) /\ Len(got'[id]) = reader'[i].rowCounter
    <3>1. i \in LiveReaders /\ i \in Readers
      BY <1>6 DEF LiveReaders
    <3>2. CASE i = g
      <4>1. reader'[i] = d /\ id = c.id
        BY <1>2, <1>5, <2>3, <3>1, <3>2
      <4>2. Follows(h, c)
        BY <2>1, <4>1 DEF Reads
      <4>3. Follows(h, d)
        <5> HIDE DEF c
        <5>1. c.block # <<>>
          BY DEF c
        <5> QED
          BY <1>1, <2>2, <4>2, <5>1, TakenRecord DEF d, r
      <4> QED
        BY <1>8, <4>1, <4>3
    <3>3. CASE i # g
      <4>1. reader'[i] = reader[i] /\ reader[i].id = id /\ id # c.id
        BY <1>5, <2>3, <3>1, <3>3 DEF ReaderExact
      <4>2. Follows(h, reader[i]) /\ Len(got[id]) = reader[i].rowCounter
        BY <2>1, <3>1, <4>1 DEF Reads
      <4> QED
        BY <1>7, <4>1, <4>2
    <3> QED
      BY <3>2, <3>3
  <2>4. Filed(h, file', id, sent'[id], Closers(id)')
    BY <1>4, <2>2 DEF Closers
  <2>5. Reads(h, id)'
    BY <1>4, <2>3, <2>4 DEF Reads
  <2> QED
    BY <2>5
<1> QED
  BY <1>9, <1>10 DEF ReadsOn

-----------------------------------------------------------------------------
(* The calls between the frames, and the end of a block. *)

LEMMA SelectReads ==
  ASSUME ReadTyped, ReaderInv, ~LateSelect, ReadsOn, NEW new \in ChannelIds, SelectChannel(new),
         UNCHANGED <<sent, chan>>
  PROVE  ReadsOn'
<1> DEFINE g == unp.next
           n == unp.next + 1
           l == unp.linked \cup {g}
           c == NewReader(new, "live")
<1>1. /\ g \in Readers /\ reader' = [reader EXCEPT ![g] = c] /\ got' = got /\ file' = file
      /\ unp' = [unp EXCEPT !.linked = l, !.next = n] /\ unp.fresh
  BY DEF SelectChannel, Listing
<1>2. reader[g].use = "unused"
  <2>1. g >= g
    BY <1>1 DEF Readers
  <2> QED
    BY <1>1, <2>1 DEF ReaderInv
<1>3. /\ c.use = "live" /\ c.id = new /\ c.block = <<>> /\ c.rowCounter = 0 /\ Learnt(c) = Blank
      /\ Len(c.block) = 0
  BY DEF NewReader, Learnt, Blank
<1> HIDE DEF g, n, l, c
<1>4. unp'.at = unp.at /\ unp'.by = unp.by /\ unp'.fresh = unp.fresh
  BY <1>1 DEF ReadTyped, Unp
<1>5. \A i \in Readers : reader'[i] = IF i = g THEN c ELSE reader[i]
  BY <1>1 DEF ReadTyped
<1>6. \A i \in LiveReaders' : (i = g /\ reader'[i] = c) \/ (i \in LiveReaders /\ reader'[i] = reader[i])
  <2>1. reader'[g] = c
    BY <1>1, <1>5
  <2>2. ASSUME NEW i \in LiveReaders', i # g
        PROVE  i \in LiveReaders /\ reader'[i] = reader[i]
    BY <1>5, <2>2 DEF LiveReaders
  <2> QED
    BY <2>1, <2>2
<1>7. Orderly'
  <2>1. \A i \in LiveReaders' : reader'[i].block # <<>> => unp'.at = i
    BY <1>3, <1>4, <1>6 DEF ReadsOn, Orderly
  <2> QED
    BY <1>1, <1>4, <2>1 DEF ReadsOn, Orderly, HasSmall
<1>8. ASSUME NEW id \in ChannelIds PROVE \E h : Reads(h, id)'
  <2>1. PICK h : Reads(h, id)
    BY DEF ReadsOn
  <2>2. /\ Filed(h, file, id, sent[id], Closers(id)) /\ h.start[1] = 0 /\ h.mark[0] = Blank
        /\ got[id] = <<>>
    BY <1>1, <2>1 DEF Reads, Filed, Recorded, ReadsOn, Orderly
  <2>3. Follows(h, c)
    BY <1>3, <2>2 DEF Follows, Slice
  <2>4. Len(got[id]) = 0
    BY <2>2
  <2>5. \A i \in LiveReaders' : reader'[i].id = id =>
          Follows(h, reader'[i]) /\ Len(got'[id]) = reader'[i].rowCounter
    BY <1>1, <1>3, <1>6, <2>1, <2>3, <2>4 DEF Reads
  <2>6. Filed(h, file', id, sent'[id], Closers(id)')
    BY <1>1, <2>2 DEF Closers
  <2>7. Reads(h, id)'
    BY <2>2, <2>5, <2>6 DEF Reads
  <2> QED
    BY <2>7
<1> QED
  BY <1>7, <1>8 DEF ReadsOn

LEMMA CallsReads ==
  ASSUME ReadTyped, ReaderInv, ~LateSelect, ReadsOn, UnpackCalls, UNCHANGED <<sent, chan>>,
         ~unp'.ended
  PROVE  ReadsOn'
<1>1. CASE \E id \in ChannelIds : SelectChannel(id)
  BY <1>1, SelectReads
<1>2. CASE \E id \in ChannelIds : SelectRefused(id) \/ CloseUnknown(id)
  <2>1. unp' = [unp EXCEPT !.state = "ON_ERROR"] /\ UNCHANGED <<reader, got, file>>
    BY <1>2 DEF SelectRefused, CloseUnknown
  <2>2. unp'.at = unp.at /\ unp'.by = unp.by /\ unp'.fresh = unp.fresh
    BY <2>1 DEF ReadTyped, Unp
  <2>3. \A g \in LiveReaders' : g \in LiveReaders /\ reader'[g] = reader[g]
    BY <2>1 DEF LiveReaders
  <2>4. \A g \in LiveReaders' : reader'[g].block # <<>> => unp'.at = g
    BY <2>2, <2>3 DEF ReadsOn, Orderly
  <2>5. unp'.fresh => unp.fresh /\ unp'.at = NoReader
    BY <2>2 DEF ReadsOn, Orderly
  <2> QED
    BY <2>1, <2>2, <2>3, <2>4, <2>5, SameReads
<1>3. CASE \E h \in Readers : DropReader(h)
  <2>1. PICK h \in Readers : DropReader(h)
    BY <1>3
  <2> DEFINE l == unp.linked \ {h}
             c == Freed(reader[h])
  <2>2. /\ reader' = [reader EXCEPT ![h] = c] /\ got' = got /\ file' = file
        /\ unp' = [unp EXCEPT !.linked = l]
    BY <2>1 DEF DropReader
  <2>3. c.use = "freed"
    BY DEF Freed, NewReader
  <2> HIDE DEF l, c
  <2>4. unp'.at = unp.at /\ unp'.by = unp.by /\ unp'.fresh = unp.fresh
    BY <2>2 DEF ReadTyped, Unp
  <2>5. \A g \in LiveReaders' : g \in LiveReaders /\ reader'[g] = reader[g]
    BY <2>2, <2>3 DEF LiveReaders, ReadTyped
  <2>6. \A g \in LiveReaders' : reader'[g].block # <<>> => unp'.at = g
    BY <2>4, <2>5 DEF ReadsOn, Orderly
  <2>7. unp'.fresh => unp.fresh /\ unp'.at = NoReader
    BY <2>4 DEF ReadsOn, Orderly
  <2> QED
    BY <2>2, <2>4, <2>5, <2>6, <2>7, SameReads
<1>4. CASE UnpackClose
  BY <1>4 DEF UnpackClose, ReadTyped, Unp
<1> QED
  BY <1>1, <1>2, <1>3, <1>4 DEF UnpackCalls

LEMMA LeaveReads ==
  ASSUME ReadTyped, ReadsOn, LeaveBlock, UNCHANGED <<sent, chan>>
  PROVE  ReadsOn'
<1>1. /\ unp' = [unp EXCEPT !.at = NoReader, !.inCall = FALSE] /\ UNCHANGED <<reader, got, file>>
      /\ unp.at \in LiveReaders /\ reader[unp.at].block = <<>>
  BY DEF LeaveBlock, Current
<1>2. unp'.at = NoReader /\ unp'.by = unp.by /\ unp'.fresh = unp.fresh
  BY <1>1 DEF ReadTyped, Unp
<1>3. \A g \in LiveReaders' : g \in LiveReaders /\ reader'[g] = reader[g] /\ reader[g].block = <<>>
  BY <1>1 DEF LiveReaders, ReadsOn, Orderly
<1> QED
  BY <1>1, <1>2, <1>3, SameReads

(***************************************************************************)
(* otic_unpack_init: the tapes the packer leaves are those the reader      *)
(* starts on, of which nothing has been read.                              *)
(***************************************************************************)
LEMMA OpenReads ==
  ASSUME ReadTyped, PackTyped, Writes, Pristine, ~SmallByGenerate, Open, ~unp'.ended
  PROVE  ReadsOn'
<1>1. PICK by \in {"parse", "generate"}, header \in Headers : Readable(by) /\ UnpackInit(by, header)
  BY DEF Open
<1>2. /\ UNCHANGED <<reader, got, file, sent>>
      /\ chan' = [g \in Handles |-> Forgotten(chan[g])]
  BY <1>1 DEF UnpackInit, Open, PackerGone
<1>3. unp'.at = NoReader /\ unp'.by = by
  <2> DEFINE e == (header # "good")
             s == (IF header = "good" THEN "OPENED" ELSE "ON_ERROR")
  <2>1. unp' = [unp EXCEPT !.by = by, !.ended = e, !.state = s]
    BY <1>1 DEF UnpackInit
  <2> HIDE DEF e, s
  <2> QED
    BY <2>1 DEF ReadTyped, Unp, Pristine
<1>4. LiveReaders' = {}
  BY <1>2 DEF LiveReaders, Pristine
<1>5. by = "generate" => ~HasSmall
  BY <1>1 DEF Readable
<1>6. Orderly'
  BY <1>2, <1>3, <1>4, <1>5 DEF Orderly, HasSmall, Pristine
<1>7. ASSUME NEW id \in ChannelIds PROVE \E h : Reads(h, id)'
  <2>1. PICK h : Packs(h, id)
    BY DEF Writes, Packed
  <2>2. Closers(id)' = Closers(id)
    <3>1. \A g \in Handles : /\ chan[g].use = "closed" => chan'[g].use = "closed" /\ chan'[g].id = chan[g].id
                             /\ chan[g].use # "closed" => chan'[g].use # "closed"
      BY <1>2 DEF Forgotten, NewChannel
    <3> QED
      BY <3>1 DEF Closers
  <2>3. Filed(h, file', id, sent'[id], Closers(id)') /\ h.start[1] = 0
    BY <1>2, <2>1, <2>2 DEF Packs
  <2>4. Reads(h, id)'
    BY <1>4, <2>3 DEF Reads
  <2> QED
    BY <2>4
<1> QED
  BY <1>6, <1>7 DEF ReadsOn

-----------------------------------------------------------------------------
(* Every step of both containers. *)

LEMMA ReadFileTapes ==
  ASSUME ContainersTyped, ReadsOn, ReadFile, ~unp'.ended, ~unp'.astray
  PROVE  ReadsOn'
<1>1. /\ ReadTyped /\ ReaderExact /\ file \in Seq(Frame) /\ UNCHANGED <<sent, chan>>
      /\ sent \in [ChannelIds -> Seq(Row)] /\ ReadStep
  BY DEF ContainersTyped, ListsInv, ReaderInv, PackTyped, ReadFile
<1>2. CASE ReadFrame
  BY <1>1, <1>2, FrameReads
<1>3. CASE LeaveBlock
  BY <1>1, <1>3, LeaveReads
<1>4. CASE ParseRecord \/ GenerateLine
  <2>1. unp.at \in LiveReaders /\ reader[unp.at].block # <<>> /\ Taken(unp.at)
    BY <1>1, <1>4, RecordTaken
  <2>2. PICK g \in LiveReaders : reader[g].block # <<>> /\ Taken(g)
    BY <2>1
  <2> QED
    BY <1>1, <2>2, RecordReads
<1> QED
  BY <1>1, <1>2, <1>3, <1>4 DEF ReadStep

(* Nothing is read or called once the reader has stopped or is lost. *)
LEMMA NothingAfter ==
  ASSUME ReadFile \/ UnpackCall
  PROVE  phase = "read" /\ phase' = "read" /\ ~unp.ended /\ ~unp.astray
BY Zenon DEF ReadFile, UnpackCall, ReadStep, ReadFrame, ReadDefine, ReadBlock, SkipBlock, ReadTorn,
       ReadTornDefine, ReadUntagged, ReadEnd, AtFrame, Reading, LeaveBlock, ParseRecord, GenerateLine, InBlock,
       UnpackCalls, SelectChannel, SelectRefused, CloseUnknown, DropReader, UnpackClose, Listing,
       Between

LEMMA SameTapes ==
  ASSUME ReadsOn, UNCHANGED cvars
  PROVE  ReadsOn'
<1>1. \A g \in LiveReaders' : g \in LiveReaders /\ reader'[g] = reader[g]
  BY DEF cvars, LiveReaders
<1>2. \A g \in LiveReaders' : reader'[g].block # <<>> => unp'.at = g
  BY <1>1 DEF ReadsOn, Orderly, cvars
<1>3. /\ file' \in {file, <<>>} /\ UNCHANGED <<got, sent, chan>> /\ unp'.by = unp.by
      /\ unp'.fresh => unp.fresh /\ unp'.at = NoReader
  BY DEF cvars, ReadsOn, Orderly
<1> QED
  BY <1>1, <1>2, <1>3, SameReads

LEMMA OnTapeInductive ==
  ASSUME ~LateSelect, ~SmallByGenerate, OnTape, [CNext]_cvars
  PROVE  OnTape'
<1>1. ContainersTyped /\ ContainersTyped'
  BY TypedInductive DEF OnTape
<1>2. ReadTyped /\ ReaderInv /\ PackTyped
  BY <1>1 DEF ContainersTyped, ListsInv
<1>3. CASE PackCall
  <2>1. Writes /\ Pristine /\ PackNext /\ UNCHANGED <<unp, reader, got, phase>> /\ phase = "write"
    BY <1>3 DEF PackCall, OnTape
  <2>2. Writes'
    BY <2>1, WritesInductive
  <2>3. Pristine'
    BY <2>1 DEF Pristine
  <2> QED
    BY <1>1, <2>1, <2>2, <2>3 DEF OnTape
<1>4. CASE Open
  <2>1. Writes /\ Pristine /\ phase' = "read"
    BY <1>4 DEF Open, PackerGone, OnTape
  <2>2. ~unp'.ended => ReadsOn'
    BY <1>2, <1>4, <2>1, OpenReads
  <2> QED
    BY <1>1, <2>1, <2>2 DEF OnTape
<1>5. CASE ReadFile
  <2>1. ReadsOn /\ phase' = "read"
    BY <1>5, NothingAfter DEF OnTape
  <2>2. ~unp'.ended /\ ~unp'.astray => ReadsOn'
    BY <1>1, <1>5, <2>1, ReadFileTapes
  <2> QED
    BY <1>1, <2>1, <2>2 DEF OnTape
<1>6. CASE UnpackCall
  <2>1. ReadsOn /\ phase' = "read"
    BY <1>6, NothingAfter DEF OnTape
  <2>2. UnpackCalls /\ UNCHANGED <<sent, chan>>
    BY <1>6 DEF UnpackCall
  <2>3. ~unp'.ended => ReadsOn'
    BY <1>2, <2>1, <2>2, CallsReads
  <2> QED
    BY <1>1, <2>1, <2>3 DEF OnTape
<1>7. CASE UNCHANGED cvars
  <2>1. phase = "write" => Writes' /\ Pristine'
    <3> SUFFICES ASSUME phase = "write" PROVE Writes' /\ Pristine'
      OBVIOUS
    <3>1. Writes /\ Pristine /\ UNCHANGED <<pack, chan, sent, file, unp, reader, got>>
      BY <1>7 DEF OnTape, cvars
    <3>2. Pristine'
      BY <3>1 DEF Pristine
    <3>3. Books' /\ \A id \in ChannelIds : Packed(id)'
      BY <3>1, QuietPacked DEF Writes
    <3>4. PackInv' /\ PackTyped'
      BY <1>1 DEF ContainersTyped, ListsInv
    <3> QED
      BY <3>2, <3>3, <3>4 DEF Writes
  <2>2. ReadsOn => ReadsOn'
    BY <1>7, SameTapes
  <2>3. phase' = phase /\ unp' = unp
    BY <1>7 DEF cvars
  <2> QED
    BY <1>1, <2>1, <2>2, <2>3 DEF OnTape
<1> QED
  BY <1>3, <1>4, <1>5, <1>6, <1>7 DEF CNext

LEMMA InitOnTape == CInit => OnTape
<1> SUFFICES ASSUME CInit PROVE OnTape
  OBVIOUS
<1>1. ContainersTyped
  BY InitPack, InitReader, InitPackTyped, InitReadTyped DEF CInit, ContainersTyped, ListsInv
<1>2. Writes
  BY InitWrites DEF CInit
<1>3. Pristine
  BY DEF CInit, UInit, Pristine, NewReader
<1> QED
  BY <1>1, <1>2, <1>3 DEF OnTape, CInit

LEMMA OnTapeAlways ==
  ASSUME ~LateSelect, ~SmallByGenerate
  PROVE  CSpec => []OnTape
<1>1. CInit => OnTape
  BY InitOnTape
<1>2. OnTape /\ [CNext]_cvars => OnTape'
  BY OnTapeInductive
<1> QED
  BY <1>1, <1>2, PTL DEF CSpec

-----------------------------------------------------------------------------
(* Where the reader gets lost. *)

LEMMA LostAt ==
  ASSUME ~LateSelect, ~SmallByGenerate, OnTape, [CNext]_cvars, unp'.astray, ~unp.astray
  PROVE  file # <<>> /\ Head(file).meta \in Broken
<1>1. ReadTyped /\ PackTyped
  BY DEF OnTape, ContainersTyped
<1>2. unp \in Unp
  BY <1>1 DEF ReadTyped
<1>3. ReadFile
  <2>1. CASE PackCall \/ UNCHANGED cvars
    BY <2>1 DEF PackCall, cvars
  <2>2. CASE Open
    <3>1. PICK by \in {"parse", "generate"}, header \in Headers : UnpackInit(by, header)
      BY <2>2 DEF Open
    <3> DEFINE e == (header # "good")
               s == (IF header = "good" THEN "OPENED" ELSE "ON_ERROR")
    <3>2. unp' = [unp EXCEPT !.by = by, !.ended = e, !.state = s]
      BY <3>1 DEF UnpackInit
    <3> HIDE DEF e, s
    <3> QED
      BY <1>2, <3>2 DEF Unp
  <2>3. CASE UnpackCall
    <3>1. CASE \E id \in ChannelIds : SelectChannel(id)
      <4> DEFINE l == unp.linked \cup {unp.next}
                 n == unp.next + 1
      <4>1. unp' = [unp EXCEPT !.linked = l, !.next = n]
        BY <3>1 DEF SelectChannel
      <4> HIDE DEF l, n
      <4> QED
        BY <1>2, <4>1 DEF Unp
    <3>2. CASE \E h \in Readers : DropReader(h)
      <4>1. PICK h \in Readers : unp' = [unp EXCEPT !.linked = @ \ {h}]
        BY <3>2 DEF DropReader
      <4> QED
        BY <1>2, <4>1 DEF Unp
    <3>3. CASE UnpackClose \/ \E id \in ChannelIds : SelectRefused(id) \/ CloseUnknown(id)
      BY <1>2, <3>3 DEF UnpackClose, SelectRefused, CloseUnknown, Unp
    <3> QED
      BY <2>3, <3>1, <3>2, <3>3 DEF UnpackCall, UnpackCalls
  <2> QED
    BY <2>1, <2>2, <2>3 DEF CNext
<1>4. ReadsOn /\ ReadStep /\ file \in Seq(Frame) /\ sent \in [ChannelIds -> Seq(Row)]
  BY <1>1, <1>3, NothingAfter DEF OnTape, ReadFile, PackTyped
<1>5. CASE ReadFrame
  <2>1. CASE ReadDefine \/ SkipBlock \/ ReadEnd
    BY <1>2, <2>1, UnpMoves DEF ReadDefine, SkipBlock, ReadEnd
  <2>2. CASE ReadBlock
    <3>1. PICK h : unp' = [unp EXCEPT !.fresh = FALSE, !.at = h, !.inCall = TRUE]
      BY <2>2 DEF ReadBlock
    <3> QED
      BY <1>2, <3>1 DEF Unp
  <2>3. CASE ReadTorn \/ ReadTornDefine \/ ReadUntagged
    BY <2>3 DEF ReadTorn, ReadTornDefine, ReadUntagged, AtFrame, Broken
  <2> QED
    BY <1>5, <2>1, <2>2, <2>3 DEF ReadFrame
<1>6. CASE LeaveBlock
  BY <1>2, <1>6 DEF LeaveBlock, Unp
<1>7. CASE ParseRecord \/ GenerateLine
  BY <1>1, <1>4, <1>7, RecordTaken DEF Taken
<1> QED
  BY <1>4, <1>5, <1>6, <1>7 DEF ReadStep

(***************************************************************************)
(* otic_unpack_parse and otic_unpack_generate leave defined ground only at *)
(* a frame that is torn or without its tag.  No record of a whole block    *)
(* refers outside its channel's dictionary: not after failed flushes, not  *)
(* after the id was defined again, and whatever blocks of other channels   *)
(* lie in between; as long as the list is not called between frames, and   *)
(* generate is not called on small integers.                               *)
(***************************************************************************)
THEOREM WholeBlocksNeverMislead ==
  ASSUME ~LateSelect, ~SmallByGenerate
  PROVE  CSpec => OnlyBadFramesMislead
<1>1. OnTape /\ [CNext]_cvars =>
        [unp'.astray /\ ~unp.astray => file # <<>> /\ Head(file).meta \in Broken]_cvars
  BY LostAt
<1> QED
  BY <1>1, OnTapeAlways, PTL DEF CSpec, OnlyBadFramesMislead

-----------------------------------------------------------------------------
(* The log of an id: its steps, in terms of the containers. *)

HasFinished(id) == \E h \in Readers : reader[h].id = id /\ reader[h].complete

LEMMA EndedByCloser ==
  ASSUME NEW id
  PROVE  HasEnded(id) <=> Closers(id) # {}
  BY DEF HasEnded, Closers

LEMMA LogStutters ==
  ASSUME NEW id \in ChannelIds, sent'[id] = sent[id], got'[id] = got[id],
         HasEnded(id)' <=> HasEnded(id), HasFinished(id)' <=> HasFinished(id)
  PROVE  UNCHANGED (Log(id)!lvars)
<1>1. HasEnded(id)' = HasEnded(id)
  BY DEF HasEnded
<1>2. HasFinished(id)' = HasFinished(id)
  BY DEF HasFinished
<1> QED
  BY <1>1, <1>2 DEF Log!lvars, HasFinished

LEMMA LogAppends ==
  ASSUME NEW id \in ChannelIds, sent[id] \in Seq(Row), NEW row \in Row,
         sent'[id] = Append(sent[id], row), got'[id] = got[id],
         ~HasEnded(id), ~HasEnded(id)', HasFinished(id)' <=> HasFinished(id)
  PROVE  Log(id)!LNext
<1>1. HasEnded(id)' = HasEnded(id)
  BY DEF HasEnded
<1>2. HasFinished(id)' = HasFinished(id)
  BY DEF HasFinished
<1> DEFINE s == sent[id]
           t == sent'[id]
<1>3. s \in Seq(Row) /\ t = Append(s, row)
  OBVIOUS
<1> HIDE DEF s, t
<1>4. Len(t) = Len(s) + 1 /\ t[Len(t)] \in Row
  BY <1>3
<1>5. SubSeq(t, 1, Len(s)) = s
  BY <1>3
<1> USE DEF s, t
<1>6. Log(id)!AppendRow
  BY <1>1, <1>2, <1>4, <1>5 DEF Log!AppendRow, HasFinished
<1> QED
  BY <1>6 DEF Log!LNext

LEMMA LogCloses ==
  ASSUME NEW id \in ChannelIds, sent'[id] = sent[id], got'[id] = got[id],
         ~HasEnded(id), HasEnded(id)', HasFinished(id)' <=> HasFinished(id)
  PROVE  Log(id)!LNext
<1>1. HasEnded(id)' = TRUE
  BY DEF HasEnded
<1>2. HasFinished(id)' = HasFinished(id)
  BY DEF HasFinished
<1>3. Log(id)!CloseLog
  BY <1>1, <1>2 DEF Log!CloseLog, HasFinished
<1> QED
  BY <1>3 DEF Log!LNext

LEMMA LogDelivers ==
  ASSUME NEW id \in ChannelIds, sent'[id] = sent[id], got[id] \in Seq(Delivery),
         Len(got[id]) < Len(sent[id]),
         got'[id] = Append(got[id], sent[id][Len(got[id]) + 1]),
         HasEnded(id)' <=> HasEnded(id), HasFinished(id)' <=> HasFinished(id)
  PROVE  Log(id)!LNext
<1>1. HasEnded(id)' = HasEnded(id)
  BY DEF HasEnded
<1>2. HasFinished(id)' = HasFinished(id)
  BY DEF HasFinished
<1> DEFINE o == got[id]
           row == sent[id][Len(got[id]) + 1]
<1>3. o \in Seq(Delivery) /\ got'[id] = Append(o, row)
  OBVIOUS
<1> HIDE DEF o, row
<1>4. Len(Append(o, row)) = Len(o) + 1
  BY <1>3
<1>5. Len(got'[id]) = Len(got[id]) + 1
  BY <1>3, <1>4 DEF o
<1>6. Log(id)!Deliver
  BY <1>1, <1>2, <1>5 DEF Log!Deliver, HasFinished
<1> QED
  BY <1>6 DEF Log!LNext

LEMMA LogFinishes ==
  ASSUME NEW id \in ChannelIds, sent'[id] = sent[id], got'[id] = got[id],
         Len(got[id]) = Len(sent[id]), HasEnded(id), HasEnded(id)', HasFinished(id)'
  PROVE  Log(id)!LNext
<1>1. HasEnded(id)' = HasEnded(id)
  BY DEF HasEnded
<1>2. HasFinished(id)' = TRUE
  BY DEF HasFinished
<1>3. Log(id)!Finish
  BY <1>1, <1>2 DEF Log!Finish, HasFinished
<1> QED
  BY <1>3 DEF Log!LNext

(* A step of the packer is heard of in the log of an id if it appends a row or closes it. *)
LEMMA PackLog ==
  ASSUME PackInv, PackTyped, Books, ~Reopen, PackNext, NEW id \in ChannelIds
  PROVE  \/ sent'[id] = sent[id] /\ (HasEnded(id) => HasEnded(id)')
         \/ /\ ~HasEnded(id) /\ ~HasEnded(id)'
            /\ \E row \in Row : sent'[id] = Append(sent[id], row)
<1>0. ASSUME \A h \in Handles : chan[h].use = "closed" => chan'[h].use = "closed" /\ chan'[h].id = chan[h].id
      PROVE  HasEnded(id) => HasEnded(id)'
  BY <1>0 DEF HasEnded
<1>1. ASSUME NEW g \in Handles, NEW t \in Times, NEW n \in Sensors, NEW v \in Numbers, Inject(g, t, n, v)
      PROVE  \/ sent'[id] = sent[id] /\ (HasEnded(id) => HasEnded(id)')
             \/ /\ ~HasEnded(id) /\ ~HasEnded(id)'
                /\ \E row \in Row : sent'[id] = Append(sent[id], row)
  <2> DEFINE row == [time |-> t, sensor |-> n, value |-> v]
  <2>1. g \in Live /\ chan[g].use = "live" /\ chan[g].id \in ChannelIds
    BY <1>1 DEF Inject, Live, PackTyped
  <2>3. row \in Row /\ sent' = [sent EXCEPT ![chan[g].id] = Append(sent[chan[g].id], row)]
    BY <1>1 DEF Inject, Row
  <2> HIDE DEF row
  <2>4. PICK w : WorkTyped(chan[g], w) /\ Leaves(g, w)
    BY <1>1, WorkOf DEF Working
  <2>5. PICK d : chan' = [chan EXCEPT ![g] = d] /\ d.use = "live" /\ d.id = chan[g].id
    BY <2>1, <2>4 DEF WorkTyped, Leaves
  <2>6. \A h \in Handles : chan'[h] = IF h = g THEN d ELSE chan[h]
    BY <2>5 DEF PackTyped
  <2>7. Closers(id)' = Closers(id)
    BY <2>1, <2>5, <2>6 DEF Closers
  <2>8. HasEnded(id)' <=> HasEnded(id)
    BY <2>7, EndedByCloser DEF HasEnded, Closers
  <2>9. CASE id = chan[g].id
    <3>1. ~HasEnded(id)
      BY <2>1, <2>9, NoCloser, EndedByCloser
    <3>2. sent'[id] = Append(sent[id], row)
      BY <2>3, <2>9 DEF PackTyped
    <3> QED
      BY <2>3, <2>8, <3>1, <3>2
  <2>10. CASE id # chan[g].id
    BY <2>3, <2>8, <2>10 DEF PackTyped
  <2> QED
    BY <2>9, <2>10
<1>2. ASSUME NEW g \in Handles,
             \/ \E t \in Times, state \in {"ON_ERROR", "CLOSED"} : InjectRefused(g, t, state)
             \/ ChannelFlush(g) \/ ChannelClose(g)
      PROVE  sent' = sent /\ (HasEnded(id) => HasEnded(id)')
  <2>1. g \in Live /\ sent' = sent /\ \E d : chan' = [chan EXCEPT ![g] = d]
    <3>1. CASE ChannelClose(g)
      BY <3>1 DEF ChannelClose
    <3>2. CASE ~ChannelClose(g)
      <4>1. Working(g) /\ sent' = sent
        BY Zenon, <1>2, <3>2 DEF Working, InjectRefused, ChannelFlush
      <4> QED
        BY <4>1, WorkOf DEF Leaves
    <3> QED
      BY <3>1, <3>2
  <2>2. \A h \in Handles : chan[h].use = "closed" => chan'[h] = chan[h]
    BY <2>1 DEF PackTyped, Live
  <2> QED
    BY <1>0, <2>1, <2>2
<1>3. ASSUME NEW new \in Ids, DefineChannel(new)
      PROVE  sent' = sent /\ (HasEnded(id) => HasEnded(id)')
  <2>1. /\ pack.next \in Handles /\ sent' = sent
        /\ chan' = [chan EXCEPT ![pack.next] = NewChannel(new, "live")]
    BY <1>3 DEF DefineChannel
  <2>2. chan[pack.next].use = "unused"
    <3>1. pack.next >= pack.next
      BY <2>1 DEF Handles
    <3> QED
      BY <2>1, <3>1 DEF PackInv
  <2>3. \A h \in Handles : chan[h].use = "closed" => chan'[h] = chan[h]
    BY <2>1, <2>2 DEF PackTyped
  <2> QED
    BY <1>0, <2>1, <2>3
<1>4. ASSUME NEW old \in Ids, DefineRefused(old) \/ CloseChannel(old)
      PROVE  sent' = sent /\ (HasEnded(id) => HasEnded(id)')
  <2>1. CASE DefineRefused(old)
    BY <1>0, <2>1 DEF DefineRefused
  <2>2. CASE CloseChannel(old)
    <3>1. /\ Walkable /\ sent' = sent
          /\ chan' = [h \in Handles |-> IF h \in pack.linked /\ chan[h].id = old
                                        THEN [chan[h] EXCEPT !.use = "dropped"] ELSE chan[h]]
      BY <2>2 DEF CloseChannel
    <3>2. \A h \in Handles : chan[h].use = "closed" => h \notin pack.linked
      BY <3>1 DEF Walkable, Live
    <3>3. \A h \in Handles : chan[h].use = "closed" => chan'[h] = chan[h]
      BY <3>1, <3>2
    <3> QED
      BY <1>0, <3>1, <3>3
  <2> QED
    BY <1>4, <2>1, <2>2
<1>5. CASE PackFlush
  <2>1. sent' = sent
    BY Zenon, <1>5 DEF PackFlush
  <2>2. \A h \in Handles : Drained(chan[h], chan'[h])
    BY <1>5, PackFlushFrames
  <2> QED
    BY <1>0, <2>1, <2>2 DEF Drained
<1>6. CASE PackClose
  <2>1. PICK r \in [pack.linked -> FlushResults] :
          chan' = [h \in Handles |-> IF h \in pack.linked THEN ChannelClosed(chan[h], r[h]) ELSE chan[h]]
    BY Zenon, <1>6 DEF PackClose
  <2>2. Walkable /\ sent' = sent
    BY Zenon, <1>6 DEF PackClose
  <2>3. \A h \in Handles : chan[h].use = "closed" => h \notin pack.linked
    BY <2>2 DEF Walkable, Live
  <2>4. \A h \in Handles : chan[h].use = "closed" => chan'[h] = chan[h]
    BY <2>1, <2>3
  <2> QED
    BY <1>0, <2>2, <2>4
<1>7. CASE ClearErrorFlag
  BY <1>0, <1>7 DEF ClearErrorFlag
<1> QED
  BY <1>1, <1>2, <1>3, <1>4, <1>5, <1>6, <1>7 DEF PackNext

(* A record read is a row of its id's log handed over, the end of the log, or nothing of it. *)
LEMMA RecordLog ==
  ASSUME ReadTyped, PackTyped, ReadsOn, ~Reopen, NEW g \in LiveReaders, reader[g].block # <<>>,
         Taken(g), UNCHANGED <<sent, chan>>, NEW id \in ChannelIds
  PROVE  Log(id)!LNext \/ UNCHANGED (Log(id)!lvars)
<1> DEFINE c == reader[g]
           r == Head(c.block)
           d == After(c, r)
           rows == Delivered(c, r)
<1>1. /\ c \in ReadChan /\ r \in Record /\ c.id \in ChannelIds /\ g \in Readers
      /\ Defined(c, r) /\ Recounts(sent[c.id], Closers(c.id), r, Learnt(c))
      /\ Len(got[c.id]) = c.rowCounter
  BY AtHand DEF LiveReaders, PackTyped
<1>2. /\ d.id = c.id
      /\ d.complete = IF r.rec = "EOF" /\ r.count = c.rowCounter THEN TRUE ELSE c.complete
  BY <1>1, AfterTyped
<1>3. /\ reader' = [reader EXCEPT ![g] = d] /\ got' = [got EXCEPT ![c.id] = @ \o rows]
  BY DEF Taken
<1>4. HasEnded(id)' <=> HasEnded(id)
  BY DEF HasEnded
<1>5. /\ r.rec # "ROW" => rows = <<>>
      /\ r.rec = "ROW" => rows = <<Decoded(r, Learnt(c))>>
  BY <1>1, DeliveredTyped DEF Decoded, Learnt
<1>6. /\ Learnt(c).rows = c.rowCounter
      /\ r.rec = "ROW" => c.rowCounter < Len(sent[c.id])
                          /\ sent[c.id][c.rowCounter + 1] = Decoded(r, Learnt(c))
      /\ r.rec = "EOF" => Closers(c.id) # {} /\ r.count = Len(sent[c.id])
  <2>1. Learnt(c).rows = c.rowCounter
    BY DEF Learnt
  <2> QED
    BY <1>1, <2>1 DEF Recounts
<1>7. got[id] \in Seq(Delivery) /\ got[c.id] \in Seq(Delivery)
  BY <1>1 DEF ReadTyped
<1> HIDE DEF d, rows, r
<1>8. /\ \A i \in Readers : reader'[i] = IF i = g THEN d ELSE reader[i]
      /\ \A i \in ChannelIds : got'[i] = IF i = c.id THEN got[i] \o rows ELSE got[i]
  BY <1>3 DEF ReadTyped
<1>9. CASE id # c.id
  <2>1. HasFinished(id)' <=> HasFinished(id)
    BY <1>1, <1>2, <1>8, <1>9 DEF HasFinished
  <2> QED
    BY <1>4, <1>8, <1>9, <2>1, LogStutters
<1>10. CASE id = c.id /\ r.rec = "ROW"
  <2>1. HasFinished(id)' <=> HasFinished(id)
    BY <1>1, <1>2, <1>8, <1>10 DEF HasFinished
  <2> DEFINE o == got[id]
             row == Decoded(r, Learnt(c))
  <2>2. o \in Seq(Delivery) /\ got'[id] = o \o <<row>>
    BY <1>5, <1>7, <1>8, <1>10
  <2> HIDE DEF o, row
  <2>3. got'[id] = Append(o, row)
    BY <2>2, AppendProperties
  <2>4. Len(got[id]) < Len(sent[id]) /\ sent[id][Len(got[id]) + 1] = row
    BY <1>1, <1>6, <1>10 DEF row
  <2> QED
    BY <1>4, <1>7, <2>1, <2>3, <2>4, LogDelivers DEF o
<1>11. CASE id = c.id /\ r.rec # "ROW"
  <2>1. got'[id] = got[id]
    <3> DEFINE o == got[id]
    <3>1. o \in Seq(Delivery) /\ got'[id] = o \o <<>>
      BY <1>5, <1>7, <1>8, <1>11
    <3> HIDE DEF o
    <3>2. o \o <<>> = o
      BY <3>1
    <3> QED
      BY <3>1, <3>2 DEF o
  <2>2. CASE r.rec = "EOF" /\ r.count = c.rowCounter
    <3>1. d.complete /\ d.id = id
      BY <1>2, <1>11, <2>2
    <3>2. HasFinished(id)'
      BY <1>1, <1>8, <3>1 DEF HasFinished
    <3>3. HasEnded(id) /\ Len(got[id]) = Len(sent[id])
      BY <1>1, <1>6, <1>11, <2>2, EndedByCloser
    <3> QED
      BY <1>4, <2>1, <3>2, <3>3, LogFinishes
  <2>3. CASE ~(r.rec = "EOF" /\ r.count = c.rowCounter)
    <3>1. d.complete = c.complete
      BY <1>2, <2>3
    <3>2. HasFinished(id)' <=> HasFinished(id)
      BY <1>1, <1>2, <1>8, <3>1 DEF HasFinished
    <3> QED
      BY <1>4, <2>1, <3>2, LogStutters
  <2> QED
    BY <2>2, <2>3
<1> QED
  BY <1>9, <1>10, <1>11

(* A frame taken off the file, and a call between two frames, are nothing of any log. *)
LEMMA FrameLog ==
  ASSUME ReadTyped, ReadFrame \/ LeaveBlock, UNCHANGED <<sent, chan>>, NEW id \in ChannelIds
  PROVE  UNCHANGED (Log(id)!lvars)
<1>1. got' = got
  BY Zenon DEF ReadFrame, LeaveBlock, ReadDefine, ReadBlock, SkipBlock, ReadTorn, ReadTornDefine,
               ReadUntagged, ReadEnd
<1>2. \A h \in Readers : reader'[h].id = reader[h].id /\ reader'[h].complete = reader[h].complete
  <2>1. CASE ReadDefine
    <3>1. \A c \in ReadChan : LET d == [c EXCEPT !.state = "OPENED"]
                              IN  d.id = c.id /\ d.complete = c.complete
      BY DEF ReadChan
    <3>2. reader' = [h \in Readers |-> IF h \in FoundFor(Head(file).id)
                                       THEN [reader[h] EXCEPT !.state = "OPENED"] ELSE reader[h]]
      BY <2>1 DEF ReadDefine
    <3> QED
      BY <3>1, <3>2 DEF ReadTyped
  <2>2. CASE ReadBlock
    <3>1. PICK g : reader' = [reader EXCEPT ![g].block = Head(file).block]
      BY <2>2 DEF ReadBlock
    <3>2. \A c \in ReadChan : \A b : LET d == [c EXCEPT !.block = b]
                                     IN  d.id = c.id /\ d.complete = c.complete
      BY DEF ReadChan
    <3> QED
      BY <3>1, <3>2 DEF ReadTyped
  <2>3. CASE reader' = reader
    BY <2>3
  <2> QED
    BY <2>1, <2>2, <2>3 DEF ReadFrame, LeaveBlock, SkipBlock, ReadTorn, ReadTornDefine, ReadUntagged,
                            ReadEnd
<1>3. HasFinished(id)' <=> HasFinished(id)
  BY <1>2 DEF HasFinished
<1>4. HasEnded(id)' <=> HasEnded(id)
  BY DEF HasEnded
<1> QED
  BY <1>1, <1>3, <1>4, LogStutters

LEMMA CallLog ==
  ASSUME ReadTyped, ReaderInv, UnpackCalls, UNCHANGED <<sent, chan>>, NEW id \in ChannelIds
  PROVE  UNCHANGED (Log(id)!lvars)
<1>1. got' = got
  BY DEF UnpackCalls, SelectChannel, SelectRefused, CloseUnknown, DropReader, UnpackClose
<1>2. \A c \in ReadChan : Freed(c).id = c.id /\ Freed(c).complete = c.complete
  BY DEF Freed, NewReader
<1>3. HasFinished(id)' <=> HasFinished(id)
  <2>1. CASE \E new \in ChannelIds : SelectChannel(new)
    <3>1. PICK new \in ChannelIds : SelectChannel(new)
      BY <2>1
    <3> DEFINE g == unp.next
               c == NewReader(new, "live")
    <3>2. g \in Readers /\ reader' = [reader EXCEPT ![g] = c] /\ ~c.complete
      BY <3>1 DEF SelectChannel, Listing, NewReader
    <3>3. ~reader[g].complete
      <4>1. g >= g
        BY <3>2 DEF Readers
      <4> QED
        BY <3>2, <4>1 DEF ReaderInv, ReadTyped
    <3> HIDE DEF g, c
    <3>4. \A h \in Readers : reader'[h] = IF h = g THEN c ELSE reader[h]
      BY <3>2 DEF ReadTyped
    <3> QED
      BY <3>2, <3>3, <3>4 DEF HasFinished
  <2>2. CASE ~\E new \in ChannelIds : SelectChannel(new)
    <3>1. \A h \in Readers : reader'[h] = reader[h] \/ reader'[h] = Freed(reader[h])
      <4>1. CASE \E h \in Readers : DropReader(h)
        BY <4>1 DEF DropReader, ReadTyped
      <4>2. CASE UnpackClose
        BY <4>2 DEF UnpackClose
      <4>3. CASE \E i \in ChannelIds : SelectRefused(i) \/ CloseUnknown(i)
        BY <4>3 DEF SelectRefused, CloseUnknown
      <4> QED
        BY <2>2, <4>1, <4>2, <4>3 DEF UnpackCalls
    <3>2. \A h \in Readers : reader'[h].id = reader[h].id /\ reader'[h].complete = reader[h].complete
      BY <1>2, <3>1 DEF ReadTyped
    <3> QED
      BY <3>2 DEF HasFinished
  <2> QED
    BY <2>1, <2>2
<1>4. HasEnded(id)' <=> HasEnded(id)
  BY DEF HasEnded
<1> QED
  BY <1>1, <1>3, <1>4, LogStutters

LEMMA LogStep ==
  ASSUME ~Reopen, ~LateSelect, ~SmallByGenerate, OnTape, [CNext]_cvars, NEW id \in ChannelIds
  PROVE  [Log(id)!LNext]_(Log(id)!lvars)
<1>1. ReadTyped /\ ReaderInv /\ PackTyped /\ PackInv
  BY DEF OnTape, ContainersTyped, ListsInv
<1>2. CASE PackCall
  <2>1. Writes /\ PackNext /\ UNCHANGED <<reader, got>>
    BY <1>2 DEF PackCall, OnTape
  <2>2. HasFinished(id)' <=> HasFinished(id)
    BY <2>1 DEF HasFinished
  <2>3. \/ sent'[id] = sent[id] /\ (HasEnded(id) => HasEnded(id)')
        \/ /\ ~HasEnded(id) /\ ~HasEnded(id)'
           /\ \E row \in Row : sent'[id] = Append(sent[id], row)
    BY <1>1, <2>1, PackLog DEF Writes
  <2>4. sent[id] \in Seq(Row) /\ got'[id] = got[id]
    BY <1>1, <2>1 DEF PackTyped
  <2>5. CASE sent'[id] = sent[id] /\ (HasEnded(id)' <=> HasEnded(id))
    BY <2>2, <2>4, <2>5, LogStutters
  <2>6. CASE sent'[id] = sent[id] /\ ~HasEnded(id) /\ HasEnded(id)'
    BY <2>2, <2>4, <2>6, LogCloses
  <2>7. CASE /\ ~HasEnded(id) /\ ~HasEnded(id)'
             /\ \E row \in Row : sent'[id] = Append(sent[id], row)
    BY <2>2, <2>4, <2>7, LogAppends
  <2> QED
    BY <2>3, <2>5, <2>6, <2>7
<1>3. CASE Open
  <2>1. /\ UNCHANGED <<sent, reader, got>>
        /\ chan' = [g \in Handles |-> Forgotten(chan[g])]
    BY <1>3 DEF Open, PackerGone, UnpackInit
  <2>2. \A g \in Handles : /\ chan[g].use = "closed" => chan'[g].use = "closed" /\ chan'[g].id = chan[g].id
                           /\ chan[g].use # "closed" => chan'[g].use # "closed"
    BY <2>1 DEF Forgotten, NewChannel
  <2>3. (HasEnded(id)' <=> HasEnded(id)) /\ (HasFinished(id)' <=> HasFinished(id))
    BY <2>1, <2>2 DEF HasEnded, HasFinished
  <2> QED
    BY <2>1, <2>3, LogStutters
<1>4. CASE ReadFile
  <2>1. ReadsOn /\ ReadStep /\ UNCHANGED <<sent, chan>>
    BY <1>4, NothingAfter DEF OnTape, ReadFile
  <2>2. CASE ReadFrame \/ LeaveBlock
    BY <1>1, <2>1, <2>2, FrameLog
  <2>3. CASE ParseRecord \/ GenerateLine
    <3>1. unp.at \in LiveReaders /\ reader[unp.at].block # <<>> /\ Taken(unp.at)
      BY <1>1, <2>1, <2>3, RecordTaken DEF PackTyped
    <3>2. PICK g \in LiveReaders : reader[g].block # <<>> /\ Taken(g)
      BY <3>1
    <3> QED
      BY <1>1, <2>1, <3>2, RecordLog
  <2> QED
    BY <2>1, <2>2, <2>3 DEF ReadStep
<1>5. CASE UnpackCall
  BY <1>1, <1>5, CallLog DEF UnpackCall
<1>6. CASE UNCHANGED cvars
  <2>1. UNCHANGED <<sent, got, chan, reader>>
    BY <1>6 DEF cvars
  <2>2. (HasEnded(id)' <=> HasEnded(id)) /\ (HasFinished(id)' <=> HasFinished(id))
    BY <2>1 DEF HasEnded, HasFinished
  <2> QED
    BY <2>1, <2>2, LogStutters
<1> QED
  BY <1>2, <1>3, <1>4, <1>5, <1>6 DEF CNext

(***************************************************************************)
(* Each channel id of pack.c and unpack.c is a log of its own: the rows    *)
(* accepted for it are handed over for it, unchanged, in order, none twice *)
(* and none skipped, and its EOF record is accepted only behind the last   *)
(* of them.  This holds through failed writes of every channel, closes and *)
(* refused calls in any order and all interleavings of the frames, however *)
(* many there are; as long as no id is defined twice, the reader's list is *)
(* not called between frames, and generate is not called on small          *)
(* integers.                                                               *)
(***************************************************************************)
THEOREM EachIdIsALog ==
  ASSUME ~Reopen, ~LateSelect, ~SmallByGenerate
  PROVE  CSpec => EachIsALog
<1>1. CInit => \A id \in ChannelIds : Log(id)!LInit
  <2> SUFFICES ASSUME CInit, NEW id \in ChannelIds PROVE Log(id)!LInit
    OBVIOUS
  <2>1. sent[id] = <<>> /\ got[id] = <<>> /\ Len(got[id]) = 0
    BY DEF CInit, PackInit, UInit
  <2>2. ~HasEnded(id) /\ ~HasFinished(id)
    BY DEF CInit, PackInit, UInit, HasEnded, HasFinished, NewChannel, NewReader
  <2>3. HasEnded(id) = FALSE /\ HasFinished(id) = FALSE
    BY <2>2 DEF HasEnded, HasFinished
  <2> QED
    BY <2>1, <2>3 DEF Log!LInit, HasFinished
<1>2. OnTape /\ [CNext]_cvars => [\A id \in ChannelIds : [Log(id)!LNext]_(Log(id)!lvars)]_cvars
  BY LogStep
<1> QED
  BY <1>1, <1>2, OnTapeAlways, PTL DEF CSpec, EachIsALog

=============================================================================
