------------------------- MODULE PackChannelProofs -------------------------
(***************************************************************************)
(* The packing channel's type invariant and the bound on its bucket, for   *)
(* every value of the constants.  The handlers are compositions of a few   *)
(* transformers of the channel's record (Put, ChannelFlushed, TsHandler,   *)
(* MadeRoom, WriteRow), and so is the proof: one lemma per transformer     *)
(* says what it asks of the record and what it leaves behind; an action is *)
(* the lemmas in the order of its calls.                                   *)
(***************************************************************************)
EXTENDS PackChannel, FiniteSetTheorems, TLAPS

(* How many bytes past its threshold the bucket of s may reach: k. *)
Disturbed(s) == s.flushFailed \/ s.squeezed
Within(s, k) == Disturbed(s) \/ (s.used <= s.threshold + k /\ ~s.overrun)

(* What no transformer changes or breaks. *)
Geometry(s) == s.cacheSize > MinBucket /\ s.threshold = s.cacheSize - TopLimit
Sticks(s) == s.flushFailed => s.state # "OPENED"
Formed(s) == s \in Channel /\ Geometry(s) /\ Sticks(s)

(* What the steps before a row's value leave alone. *)
Kept(s, r) ==
  /\ r.cache = s.cache /\ r.totalEntries = s.totalEntries
  /\ r.rowCounter = s.rowCounter /\ r.threshold = s.threshold

(* The inductive invariants: shapes first, then the room in the bucket. *)
IInv == TypeOK /\ Geometry(pk) /\ Sticks(pk)
RoomInv == IInv /\ Within(pk, 0)

(* The longest raw buffer the reserve has room for behind a new name. *)
RawFits == \A v \in Values : v.type = "RAWBUFFER" => v.size <= 243

-----------------------------------------------------------------------------
(* Sizes. *)

(* The counter of indices: at least one value, and no more than IndexLimit. *)
LEMMA IndexModType == IndexMod \in Nat /\ IndexMod > 0 /\ IndexMod <= IndexLimit /\ IndexLimit \in Nat
<1>1. IndexLimit \in Nat
  BY SMT DEF IndexLimit
<1> QED
  BY <1>1, BaseAssumption

(* A number takes one to ten bytes, an index at most three. *)
LEMMA LebBound ==
  ASSUME NEW n \in Nat
  PROVE  /\ LebLen(n) \in 1 .. 10
         /\ n < IndexLimit => LebLen(n) \in 1 .. 3
  BY SMT DEF LebLen, LebLow, LebBlock, IndexLimit

(* The record of a timestamp, of a row count or of an index. *)
LEMMA ArgSize ==
  ASSUME NEW n \in Nat
  PROVE  /\ ArgTokenSize(n) \in 2 .. 11
         /\ n < IndexLimit => ArgTokenSize(n) \in 2 .. 4
  BY LebBound DEF ArgTokenSize

(* A value's record: a string's bytes come on top of at most fourteen. *)
LEMMA ValueSize ==
  ASSUME NEW i \in 0 .. IndexMod - 1, NEW v \in Values
  PROVE  /\ ValueTokenSize(i, v) \in Nat
         /\ RawFits /\ v.type # "STRING" => ValueTokenSize(i, v) <= 255
         /\ v.type = "STRING" => ValueTokenSize(i, v) <= v.size + 14
<1>1. i \in Nat /\ i < IndexLimit /\ v \in Value
  BY BaseAssumption, IndexModType
<1>2. ArgTokenSize(i) \in 2 .. 4
  BY <1>1, ArgSize
<1>3. v.val \in Nat /\ v.size \in Nat /\ LebLen(v.val) \in 1 .. 10 /\ LebLen(v.size) \in 1 .. 10
  BY <1>1, LebBound DEF Value
<1>4. CASE v.type = "STRING"
  BY <1>2, <1>3, <1>4 DEF ValueTokenSize, PayloadSize, IntTypes
<1>5. CASE v.type = "RAWBUFFER"
  <2>1. PayloadSize(v) = 8 + v.size
    BY <1>3, <1>5 DEF PayloadSize, IntTypes
  <2>2. RawFits => v.size <= 243
    BY <1>5 DEF RawFits
  <2> QED
    BY <1>2, <1>3, <1>5, <2>1, <2>2 DEF ValueTokenSize
<1>6. CASE v.type \notin {"STRING", "RAWBUFFER"}
  <2>1. PayloadSize(v) \in 0 .. 10
    BY <1>3, <1>6 DEF PayloadSize, IntTypes
  <2> QED
    BY <1>2, <1>6, <2>1 DEF ValueTokenSize
<1> QED
  BY <1>4, <1>5, <1>6

(* A name that was not rejected takes at most 257 bytes. *)
LEMMA NameSizeBound ==
  ASSUME NEW n \in Names, NEW u \in Units
  PROVE  /\ NameTokenSize(n, u) \in Nat
         /\ NameSize(n, u) <= Uint8Max => NameTokenSize(n, u) <= 257
<1>1. NameLen[n] \in Nat /\ UnitLen[u] \in Nat
  BY BaseAssumption
<1> QED
  BY <1>1 DEF NameTokenSize, NameSize, Uint8Max

-----------------------------------------------------------------------------
(* The transformers. *)

(* Writing n bytes keeps the record formed and spends n bytes of room. *)
LEMMA PutFormed ==
  ASSUME NEW s, Formed(s), NEW t \in Token, NEW n \in Nat
  PROVE  /\ Formed(Put(s, t, n)) /\ Kept(s, Put(s, t, n))
         /\ Put(s, t, n).used = s.used + n
         /\ Disturbed(Put(s, t, n)) <=> Disturbed(s)
         /\ \A k \in Nat : Within(s, k) /\ (Disturbed(s) \/ s.used + n <= s.threshold + TopLimit)
                             => Within(Put(s, t, n), TopLimit)
<1> DEFINE p == Put(s, t, n)
<1>1. s \in Channel /\ s.used \in Nat /\ s.cacheSize \in Nat /\ s.bucket \in Seq(Token)
  BY DEF Formed, Channel
<1>2. p \in Channel
  <2>1. Append(s.bucket, t) \in Seq(Token) /\ s.used + n \in Nat
    BY <1>1
  <2> QED
    BY <1>1, <2>1 DEF Put, Channel
<1>3. Geometry(p) /\ Sticks(p)
  BY <1>1 DEF Formed, Geometry, Sticks, Put, Channel
<1>4. /\ p.used = s.used + n /\ p.threshold = s.threshold /\ p.cache = s.cache
      /\ p.totalEntries = s.totalEntries /\ p.rowCounter = s.rowCounter
      /\ p.flushFailed = s.flushFailed /\ p.squeezed = s.squeezed
      /\ p.overrun = (s.overrun \/ s.used + n > s.cacheSize)
  BY <1>1 DEF Put, Channel
<1>5. ASSUME NEW k \in Nat, Within(s, k),
             Disturbed(s) \/ s.used + n <= s.threshold + TopLimit
      PROVE  Within(p, TopLimit)
  <2>1. CASE Disturbed(s)
    BY <1>4, <2>1 DEF Within, Disturbed
  <2>2. CASE ~Disturbed(s)
    <3>1. s.used + n <= s.threshold + TopLimit /\ ~s.overrun
      BY <1>5, <2>2 DEF Within
    <3>2. ~(s.used + n > s.cacheSize)
      BY <1>1, <3>1 DEF Formed, Geometry, TopLimit, MinBucket
    <3>3. ~p.overrun
      BY <1>4, <3>1, <3>2
    <3> QED
      BY <1>4, <3>1, <3>3 DEF Within
  <2> QED
    BY <2>1, <2>2
<1> QED
  BY <1>2, <1>3, <1>4, <1>5 DEF Formed, Disturbed, Kept

(* From the state a call starts in, a record as long as the reserve fits. *)
LEMMA PutCalm ==
  ASSUME NEW s, Formed(s), NEW t \in Token, NEW n \in 0 .. TopLimit
  PROVE  /\ Formed(Put(s, t, n)) /\ Kept(s, Put(s, t, n))
         /\ Within(s, 0) => Within(Put(s, t, n), TopLimit)
<1>1. n \in Nat /\ n <= TopLimit /\ 0 \in Nat /\ s.used \in Nat /\ s.threshold \in Nat
  BY DEF TopLimit, Formed, Channel
<1>2. Within(s, 0) => Disturbed(s) \/ s.used + n <= s.threshold + TopLimit
  BY <1>1 DEF Within, TopLimit
<1>3. Formed(Put(s, t, n)) /\ Kept(s, Put(s, t, n))
  BY <1>1, PutFormed
<1>4. ASSUME Within(s, 0) PROVE Within(Put(s, t, n), TopLimit)
  BY <1>1, <1>2, <1>4, PutFormed
<1> QED
  BY <1>3, <1>4

Spilled(s) == s.spilled \/ MaySpill(s)

(***************************************************************************)
(* A flush that works empties the bucket; one that fails disturbs the      *)
(* channel.  Either way there is as much room as a call starts with.       *)
(***************************************************************************)
LEMMA FlushedFormed ==
  ASSUME NEW s, Formed(s), NEW r \in FlushResults
  PROVE  /\ Formed(ChannelFlushed(s, r)) /\ Kept(s, ChannelFlushed(s, r))
         /\ r = "ok" => ChannelFlushed(s, r).used = 0
         /\ \A k \in Nat : Within(s, k) => Within(ChannelFlushed(s, r), 0)
<1> DEFINE f == ChannelFlushed(s, r)
<1>1. /\ s \in Channel /\ s.used \in Nat /\ s.cacheSize \in Nat /\ s.bucket \in Seq(Token)
      /\ s.sent \in Seq(Frame) /\ s.overrun \in BOOLEAN
  BY DEF Formed, Channel
<1>4. Spilled(s) \in BOOLEAN
  BY <1>1 DEF Spilled, Channel, MaySpill
<1>2. CASE r = "ok"
  <2> DEFINE d == DataFrame(s.bucket, s.used, s.cacheSize)
  <2>1. d \in Frame
    BY <1>1 DEF DataFrame, Frame
  <2>2. Append(s.sent, d) \in Seq(Frame) /\ <<>> \in Seq(Token)
    BY <1>1, <2>1
  <2>3. f = [s EXCEPT !.sent = Append(s.sent, d), !.bucket = <<>>, !.used = 0,
                      !.spilled = Spilled(s)]
    BY <1>2 DEF ChannelFlushed, Spilled
  <2> HIDE DEF d, f
  <2>4. f \in Channel
    BY Zenon, <1>1, <1>4, <2>2, <2>3 DEF Channel
  <2>5. /\ f.used = 0 /\ f.threshold = s.threshold /\ f.cacheSize = s.cacheSize
        /\ f.overrun = s.overrun /\ f.flushFailed = s.flushFailed /\ f.squeezed = s.squeezed
        /\ f.state = s.state /\ Kept(s, f)
    BY <1>1, <2>3 DEF Channel, Kept
  <2>6. Formed(f)
    BY <2>4, <2>5 DEF Formed, Geometry, Sticks
  <2>7. ASSUME NEW k \in Nat, Within(s, k) PROVE Within(f, 0)
    <3>1. 0 <= s.threshold + 0
      BY <1>1 DEF Formed, Geometry, MinBucket, TopLimit
    <3> QED
      BY <2>5, <2>7, <3>1 DEF Within, Disturbed
  <2> QED
    BY <2>5, <2>6, <2>7 DEF f
<1>3. CASE r # "ok"
  <2> DEFINE e == IF r = "zstd" THEN "ZSTD" ELSE "FLUSH_FAILED"
             q == IF r = "data" THEN Append(s.sent, TornFrame) ELSE s.sent
  <2>1. e \in Errors /\ q \in Seq(Frame) /\ "ON_ERROR" \in States
    <3>1. TornFrame \in Frame
      BY DEF TornFrame, Frame
    <3>2. Append(s.sent, TornFrame) \in Seq(Frame)
      BY <1>1, <3>1
    <3> QED
      BY <1>1, <3>2 DEF Errors, States
  <2>2. f = [s EXCEPT !.error = e, !.state = "ON_ERROR", !.parentState = "ON_ERROR",
                      !.sent = q, !.flushFailed = TRUE, !.spilled = Spilled(s)]
    BY <1>3 DEF ChannelFlushed, Spilled
  <2> HIDE DEF e, q, f
  <2>3. f \in Channel
    BY <1>1, <1>4, <2>1, <2>2 DEF Channel
  <2>4. /\ f.threshold = s.threshold /\ f.cacheSize = s.cacheSize
        /\ f.flushFailed /\ f.state = "ON_ERROR" /\ Kept(s, f)
    BY <1>1, <2>2 DEF Channel, Kept
  <2> QED
    BY <1>3, <2>3, <2>4 DEF Formed, Geometry, Sticks, Within, Disturbed, f
<1> QED
  BY <1>2, <1>3

(* flush_if_flushable turns the room of a call's end into that of its start. *)
LEMMA FlushableFormed ==
  ASSUME NEW s, Formed(s), NEW f \in FlushIfFlushable(s)
  PROVE  /\ Formed(f) /\ Kept(s, f)
         /\ \A k \in Nat : Within(s, k) => Within(f, 0)
<1>1. CASE s.used > s.threshold
  <2>1. PICK r \in FlushResults : f = ChannelFlushed(s, r)
    BY <1>1 DEF FlushIfFlushable, ChannelFlush
  <2> QED
    BY <2>1, FlushedFormed
<1>2. CASE ~(s.used > s.threshold)
  <2>1. f = s
    BY <1>2 DEF FlushIfFlushable
  <2>2. s.used \in Nat /\ s.threshold \in Nat
    BY DEF Formed, Channel
  <2> QED
    BY <1>2, <2>1, <2>2 DEF Kept, Within
<1> QED
  BY <1>1, <1>2

(* Whole ticks, and the tick a timestamp falls in. *)
LEMMA TickNat ==
  ASSUME NEW t \in Times
  PROVE  Tick(t) \in Nat
<1>1. t \in Nat /\ SubTicks \in Nat /\ SubTicks > 0
  BY PackAssumption
<1> QED
  BY <1>1 DEF Tick

(***************************************************************************)
(* The timestamp handler: a new tick costs at most eleven bytes, and the   *)
(* flush behind it restores the room.                                      *)
(***************************************************************************)
LEMMA StampedFormed ==
  ASSUME NEW s, Formed(s), NEW t \in Times, ~TsRejected(s, t), NEW f \in TsHandler(s, t)
  PROVE  /\ Formed(f) /\ Kept(s, f)
         /\ Within(s, 0) => Within(f, 0)
<1>1. s \in Channel /\ Geometry(s) /\ Sticks(s) /\ t \in Nat /\ Tick(t) \in Nat
  BY PackAssumption, TickNat DEF Formed
<1>2. CASE s.ts = Tick(t)
  BY <1>2 DEF TsHandler, Kept
<1>3. CASE s.ts # Tick(t) /\ s.ts = TsNull
  <2> DEFINE u == [s EXCEPT !.ts = Tick(t), !.timeStart = IF @ = TsNull THEN t ELSE @]
             k == TsToken("SET_TIMESTAMP", Tick(t))
  <2>1. /\ u \in Channel /\ u.cacheSize = s.cacheSize /\ u.threshold = s.threshold
        /\ u.flushFailed = s.flushFailed /\ u.state = s.state /\ u.squeezed = s.squeezed
        /\ u.used = s.used /\ u.overrun = s.overrun /\ Kept(s, u)
    BY <1>1 DEF Channel, Kept
  <2>2. Formed(u) /\ (Within(s, 0) => Within(u, 0)) /\ u.used \in Nat /\ u.threshold \in Nat
    BY <1>1, <2>1 DEF Formed, Geometry, Sticks, Within, Disturbed, Channel
  <2>3. k \in Token /\ ArgTokenSize(Tick(t)) \in 2 .. 11
    BY <1>1, ArgSize DEF Token, TsToken
  <2> HIDE DEF u, k
  <2> DEFINE p == Put(u, k, ArgTokenSize(Tick(t)))
  <2>4. /\ Formed(p) /\ Kept(u, p)
        /\ Within(u, 0) => Within(p, TopLimit)
    <3>1. ArgTokenSize(Tick(t)) \in 0 .. TopLimit
      BY <2>3 DEF TopLimit
    <3> QED
      BY <2>2, <2>3, <3>1, PutCalm
  <2>5. f \in FlushIfFlushable(p)
    BY <1>3 DEF TsHandler, SetTimestamp, u, k
  <2>6. Formed(f) /\ Kept(p, f) /\ (Within(p, TopLimit) => Within(f, 0))
    BY <2>4, <2>5, FlushableFormed DEF TopLimit
  <2> QED
    BY <2>1, <2>2, <2>4, <2>6 DEF Kept
<1>4. CASE s.ts # Tick(t) /\ s.ts # TsNull
  <2> DEFINE u == [s EXCEPT !.ts = Tick(t), !.timeEnd = t]
             d == Tick(t) - s.ts
             k == TsToken("SHIFT_TIMESTAMP", d)
  <2>1. /\ u \in Channel /\ u.cacheSize = s.cacheSize /\ u.threshold = s.threshold
        /\ u.flushFailed = s.flushFailed /\ u.state = s.state /\ u.squeezed = s.squeezed
        /\ u.used = s.used /\ u.overrun = s.overrun /\ Kept(s, u)
    BY Zenon, <1>1 DEF Channel, Kept
  <2>2. Formed(u) /\ (Within(s, 0) => Within(u, 0)) /\ u.used \in Nat /\ u.threshold \in Nat
    BY <1>1, <2>1 DEF Formed, Geometry, Sticks, Within, Disturbed, Channel
  <2>3. d \in Nat
    <3>1. s.ts \in Nat
      BY <1>1, <1>4 DEF Channel
    <3> QED
      BY <1>1, <1>4, <3>1 DEF TsRejected
  <2>4. k \in Token /\ ArgTokenSize(d) \in 2 .. 11
    BY <2>3, ArgSize DEF Token, TsToken
  <2> HIDE DEF u, k, d
  <2> DEFINE p == Put(u, k, ArgTokenSize(d))
  <2>5. /\ Formed(p) /\ Kept(u, p)
        /\ Within(u, 0) => Within(p, TopLimit)
    <3>1. ArgTokenSize(d) \in 0 .. TopLimit
      BY <2>4 DEF TopLimit
    <3> QED
      BY <2>2, <2>4, <3>1, PutCalm
  <2>6. f \in FlushIfFlushable(p)
    BY <1>4 DEF TsHandler, ShiftTimestamp, u, k, d
  <2>7. Formed(f) /\ Kept(p, f) /\ (Within(p, TopLimit) => Within(f, 0))
    BY <2>5, <2>6, FlushableFormed DEF TopLimit
  <2> QED
    BY <2>1, <2>2, <2>5, <2>7 DEF Kept
<1> QED
  BY <1>2, <1>3, <1>4

(* Room is made for a string: by the time it is written it fits below. *)
LEMMA RoomFormed ==
  ASSUME NEW s, Formed(s), NEW v \in Values
  PROVE  /\ Formed(MadeRoom(s, v)) /\ Kept(s, MadeRoom(s, v))
         /\ Within(s, 0) => Within(MadeRoom(s, v), 0)
         /\ Within(s, 0) /\ ~TooLong(s, v) /\ v.type = "STRING" =>
              \/ Disturbed(MadeRoom(s, v))
              \/ MadeRoom(s, v).used + v.size <= s.threshold
<1>1. /\ s.used \in Nat /\ s.threshold \in Nat /\ v.size \in Nat /\ "ok" \in FlushResults
  BY BaseAssumption, PackAssumption DEF Formed, Channel, Value
<1>2. CASE LacksRoom(s, v)
  <2>1. MadeRoom(s, v) = ChannelFlushed(s, "ok")
    BY <1>2 DEF MadeRoom
  <2>2. /\ Formed(MadeRoom(s, v)) /\ Kept(s, MadeRoom(s, v)) /\ MadeRoom(s, v).used = 0
        /\ Within(s, 0) => Within(MadeRoom(s, v), 0)
    BY <1>1, <2>1, FlushedFormed
  <2> QED
    BY <1>1, <2>2 DEF TooLong
<1>3. CASE ~LacksRoom(s, v)
  <2>1. MadeRoom(s, v) = s
    BY <1>3 DEF MadeRoom
  <2>2. Within(s, 0) /\ v.type = "STRING" /\ ~Disturbed(s) => s.used + v.size <= s.threshold
    BY <1>1, <1>3 DEF LacksRoom, Within
  <2> QED
    BY <2>1, <2>2 DEF Kept
<1> QED
  BY <1>2, <1>3

-----------------------------------------------------------------------------
(* A row. *)

(* What an entry remembers of a value. *)
Last == [type : ValueTypes, val : Nat, terminated : BOOLEAN]

LEMMA LastTyped ==
  ASSUME NEW v \in Values
  PROVE  FirstLast(v) \in Last /\ NextLast(v) \in Last
<1>1. v \in Value /\ v.val \in Nat /\ v.type \in ValueTypes /\ WordMod \in Nat /\ WordMod > 0
  BY BaseAssumption DEF Value, SmallIntLimit
<1>2. v.val % WordMod \in Nat
  BY <1>1
<1> QED
  BY <1>1, <1>2 DEF FirstLast, NextLast, Last

LEMMA EntryUpdated ==
  ASSUME NEW e \in Entry, NEW last \in Last
  PROVE  WithLast(e, last) \in Entry
  BY DEF Entry, Last, WithLast

(* The hash table's insertion keeps the dictionary a dictionary. *)
LEMMA InsertedTyped ==
  ASSUME NEW cache \in [Names -> Entry \cup {NoEntry}], NEW n \in Names, NEW u \in Units,
         NEW i \in 0 .. IndexMod - 1, NEW last \in Last
  PROVE  Inserted(cache, n, u, i, last) \in [Names -> Entry \cup {NoEntry}]
<1>1. CASE SameIndex(cache, n, i) = {}
  <2> DEFINE e == [unit |-> u, index |-> i, type |-> last.type, val |-> last.val,
                   terminated |-> last.terminated]
  <2>1. e \in Entry
    BY DEF Entry, Last
  <2>2. Inserted(cache, n, u, i, last) = [cache EXCEPT ![n] = e]
    BY <1>1 DEF Inserted
  <2> HIDE DEF e
  <2> QED
    BY <2>1, <2>2
<1>2. CASE SameIndex(cache, n, i) # {}
  <2> DEFINE m == CHOOSE m \in SameIndex(cache, n, i) : TRUE
  <2>1. m \in SameIndex(cache, n, i)
    BY <1>2
  <2>2. Inserted(cache, n, u, i, last) = [cache EXCEPT ![m] = WithLast(cache[m], last)]
    BY <1>2 DEF Inserted
  <2> HIDE DEF m
  <2>3. m \in Names /\ cache[m] \in Entry
    BY <2>1 DEF SameIndex, Known
  <2>4. WithLast(cache[m], last) \in Entry
    BY <2>3, EntryUpdated
  <2> QED
    BY <2>2, <2>3, <2>4
<1> QED
  BY <1>1, <1>2

(* The fields the other invariants look at. *)
Similar(s, p) ==
  /\ p.used = s.used /\ p.threshold = s.threshold /\ p.cacheSize = s.cacheSize
  /\ p.state = s.state /\ p.overrun = s.overrun
  /\ p.flushFailed = s.flushFailed /\ p.squeezed = s.squeezed

LEMMA SimilarFormed ==
  ASSUME NEW s, Formed(s), NEW p \in Channel, Similar(s, p)
  PROVE  /\ Formed(p) /\ (Disturbed(p) <=> Disturbed(s))
         /\ \A k \in Nat : Within(p, k) <=> Within(s, k)
  BY DEF Formed, Similar, Geometry, Sticks, Disturbed, Within

(* A string fits below the threshold when its row begins. *)
RoomFor(s, v) == v.type = "STRING" => Disturbed(s) \/ s.used + v.size <= s.threshold

(* A new sensor: a name and a value take what the reserve has. *)
LEMMA NewFormed ==
  ASSUME NEW s, Formed(s), NEW n \in Names, NEW u \in Units, NEW v \in Values,
         NameSize(n, u) <= Uint8Max
  PROVE  /\ Formed(WriteNew(s, n, u, v))
         /\ RawFits /\ Within(s, 0) /\ RoomFor(s, v) => Within(WriteNew(s, n, u, v), TopLimit)
<1> DEFINE i == s.totalEntries
           c == Inserted(s.cache, n, u, i, FirstLast(v))
           q == [s EXCEPT !.cache = c]
           named == Put(q, NameToken(n, u), NameTokenSize(n, u))
           r == [named EXCEPT !.totalEntries = (named.totalEntries + 1) % IndexMod]
           w == Put(r, ValueToken(i, v), ValueTokenSize(i, v))
<1>1. /\ s \in Channel /\ s.cache \in [Names -> Entry \cup {NoEntry}] /\ i \in 0 .. IndexMod - 1
      /\ s.used \in Nat /\ s.threshold \in Nat /\ i \in Nat /\ IndexMod \in Nat /\ IndexMod > 0
      /\ v.size \in Nat
  <2>1. s \in Channel /\ IndexMod \in Nat /\ IndexMod > 0 /\ v \in Value
    BY BaseAssumption DEF Formed
  <2>2. /\ s.cache \in [Names -> Entry \cup {NoEntry}] /\ i \in 0 .. IndexMod - 1
        /\ s.used \in Nat /\ s.threshold \in Nat
    BY Zenon, <2>1 DEF Channel
  <2>3. v.size \in Nat
    BY <2>1 DEF Value
  <2>4. i \in Nat
    BY <2>1, <2>2
  <2> QED
    BY Zenon, <2>1, <2>2, <2>3, <2>4
<1>2. /\ NameToken(n, u) \in Token /\ ValueToken(i, v) \in Token
  <2>1. v.type \in ValueTypes
    BY BaseAssumption DEF Value
  <2> QED
    BY <1>1, <2>1 DEF NameToken, ValueToken, Tag, Token
<1>3. /\ NameTokenSize(n, u) \in Nat /\ NameTokenSize(n, u) <= 257 /\ ValueTokenSize(i, v) \in Nat
      /\ RawFits /\ v.type # "STRING" => ValueTokenSize(i, v) <= 255
      /\ v.type = "STRING" => ValueTokenSize(i, v) <= v.size + 14
  BY <1>1, NameSizeBound, ValueSize
<1>4. WriteNew(s, n, u, v) = w
  BY DEF WriteNew
<1>5. Formed(q) /\ q \in Channel /\ q.used = s.used /\ q.threshold = s.threshold
      /\ (Disturbed(q) <=> Disturbed(s)) /\ (Within(q, 0) <=> Within(s, 0))
  <2>1. c \in [Names -> Entry \cup {NoEntry}]
    BY <1>1, InsertedTyped, LastTyped
  <2> HIDE DEF c
  <2>2. q \in Channel /\ Similar(s, q)
    BY Zenon, <1>1, <2>1 DEF Channel, Similar
  <2> HIDE DEF q
  <2> QED
    BY <2>2, SimilarFormed DEF Similar
<1> HIDE DEF c, q
<1>6. /\ Formed(named) /\ named.used = s.used + NameTokenSize(n, u) /\ named.threshold = s.threshold
      /\ (Disturbed(named) <=> Disturbed(s)) /\ (Within(s, 0) => Within(named, TopLimit))
  <2>1. NameTokenSize(n, u) \in 0 .. TopLimit
    BY <1>3 DEF TopLimit
  <2>2. /\ Formed(named) /\ Kept(q, named) /\ named.used = q.used + NameTokenSize(n, u)
        /\ Disturbed(named) <=> Disturbed(q)
    BY <1>2, <1>3, <1>5, PutFormed
  <2>3. Within(q, 0) => Within(named, TopLimit)
    BY <1>2, <1>5, <2>1, PutCalm
  <2> QED
    BY <1>5, <2>2, <2>3 DEF Kept
<1> HIDE DEF named
<1>7. /\ Formed(r) /\ r.used = s.used + NameTokenSize(n, u) /\ r.threshold = s.threshold
      /\ (Disturbed(r) <=> Disturbed(s)) /\ (Within(s, 0) => Within(r, TopLimit))
  <2>1. named.totalEntries \in Nat /\ named \in Channel
    BY <1>6, BaseAssumption DEF Formed, Channel
  <2>2. (named.totalEntries + 1) % IndexMod \in 0 .. IndexMod - 1
    BY <1>1, <2>1
  <2>3. r \in Channel /\ Similar(named, r)
    BY <2>1, <2>2 DEF Channel, Similar
  <2> HIDE DEF r
  <2> QED
    BY <1>6, <2>3, SimilarFormed DEF Similar, TopLimit
<1> HIDE DEF r
<1>8. Formed(w)
  BY <1>2, <1>3, <1>7, PutFormed
<1>9. ASSUME RawFits, Within(s, 0), RoomFor(s, v) PROVE Within(w, TopLimit)
  <2>1. Within(r, TopLimit) /\ TopLimit \in Nat
    BY <1>7, <1>9 DEF TopLimit
  <2>2. Disturbed(r) \/ r.used + ValueTokenSize(i, v) <= r.threshold + TopLimit
    <3>1. CASE Disturbed(s)
      BY <1>7, <3>1
    <3>2. CASE ~Disturbed(s)
      <4>1. s.used <= s.threshold
        BY <1>1, <1>9, <3>2 DEF Within
      <4>2. CASE v.type = "STRING"
        <5>1. s.used + v.size <= s.threshold /\ ValueTokenSize(i, v) <= v.size + 14
          BY <1>3, <1>9, <3>2, <4>2 DEF RoomFor
        <5> QED
          BY <1>1, <1>3, <1>7, <5>1 DEF TopLimit
      <4>3. CASE v.type # "STRING"
        <5>1. ValueTokenSize(i, v) <= 255
          BY <1>3, <1>9, <4>3
        <5> QED
          BY <1>1, <1>3, <1>7, <4>1, <5>1 DEF TopLimit
      <4> QED
        BY <4>2, <4>3
    <3> QED
      BY <3>1, <3>2
  <2> QED
    BY <1>2, <1>3, <1>7, <2>1, <2>2, PutFormed
<1> QED
  BY <1>4, <1>8, <1>9

(* A known sensor: a value or a repeat, without a name. *)
LEMMA ChangedFormed ==
  ASSUME NEW s, Formed(s), NEW n \in Known(s.cache), NEW v \in Values
  PROVE  /\ Formed(WriteChanged(s, n, v))
         /\ RawFits /\ Within(s, 0) /\ RoomFor(s, v) => Within(WriteChanged(s, n, v), TopLimit)
<1> DEFINE e == s.cache[n]
           c == [s.cache EXCEPT ![n] = WithLast(e, NextLast(v))]
           q == [s EXCEPT !.cache = c]
           i == e.index
           w == Put(q, ValueToken(i, v), ValueTokenSize(i, v))
<1>1. /\ s \in Channel /\ s.used \in Nat /\ s.threshold \in Nat /\ n \in Names
      /\ s.cache \in [Names -> Entry \cup {NoEntry}] /\ e \in Entry /\ v.size \in Nat
      /\ v.type \in ValueTypes
  BY BaseAssumption DEF Formed, Channel, Known, Value
<1>2. WriteChanged(s, n, v) = w
  BY <1>1 DEF WriteChanged
<1>3. i \in 0 .. IndexMod - 1 /\ i \in Nat
  BY <1>1, BaseAssumption DEF Entry
<1>4. /\ Formed(q) /\ q.used = s.used /\ q.threshold = s.threshold
      /\ (Disturbed(q) <=> Disturbed(s)) /\ (Within(q, 0) <=> Within(s, 0))
  <2>1. c \in [Names -> Entry \cup {NoEntry}]
    BY <1>1, LastTyped, EntryUpdated
  <2> HIDE DEF c
  <2>2. q \in Channel /\ Similar(s, q)
    BY Zenon, <1>1, <2>1 DEF Channel, Similar
  <2> HIDE DEF q
  <2> QED
    BY <2>2, SimilarFormed DEF Similar
<1> HIDE DEF c, q, e, i
<1>5. /\ ValueToken(i, v) \in Token /\ ValueTokenSize(i, v) \in Nat
      /\ RawFits /\ v.type # "STRING" => ValueTokenSize(i, v) <= 255
      /\ v.type = "STRING" => ValueTokenSize(i, v) <= v.size + 14
  <2>1. ValueToken(i, v) \in Token
    BY <1>1, <1>3 DEF ValueToken, Tag, Token
  <2> QED
    BY <1>3, <2>1, ValueSize
<1>6. Formed(w)
  BY <1>4, <1>5, PutFormed
<1>7. ASSUME RawFits, Within(s, 0), RoomFor(s, v) PROVE Within(w, TopLimit)
  <2>1. Within(q, 0) /\ 0 \in Nat
    BY <1>4, <1>7
  <2>2. Disturbed(q) \/ q.used + ValueTokenSize(i, v) <= q.threshold + TopLimit
    <3>1. CASE Disturbed(s)
      BY <1>4, <3>1
    <3>2. CASE ~Disturbed(s)
      <4>1. s.used <= s.threshold
        BY <1>1, <1>7, <3>2 DEF Within
      <4>2. v.type = "STRING" => s.used + v.size <= s.threshold
        BY <1>7, <3>2 DEF RoomFor
      <4> QED
        BY <1>1, <1>4, <1>5, <1>7, <4>1, <4>2 DEF TopLimit
    <3> QED
      BY <3>1, <3>2
  <2> QED
    BY <1>4, <1>5, <2>1, <2>2, PutFormed
<1> QED
  BY <1>2, <1>6, <1>7

LEMMA RepeatFormed ==
  ASSUME NEW s, Formed(s), NEW n \in Known(s.cache)
  PROVE  /\ Formed(WriteUnmodified(s, n))
         /\ Within(s, 0) => Within(WriteUnmodified(s, n), TopLimit)
<1> DEFINE i == s.cache[n].index
<1>1. i \in Nat
  BY BaseAssumption DEF Formed, Channel, Known, Entry
<1>2. RepeatToken(i) \in Token /\ ArgTokenSize(i) \in 0 .. TopLimit
  BY <1>1, ArgSize DEF RepeatToken, Token, TopLimit
<1>3. WriteUnmodified(s, n) = Put(s, RepeatToken(i), ArgTokenSize(i))
  BY DEF WriteUnmodified
<1> QED
  BY <1>2, <1>3, PutCalm

LEMMA RowFormed ==
  ASSUME NEW s, Formed(s), NEW n \in Names, NEW u \in Units, NEW v \in Values,
         ~NameRejected(s, n, u), NEW w \in WriteRow(s, n, u, v)
  PROVE  /\ Formed(w)
         /\ RawFits /\ Within(s, 0) /\ RoomFor(s, v) => Within(w, TopLimit)
<1>1. CASE n \notin Known(s.cache)
  <2>1. w = WriteNew(s, n, u, v)
    BY <1>1 DEF WriteRow
  <2>2. NameSize(n, u) <= Uint8Max
    <3>1. NameLen[n] \in Nat /\ UnitLen[u] \in Nat
      BY BaseAssumption
    <3> QED
      BY <1>1, <3>1 DEF NameRejected, NameSize, Uint8Max
  <2> QED
    BY <2>1, <2>2, NewFormed
<1>2. CASE n \in Known(s.cache)
  <2>1. w = WriteUnmodified(s, n) \/ w = WriteChanged(s, n, v)
    BY <1>2 DEF WriteRow
  <2> QED
    BY <1>2, <2>1, RepeatFormed, ChangedFormed
<1> QED
  BY <1>1, <1>2

(* The row counter. *)
LEMMA CountFormed ==
  ASSUME NEW s, Formed(s)
  PROVE  /\ Formed(CountRow(s))
         /\ \A k \in Nat : Within(CountRow(s), k) <=> Within(s, k)
<1> DEFINE p == CountRow(s)
<1>1. s \in Channel /\ s.rowCounter + 1 \in Nat
  BY DEF Formed, Channel
<1>2. p \in Channel /\ Similar(s, p)
  BY <1>1 DEF Channel, CountRow, Similar
<1> HIDE DEF p
<1>3. Formed(p) /\ \A k \in Nat : Within(p, k) <=> Within(s, k)
  BY <1>2, SimilarFormed
<1> QED
  BY <1>3 DEF p

(* The fail: label. *)
LEMMA FailedFormed ==
  ASSUME NEW s, Formed(s), NEW v, NEW error \in Errors
  PROVE  /\ Formed(Failed(s, v, error)) /\ Kept(s, Failed(s, v, error))
         /\ Within(s, 0) => Within(Failed(s, v, error), 0)
<1> DEFINE p == Failed(s, v, error)
<1>1. FailState(v) \in States /\ FailState(v) # "OPENED"
  BY DEF FailState, States
<1>2. /\ p \in Channel /\ p.cacheSize = s.cacheSize /\ p.state = FailState(v)
      /\ p.used = s.used /\ p.overrun = s.overrun /\ p.squeezed = s.squeezed
      /\ p.flushFailed = s.flushFailed /\ Kept(s, p)
  BY <1>1 DEF Formed, Channel, Failed, Kept
<1> HIDE DEF p
<1>3. Formed(p) /\ (Within(s, 0) => Within(p, 0))
  BY <1>1, <1>2 DEF Formed, Geometry, Sticks, Within, Disturbed, Kept
<1> QED
  BY <1>2, <1>3 DEF p

-----------------------------------------------------------------------------
(* The calls. *)

(* A channel between two calls, and what every call is shown to preserve. *)
Ready == Formed(pk) /\ wire \in Seq(Frame)
KeepsRoom == RawFits /\ Within(pk, 0) => Within(pk', 0)
KeepsNames ==
  pk'.cache = pk.cache /\ pk'.rowCounter = pk.rowCounter /\ pk'.totalEntries = pk.totalEntries

LEMMA Returned ==
  ASSUME Ready, NEW s, Formed(s), Return(s)
  PROVE  Ready' /\ (Within(s, 0) => Within(pk', 0)) /\ Kept(s, pk')
<1>1. s \in Channel /\ s.sent \in Seq(Frame) /\ <<>> \in Seq(Frame)
  BY DEF Formed, Channel
<1>2. /\ pk' \in Channel /\ Kept(s, pk') /\ Similar(s, pk')
  BY Zenon, <1>1 DEF Return, Channel, Kept, Similar
<1>3. Formed(pk') /\ (Within(s, 0) => Within(pk', 0))
  BY <1>2, SimilarFormed
<1>4. wire' \in Seq(Frame)
  BY <1>1 DEF Ready, Return
<1> QED
  BY <1>2, <1>3, <1>4 DEF Ready, Formed, Geometry, Sticks

LEMMA InjectKeeps ==
  ASSUME Ready, NEW t \in Times, NEW n \in Names, NEW u \in Units, NEW v \in Values,
         Inject(t, n, u, v)
  PROVE  Ready' /\ KeepsRoom
<1>1. PICK stamped \in TsHandler(pk, t) :
        \E written \in WriteRow(MadeRoom(stamped, v), n, u, v) :
          \E done \in FlushIfFlushable(CountRow(written)) : Return(done)
  BY DEF Inject
<1> DEFINE m == MadeRoom(stamped, v)
<1>2. PICK written \in WriteRow(m, n, u, v) :
        \E done \in FlushIfFlushable(CountRow(written)) : Return(done)
  BY <1>1
<1>3. PICK done \in FlushIfFlushable(CountRow(written)) : Return(done)
  BY <1>2
<1>4. Formed(stamped) /\ Kept(pk, stamped) /\ (Within(pk, 0) => Within(stamped, 0))
  BY StampedFormed DEF Ready, Inject
<1>5. /\ Formed(m) /\ Kept(stamped, m) /\ (Within(stamped, 0) => Within(m, 0))
      /\ Within(stamped, 0) => RoomFor(m, v)
  <2>1. ~TooLong(stamped, v)
    BY <1>4 DEF Inject, TooLong, Kept
  <2>2. /\ Formed(m) /\ Kept(stamped, m) /\ (Within(stamped, 0) => Within(m, 0))
        /\ Within(stamped, 0) /\ v.type = "STRING" =>
             Disturbed(m) \/ m.used + v.size <= stamped.threshold
    BY <1>4, <2>1, RoomFormed
  <2> QED
    BY <2>2 DEF RoomFor, Kept
<1> HIDE DEF m
<1>6. /\ Formed(written)
      /\ RawFits /\ Within(m, 0) /\ RoomFor(m, v) => Within(written, TopLimit)
  <2>1. ~NameRejected(m, n, u)
    BY <1>4, <1>5 DEF Inject, NameRejected, Kept
  <2> QED
    BY <1>5, <2>1, RowFormed
<1>7. /\ Formed(CountRow(written))
      /\ Within(written, TopLimit) => Within(CountRow(written), TopLimit)
  BY <1>6, CountFormed DEF TopLimit
<1>8. Formed(done) /\ (Within(CountRow(written), TopLimit) => Within(done, 0))
  BY <1>7, FlushableFormed DEF TopLimit
<1>9. Ready' /\ (Within(done, 0) => Within(pk', 0))
  BY <1>3, <1>8, Returned
<1> QED
  BY <1>4, <1>5, <1>6, <1>7, <1>8, <1>9 DEF KeepsRoom

LEMMA BadTimestampKeeps ==
  ASSUME Ready, NEW t \in Times, NEW v \in Values, InjectBadTimestamp(t, v)
  PROVE  Ready' /\ KeepsRoom /\ KeepsNames
<1> DEFINE f == Failed(pk, v, "INVALID_TIMESTAMP")
<1>1. Formed(f) /\ Kept(pk, f) /\ (Within(pk, 0) => Within(f, 0))
  BY FailedFormed DEF Ready, Errors
<1>2. Return(f)
  BY DEF InjectBadTimestamp
<1> HIDE DEF f
<1> QED
  BY <1>1, <1>2, Returned DEF KeepsRoom, KeepsNames, Kept

LEMMA LongStringKeeps ==
  ASSUME Ready, NEW t \in Times, NEW v \in Values, InjectLongString(t, v)
  PROVE  Ready' /\ KeepsRoom /\ KeepsNames
<1>1. PICK stamped \in TsHandler(pk, t) : Return(Failed(stamped, v, "BUFFER_OVERFLOW"))
  BY DEF InjectLongString
<1> DEFINE f == Failed(stamped, v, "BUFFER_OVERFLOW")
<1>2. Formed(stamped) /\ Kept(pk, stamped) /\ (Within(pk, 0) => Within(stamped, 0))
  BY StampedFormed DEF Ready, InjectLongString
<1>3. Formed(f) /\ Kept(stamped, f) /\ (Within(stamped, 0) => Within(f, 0))
  BY <1>2, FailedFormed DEF Errors
<1> HIDE DEF f
<1>4. Return(f)
  BY <1>1 DEF f
<1> QED
  BY <1>2, <1>3, <1>4, Returned DEF KeepsRoom, KeepsNames, Kept

LEMMA NoRoomKeeps ==
  ASSUME Ready, NEW t \in Times, NEW v \in Values, InjectNoRoom(t, v)
  PROVE  Ready' /\ KeepsRoom /\ KeepsNames
<1>1. PICK stamped \in TsHandler(pk, t) : \E result \in FlushResults \ {"ok"} :
         Return(ChannelFlushed(stamped, result))
  BY DEF InjectNoRoom
<1>2. PICK result \in FlushResults : Return(ChannelFlushed(stamped, result))
  BY <1>1
<1> DEFINE f == ChannelFlushed(stamped, result)
<1>3. Formed(stamped) /\ Kept(pk, stamped) /\ (Within(pk, 0) => Within(stamped, 0))
  BY StampedFormed DEF Ready, InjectNoRoom
<1>4. Formed(f) /\ Kept(stamped, f) /\ (Within(stamped, 0) => Within(f, 0))
  BY <1>3, FlushedFormed
<1> HIDE DEF f
<1>5. Return(f)
  BY <1>2 DEF f
<1> QED
  BY <1>3, <1>4, <1>5, Returned DEF KeepsRoom, KeepsNames, Kept

LEMMA LongNameKeeps ==
  ASSUME Ready, NEW t \in Times, NEW n \in Names, NEW u \in Units, NEW v \in Values,
         InjectLongName(t, n, u, v)
  PROVE  Ready' /\ KeepsRoom /\ KeepsNames
<1>1. PICK stamped \in TsHandler(pk, t) :
         Return(Failed(MadeRoom(stamped, v), v, "BUFFER_OVERFLOW"))
  BY DEF InjectLongName
<1> DEFINE m == MadeRoom(stamped, v)
           f == Failed(m, v, "BUFFER_OVERFLOW")
<1>2. Formed(stamped) /\ Kept(pk, stamped) /\ (Within(pk, 0) => Within(stamped, 0))
  BY StampedFormed DEF Ready, InjectLongName
<1>3. Formed(m) /\ Kept(stamped, m) /\ (Within(stamped, 0) => Within(m, 0))
  BY <1>2, RoomFormed
<1>4. Formed(f) /\ Kept(m, f) /\ (Within(m, 0) => Within(f, 0))
  BY <1>3, FailedFormed DEF Errors
<1>5. Return(f)
  BY <1>1
<1> HIDE DEF f, m
<1> QED
  BY <1>2, <1>3, <1>4, <1>5, Returned DEF KeepsRoom, KeepsNames, Kept

LEMMA FlushKeeps ==
  ASSUME Ready, Flush
  PROVE  Ready' /\ KeepsRoom /\ KeepsNames
<1>1. PICK r \in FlushResults : Return(ChannelFlushed(pk, r))
  BY DEF Flush, ChannelFlush
<1> DEFINE f == ChannelFlushed(pk, r)
<1>2. Formed(f) /\ Kept(pk, f) /\ (Within(pk, 0) => Within(f, 0))
  BY FlushedFormed DEF Ready
<1> HIDE DEF f
<1>3. Return(f)
  BY <1>1 DEF f
<1> QED
  BY <1>2, <1>3, Returned DEF KeepsRoom, KeepsNames, Kept

LEMMA CloseKeeps ==
  ASSUME Ready, Close
  PROVE  Ready' /\ KeepsRoom /\ pk'.handle = "freed"
<1> DEFINE n == pk.rowCounter
           p == Put(pk, EofToken(n), ArgTokenSize(n))
<1>1. PICK r \in FlushResults :
         Return([ChannelFlushed(p, r) EXCEPT !.handle = "freed", !.cache = EmptyCache])
  BY DEF Close, ChannelFlush
<1>2. /\ Formed(p) /\ (Within(pk, 0) => Within(p, TopLimit))
  <2>1. n \in Nat
    BY DEF Ready, Formed, Channel
  <2>2. EofToken(n) \in Token /\ ArgTokenSize(n) \in 0 .. TopLimit
    BY <2>1, ArgSize DEF EofToken, Token, TopLimit
  <2> HIDE DEF n
  <2> QED
    BY <2>2, PutCalm DEF Ready
<1> DEFINE f == ChannelFlushed(p, r)
           g == [f EXCEPT !.handle = "freed", !.cache = EmptyCache]
<1>3. Formed(f) /\ (Within(p, TopLimit) => Within(f, 0))
  BY <1>2, FlushedFormed DEF TopLimit
<1>4. g \in Channel /\ Similar(f, g) /\ g.handle = "freed" /\ Return(g)
  <2>1. EmptyCache \in [Names -> Entry \cup {NoEntry}]
    BY DEF EmptyCache
  <2>2. Return(g)
    BY <1>1
  <2> HIDE DEF f
  <2> QED
    BY <1>3, <2>1, <2>2 DEF Formed, Channel, Similar
<1> HIDE DEF f, g, p
<1>5. Formed(g) /\ (Within(f, 0) => Within(g, 0))
  BY <1>3, <1>4, SimilarFormed
<1>6. pk'.handle = g.handle
  BY <1>4, <1>5 DEF Return, Formed, Channel
<1> QED
  BY <1>2, <1>3, <1>4, <1>5, <1>6, Returned DEF KeepsRoom

(* The close leaves no dictionary behind. *)
LEMMA CloseEmpties ==
  ASSUME Ready, Close
  PROVE  pk'.cache = EmptyCache
<1> DEFINE n == pk.rowCounter
           p == Put(pk, EofToken(n), ArgTokenSize(n))
<1>1. PICK r \in FlushResults :
         Return([ChannelFlushed(p, r) EXCEPT !.handle = "freed", !.cache = EmptyCache])
  BY DEF Close, ChannelFlush
<1>2. Formed(p)
  <2>1. n \in Nat
    BY DEF Ready, Formed, Channel
  <2>2. EofToken(n) \in Token /\ ArgTokenSize(n) \in 0 .. TopLimit
    BY <2>1, ArgSize DEF EofToken, Token, TopLimit
  <2> HIDE DEF n
  <2> QED
    BY <2>2, PutCalm DEF Ready
<1> DEFINE f == ChannelFlushed(p, r)
<1>3. f \in Channel
  BY <1>2, FlushedFormed DEF Formed
<1>4. Return([f EXCEPT !.handle = "freed", !.cache = EmptyCache])
  BY <1>1
<1> HIDE DEF f
<1> QED
  BY <1>3, <1>4 DEF Return, Channel

(* A resize that cuts into the reserve disturbs the channel. *)
LEMMA ResizedFormed ==
  ASSUME NEW s, Formed(s), NEW k \in Nat, k > MinBucket, NEW moved \in BOOLEAN,
         NEW heard \in BOOLEAN
  PROVE  LET f == Resized(s, k, moved, heard)
         IN  /\ Formed(f) /\ (Within(s, 0) => Within(f, 0))
             /\ f.cache = s.cache /\ f.rowCounter = s.rowCounter
             /\ f.totalEntries = s.totalEntries
<1> DEFINE f == Resized(s, k, moved, heard)
           q == IF heard THEN Append(s.sent, ChunkFrame(k)) ELSE s.sent
           h == IF moved THEN "dangling" ELSE s.handle
           z == s.squeezed \/ s.used > k - TopLimit
           y == s.unheard \/ ~heard
<1>3. /\ s \in Channel /\ s.sent \in Seq(Frame) /\ s.used \in Nat /\ s.squeezed \in BOOLEAN
      /\ s.unheard \in BOOLEAN /\ s.handle \in {"live", "dangling", "freed"}
  BY DEF Formed, Channel
<1>4. q \in Seq(Frame)
  <2>1. ChunkFrame(k) \in Frame
    BY DEF ChunkFrame, Frame
  <2>2. Append(s.sent, ChunkFrame(k)) \in Seq(Frame)
    BY <1>3, <2>1
  <2> QED
    BY <1>3, <2>2
<1>5. /\ h \in {"live", "dangling", "freed"} /\ z \in BOOLEAN /\ y \in BOOLEAN
      /\ k - TopLimit \in Nat
  BY <1>3 DEF MinBucket, TopLimit
<1>6. f = [s EXCEPT !.cacheSize = k, !.threshold = k - TopLimit, !.handle = h, !.sent = q,
                    !.squeezed = z, !.unheard = y]
  BY DEF Resized
<1>7. ~z => s.used <= k - TopLimit
  BY <1>3, <1>5
<1>8. s.squeezed => z
  OBVIOUS
<1> HIDE DEF f, q, h, z, y
<1>9. /\ f \in Channel /\ f.cacheSize = k /\ f.threshold = k - TopLimit /\ f.used = s.used
      /\ f.squeezed = z /\ f.flushFailed = s.flushFailed /\ f.state = s.state
      /\ f.overrun = s.overrun /\ f.cache = s.cache /\ f.rowCounter = s.rowCounter
      /\ f.totalEntries = s.totalEntries
  <2> DEFINE l == k - TopLimit
  <2>1. s \in Channel /\ k \in Nat /\ l \in Nat /\ f = [s EXCEPT !.cacheSize = k,
            !.threshold = l, !.handle = h, !.sent = q, !.squeezed = z, !.unheard = y]
    BY <1>3, <1>5, <1>6
  <2> HIDE DEF l
  <2> DEFINE g == [s EXCEPT !.cacheSize = k, !.threshold = l, !.handle = h]
  <2>4. g \in Channel
    BY <1>5, <2>1 DEF Channel
  <2> DEFINE e == [g EXCEPT !.sent = q]
             d == [e EXCEPT !.squeezed = z]
  <2>5. f = [d EXCEPT !.unheard = y]
    BY Zenon, <2>1
  <2> HIDE DEF g
  <2>6. e \in Channel
    BY <1>4, <2>4 DEF Channel
  <2> HIDE DEF e
  <2>7. d \in Channel
    BY <1>5, <2>6 DEF Channel
  <2> HIDE DEF d
  <2>2. f \in Channel
    BY <1>5, <2>5, <2>7 DEF Channel
  <2>3. /\ f.cacheSize = k /\ f.threshold = l /\ f.used = s.used
        /\ f.squeezed = z /\ f.flushFailed = s.flushFailed /\ f.state = s.state
        /\ f.overrun = s.overrun /\ f.cache = s.cache /\ f.rowCounter = s.rowCounter
        /\ f.totalEntries = s.totalEntries
    BY <2>1 DEF Channel
  <2> QED
    BY Zenon, <2>2, <2>3 DEF l
<1>10. Formed(f)
  BY <1>9 DEF Formed, Geometry, Sticks
<1>11. Within(s, 0) => Within(f, 0)
  BY <1>3, <1>5, <1>7, <1>8, <1>9 DEF Within, Disturbed
<1> QED
  BY <1>9, <1>10, <1>11 DEF f

LEMMA ResizeKeeps ==
  ASSUME Ready, NEW size \in Sizes, Resize(size)
  PROVE  Ready' /\ KeepsRoom /\ KeepsNames
<1> DEFINE k == NewSize(size)
<1>1. PICK moved, heard \in BOOLEAN : Return(Resized(pk, k, moved, heard))
  BY DEF Resize
<1>2. k \in Nat /\ k > MinBucket
  BY PackAssumption DEF Resize, ResizeAllowed, NewSize, DefaultBucket
<1> HIDE DEF k
<1> DEFINE f == Resized(pk, k, moved, heard)
<1>3. /\ Formed(f) /\ (Within(pk, 0) => Within(f, 0))
      /\ f.cache = pk.cache /\ f.rowCounter = pk.rowCounter /\ f.totalEntries = pk.totalEntries
  BY <1>2, ResizedFormed DEF Ready
<1>4. Return(f)
  BY <1>1
<1> HIDE DEF f
<1> QED
  BY <1>3, <1>4, Returned DEF KeepsRoom, KeepsNames, Kept

LEMMA ResizeRefusedKeeps ==
  ASSUME Ready, NEW size \in Sizes, ResizeRefused(size)
  PROVE  Ready' /\ KeepsRoom /\ KeepsNames
<1> DEFINE e == IF pk.state = "OPENED" THEN "ALLOCATION_FAILURE" ELSE "AT_INVALID_STATE"
           f == [pk EXCEPT !.parentState = "ON_ERROR", !.parentError = e]
<1>1. e \in Errors /\ "ON_ERROR" \in States /\ pk \in Channel
  BY DEF Errors, States, Ready, Formed
<1>2. Return(f)
  BY DEF ResizeRefused
<1> HIDE DEF e
<1>3. f \in Channel /\ Similar(pk, f) /\ Kept(pk, f)
  BY Zenon, <1>1 DEF Channel, Similar, Kept
<1> HIDE DEF f
<1>4. Formed(f) /\ (Within(pk, 0) => Within(f, 0))
  BY <1>3, SimilarFormed DEF Ready
<1> QED
  BY <1>2, <1>3, <1>4, Returned DEF KeepsRoom, KeepsNames, Kept

LEMMA SpillKeeps ==
  ASSUME Ready, Spill
  PROVE  Ready' /\ KeepsRoom /\ KeepsNames
<1> DEFINE f == [pk EXCEPT !.handle = "dangling"]
<1>1. pk \in Channel
  BY DEF Ready, Formed
<1>2. pk' = f /\ wire' = wire
  BY DEF Spill
<1>3. f \in Channel /\ Similar(pk, f) /\ Kept(pk, f)
  BY Zenon, <1>1 DEF Channel, Similar, Kept
<1> HIDE DEF f
<1>4. Formed(f) /\ (Within(pk, 0) => Within(f, 0))
  BY <1>3, SimilarFormed DEF Ready
<1> QED
  BY <1>2, <1>3, <1>4 DEF Ready, KeepsRoom, KeepsNames, Kept

-----------------------------------------------------------------------------
(* The invariants. *)

LEMMA InitFormed ==
  ASSUME Init
  PROVE  Ready /\ TypeOK /\ Within(pk, 0)
<1>1. BucketSize \in Nat /\ BucketSize > MinBucket
  BY PackAssumption
<1>2. pk \in Channel
  <2>1. /\ EmptyCache \in [Names -> Entry \cup {NoEntry}] /\ <<>> \in Seq(Token)
        /\ <<>> \in Seq(Frame) /\ 0 \in 0 .. IndexMod - 1 /\ BucketSize - TopLimit \in Nat
    BY <1>1, BaseAssumption DEF EmptyCache, MinBucket, TopLimit
  <2> QED
    BY <1>1, <2>1 DEF Init, InitChannel, Channel, States, Errors
<1>3. wire \in Seq(Frame) /\ rows \in Seq(Row)
  <2>1. /\ DefineFrame \in Frame /\ TypeFrame \in Frame /\ CompressionFrame \in Frame
        /\ ChunkFrame(BucketSize) \in Frame
    BY <1>1 DEF DefineFrame, TypeFrame, CompressionFrame, ChunkFrame, Frame
  <2> QED
    BY <2>1 DEF Init
<1>4. Geometry(pk) /\ Sticks(pk) /\ Within(pk, 0)
  BY <1>1 DEF Init, InitChannel, Geometry, Sticks, Within, MinBucket, TopLimit
<1> QED
  BY <1>2, <1>3, <1>4 DEF Ready, Formed, TypeOK

(* A step adds at most one row, and it is a row. *)
LEMMA RowsStep ==
  ASSUME rows \in Seq(Row), [Next]_vars
  PROVE  rows' \in Seq(Row)
<1>1. CASE \E t \in Times, v \in Values, n \in Names, u \in Units : Inject(t, n, u, v)
  <2>1. PICK t \in Times, v \in Values, n \in Names, u \in Units : Inject(t, n, u, v)
    BY <1>1
  <2>2. [time |-> Tick(t), name |-> n, unit |-> u, value |-> v] \in Row
    BY BaseAssumption, TickNat DEF Row
  <2> QED
    BY <2>1, <2>2 DEF Inject
<1>2. CASE ~(\E t \in Times, v \in Values, n \in Names, u \in Units : Inject(t, n, u, v))
  <2>1. UNCHANGED rows
    BY <1>2 DEF Next, vars, InjectLongName, InjectBadTimestamp, InjectLongString, InjectNoRoom,
                Resize, ResizeRefused, Flush, Close, Spill
  <2> QED
    BY <2>1
<1> QED
  BY <1>1, <1>2

(* Every step keeps the channel ready and its room. *)
LEMMA StepReady ==
  ASSUME Ready, [Next]_vars
  PROVE  Ready' /\ KeepsRoom
<1>1. ASSUME NEW t \in Times, NEW v \in Values, NEW n \in Names, NEW u \in Units,
             Inject(t, n, u, v)
      PROVE  Ready' /\ KeepsRoom
  BY <1>1, InjectKeeps
<1>2. ASSUME NEW t \in Times, NEW v \in Values, NEW n \in Names, NEW u \in Units,
             InjectLongName(t, n, u, v)
      PROVE  Ready' /\ KeepsRoom
  BY <1>2, LongNameKeeps
<1>3. ASSUME NEW t \in Times, NEW v \in Values, InjectBadTimestamp(t, v)
      PROVE  Ready' /\ KeepsRoom
  BY <1>3, BadTimestampKeeps
<1>4. ASSUME NEW t \in Times, NEW v \in Values, InjectLongString(t, v)
      PROVE  Ready' /\ KeepsRoom
  BY <1>4, LongStringKeeps
<1>5. ASSUME NEW t \in Times, NEW v \in Values, InjectNoRoom(t, v)
      PROVE  Ready' /\ KeepsRoom
  BY <1>5, NoRoomKeeps
<1>6. ASSUME NEW size \in Sizes, Resize(size)
      PROVE  Ready' /\ KeepsRoom
  BY <1>6, ResizeKeeps
<1>7. ASSUME NEW size \in Sizes, ResizeRefused(size)
      PROVE  Ready' /\ KeepsRoom
  BY <1>7, ResizeRefusedKeeps
<1>8. CASE Flush
  BY <1>8, FlushKeeps
<1>9. CASE Close
  BY <1>9, CloseKeeps
<1>10. CASE UNCHANGED vars
  BY <1>10 DEF vars, Ready, KeepsRoom
<1>11. CASE Spill
  BY <1>11, SpillKeeps
<1> QED
  BY <1>1, <1>2, <1>3, <1>4, <1>5, <1>6, <1>7, <1>8, <1>9, <1>10, <1>11 DEF Next

LEMMA Inductive == Spec => []IInv
<1>1. Init => IInv
  BY InitFormed DEF IInv, Ready, Formed
<1>2. IInv /\ [Next]_vars => IInv'
  <2> SUFFICES ASSUME IInv, [Next]_vars PROVE IInv'
    OBVIOUS
  <2>1. Ready /\ rows \in Seq(Row)
    BY DEF IInv, TypeOK, Ready, Formed
  <2>2. Ready' /\ rows' \in Seq(Row)
    BY <2>1, StepReady, RowsStep
  <2> QED
    BY <2>2 DEF IInv, TypeOK, Ready, Formed
<1> QED
  BY <1>1, <1>2, PTL DEF Spec

(***************************************************************************)
(* The channel's fields, the file and the history keep their shapes        *)
(* through every call of pack.c, whatever the flusher answers; the         *)
(* threshold is never negative and an index never leaves its sixteen bits. *)
(***************************************************************************)
THEOREM TypeCorrect == Spec => []TypeOK
<1>1. IInv => TypeOK
  BY DEF IInv
<1> QED
  BY <1>1, Inductive, PTL

(***************************************************************************)
(* No call of pack.c puts a channel whose flush has failed back into the   *)
(* opened state.                                                           *)
(***************************************************************************)
THEOREM FailureNeverForgotten == Spec => []FailureSticks
<1>1. IInv => FailureSticks
  BY DEF IInv, Sticks, FailureSticks
<1> QED
  BY <1>1, Inductive, PTL

(***************************************************************************)
(* The 512 bytes above the threshold are enough for every name, unit,      *)
(* timestamp and value, provided a raw buffer has at most 243 bytes (the   *)
(* handler of raw buffers is the one that never asks for room): no handler *)
(* writes past the end of the bucket.                                      *)
(***************************************************************************)
THEOREM ReserveSuffices == RawFits => (Spec => []BucketBound)
<1> SUFFICES ASSUME RawFits PROVE Spec => []BucketBound
  OBVIOUS
<1>1. Init => RoomInv
  BY InitFormed DEF RoomInv, IInv, Ready, Formed
<1>2. RoomInv /\ [Next]_vars => RoomInv'
  <2> SUFFICES ASSUME RoomInv, [Next]_vars PROVE RoomInv'
    OBVIOUS
  <2>1. Ready /\ rows \in Seq(Row) /\ Within(pk, 0)
    BY DEF RoomInv, IInv, TypeOK, Ready, Formed
  <2>2. Ready' /\ rows' \in Seq(Row) /\ Within(pk', 0)
    BY <2>1, StepReady, RowsStep DEF KeepsRoom
  <2> QED
    BY <2>2 DEF RoomInv, IInv, TypeOK, Ready, Formed, Within, Disturbed
<1>3. RoomInv => BucketBound
  <2> SUFFICES ASSUME RoomInv PROVE BucketBound
    OBVIOUS
  <2>1. pk.threshold \in Nat /\ pk.used \in Nat
    BY DEF RoomInv, IInv, TypeOK, Channel
  <2> QED
    BY <2>1 DEF RoomInv, Within, Disturbed, BucketBound
<1> QED
  BY <1>1, <1>2, <1>3, PTL DEF Spec

(***************************************************************************)
(* A call that does not accept a row, and is not the close that frees the  *)
(* channel, leaves the dictionary and the row counter as they were: the    *)
(* handlers of pack.c refuse before they insert.                           *)
(***************************************************************************)
THEOREM RefusalLeavesNothing == Spec => RefusedLeavesNothing
<1> DEFINE Same == rows' = rows /\ pk'.handle # "freed" =>
                     pk'.cache = pk.cache /\ pk'.rowCounter = pk.rowCounter
<1>1. IInv /\ [Next]_vars => [Same]_vars
  <2> SUFFICES ASSUME IInv, [Next]_vars PROVE Same
    OBVIOUS
  <2>1. Ready /\ rows \in Seq(Row)
    BY DEF IInv, TypeOK, Ready, Formed
  <2>2. ASSUME NEW t \in Times, NEW v \in Values, NEW n \in Names, NEW u \in Units,
               Inject(t, n, u, v)
        PROVE  rows' # rows
    <3>1. Len(rows') = Len(rows) + 1 /\ Len(rows) \in Nat
      BY <2>1, <2>2 DEF Inject
    <3> QED
      BY <3>1
  <2>3. ASSUME NEW t \in Times, NEW v \in Values, NEW n \in Names, NEW u \in Units,
               InjectLongName(t, n, u, v)
        PROVE  KeepsNames
    BY <2>1, <2>3, LongNameKeeps
  <2>4. ASSUME NEW t \in Times, NEW v \in Values,
               InjectBadTimestamp(t, v) \/ InjectLongString(t, v) \/ InjectNoRoom(t, v)
        PROVE  KeepsNames
    BY <2>1, <2>4, BadTimestampKeeps, LongStringKeeps, NoRoomKeeps
  <2>5. ASSUME NEW size \in Sizes, Resize(size) \/ ResizeRefused(size)
        PROVE  KeepsNames
    BY <2>1, <2>5, ResizeKeeps, ResizeRefusedKeeps
  <2>6. CASE Flush
    BY <2>1, <2>6, FlushKeeps DEF KeepsNames
  <2>7. CASE Close
    BY <2>1, <2>7, CloseKeeps
  <2>8. CASE UNCHANGED vars
    BY <2>8 DEF vars
  <2>9. CASE Spill
    BY <2>1, <2>9, SpillKeeps DEF KeepsNames
  <2> QED
    BY <2>2, <2>3, <2>4, <2>5, <2>6, <2>7, <2>8, <2>9 DEF Next, KeepsNames
<1> QED
  BY <1>1, Inductive, PTL DEF Spec, RefusedLeavesNothing

-----------------------------------------------------------------------------
(***************************************************************************)
(* The dictionary.  The packer numbers its sensors 0, 1, 2, ... as long as *)
(* there are fewer of them than the counter of indices can tell apart.     *)
(* Only a new sensor's row touches the numbering; everything else a call   *)
(* does keeps the dictionary and the counter, by the lemmas above.         *)
(***************************************************************************)

(* The names in use fit the sixteen bits of totalEntries. *)
FewNames == IsFiniteSet(Names) /\ Cardinality(Names) < IndexMod

(***************************************************************************)
(* The sensors of a dictionary have the indices below k, one each.  Their  *)
(* number is k as well: it is what keeps the counter from wrapping.        *)
(***************************************************************************)
Numbered(cache, k) ==
  /\ \A m, n \in Known(cache) : cache[m].index = cache[n].index => m = n
  /\ {cache[n].index : n \in Known(cache)} = 0 .. k - 1
  /\ Cardinality(Known(cache)) = k

NumberedInv == IInv /\ (pk.handle # "freed" => Numbered(pk.cache, pk.totalEntries))

(* A sensor with the next index joins the dictionary. *)
LEMMA NumberedExtends ==
  ASSUME NEW cache \in [Names -> Entry \cup {NoEntry}], NEW k \in Nat, Numbered(cache, k),
         NEW n \in Names, n \notin Known(cache), NEW e \in Entry, e.index = k,
         IsFiniteSet(Names)
  PROVE  Numbered([cache EXCEPT ![n] = e], k + 1) /\ k < Cardinality(Names)
<1> DEFINE c == [cache EXCEPT ![n] = e]
<1>1. Known(c) = Known(cache) \cup {n}
  BY NoEntryAssumption DEF Known
<1>2. c[n] = e /\ \A m \in Known(cache) : c[m] = cache[m]
  BY DEF Known
<1> HIDE DEF c
<1>3. \A m \in Known(cache) : cache[m].index \in 0 .. k - 1
  BY DEF Numbered
<1>4. ASSUME NEW m \in Known(c), NEW p \in Known(c), c[m].index = c[p].index
      PROVE  m = p
  <2>1. CASE m \in Known(cache) /\ p \in Known(cache)
    BY <1>2, <1>4, <2>1 DEF Numbered
  <2>2. CASE m = n /\ p \in Known(cache)
    BY <1>2, <1>3, <1>4, <2>2
  <2>3. CASE m \in Known(cache) /\ p = n
    BY <1>2, <1>3, <1>4, <2>3
  <2> QED
    BY <1>1, <2>1, <2>2, <2>3
<1>5. {c[m].index : m \in Known(c)} = 0 .. k
  <2>1. {c[m].index : m \in Known(c)} = {cache[m].index : m \in Known(cache)} \cup {k}
    BY <1>1, <1>2
  <2>2. {cache[m].index : m \in Known(cache)} = 0 .. k - 1
    BY DEF Numbered
  <2>3. (0 .. k - 1) \cup {k} = 0 .. k
    OBVIOUS
  <2> QED
    BY <2>1, <2>2, <2>3
<1>6. Cardinality(Known(c)) = k + 1 /\ k + 1 <= Cardinality(Names)
  <2>1. IsFiniteSet(Known(cache))
    BY FS_Subset DEF Known
  <2>2. Cardinality(Known(c)) = k + 1
    <3>1. IsFiniteSet(Known(cache)) => Cardinality(Known(cache) \cup {n}) = Cardinality(Known(cache)) + 1
      BY Zenon, FS_AddElement
    <3>2. Cardinality(Known(cache)) = k
      BY Zenon DEF Numbered
    <3> QED
      BY <1>1, <2>1, <3>1, <3>2
  <2>3. Known(c) \in SUBSET Names
    BY DEF Known
  <2> QED
    BY <2>2, <2>3, FS_Subset
<1>7. k < Cardinality(Names)
  BY <1>6, FS_CardinalityType
<1>8. Numbered(c, k + 1)
  <2>1. (k + 1) - 1 = k
    OBVIOUS
  <2> QED
    BY <1>4, <1>5, <1>6, <2>1 DEF Numbered
<1> QED
  BY <1>7, <1>8 DEF c

(* A row leaves the numbering exact, whether its sensor is new or known. *)
LEMMA RowNumbered ==
  ASSUME FewNames, NEW s, Formed(s), Numbered(s.cache, s.totalEntries), NEW n \in Names,
         NEW u \in Units, NEW v \in Values, NEW w \in WriteRow(s, n, u, v)
  PROVE  Numbered(w.cache, w.totalEntries)
<1> DEFINE i == s.totalEntries
<1>1. /\ s \in Channel /\ s.cache \in [Names -> Entry \cup {NoEntry}]
      /\ i \in 0 .. IndexMod - 1 /\ i \in Nat /\ IndexMod \in Nat
  <2>1. s \in Channel /\ IndexMod \in 1 .. IndexLimit
    BY BaseAssumption, IndexModType DEF Formed
  <2>2. s.cache \in [Names -> Entry \cup {NoEntry}] /\ i \in 0 .. IndexMod - 1
    BY <2>1 DEF Channel
  <2> HIDE DEF i
  <2> QED
    BY <2>1, <2>2
<1>2. CASE n \notin Known(s.cache)
  <2> DEFINE last == FirstLast(v)
             e == [unit |-> u, index |-> i, type |-> last.type, val |-> last.val,
                   terminated |-> last.terminated]
             c == [s.cache EXCEPT ![n] = e]
  <2>1. e \in Entry
    <3>1. last \in Last
      BY LastTyped
    <3> HIDE DEF last
    <3> QED
      BY <1>1, <3>1 DEF Last, Entry
  <2>2. SameIndex(s.cache, n, i) = {}
    <3>1. \A m \in Known(s.cache) : s.cache[m].index \in 0 .. i - 1
      BY DEF Numbered
    <3> QED
      BY <1>1, <3>1 DEF SameIndex
  <2>3. Inserted(s.cache, n, u, i, last) = c
    BY <2>2 DEF Inserted
  <2>4. w.cache = c /\ w.totalEntries = (i + 1) % IndexMod
    <3>1. w = WriteNew(s, n, u, v)
      BY <1>2 DEF WriteRow
    <3> QED
      BY <1>1, <2>3, <3>1 DEF WriteNew, Put, Channel
  <2>5. e.index = i
    OBVIOUS
  <2> HIDE DEF e
  <2>6. Numbered(c, i + 1) /\ i < Cardinality(Names)
    BY <1>1, <1>2, <2>1, <2>5, NumberedExtends DEF FewNames
  <2>7. (i + 1) % IndexMod = i + 1
    <3>1. i + 1 < IndexMod
      BY <1>1, <2>6, FS_CardinalityType DEF FewNames
    <3> QED
      BY <1>1, <3>1
  <2> QED
    BY <2>4, <2>6, <2>7
<1>3. CASE n \in Known(s.cache) /\ w = WriteUnmodified(s, n)
  <2>1. w.cache = s.cache /\ w.totalEntries = i
    BY <1>1, <1>3 DEF WriteUnmodified, Put, Channel
  <2> QED
    BY <2>1
<1>4. CASE n \in Known(s.cache) /\ w = WriteChanged(s, n, v)
  <2> DEFINE e == WithLast(s.cache[n], NextLast(v))
             c == [s.cache EXCEPT ![n] = e]
  <2>1. s.cache[n] \in Entry /\ n \in Names
    BY <1>1, <1>4 DEF Known
  <2>2. e \in Entry /\ e.index = s.cache[n].index
    <3>1. e \in Entry
      BY <2>1, LastTyped, EntryUpdated
    <3>2. e.index = s.cache[n].index
      BY <2>1 DEF WithLast, Entry
    <3> QED
      BY <3>1, <3>2
  <2>3. w.cache = c /\ w.totalEntries = i
    BY <1>1, <1>4 DEF WriteChanged, Put, Channel
  <2> HIDE DEF e
  <2>4. Known(c) = Known(s.cache) /\ \A m \in Known(c) : c[m].index = s.cache[m].index
    BY <1>1, <2>1, <2>2, NoEntryAssumption DEF Known
  <2> HIDE DEF c
  <2>5. Numbered(c, i)
    BY <2>4 DEF Numbered
  <2> QED
    BY <2>3, <2>5
<1>5. n \in Known(s.cache) => w = WriteUnmodified(s, n) \/ w = WriteChanged(s, n, v)
  BY DEF WriteRow
<1> QED
  BY <1>2, <1>3, <1>4, <1>5

(* An accepted injection: the row, and around it what keeps the names. *)
LEMMA InjectNumbered ==
  ASSUME FewNames, Ready, Numbered(pk.cache, pk.totalEntries), NEW t \in Times,
         NEW n \in Names, NEW u \in Units, NEW v \in Values, Inject(t, n, u, v)
  PROVE  Numbered(pk'.cache, pk'.totalEntries)
<1>1. PICK stamped \in TsHandler(pk, t) :
        \E written \in WriteRow(MadeRoom(stamped, v), n, u, v) :
          \E done \in FlushIfFlushable(CountRow(written)) : Return(done)
  BY DEF Inject
<1> DEFINE m == MadeRoom(stamped, v)
<1>2. PICK written \in WriteRow(m, n, u, v) :
        \E done \in FlushIfFlushable(CountRow(written)) : Return(done)
  BY <1>1
<1>3. PICK done \in FlushIfFlushable(CountRow(written)) : Return(done)
  BY <1>2
<1>4. Formed(stamped) /\ Kept(pk, stamped)
  BY StampedFormed DEF Ready, Inject
<1>5. Formed(m) /\ Kept(stamped, m)
  BY <1>4, RoomFormed
<1> HIDE DEF m
<1>6. Formed(written)
  <2>1. ~NameRejected(m, n, u)
    BY <1>4, <1>5 DEF Inject, NameRejected, Kept
  <2> QED
    BY <1>5, <2>1, RowFormed
<1>7. Numbered(written.cache, written.totalEntries)
  BY <1>4, <1>5, RowNumbered DEF Kept
<1> DEFINE counted == CountRow(written)
<1>8. /\ Formed(counted) /\ counted.cache = written.cache
      /\ counted.totalEntries = written.totalEntries
  BY Zenon, <1>6, CountFormed DEF CountRow, Formed, Channel
<1> HIDE DEF counted
<1>9. Formed(done) /\ Kept(counted, done)
  BY <1>3, <1>8, FlushableFormed DEF counted
<1>10. Kept(done, pk')
  BY <1>3, <1>9, Returned
<1> QED
  BY <1>7, <1>8, <1>9, <1>10 DEF Kept

(* What is not an accepted injection keeps the numbering, or frees it. *)
LEMMA OthersNumbered ==
  ASSUME Ready, NumberedInv, [Next]_vars,
         ~ \E t \in Times, v \in Values, n \in Names, u \in Units : Inject(t, n, u, v)
  PROVE  pk'.handle # "freed" => Numbered(pk'.cache, pk'.totalEntries)
<1>1. CASE UNCHANGED vars
  BY <1>1 DEF vars, NumberedInv
<1>2. CASE Close
  BY <1>2, CloseKeeps
<1>3. CASE Next /\ ~Close
  <2>1. KeepsNames
    BY <1>3, LongNameKeeps, BadTimestampKeeps, LongStringKeeps, NoRoomKeeps, ResizeKeeps,
       ResizeRefusedKeeps, FlushKeeps, SpillKeeps DEF Next
  <2>2. pk.handle # "freed"
    <3>1. Callable
      <4>1. CASE \E size \in Sizes : Resize(size) \/ ResizeRefused(size)
        BY Zenon, <4>1 DEF Resize, ResizeRefused
      <4>2. CASE Flush
        BY Zenon, <4>2 DEF Flush
      <4>3. CASE \E t \in Times, v \in Values :
                   \/ \E n \in Names, u \in Units : Inject(t, n, u, v) \/ InjectLongName(t, n, u, v)
                   \/ InjectBadTimestamp(t, v) \/ InjectLongString(t, v) \/ InjectNoRoom(t, v)
        BY Zenon, <4>3 DEF Inject, InjectLongName, InjectBadTimestamp, InjectLongString,
                           InjectNoRoom
      <4>4. CASE Spill
        BY Zenon, <4>4 DEF Spill
      <4> QED
        BY Zenon, <1>3, <4>1, <4>2, <4>3, <4>4 DEF Next
    <3> QED
      BY <3>1 DEF Callable
  <2> QED
    BY <2>1, <2>2 DEF KeepsNames, NumberedInv
<1> QED
  BY <1>1, <1>2, <1>3

(* The induction: its start ... *)
LEMMA InitNumbered ==
  ASSUME Init
  PROVE  NumberedInv
<1>1. IInv
  BY InitFormed DEF IInv, Ready, Formed
<1>2. pk.cache = EmptyCache /\ pk.totalEntries = 0
  BY DEF Init, InitChannel
<1>3. Known(EmptyCache) = {}
  BY DEF Known, EmptyCache
<1>4. Cardinality({}) = 0 /\ 0 .. 0 - 1 = {}
  BY FS_EmptySet
<1> QED
  BY <1>1, <1>2, <1>3, <1>4 DEF NumberedInv, Numbered

(* ... and its step. *)
LEMMA StepNumbered ==
  ASSUME FewNames, NumberedInv, [Next]_vars
  PROVE  NumberedInv'
<1>1. Ready /\ rows \in Seq(Row)
  BY DEF NumberedInv, IInv, TypeOK, Ready, Formed
<1>2. IInv'
  <2>1. Ready' /\ rows' \in Seq(Row)
    BY <1>1, StepReady, RowsStep
  <2> QED
    BY <2>1 DEF IInv, TypeOK, Ready, Formed
<1>3. CASE \E t \in Times, v \in Values, n \in Names, u \in Units : Inject(t, n, u, v)
  <2>1. PICK t \in Times, v \in Values, n \in Names, u \in Units : Inject(t, n, u, v)
    BY <1>3
  <2>2. Numbered(pk.cache, pk.totalEntries)
    BY <2>1 DEF NumberedInv, Inject, Callable
  <2>3. Numbered(pk'.cache, pk'.totalEntries)
    BY <1>1, <2>1, <2>2, InjectNumbered
  <2> QED
    BY <1>2, <2>3 DEF NumberedInv, Numbered, Known
<1>4. CASE ~ \E t \in Times, v \in Values, n \in Names, u \in Units : Inject(t, n, u, v)
  <2>1. pk'.handle # "freed" => Numbered(pk'.cache, pk'.totalEntries)
    BY <1>1, <1>4, OthersNumbered
  <2> QED
    BY <1>2, <2>1 DEF NumberedInv, Numbered, Known
<1> QED
  BY <1>3, <1>4

(***************************************************************************)
(* With fewer sensors than the counter of indices has values, the          *)
(* handlers of pack.c number the sensors 0, 1, 2, ... in a dictionary      *)
(* whose indices are unique, whatever was refused, retried or flushed in   *)
(* between, whichever chains of the hash table the names share.            *)
(***************************************************************************)
THEOREM NumberingExact == FewNames => (Spec => []DictionaryExact)
<1> SUFFICES ASSUME FewNames PROVE Spec => []DictionaryExact
  OBVIOUS
<1>1. Init => NumberedInv
  BY InitNumbered
<1>2. NumberedInv /\ [Next]_vars => NumberedInv'
  BY StepNumbered
<1>3. NumberedInv => DictionaryExact
  BY DEF NumberedInv, Numbered, DictionaryExact, UniqueIndex
<1> QED
  BY <1>1, <1>2, <1>3, PTL DEF Spec

-----------------------------------------------------------------------------
(* What the dictionary remembers of the values. *)

(***************************************************************************)
(* The inputs for which a handler's test for "unmodified" is exact: no     *)
(* string begins another one (the first value of a sensor is stored        *)
(* without its terminator), integers fit the word insert_* keeps of them.  *)
(* A boolean or a null is its type; val is the identity of anything else.  *)
(***************************************************************************)
SameValue(v, w) ==
  v.type = w.type /\ (v.type \in BoolTypes \cup {"NULL"} \/ v.val = w.val)

PlainValues ==
  /\ Extends = {}
  /\ \A v \in Values : v.type \in IntTypes => v.val < WordMod
  /\ \A v, w \in Values : SameValue(v, w) => v = w

(* lastValue of each sensor is that of some value a caller injects. *)
Remembers(cache) ==
  \A m \in Known(cache) : \E w \in Values : w.type = cache[m].type /\ w.val = cache[m].val

CurrentInv == NumberedInv /\ LastValueCurrent

(* A dictionary with one entry written is the old one everywhere else. *)
LEMMA CacheWith ==
  ASSUME NEW cache \in [Names -> Entry \cup {NoEntry}], NEW n \in Names, NEW e \in Entry
  PROVE  /\ Known([cache EXCEPT ![n] = e]) = Known(cache) \cup {n}
         /\ [cache EXCEPT ![n] = e][n] = e
         /\ \A m \in Known(cache) : m # n => [cache EXCEPT ![n] = e][m] = cache[m]
  BY NoEntryAssumption DEF Known

(* A row with a value, or a repeat, leaves its value remembered: no other entry moves. *)
LEMMA RowRemembers ==
  ASSUME PlainValues, NEW s, Formed(s), Numbered(s.cache, s.totalEntries), Remembers(s.cache),
         NEW n \in Names, NEW u \in Units, NEW v \in Values, NEW w \in WriteRow(s, n, u, v)
  PROVE  /\ Known(w.cache) = Known(s.cache) \cup {n}
         /\ \A m \in Known(s.cache) : m # n => w.cache[m] = s.cache[m]
         /\ w.cache[n].type = v.type /\ w.cache[n].val = v.val
         /\ w.cache[n].index = IF n \in Known(s.cache) THEN s.cache[n].index ELSE s.totalEntries
<1> DEFINE i == s.totalEntries
<1>1. /\ s \in Channel /\ s.cache \in [Names -> Entry \cup {NoEntry}]
      /\ i \in 0 .. IndexMod - 1 /\ i \in Nat /\ IndexMod \in Nat
      /\ v.type \in ValueTypes /\ v.val \in Nat /\ WordMod \in Nat
  <2>1. s \in Channel /\ IndexMod \in 1 .. IndexLimit
    BY BaseAssumption, IndexModType DEF Formed
  <2>2. s.cache \in [Names -> Entry \cup {NoEntry}] /\ i \in 0 .. IndexMod - 1
    BY <2>1 DEF Channel
  <2>3. v.type \in ValueTypes /\ v.val \in Nat /\ WordMod \in Nat
    BY BaseAssumption DEF Value
  <2> HIDE DEF i
  <2> QED
    BY <2>1, <2>2, <2>3
<1>2. CASE n \notin Known(s.cache)
  <2> DEFINE last == FirstLast(v)
             e == [unit |-> u, index |-> i, type |-> last.type, val |-> last.val,
                   terminated |-> last.terminated]
             c == [s.cache EXCEPT ![n] = e]
  <2>1. last \in Last /\ last.type = v.type /\ last.val = v.val
    <3>1. last \in Last
      BY LastTyped
    <3>2. v.type \in IntTypes => v.val % WordMod = v.val
      <4>1. v.type \in IntTypes => v.val < WordMod
        BY DEF PlainValues
      <4> QED
        BY <1>1, <4>1
    <3> QED
      BY <3>1, <3>2 DEF FirstLast
  <2> HIDE DEF last
  <2>2. e \in Entry
    BY <1>1, <2>1 DEF Last, Entry
  <2>3. SameIndex(s.cache, n, i) = {}
    <3>1. \A m \in Known(s.cache) : s.cache[m].index \in 0 .. i - 1
      BY DEF Numbered
    <3> QED
      BY <1>1, <3>1 DEF SameIndex
  <2>4. Inserted(s.cache, n, u, i, last) = c
    BY <2>3 DEF Inserted
  <2>5. w.cache = c
    <3>1. w = WriteNew(s, n, u, v)
      BY <1>2 DEF WriteRow
    <3> QED
      BY <1>1, <2>4, <3>1 DEF WriteNew, Put, Channel, last
  <2>6. e.index = i /\ e.type = v.type /\ e.val = v.val
    BY <2>1
  <2> HIDE DEF e
  <2>7. /\ Known(c) = Known(s.cache) \cup {n} /\ c[n] = e
        /\ \A m \in Known(s.cache) : m # n => c[m] = s.cache[m]
    BY <1>1, <2>2, CacheWith
  <2> QED
    BY <1>2, <2>5, <2>6, <2>7
<1>3. CASE n \in Known(s.cache) /\ w = WriteUnmodified(s, n) /\ TRUE \in Unmodified(s.cache[n], v)
  <2>1. w.cache = s.cache
    BY <1>1, <1>3 DEF WriteUnmodified, Put, Channel
  <2>2. s.cache[n] \in Entry
    BY <1>1, <1>3 DEF Known
  <2>3. /\ s.cache[n].type = v.type
        /\ v.type \in BoolTypes \cup {"NULL"} \/ s.cache[n].val = v.val
    <3>1. <<s.cache[n].val, v.val>> \notin Extends
      BY DEF PlainValues
    <3> QED
      BY <1>3, <3>1 DEF Unmodified
  <2>4. PICK x \in Values : x.type = s.cache[n].type /\ x.val = s.cache[n].val
    BY <1>3 DEF Remembers
  <2>5. x = v
    <3>1. SameValue(x, v)
      BY <2>3, <2>4 DEF SameValue
    <3> QED
      BY <3>1 DEF PlainValues
  <2> QED
    BY <1>3, <2>1, <2>4, <2>5
<1>4. CASE n \in Known(s.cache) /\ w = WriteChanged(s, n, v)
  <2> DEFINE e == WithLast(s.cache[n], NextLast(v))
             c == [s.cache EXCEPT ![n] = e]
  <2>1. s.cache[n] \in Entry /\ n \in Names
    BY <1>1, <1>4 DEF Known
  <2>2. e \in Entry
    BY <2>1, LastTyped, EntryUpdated
  <2>3. e.index = s.cache[n].index /\ e.type = v.type /\ e.val = v.val
    BY <2>1 DEF WithLast, NextLast, Entry
  <2>4. w.cache = c
    BY <1>1, <1>4 DEF WriteChanged, Put, Channel
  <2> HIDE DEF e
  <2>5. /\ Known(c) = Known(s.cache) \cup {n} /\ c[n] = e
        /\ \A m \in Known(s.cache) : m # n => c[m] = s.cache[m]
    BY <1>1, <2>2, CacheWith
  <2> QED
    BY <1>4, <2>3, <2>4, <2>5
<1>5. \/ n \notin Known(s.cache)
      \/ n \in Known(s.cache) /\ w = WriteUnmodified(s, n) /\ TRUE \in Unmodified(s.cache[n], v)
      \/ n \in Known(s.cache) /\ w = WriteChanged(s, n, v)
  BY DEF WriteRow
<1> QED
  BY <1>2, <1>3, <1>4, <1>5

(* The history of the accepted rows names every value that is remembered. *)
LEMMA CurrentRemembers ==
  ASSUME CurrentInv
  PROVE  Remembers(pk.cache)
<1>1. rows \in Seq(Row)
  BY DEF CurrentInv, NumberedInv, IInv, TypeOK
<1>2. ASSUME NEW n \in Known(pk.cache)
      PROVE  \E w \in Values : w.type = pk.cache[n].type /\ w.val = pk.cache[n].val
  <2>1. PICK i \in DOMAIN rows :
          rows[i].value.type = pk.cache[n].type /\ rows[i].value.val = pk.cache[n].val
    BY DEF CurrentInv, LastValueCurrent
  <2>2. rows[i] \in Row
    BY <1>1
  <2>3. rows[i].value \in Values
    BY <2>2 DEF Row
  <2> QED
    BY <2>1, <2>3
<1> QED
  BY <1>2 DEF Remembers

(* An accepted row is the latest one of its sensor, and no other's. *)
LEMMA InjectCurrent ==
  ASSUME PlainValues, Ready, CurrentInv, Numbered(pk.cache, pk.totalEntries), NEW t \in Times,
         NEW n \in Names, NEW u \in Units, NEW v \in Values, Inject(t, n, u, v)
  PROVE  LastValueCurrent'
<1>1. PICK stamped \in TsHandler(pk, t) :
        \E written \in WriteRow(MadeRoom(stamped, v), n, u, v) :
          \E done \in FlushIfFlushable(CountRow(written)) : Return(done)
  BY DEF Inject
<1> DEFINE m == MadeRoom(stamped, v)
<1>2. PICK written \in WriteRow(m, n, u, v) :
        \E done \in FlushIfFlushable(CountRow(written)) : Return(done)
  BY <1>1
<1>3. PICK done \in FlushIfFlushable(CountRow(written)) : Return(done)
  BY <1>2
<1>4. Formed(stamped) /\ Kept(pk, stamped)
  BY StampedFormed DEF Ready, Inject
<1>5. Formed(m) /\ Kept(stamped, m)
  BY <1>4, RoomFormed
<1> HIDE DEF m
<1>6. Formed(written)
  <2>1. ~NameRejected(m, n, u)
    BY <1>4, <1>5 DEF Inject, NameRejected, Kept
  <2> QED
    BY <1>5, <2>1, RowFormed
<1>7. m.cache = pk.cache /\ m.totalEntries = pk.totalEntries
  BY <1>4, <1>5 DEF Kept
<1> DEFINE c == written.cache
<1>8. /\ Known(c) = Known(pk.cache) \cup {n}
      /\ \A p \in Known(pk.cache) : p # n => c[p] = pk.cache[p]
      /\ c[n].type = v.type /\ c[n].val = v.val
  <2>1. Remembers(pk.cache)
    BY CurrentRemembers
  <2> QED
    BY <1>5, <1>7, <2>1, RowRemembers
<1>9. pk'.cache = c
  <2> DEFINE counted == CountRow(written)
  <2>1. Formed(counted) /\ counted.cache = c
    BY Zenon, <1>6, CountFormed DEF CountRow, Formed, Channel
  <2> HIDE DEF counted
  <2>2. Formed(done) /\ Kept(counted, done)
    BY <1>3, <2>1, FlushableFormed DEF counted
  <2>3. Kept(done, pk')
    BY <1>3, <2>2, Returned
  <2> QED
    BY <2>1, <2>2, <2>3 DEF Kept
<1> HIDE DEF c
<1> DEFINE r == [time |-> Tick(t), name |-> n, unit |-> u, value |-> v]
           l == Len(rows)
<1>10. /\ rows \in Seq(Row) /\ l \in Nat /\ rows' = Append(rows, r)
       /\ DOMAIN rows = 1 .. l /\ DOMAIN rows' = 1 .. l + 1
       /\ rows'[l + 1] = r /\ \A i \in 1 .. l : rows'[i] = rows[i]
  <2>1. rows \in Seq(Row) /\ rows' = Append(rows, r)
    BY DEF CurrentInv, NumberedInv, IInv, TypeOK, Inject
  <2> QED
    BY <2>1
<1>11. r.name = n /\ r.value = v
  OBVIOUS
<1> HIDE DEF r, l
<1>12. ASSUME NEW p \in Known(c)
       PROVE  \E i \in DOMAIN rows' :
                /\ rows'[i].name = p /\ \A j \in DOMAIN rows' : j > i => rows'[j].name # p
                /\ rows'[i].value.type = c[p].type /\ rows'[i].value.val = c[p].val
  <2>1. CASE p = n
    <3>1. l + 1 \in DOMAIN rows' /\ \A j \in DOMAIN rows' : ~(j > l + 1)
      BY <1>10
    <3> QED
      BY <1>8, <1>10, <1>11, <2>1, <3>1
  <2>2. CASE p # n
    <3>1. p \in Known(pk.cache) /\ c[p] = pk.cache[p]
      BY <1>8, <1>12, <2>2
    <3>2. PICK i \in DOMAIN rows :
            /\ rows[i].name = p /\ \A j \in DOMAIN rows : j > i => rows[j].name # p
            /\ rows[i].value.type = c[p].type /\ rows[i].value.val = c[p].val
      BY <3>1 DEF CurrentInv, LastValueCurrent
    <3>3. i \in DOMAIN rows' /\ rows'[i] = rows[i]
      BY <1>10, <3>2
    <3>4. \A j \in DOMAIN rows' : j > i => rows'[j].name # p
      <4>1. \A j \in 1 .. l : j > i => rows'[j].name # p
        BY <1>10, <3>2
      <4>2. rows'[l + 1].name # p
        BY <1>10, <1>11, <2>2
      <4> QED
        BY <1>10, <4>1, <4>2
    <3> QED
      BY <3>2, <3>3, <3>4
  <2> QED
    BY <2>1, <2>2
<1> QED
  BY <1>9, <1>12 DEF LastValueCurrent, Known

(***************************************************************************)
(* lastValue is the value of the sensor's latest accepted row, in every    *)
(* dictionary of fewer sensors than indices and for inputs on which the    *)
(* handlers' test for "unmodified" is exact: whatever was refused, flushed *)
(* or retried since, a record "unmodified" repeats the right value.        *)
(***************************************************************************)
THEOREM LastValueStaysCurrent ==
  FewNames /\ PlainValues => (Spec => []LastValueCurrent)
<1> SUFFICES ASSUME FewNames, PlainValues PROVE Spec => []LastValueCurrent
  OBVIOUS
<1>1. Init => CurrentInv
  <2> SUFFICES ASSUME Init PROVE CurrentInv
    OBVIOUS
  <2>1. NumberedInv
    BY InitNumbered
  <2>2. Known(pk.cache) = {}
    BY DEF Init, InitChannel, Known, EmptyCache
  <2> QED
    BY <2>1, <2>2 DEF CurrentInv, LastValueCurrent
<1>2. CurrentInv /\ [Next]_vars => CurrentInv'
  <2> SUFFICES ASSUME CurrentInv, [Next]_vars PROVE CurrentInv'
    OBVIOUS
  <2>1. Ready /\ rows \in Seq(Row)
    BY DEF CurrentInv, NumberedInv, IInv, TypeOK, Ready, Formed
  <2>2. NumberedInv'
    BY StepNumbered DEF CurrentInv
  <2> SUFFICES LastValueCurrent'
    BY <2>2 DEF CurrentInv
  <2>3. ASSUME NEW t \in Times, NEW v \in Values, NEW n \in Names, NEW u \in Units,
               Inject(t, n, u, v)
        PROVE  LastValueCurrent'
    <3>1. Numbered(pk.cache, pk.totalEntries)
      BY <2>3 DEF CurrentInv, NumberedInv, Inject, Callable
    <3> QED
      BY <2>1, <2>3, <3>1, InjectCurrent
  <2>4. CASE Close
    <3>1. pk'.cache = EmptyCache
      BY <2>1, <2>4, CloseEmpties
    <3>2. Known(pk'.cache) = {}
      BY <3>1 DEF Known, EmptyCache
    <3> QED
      BY <3>2 DEF LastValueCurrent, Known
  <2>5. CASE UNCHANGED vars
    BY <2>5 DEF vars, CurrentInv, LastValueCurrent, Known
  <2>6. CASE Next /\ ~Close /\
             ~ \E t \in Times, v \in Values, n \in Names, u \in Units : Inject(t, n, u, v)
    <3>1. KeepsNames
      BY <2>1, <2>6, LongNameKeeps, BadTimestampKeeps, LongStringKeeps, NoRoomKeeps,
         ResizeKeeps, ResizeRefusedKeeps, FlushKeeps, SpillKeeps DEF Next
    <3>2. UNCHANGED rows
      BY <2>6 DEF Next, InjectLongName, InjectBadTimestamp, InjectLongString, InjectNoRoom,
                  Resize, ResizeRefused, Flush, Spill
    <3> QED
      BY <3>1, <3>2 DEF KeepsNames, CurrentInv, LastValueCurrent, Known
  <2> QED
    BY <2>3, <2>4, <2>5, <2>6 DEF Next
<1>3. CurrentInv => LastValueCurrent
  BY DEF CurrentInv
<1> QED
  BY <1>1, <1>2, <1>3, PTL DEF Spec

=============================================================================
