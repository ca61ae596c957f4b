---------------------------- MODULE PackChannel ----------------------------
(***************************************************************************)
(* One channel of the packer, src/core/pack.c: the dictionary of sensors   *)
(* with the last value of each, the bucket the records are encoded into,   *)
(* the timestamp handler, the flush, and every otic_pack_channel_* call a  *)
(* single channel answers (arrays aside).  The library is single-threaded: *)
(* a call is one step.  What is not the library's to decide is a choice of *)
(* the step: whether the user's flusher and zstd succeed, whether realloc  *)
(* moves the buffer, what lies behind a string that was stored without its *)
(* terminating byte.                                                       *)
(***************************************************************************)
EXTENDS OticFile

CONSTANTS
  Times,       \* timestamps a caller passes, in fractions of a tick
  SubTicks,    \* fractions to a tick (1 tick = 1/OTIC_TS_MULTIPLICATOR second)
  BucketSize,  \* the bucket size the channel is defined with
  Sizes,       \* the sizes a caller resizes the bucket to
  Extends,     \* <<a, b>>: the bytes of string a are a proper prefix of b's
  FlushResults,\* outcomes of a flush: "ok", "zstd", "meta" or "data" fails
  NoEntry,     \* a name the dictionary does not hold
  MaxRows,     \* bound: injections accepted
  MaxWire      \* bound: frames in the file a call starts with

ASSUME PackAssumption ==
  /\ Times \subseteq Nat /\ SubTicks \in Nat \ {0}
  /\ BucketSize \in Nat /\ BucketSize > MinBucket
  /\ Sizes \subseteq Nat
  /\ Extends \subseteq Nat \X Nat
  /\ FlushResults \subseteq {"ok", "zstd", "meta", "data"} /\ "ok" \in FlushResults
  /\ MaxRows \in Nat /\ MaxWire \in Nat

VARIABLES
  pk,    \* otic_pack_channel_t, with the state and error of its otic_pack_t
  rows   \* history: the injections that returned 1

vars == <<pk, wire, rows>>

(***************************************************************************)
(* lastValue of a dictionary entry: terminated says whether a stored       *)
(* string ends with a zero byte.                                           *)
(***************************************************************************)
Entry ==
  [unit : Units, index : 0 .. IndexMod - 1, type : ValueTypes, val : Nat, terminated : BOOLEAN]

ASSUME NoEntryAssumption == NoEntry \notin Entry

Row == [time : Nat, name : Names, unit : Units, value : Values]

Channel ==
  [cache : [Names -> Entry \cup {NoEntry}],
   bucket : Seq(Token), used : Nat, cacheSize : Nat, threshold : Nat,
   ts : Nat \cup {TsNull}, timeStart : Nat \cup {TsNull}, timeEnd : Nat \cup {TsNull},
   rowCounter : Nat, totalEntries : 0 .. IndexMod - 1,
   state : States, error : Errors, parentState : States, parentError : Errors,
   sent : Seq(Frame),          \* frames the running call has written
   handle : {"live", "dangling", "freed"},
   overrun : BOOLEAN,          \* history: a write went past the bucket
   spilled : BOOLEAN,          \* history: a flush may have written past ztd_out
   flushFailed : BOOLEAN,      \* history: some flush failed
   squeezed : BOOLEAN,         \* history: a resize left less than the reserve
   unheard : BOOLEAN]          \* history: a resize's frame was never written

-----------------------------------------------------------------------------
(* Writing records into the bucket. *)

Put(s, t, n) ==
  [s EXCEPT !.bucket = Append(@, t), !.used = @ + n,
            !.overrun = @ \/ s.used + n > s.cacheSize]

(***************************************************************************)
(* ztd_out has the size the channel was defined with and is not resized,   *)
(* but zstd is told that it is as large as the bucket.                     *)
(***************************************************************************)
CompressBound(n) == n + n \div 256 + (IF n < 131072 THEN (131072 - n) \div 2048 ELSE 0)

MaySpill(s) == s.cacheSize > BucketSize /\ CompressBound(s.used) > BucketSize

(***************************************************************************)
(* otic_pack_channel_flush.  The bucket is emptied only when both calls of *)
(* the flusher succeed; after a failure everything in it is kept.          *)
(***************************************************************************)
ChannelFlushed_Slip(s, result) ==  \* the channel itself is not marked
  IF result = "ok"
  THEN [s EXCEPT !.sent = Append(@, DataFrame(s.bucket, s.used, s.cacheSize)),
                 !.bucket = <<>>, !.used = 0]
  ELSE [s EXCEPT !.parentState = "ON_ERROR", !.flushFailed = TRUE,
                 !.sent = IF result = "data" THEN Append(@, TornFrame) ELSE @]

ChannelFlushed(s, result) ==
  IF result = "ok"
  THEN [s EXCEPT !.sent = Append(@, DataFrame(s.bucket, s.used, s.cacheSize)),
                 !.bucket = <<>>, !.used = 0, !.spilled = @ \/ MaySpill(s)]
  ELSE [s EXCEPT !.error = IF result = "zstd" THEN "ZSTD" ELSE "FLUSH_FAILED",
                 !.state = "ON_ERROR", !.parentState = "ON_ERROR",
                 !.sent = IF result = "data" THEN Append(@, TornFrame) ELSE @,
                 !.flushFailed = TRUE, !.spilled = @ \/ MaySpill(s)]

ChannelFlush(s) == {ChannelFlushed(s, r) : r \in FlushResults}

FlushIfFlushable(s) == IF s.used > s.threshold THEN ChannelFlush(s) ELSE {s}

(* otic_ts_handler: refuses to go back, writes only what changed. *)
Tick(t) == t \div SubTicks

TsRejected_Slip(s, t) == FALSE  \* the check for a step back is lost

TsRejected(s, t) == s.ts # TsNull /\ Tick(t) < s.ts

SetTimestamp(s, t) ==
  Put([s EXCEPT !.ts = Tick(t), !.timeStart = IF @ = TsNull THEN t ELSE @],
      TsToken("SET_TIMESTAMP", Tick(t)), ArgTokenSize(Tick(t)))

ShiftTimestamp(s, t) ==
  Put([s EXCEPT !.ts = Tick(t), !.timeEnd = t],
      TsToken("SHIFT_TIMESTAMP", Tick(t) - s.ts), ArgTokenSize(Tick(t) - s.ts))

TsHandler(s, t) ==
  IF s.ts = Tick(t) THEN {s}
  ELSE FlushIfFlushable(IF s.ts = TsNull THEN SetTimestamp(s, t) ELSE ShiftTimestamp(s, t))

-----------------------------------------------------------------------------
(* The dictionary. *)

Bucket(n) == HashOf[n] % CacheBuckets

EmptyCache == [n \in Names |-> NoEntry]
Known(cache) == {n \in Names : cache[n] # NoEntry}

(***************************************************************************)
(* What insert_* stores for a new sensor and what the handlers store for a *)
(* known one: the former truncates an integer to 32 bits and does not      *)
(* terminate a string.                                                     *)
(***************************************************************************)
FirstLast(v) ==
  [type |-> v.type, val |-> IF v.type \in IntTypes THEN v.val % WordMod ELSE v.val,
   terminated |-> v.type # "STRING"]
NextLast(v) == [type |-> v.type, val |-> v.val, terminated |-> TRUE]

WithLast(e, last) ==
  [e EXCEPT !.type = last.type, !.val = last.val, !.terminated = last.terminated]

(***************************************************************************)
(* entry_insert_routine: the chain of the name's bucket is searched for    *)
(* the index, not for the name; an entry found there is reused as it is.   *)
(***************************************************************************)
SameIndex(cache, n, i) == {m \in Known(cache) : Bucket(m) = Bucket(n) /\ cache[m].index = i}

Inserted(cache, n, u, i, last) ==
  IF SameIndex(cache, n, i) = {}
  THEN [cache EXCEPT ![n] = [unit |-> u, index |-> i, type |-> last.type, val |-> last.val,
                             terminated |-> last.terminated]]
  ELSE LET m == CHOOSE m \in SameIndex(cache, n, i) : TRUE
       IN  [cache EXCEPT ![m] = WithLast(@, last)]

(***************************************************************************)
(* The test for "unmodified", one per handler: the answers it may give.    *)
(* strcmp on a string stored without a terminator reads what follows it,   *)
(* so that the same string may look different and a longer one the same.   *)
(***************************************************************************)
Unmodified(e, v) ==
  IF e.type # v.type \/ v.type = "RAWBUFFER" THEN {FALSE}
  ELSE IF v.type \in BoolTypes \cup {"NULL"} THEN {TRUE}
  ELSE IF e.terminated THEN {e.val = v.val}
  ELSE IF e.val = v.val \/ <<e.val, v.val>> \in Extends THEN BOOLEAN ELSE {FALSE}

-----------------------------------------------------------------------------
(* One row, from the lookup to the value's record. *)

WriteNew_Slip(s, n, u, v) ==       \* totalEntries is not advanced
  LET i == s.totalEntries
      named == Put([s EXCEPT !.cache = Inserted(@, n, u, i, FirstLast(v))],
                   NameToken(n, u), NameTokenSize(n, u))
  IN  Put(named, ValueToken(i, v), ValueTokenSize(i, v))

WriteNew(s, n, u, v) ==
  LET i == s.totalEntries
      named == Put([s EXCEPT !.cache = Inserted(@, n, u, i, FirstLast(v))],
                   NameToken(n, u), NameTokenSize(n, u))
  IN  Put([named EXCEPT !.totalEntries = (@ + 1) % IndexMod],
          ValueToken(i, v), ValueTokenSize(i, v))

WriteChanged_Slip(s, n, v) ==      \* the new value is written but not remembered
  LET i == s.cache[n].index IN Put(s, ValueToken(i, v), ValueTokenSize(i, v))

WriteChanged(s, n, v) ==
  LET i == s.cache[n].index
  IN  Put([s EXCEPT !.cache[n] = WithLast(@, NextLast(v))],
          ValueToken(i, v), ValueTokenSize(i, v))

WriteUnmodified(s, n) ==
  LET i == s.cache[n].index IN Put(s, RepeatToken(i), ArgTokenSize(i))

WriteRow(s, n, u, v) ==
  IF n \notin Known(s.cache) THEN {WriteNew(s, n, u, v)}
  ELSE {IF same THEN WriteUnmodified(s, n) ELSE WriteChanged(s, n, v) :
          same \in Unmodified(s.cache[n], v)}

CountRow(s) == [s EXCEPT !.rowCounter = @ + 1]

(***************************************************************************)
(* inject_s flushes first when the string does not fit below the           *)
(* threshold.  The difference is compared as an unsigned number: a bucket  *)
(* already past the threshold looks as if it had plenty of room.           *)
(***************************************************************************)
LacksRoom_Slip(s, v) ==            \* room up to the end of the bucket, not the threshold
  v.type = "STRING" /\ s.used <= s.cacheSize /\ v.size > s.cacheSize - s.used

LacksRoom(s, v) ==
  v.type = "STRING" /\ s.used <= s.threshold /\ v.size > s.threshold - s.used

MadeRoom(s, v) == IF LacksRoom(s, v) THEN ChannelFlushed(s, "ok") ELSE s

TooLong(s, v) == v.type = "STRING" /\ v.size > s.threshold
NameRejected(s, n, u) == n \notin Known(s.cache) /\ NameSize(n, u) > Uint8Max

(* The fail: label of the handlers does not set the same state in all. *)
FailState(v) ==
  IF v.type \in BoolTypes \cup {"INT_NEG", "NULL"} THEN "CLOSED" ELSE "ON_ERROR"
Failed(s, v, error) == [s EXCEPT !.error = error, !.state = FailState(v)]

-----------------------------------------------------------------------------
(* The calls. *)

InitChannel ==
  [cache |-> EmptyCache, bucket |-> <<>>, used |-> 0,
   cacheSize |-> BucketSize, threshold |-> BucketSize - TopLimit,
   ts |-> TsNull, timeStart |-> TsNull, timeEnd |-> TsNull,
   rowCounter |-> 0, totalEntries |-> 0,
   state |-> "OPENED", error |-> "NONE", parentState |-> "OPENED", parentError |-> "NONE",
   sent |-> <<>>, handle |-> "live",
   overrun |-> FALSE, spilled |-> FALSE, flushFailed |-> FALSE, squeezed |-> FALSE,
   unheard |-> FALSE]

(***************************************************************************)
(* otic_pack_init and otic_pack_defineChannel have run.  time_end is not   *)
(* set by either: TsNull stands for what the allocated memory holds.       *)
(***************************************************************************)
Init ==
  /\ pk = InitChannel
  /\ wire = <<DefineFrame, TypeFrame, CompressionFrame, ChunkFrame(BucketSize)>>
  /\ rows = <<>>

(***************************************************************************)
(* A call is possible while the handle is good and nothing has been        *)
(* written out of bounds: what follows either is undefined.                *)
(***************************************************************************)
Callable == pk.handle = "live" /\ ~pk.overrun /\ Len(wire) <= MaxWire

(* The end of a call: what it wrote through the flusher is in the file. *)
Return(s) == pk' = [s EXCEPT !.sent = <<>>] /\ wire' = wire \o s.sent

Inject(t, n, u, v) ==
  /\ Callable /\ Len(rows) < MaxRows
  /\ ~TsRejected(pk, t) /\ ~TooLong(pk, v) /\ ~NameRejected(pk, n, u)
  /\ \E stamped \in TsHandler(pk, t) :
       \E written \in WriteRow(MadeRoom(stamped, v), n, u, v) :
         \E done \in FlushIfFlushable(CountRow(written)) : Return(done)
  /\ rows' = Append(rows, [time |-> Tick(t), name |-> n, unit |-> u, value |-> v])

InjectBadTimestamp(t, v) ==
  /\ Callable /\ TsRejected(pk, t)
  /\ Return(Failed(pk, v, "INVALID_TIMESTAMP"))
  /\ UNCHANGED rows

InjectLongString(t, v) ==
  /\ Callable /\ ~TsRejected(pk, t) /\ TooLong(pk, v)
  /\ \E stamped \in TsHandler(pk, t) : Return(Failed(stamped, v, "BUFFER_OVERFLOW"))
  /\ UNCHANGED rows

(* The flush that should make room for a string fails. *)
InjectNoRoom(t, v) ==
  /\ Callable /\ ~TsRejected(pk, t) /\ ~TooLong(pk, v)
  /\ \E stamped \in TsHandler(pk, t) : \E result \in FlushResults \ {"ok"} :
       LacksRoom(stamped, v) /\ Return(ChannelFlushed(stamped, result))
  /\ UNCHANGED rows

InjectLongName_Slip(t, n, u, v) == \* the sensor is inserted before its name is checked
  /\ Callable /\ ~TsRejected(pk, t) /\ ~TooLong(pk, v) /\ NameRejected(pk, n, u)
  /\ \E stamped \in TsHandler(pk, t) :
       LET s == MadeRoom(stamped, v)
       IN  Return(Failed([s EXCEPT !.cache = Inserted(@, n, u, s.totalEntries, FirstLast(v))],
                         v, "BUFFER_OVERFLOW"))
  /\ UNCHANGED rows

InjectLongName(t, n, u, v) ==
  /\ Callable /\ ~TsRejected(pk, t) /\ ~TooLong(pk, v) /\ NameRejected(pk, n, u)
  /\ \E stamped \in TsHandler(pk, t) :
       Return(Failed(MadeRoom(stamped, v), v, "BUFFER_OVERFLOW"))
  /\ UNCHANGED rows

Flush ==
  /\ Callable
  /\ \E flushed \in ChannelFlush(pk) : Return(flushed)
  /\ UNCHANGED rows

(* otic_pack_channel_close ignores what the last flush returns. *)
Close ==
  /\ Callable
  /\ \E flushed \in ChannelFlush(Put(pk, EofToken(pk.rowCounter),
                                     ArgTokenSize(pk.rowCounter))) :
       Return([flushed EXCEPT !.handle = "freed", !.cache = EmptyCache])
  /\ UNCHANGED rows

(***************************************************************************)
(* otic_pack_channel_resizeBucket.  realloc may move the buffer, and       *)
(* base.top then points into freed memory.  The result of the flusher is   *)
(* not looked at.                                                          *)
(***************************************************************************)
NewSize(size) == IF size = 0 THEN DefaultBucket ELSE size
ResizeAllowed(s, size) == s.used < size /\ size > MinBucket

Resized_Slip(s, size, moved, heard) == \* the size is announced before it is changed
  [s EXCEPT !.cacheSize = size, !.threshold = size - TopLimit,
            !.handle = IF moved THEN "dangling" ELSE @,
            !.sent = IF heard THEN Append(@, ChunkFrame(s.cacheSize)) ELSE @,
            !.squeezed = @ \/ s.used > size - TopLimit, !.unheard = @ \/ ~heard]

Resized(s, size, moved, heard) ==
  [s EXCEPT !.cacheSize = size, !.threshold = size - TopLimit,
            !.handle = IF moved THEN "dangling" ELSE @,
            !.sent = IF heard THEN Append(@, ChunkFrame(size)) ELSE @,
            !.squeezed = @ \/ s.used > size - TopLimit, !.unheard = @ \/ ~heard]

Resize(size) ==
  /\ Callable /\ pk.state = "OPENED" /\ ResizeAllowed(pk, NewSize(size))
  /\ \E moved, heard \in BOOLEAN :
       (heard \/ "meta" \in FlushResults) /\ Return(Resized(pk, NewSize(size), moved, heard))
  /\ UNCHANGED rows

ResizeRefused(size) ==
  /\ Callable /\ ~(pk.state = "OPENED" /\ ResizeAllowed(pk, NewSize(size)))
  /\ Return([pk EXCEPT !.parentState = "ON_ERROR",
                       !.parentError = IF pk.state = "OPENED" THEN "ALLOCATION_FAILURE"
                                       ELSE "AT_INVALID_STATE"])
  /\ UNCHANGED rows

(* The compressed bytes were too many for ztd_out: undefined from here on. *)
Spill ==
  /\ Callable /\ pk.spilled
  /\ pk' = [pk EXCEPT !.handle = "dangling"]
  /\ UNCHANGED <<wire, rows>>

Next ==
  \/ \E t \in Times, v \in Values :
       \/ \E n \in Names, u \in Units : Inject(t, n, u, v) \/ InjectLongName(t, n, u, v)
       \/ InjectBadTimestamp(t, v) \/ InjectLongString(t, v) \/ InjectNoRoom(t, v)
  \/ \E size \in Sizes : Resize(size) \/ ResizeRefused(size)
  \/ Flush
  \/ Close
  \/ Spill

Spec == Init /\ [][Next]_vars

-----------------------------------------------------------------------------
(* Properties. *)

(* The channel, the file and the history have the shapes declared above. *)
TypeOK == pk \in Channel /\ wire \in Seq(Frame) /\ rows \in Seq(Row)

(***************************************************************************)
(* The 512 bytes kept above the threshold are enough.  The handlers write  *)
(* a timestamp, a name and a value without looking at the end of the       *)
(* bucket; as long as no flush failed and no resize cut into the reserve,  *)
(* every call starts at or below the threshold and no write, of any call,  *)
(* passes the end of the bucket.                                           *)
(***************************************************************************)
BucketBound ==
  ~pk.flushFailed /\ ~pk.squeezed => pk.used <= pk.threshold /\ ~pk.overrun

(***************************************************************************)
(* No two sensors have the same index: a name is replaced by "an unique    *)
(* ID" (doc/OTIC_FORMAT.md).  entry_insert_routine and the handlers rely   *)
(* on totalEntries for it, which has sixteen bits.                         *)
(***************************************************************************)
UniqueIndex ==
  \A m, n \in Known(pk.cache) : pk.cache[m].index = pk.cache[n].index => m = n

(***************************************************************************)
(* The dictionary numbers the sensors 0, 1, 2, ... without gap or repeat,  *)
(* whatever was refused or flushed in between: the reader numbers the      *)
(* names it meets in the same way and is never told an index.              *)
(***************************************************************************)
DictionaryExact ==
  pk.handle # "freed" =>
    /\ UniqueIndex
    /\ {pk.cache[n].index : n \in Known(pk.cache)} = 0 .. pk.totalEntries - 1

(***************************************************************************)
(* lastValue is the value of the sensor's latest accepted row, so that     *)
(* "unmodified" repeats the right one.                                     *)
(***************************************************************************)
LastValueCurrent ==
  \A n \in Known(pk.cache) :
    \E i \in DOMAIN rows :
      /\ rows[i].name = n /\ \A j \in DOMAIN rows : j > i => rows[j].name # n
      /\ rows[i].value.type = pk.cache[n].type /\ rows[i].value.val = pk.cache[n].val

(***************************************************************************)
(* A failed flush is never forgotten: until the channel is gone, no later  *)
(* call, successful or not, puts it back into the opened state.            *)
(***************************************************************************)
FailureSticks == pk.flushFailed => pk.state # "OPENED"

(***************************************************************************)
(* A refused injection leaves no sensor behind: the dictionary and the row *)
(* counter move only with an accepted row.                                 *)
(***************************************************************************)
RefusedLeavesNothing ==
  [][rows' = rows /\ pk'.handle # "freed" =>
       pk'.cache = pk.cache /\ pk'.rowCounter = pk.rowCounter]_vars

=============================================================================
