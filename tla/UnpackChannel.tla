--------------------------- MODULE UnpackChannel ---------------------------
(***************************************************************************)
(* One channel of the unpacker, src/core/unpack.c, driven by               *)
(* otic_unpack_parse: a call of parse takes one frame off the file; for a  *)
(* data frame it then decodes the block record by record, calling the      *)
(* user's callback for a row.  The records of a block are separate steps,  *)
(* one per otic_unpack_read_* function: the user's code runs between them. *)
(***************************************************************************)
EXTENDS OticFile

CONSTANT FetchLists    \* lists of names a caller may give to toFetch, none empty

ASSUME UnpackAssumption == FetchLists \subseteq SUBSET Names /\ {} \notin FetchLists

VARIABLES
  up,    \* oticUnpackChannel_t, with the state and error of its otic_unpack_t
  got    \* history: the rows handed to the callback

uvars == <<up, wire, got>>

(* The value of an entry before its first row has the type OTIC_TYPE_EOF. *)
NoValue == [type |-> "EOF", val |-> 0, size |-> 0]

UEntry == [name : Names, unit : Units, ignore : BOOLEAN, value : Values \cup {NoValue}]

Delivery == [time : Nat \cup {TsNull}, name : Names, unit : Units,
             value : Values \cup {NoValue}]

Reader ==
  [entries : Seq(UEntry), ts : Nat \cup {TsNull}, timeStart : Nat \cup {TsNull},
   rowCounter : Nat, block : Seq(Token), cacheSize : Nat, fetch : SUBSET Names,
   state : States, error : Errors, parentState : States, parentError : Errors,
   ended : BOOLEAN,     \* parse returned 0: the caller stops
   complete : BOOLEAN,  \* history: an EOF record with the right count was read
   astray : BOOLEAN]    \* undefined from here on: top is not at a record's start

InitReader ==
  [entries |-> <<>>, ts |-> TsNull, timeStart |-> TsNull, rowCounter |-> 0,
   block |-> <<>>, cacheSize |-> DefaultBucket, fetch |-> {},
   state |-> "OPENED", error |-> "NONE", parentState |-> "OPENED", parentError |-> "NONE",
   ended |-> FALSE, complete |-> FALSE, astray |-> FALSE]

(* otic_unpack_init and otic_unpack_defineChannel have run. *)
UInit == up = InitReader /\ got = <<>>

-----------------------------------------------------------------------------
(* otic_unpack_channel_toFetch keeps hashes; an empty list changes nothing. *)
IsFetchable(fetch, n) == \E f \in fetch : HashOf[f] = HashOf[n]

SetFetch(list) == up' = [up EXCEPT !.fetch = list] /\ UNCHANGED <<wire, got>>

-----------------------------------------------------------------------------
(* otic_unpack_parse, one frame. *)

Parsing == ~up.ended /\ ~up.astray /\ up.block = <<>>
AtFrame(meta) == Parsing /\ wire # <<>> /\ Head(wire).meta = meta

ParseDefine ==
  /\ AtFrame("CHANNEL_DEFINE")
  /\ up' = [up EXCEPT !.state = "OPENED"] /\ wire' = Tail(wire) /\ UNCHANGED got

(* The channel's type and its compression are read and change nothing here. *)
ParseIgnored ==
  /\ AtFrame("CHANNEL_TYPE") \/ AtFrame("COMPRESSION_METHOD")
  /\ wire' = Tail(wire) /\ UNCHANGED <<up, got>>

(* Both buffers are allocated anew. *)
ParseChunk ==
  /\ AtFrame("CHUNK_SIZE")
  /\ up' = [up EXCEPT !.cacheSize = Head(wire).size]
  /\ wire' = Tail(wire) /\ UNCHANGED got

(* otic_unpack_read_data: the decompressed block must fit in cacheSize. *)
ParseData ==
  /\ AtFrame("DATA") /\ Head(wire).used <= up.cacheSize
  /\ up' = [up EXCEPT !.block = Head(wire).tokens]
  /\ wire' = Tail(wire) /\ UNCHANGED got

ParseOversized ==
  /\ AtFrame("DATA") /\ Head(wire).used > up.cacheSize
  /\ up' = [up EXCEPT !.error = "ZSTD", !.parentError = "ZSTD", !.parentState = "ON_ERROR",
                      !.ended = TRUE]
  /\ wire' = Tail(wire) /\ UNCHANGED got

(***************************************************************************)
(* A data frame cut off.  At the end of the file the fetcher fails: on the *)
(* size, which parse reports, or on the body, which it does not.  With     *)
(* more bytes behind it, those are taken for the body: too few of them, or *)
(* not zstd's magic number.                                                *)
(***************************************************************************)
ParseTorn ==
  /\ AtFrame("TORN")
  /\ \/ up' = [up EXCEPT !.ended = TRUE]
     \/ /\ Len(wire) = 1
        /\ up' = [up EXCEPT !.parentError = "EOF", !.parentState = "ON_ERROR", !.ended = TRUE]
     \/ /\ Len(wire) > 1
        /\ up' = [up EXCEPT !.error = "ZSTD", !.parentError = "ZSTD",
                            !.parentState = "ON_ERROR", !.ended = TRUE]
  /\ wire' = Tail(wire) /\ UNCHANGED got

(* No byte left: parse returns 0 and sets nothing, EOF record or not. *)
ParseEnd ==
  /\ Parsing /\ wire = <<>>
  /\ up' = [up EXCEPT !.ended = TRUE] /\ UNCHANGED <<wire, got>>

-----------------------------------------------------------------------------
(* otic_unpack_parseBlock, one record. *)

Current == Head(up.block)
Reading(tags) == ~up.ended /\ ~up.astray /\ up.block # <<>> /\ Current.tok \in tags
Consumed == [up EXCEPT !.block = Tail(@)]

ReadSetTimestamp ==
  /\ Reading({"SET_TIMESTAMP"})
  /\ up' = [Consumed EXCEPT !.ts = Current.arg,
                            !.timeStart = IF @ = TsNull THEN Current.arg ELSE @]
  /\ UNCHANGED <<wire, got>>

ReadShiftTimestamp ==
  /\ Reading({"SHIFT_TIMESTAMP"}) /\ up.ts # TsNull
  /\ up' = [Consumed EXCEPT !.ts = @ + Current.arg]
  /\ UNCHANGED <<wire, got>>

(* Whether an entry is ignored is decided here, once. *)
ReadNameAssign_Slip ==  \* a sensor that is not wanted gets no entry
  /\ Reading({"NAME_ASSIGN"})
  /\ up' = IF up.fetch # {} /\ ~IsFetchable(up.fetch, Current.name) THEN Consumed
           ELSE [Consumed EXCEPT !.entries = Append(@,
                  [name |-> Current.name, unit |-> Current.unit, value |-> NoValue,
                   ignore |-> FALSE])]
  /\ UNCHANGED <<wire, got>>

ReadNameAssign ==
  /\ Reading({"NAME_ASSIGN"})
  /\ up' = [Consumed EXCEPT !.entries = Append(@,
              [name |-> Current.name, unit |-> Current.unit, value |-> NoValue,
               ignore |-> ~IsFetchable(up.fetch, Current.name)])]
  /\ UNCHANGED <<wire, got>>

(* An index outside the dictionary reads a wild pointer. *)
InDictionary(i) == i < Len(up.entries)

(* flush_if_flushable *)
Delivered(e) ==
  IF e.ignore /\ up.fetch # {} THEN got
  ELSE Append(got, [time |-> up.ts, name |-> e.name, unit |-> e.unit, value |-> e.value])

ReadValue_Slip ==       \* the entry does not keep the value for the next "unmodified"
  /\ Reading((ValueTypes \ {"RAWBUFFER"}) \cup {"SMALL"}) /\ InDictionary(Current.index)
  /\ LET i == Current.index + 1
     IN  /\ got' = Delivered([up.entries[i] EXCEPT !.value = Current.value])
         /\ up' = [Consumed EXCEPT !.rowCounter = @ + 1,
                      !.entries[i].value = IF @ = NoValue THEN Current.value ELSE @]
  /\ UNCHANGED wire

ReadValue ==
  /\ Reading((ValueTypes \ {"RAWBUFFER"}) \cup {"SMALL"}) /\ InDictionary(Current.index)
  /\ LET i == Current.index + 1
         e == [up.entries[i] EXCEPT !.value = Current.value]
     IN  /\ got' = Delivered(e)
         /\ up' = [Consumed EXCEPT !.entries[i] = e, !.rowCounter = @ + 1]
  /\ UNCHANGED wire

ReadUnmodified_Slip ==  \* a repeated row is not counted
  /\ Reading({"UNMODIFIED"}) /\ InDictionary(Current.index)
  /\ got' = Delivered(up.entries[Current.index + 1])
  /\ up' = Consumed
  /\ UNCHANGED wire

ReadUnmodified ==
  /\ Reading({"UNMODIFIED"}) /\ InDictionary(Current.index)
  /\ got' = Delivered(up.entries[Current.index + 1])
  /\ up' = [Consumed EXCEPT !.rowCounter = @ + 1]
  /\ UNCHANGED wire

(* read_rawbuffer takes the index for the size: the block is lost from here. *)
ReadRawBuffer ==
  /\ Reading({"RAWBUFFER"})
  /\ up' = [up EXCEPT !.astray = TRUE] /\ UNCHANGED <<wire, got>>

ReadEof_Slip ==         \* counts the rows handed over instead of the rows read
  /\ Reading({"EOF"})
  /\ up' = IF Current.arg = Len(got) THEN [Consumed EXCEPT !.complete = TRUE]
           ELSE [Consumed EXCEPT !.error = "ROW_COUNT_MISMATCH", !.state = "ON_ERROR"]
  /\ UNCHANGED <<wire, got>>

ReadEof ==
  /\ Reading({"EOF"})
  /\ up' = IF Current.arg = up.rowCounter THEN [Consumed EXCEPT !.complete = TRUE]
           ELSE [Consumed EXCEPT !.error = "ROW_COUNT_MISMATCH", !.state = "ON_ERROR"]
  /\ UNCHANGED <<wire, got>>

Parse == ParseDefine \/ ParseIgnored \/ ParseChunk \/ ParseData \/ ParseOversized \/ ParseTorn

ReadRow == ReadValue \/ ReadUnmodified
ReadRecord ==
  \/ ReadSetTimestamp \/ ReadShiftTimestamp \/ ReadNameAssign \/ ReadRow
  \/ ReadRawBuffer \/ ReadEof

UNext == Parse \/ ParseEnd \/ ReadRecord \/ \E list \in FetchLists : SetFetch(list)

=============================================================================
