-------------------------- MODULE UnpackContainer --------------------------
(***************************************************************************)
(* otic_unpack_t, src/core/unpack.c: the list of selected channels, and    *)
(* the two ways to read a file.  A call of otic_unpack_parse takes one     *)
(* frame and decodes the whole block of a data frame.  A call of           *)
(* otic_unpack_generate reads one line: it goes on in the current block or *)
(* loops over frames to the next one.  A step is a frame or a record; the  *)
(* caller gets a word in between calls only.                               *)
(***************************************************************************)
EXTENDS ContainerFile, SequencesExt

CONSTANTS
  MaxReaders,    \* bound: channels selected
  LateSelect     \* may the list be called once frames have been read, but to close?

ASSUME UnpackAssumption ==
  MaxReaders \in Nat /\ LateSelect \in BOOLEAN

VARIABLES
  unp,     \* otic_unpack_t
  reader,  \* the selected channels by handle
  got      \* history: the rows handed to the callbacks, by channel id

uvars == <<unp, reader, got, file>>

Readers == 1 .. MaxReaders
NoReader == 0
UStates == {"OPENED", "ON_ERROR", "CLOSED"}

Unp ==
  [state : UStates, linked : SUBSET Readers, next : 1 .. MaxReaders + 1,
   by : {"parse", "generate"},      \* which of the two the caller uses
   at : Readers \cup {NoReader},    \* the channel whose block is being read
   fresh : BOOLEAN,                 \* no frame has been read yet
   inCall : BOOLEAN,                \* the running call goes on
   ended : BOOLEAN,                 \* the last call returned 0: the caller stops
   astray : BOOLEAN]                \* undefined from here on

Delivery == [time : Times \cup {NoTime}, sensor : Sensors, value : Numbers]

ReadChan ==
  [use : {"unused", "live", "freed"}, id : Ids, state : {"OPENED", "ON_ERROR"},
   entries : Seq(Sensors),
   ts : Times \cup {NoTime}, rowCounter : Nat, block : Seq(Record),
   complete : BOOLEAN]              \* history: an EOF record with the right count was read

NewReader(id, use) ==
  [use |-> use, id |-> id, state |-> "OPENED", entries |-> <<>>,
   ts |-> NoTime, rowCounter |-> 0, block |-> <<>>, complete |-> FALSE]

UInit ==
  /\ unp = [state |-> "CLOSED", linked |-> {}, next |-> 1, by |-> "parse", at |-> NoReader,
            fresh |-> TRUE, inCall |-> FALSE, ended |-> FALSE, astray |-> FALSE]
  /\ reader = [h \in Readers |-> NewReader(0, "unused")]
  /\ got = [id \in ChannelIds |-> <<>>]

LiveReaders == {h \in Readers : reader[h].use = "live"}

(***************************************************************************)
(* otic_unpack_init.  The header may be missing (the packer ignores what   *)
(* its flusher says of it: the memory compared with the magic then holds   *)
(* something else) or be of a newer version.                               *)
(***************************************************************************)
Headers == {"good", "missing", "newer"}

UnpackInit(by, header) ==
  /\ unp' = [unp EXCEPT !.by = by, !.ended = header # "good",
                         !.state = IF header = "good" THEN "OPENED" ELSE "ON_ERROR"]
  /\ UNCHANGED <<reader, got, file>>

-----------------------------------------------------------------------------
(* The list. *)

Between == ~unp.inCall /\ ~unp.ended /\ ~unp.astray

UOccupied(id) == \E h \in unp.linked : reader[h].id = id

(* Past the last handle of the bound a refusal makes no difference. *)
Listing == Between /\ unp.next \in Readers /\ (LateSelect \/ unp.fresh)

SelectChannel(id) ==
  /\ Listing /\ unp.state = "OPENED" /\ ~UOccupied(id)
  /\ reader' = [reader EXCEPT ![unp.next] = NewReader(id, "live")]
  /\ unp' = [unp EXCEPT !.linked = @ \cup {unp.next}, !.next = @ + 1]
  /\ UNCHANGED <<got, file>>

SelectRefused(id) ==
  /\ Listing /\ (unp.state # "OPENED" \/ UOccupied(id))
  /\ unp' = [unp EXCEPT !.state = "ON_ERROR"]
  /\ UNCHANGED <<reader, got, file>>

(* otic_unpack_closeChannel of an id that is not in the list. *)
CloseUnknown(id) ==
  /\ Listing /\ ~UOccupied(id)
  /\ unp' = [unp EXCEPT !.state = "ON_ERROR"]
  /\ UNCHANGED <<reader, got, file>>

Freed(c) == [NewReader(c.id, "freed") EXCEPT !.complete = c.complete]

(* otic_unpack_channel_close, and otic_unpack_closeChannel; current is kept. *)
DropReader(h) ==
  /\ Between /\ h \in LiveReaders
  /\ reader' = [reader EXCEPT ![h] = Freed(@)]
  /\ unp' = [unp EXCEPT !.linked = @ \ {h}]
  /\ UNCHANGED <<got, file>>

(* otic_unpack_close. *)
UnpackClose ==
  /\ Between
  /\ reader' = [h \in Readers |-> IF h \in unp.linked THEN Freed(reader[h]) ELSE reader[h]]
  /\ unp' = [unp EXCEPT !.state = "CLOSED", !.linked = {}, !.ended = TRUE]
  /\ UNCHANGED <<got, file>>

-----------------------------------------------------------------------------
(* One frame. *)

FoundFor(id) == {h \in unp.linked : reader[h].id = id}
Reading == ~unp.ended /\ ~unp.astray /\ unp.at = NoReader
AtFrame(metas) == Reading /\ file # <<>> /\ Head(file).meta \in metas

(* parse returns after each frame; generate returns at the type of a channel, among others. *)
Past(f) == [unp EXCEPT !.fresh = FALSE, !.inCall = unp.by = "generate" /\ f.meta # "DEFINE"]
AtEnd == [unp EXCEPT !.fresh = FALSE, !.inCall = FALSE, !.ended = TRUE]
Astray == [unp EXCEPT !.fresh = FALSE, !.inCall = FALSE, !.astray = TRUE]

(* The error is set; of the state generate changes only that of a damaged block. *)
Stopped(error) ==
  [AtEnd EXCEPT !.state = IF unp.by = "parse" \/ error = "ZSTD" THEN "ON_ERROR" ELSE @]

(* The definition of a channel already read resets its state, nothing else. *)
ReadDefine ==
  /\ AtFrame({"DEFINE"})
  /\ unp' = Past(Head(file))
  /\ reader' = [h \in Readers |-> IF h \in FoundFor(Head(file).id)
                                  THEN [reader[h] EXCEPT !.state = "OPENED"] ELSE reader[h]]
  /\ file' = Tail(file) /\ UNCHANGED got

ReadBlock_Slip ==    \* the block goes to the head of the list, whatever its id
  /\ AtFrame({"DATA"}) /\ unp.linked # {}
  /\ LET h == CHOOSE h \in unp.linked : \A g \in unp.linked : g <= h
     IN  /\ unp' = [unp EXCEPT !.fresh = FALSE, !.at = h, !.inCall = TRUE]
         /\ reader' = [reader EXCEPT ![h].block = Head(file).block]
  /\ file' = Tail(file) /\ UNCHANGED got

ReadBlock ==
  /\ AtFrame({"DATA"})
  /\ \E h \in FoundFor(Head(file).id) :
       /\ unp' = [unp EXCEPT !.fresh = FALSE, !.at = h, !.inCall = TRUE]
       /\ reader' = [reader EXCEPT ![h].block = Head(file).block]
  /\ file' = Tail(file) /\ UNCHANGED got

(* A block nobody selected: the seeker skips it. *)
SkipBlock ==
  /\ AtFrame({"DATA"}) /\ FoundFor(Head(file).id) = {}
  /\ unp' = Past(Head(file)) /\ file' = Tail(file) /\ UNCHANGED <<reader, got>>

(***************************************************************************)
(* Bytes that are not what the reader takes them for.  It may be stopped   *)
(* by an error.  Or the reading just ends: there is nothing left to fetch, *)
(* because the size it has taken from those bytes leads beyond the file,   *)
(* which the seeker (for a channel nobody selected) does not say, and of   *)
(* which parse, for a body it cannot fetch, returns 0 and no error.  Else  *)
(* it is astray: what it reads is undefined, or begins where no frame does *)
(* or, by chance, where a later one does; the model does not go on.        *)
(***************************************************************************)
Misread(errors) == {Stopped(e) : e \in errors} \cup {AtEnd, Astray}

(***************************************************************************)
(* A data frame without its body.  The size or the body cannot be fetched, *)
(* or the bytes of the frames behind it are taken for the body, and, if    *)
(* nobody selected the channel, skipped.  generate does not notice a       *)
(* missing body and decompresses what the buffer holds.                    *)
(***************************************************************************)
ReadTorn ==
  /\ AtFrame({"TORN"})
  /\ LET selected == FoundFor(Head(file).id) # {}
         last == Len(file) = 1
     IN  \/ last /\ unp' = Stopped("EOF")
         \/ last /\ ~selected /\ unp' = Past(Head(file))
         \/ last /\ selected /\ unp' \in {Stopped("ZSTD"), IF unp.by = "parse" THEN AtEnd ELSE Astray}
         \/ ~last /\ selected /\ unp' \in Misread({"ZSTD"})
         \/ ~last /\ ~selected /\ unp' \in Misread({"EOF", "DATA_CORRUPTED"})
  /\ file' = Tail(file) /\ UNCHANGED <<reader, got>>

(* A definition that ends within one of its four frames. *)
ReadTornDefine ==
  /\ AtFrame({"TORN_DEFINE"})
  /\ unp' \in IF Len(file) = 1 THEN {Stopped("EOF"), AtEnd} ELSE Misread({"EOF", "ZSTD", "DATA_CORRUPTED"})
  /\ file' = Tail(file) /\ UNCHANGED <<reader, got>>

(* The low byte of a length where a tag should be: no tag, or a wrong one. *)
ReadUntagged ==
  /\ AtFrame(Untagged)
  /\ unp' \in Misread({"EOF", "ZSTD", "DATA_CORRUPTED"})
  /\ file' = Tail(file) /\ UNCHANGED <<reader, got>>

(* No byte left: the call returns 0 and sets nothing. *)
ReadEnd ==
  /\ Reading /\ file = <<>>
  /\ unp' = AtEnd /\ UNCHANGED <<reader, got, file>>

ReadFrame ==
  \/ ReadDefine \/ ReadBlock \/ SkipBlock
  \/ ReadTorn \/ ReadTornDefine \/ ReadUntagged \/ ReadEnd

-----------------------------------------------------------------------------
(* One record, the otic_unpack_read_* functions. *)

Defined(c, r) == r.rec = "ROW" => r.index < Len(c.entries)

After_Slip(c, r) ==      \* a new name takes the place of the others
  LET next == [c EXCEPT !.block = Tail(@)]
  IN  CASE r.rec = "TIME" -> [next EXCEPT !.ts = r.time]
        [] r.rec = "NAME" -> [next EXCEPT !.entries = <<r.sensor>>]
        [] r.rec = "ROW" -> [next EXCEPT !.rowCounter = @ + 1]
        [] OTHER -> next

After(c, r) ==
  LET next == [c EXCEPT !.block = Tail(@)]
  IN  CASE r.rec = "TIME" -> [next EXCEPT !.ts = r.time]
        [] r.rec = "NAME" -> [next EXCEPT !.entries = Append(@, r.sensor)]
        [] r.rec = "ROW" -> [next EXCEPT !.rowCounter = @ + 1]
        [] OTHER -> IF r.count = c.rowCounter THEN [next EXCEPT !.complete = TRUE]
                    ELSE [next EXCEPT !.state = "ON_ERROR"]

Delivered(c, r) ==
  IF r.rec # "ROW" THEN <<>>
  ELSE <<[time |-> c.ts, sensor |-> c.entries[r.index + 1], value |-> r.value]>>

InBlock(by) ==
  /\ unp.by = by /\ ~unp.ended /\ ~unp.astray
  /\ unp.at \in LiveReaders /\ reader[unp.at].block # <<>>

Current == reader[unp.at]

LeaveBlock_Slip ==      \* the end of a block is taken for the end of the file
  /\ ~unp.ended /\ ~unp.astray /\ unp.at \in LiveReaders /\ Current.block = <<>>
  /\ unp' = [AtEnd EXCEPT !.at = NoReader]
  /\ UNCHANGED <<reader, got, file>>

(* The end of a block: parse returns, or generate does when called again. *)
LeaveBlock ==
  /\ ~unp.ended /\ ~unp.astray /\ unp.at \in LiveReaders /\ Current.block = <<>>
  /\ unp' = [unp EXCEPT !.at = NoReader, !.inCall = FALSE]
  /\ UNCHANGED <<reader, got, file>>

ParseRecord ==
  /\ InBlock("parse")
  /\ LET c == Current  r == Head(c.block)
     IN  IF Defined(c, r)
         THEN /\ reader' = [reader EXCEPT ![unp.at] = After(c, r)]
              /\ got' = [got EXCEPT ![c.id] = @ \o Delivered(c, r)]
              /\ UNCHANGED unp
         ELSE unp' = Astray /\ UNCHANGED <<reader, got>>
  /\ UNCHANGED file

(***************************************************************************)
(* otic_unpack_getLine.  Behind a small integer it does not return but     *)
(* takes the byte that follows for a tag: the next record is read in the   *)
(* same call, unless it is a small integer too, whose tag is swallowed, or *)
(* the block has ended and the byte is not of this block.                  *)
(***************************************************************************)
Line(c) ==
  LET r == Head(c.block)
  IN  IF r.rec = "ROW" /\ r.value \in Small /\ Len(c.block) > 1 THEN SubSeq(c.block, 1, 2)
      ELSE <<r>>

Lost(line) ==
  Last(line).rec = "ROW" /\ Last(line).value \in Small

AfterLine(c, line) ==
  IF Len(line) = 1 THEN After(c, line[1]) ELSE After(After(c, line[1]), line[2])

DeliveredLine(c, line) ==
  IF Len(line) = 1 THEN Delivered(c, line[1])
  ELSE Delivered(c, line[1]) \o Delivered(c, line[2])

GenerateLine ==
  /\ InBlock("generate")
  /\ LET c == Current  line == Line(c)
     IN  IF Lost(line) \/ \E i \in DOMAIN line : ~Defined(c, line[i])
         THEN unp' = Astray /\ UNCHANGED <<reader, got>>
         ELSE /\ reader' = [reader EXCEPT ![unp.at] = AfterLine(c, line)]
              /\ got' = [got EXCEPT ![c.id] = @ \o DeliveredLine(c, line)]
              /\ unp' = [unp EXCEPT !.inCall = FALSE, !.ended = Last(line).rec = "EOF"]
  /\ UNCHANGED file

ReadStep == ReadFrame \/ LeaveBlock \/ ParseRecord \/ GenerateLine

UnpackCalls ==
  \/ \E id \in ChannelIds : SelectChannel(id) \/ SelectRefused(id) \/ CloseUnknown(id)
  \/ \E h \in Readers : DropReader(h)
  \/ UnpackClose

=============================================================================
