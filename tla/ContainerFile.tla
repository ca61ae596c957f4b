--------------------------- MODULE ContainerFile ---------------------------
(***************************************************************************)
(* The file of a container with several channels: frames that carry the    *)
(* id of their channel, behind the header (OticContainers says what        *)
(* becomes of that).  A block is a sequence of records.  How records       *)
(* become bytes is the subject of PackChannel; here a bucket has no size,  *)
(* a time record holds the time, and a row record the sensor's index and   *)
(* the value, repeated or not.                                             *)
(***************************************************************************)
EXTENDS Naturals, Sequences, FiniteSets

CONSTANTS
  Ids,       \* the channel ids callers use, 0 (the file itself) among them
  Sensors,   \* sensor names
  Plain,     \* values written behind a tag byte of their own
  Small,     \* small integers, which are their own tag byte
  Times,     \* timestamps, in ticks
  NoTime     \* TS_NULL

ASSUME FileAssumption ==
  /\ 0 \in Ids /\ Ids \subseteq 0 .. 255 /\ Times \subseteq Nat
  /\ NoTime \notin Times
  /\ Plain \cap Small = {}

ChannelIds == Ids \ {0}
Numbers == Plain \cup Small
Row == [time : Times, sensor : Sensors, value : Numbers]

TimeRecord(t) == [rec |-> "TIME", time |-> t]
NameRecord(n) == [rec |-> "NAME", sensor |-> n]
RowRecord(i, v) == [rec |-> "ROW", index |-> i, value |-> v]
EofRecord(n) == [rec |-> "EOF", count |-> n]

Record ==
  [rec : {"TIME"}, time : Times] \cup [rec : {"NAME"}, sensor : Sensors]
    \cup [rec : {"ROW"}, index : Nat, value : Numbers] \cup [rec : {"EOF"}, count : Nat]

(***************************************************************************)
(* DEFINE stands for the four frames otic_pack_defineChannel writes with   *)
(* one call: the definition, the type, the compression, the chunk size;    *)
(* TORN_DEFINE for the first bytes of them, when the last is cut short.  A *)
(* torn data frame has a header and no body.  A payload frame is what      *)
(* otic_pack_flush writes: a length and a channel, without the tag every   *)
(* other frame starts with.                                                *)
(***************************************************************************)
MetaFrame(m, id) == [meta |-> m, id |-> id]
DataFrame(id, block) == [meta |-> "DATA", id |-> id, block |-> block]

Untagged == {"PAYLOAD", "TORN_PAYLOAD"}
Broken == {"TORN", "TORN_DEFINE"} \cup Untagged

Frame ==
  [meta : {"DATA"}, id : ChannelIds, block : Seq(Record)]
    \cup [meta : {"DEFINE"} \cup Broken, id : ChannelIds]

VARIABLE file    \* the frames nobody has read yet

=============================================================================
