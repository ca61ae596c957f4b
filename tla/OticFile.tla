------------------------------ MODULE OticFile ------------------------------
(***************************************************************************)
(* The file between the packer and the unpacker: a queue of frames.        *)
(***************************************************************************)
EXTENDS OticBase

(***************************************************************************)
(* Frames: what one call of the user's flusher, or the two of a data       *)
(* frame, appends to the file.  A torn frame is a data frame's header      *)
(* whose body was never written.                                           *)
(***************************************************************************)
DataFrame(tokens, used, cap) ==
  [meta |-> "DATA", tokens |-> tokens, used |-> used, cap |-> cap]
TornFrame == [meta |-> "TORN"]
ChunkFrame(n) == [meta |-> "CHUNK_SIZE", size |-> n]
DefineFrame == [meta |-> "CHANNEL_DEFINE"]
TypeFrame == [meta |-> "CHANNEL_TYPE"]
CompressionFrame == [meta |-> "COMPRESSION_METHOD"]

Frame ==
  [meta : {"DATA"}, tokens : Seq(Token), used : Nat, cap : Nat]
    \cup [meta : {"CHUNK_SIZE"}, size : Nat]
    \cup [meta : {"TORN", "CHANNEL_DEFINE", "CHANNEL_TYPE", "COMPRESSION_METHOD"}]

VARIABLE wire    \* the frames in the file that nobody has read yet

=============================================================================
