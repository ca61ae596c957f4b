--------------------------- MODULE OticContainers ---------------------------
(***************************************************************************)
(* A container written with several channels, and the container that       *)
(* reads its file afterwards.  Every channel is to be a log of its own     *)
(* (OticLog), whatever the calls on the others, on the list and on the     *)
(* container do in between.                                                *)
(***************************************************************************)
EXTENDS PackContainer, UnpackContainer

CONSTANT SmallByGenerate    \* may a file with small integers be read by generate?

ASSUME ComposedAssumption == SmallByGenerate \in BOOLEAN

VARIABLE phase    \* "write" until otic_unpack_init, then "read"

cvars == <<pack, chan, sent, file, unp, reader, got, phase>>

CInit == PackInit /\ UInit /\ phase = "write"

PackCall ==
  /\ phase = "write" /\ Blocks < MaxBlocks /\ PackNext
  /\ UNCHANGED <<unp, reader, got, phase>>

FlushFailed(c) == c.error = "FLUSH_FAILED"

(* The packer's process is over: what matters of its memory is which channels were closed,
   and whether a flush had failed. *)
Forgotten(c) ==
  IF c.use = "closed"
  THEN [NewChannel(c.id, "closed") EXCEPT !.error = IF FlushFailed(c) THEN c.error ELSE @]
  ELSE NewChannel(0, "unused")

HasSmall == \E id \in ChannelIds : \E i \in DOMAIN sent[id] : sent[id][i].value \in Small

PackerGone ==
  /\ phase = "write" /\ phase' = "read"
  /\ chan' = [h \in Handles |-> Forgotten(chan[h])]
  /\ pack' = [state |-> "CLOSED", linked |-> {}, next |-> MaxHandles + 1]
  /\ UNCHANGED sent

Readable(by) == by = "generate" => SmallByGenerate \/ ~HasSmall

Open ==
  /\ PackerGone
  /\ \E by \in {"parse", "generate"}, header \in Headers : Readable(by) /\ UnpackInit(by, header)

(* Nobody reads a file of which no channel is selected. *)
ReadFile ==
  /\ phase = "read" /\ unp.linked # {} /\ ReadStep
  /\ UNCHANGED <<pack, chan, sent, phase>>

UnpackCall ==
  /\ phase = "read"
  /\ UnpackCalls
  /\ UNCHANGED <<pack, chan, sent, phase>>

CNext == PackCall \/ Open \/ ReadFile \/ UnpackCall

(* The caller of parse or generate goes on until it is told to stop. *)
CSpec == CInit /\ [][CNext]_cvars /\ WF_cvars(ReadFile)

-----------------------------------------------------------------------------
(* Properties. *)

(* Both containers, the channels, the file and the histories have their shapes. *)
ContainersTypeOK ==
  /\ pack \in Pack /\ chan \in [Handles -> PackChan] /\ sent \in [ChannelIds -> Seq(Row)]
  /\ unp \in Unp /\ reader \in [Readers -> ReadChan] /\ got \in [ChannelIds -> Seq(Delivery)]
  /\ file \in Seq(Frame) /\ phase \in {"write", "read"}

(***************************************************************************)
(* Each list holds exactly the live channels, no two with the same id,     *)
(* through refused definitions and closes in any order.  The packer's has  *)
(* one exception: a channel that closeChannel found behind the head stays. *)
(***************************************************************************)
ListsExact ==
  /\ {h \in pack.linked : chan[h].use # "dropped"} = Live
  /\ \A g, h \in Live : chan[g].id = chan[h].id => g = h
  /\ unp.linked = LiveReaders
  /\ \A g, h \in LiveReaders : reader[g].id = reader[h].id => g = h

(***************************************************************************)
(* A write that fails is heard of in the container: no call, on whichever  *)
(* channel and in whichever order, puts a broken frame into the file or    *)
(* leaves a channel newly in the error of a failed flush, and the          *)
(* container OPENED; also when the flush's result was not looked at, or    *)
(* the row was refused afterwards.  (otic_pack_close ends in CLOSED either *)
(* way.  Of refused rows alone the container hears nothing.)               *)
(***************************************************************************)
BrokenWrite ==
  /\ phase = "write"
  /\ \E i \in DOMAIN file' \ DOMAIN file : file'[i].meta \in Broken \ {"PAYLOAD"}

FailureHeard ==
  [][BrokenWrite \/ (\E h \in Handles : ~FlushFailed(chan[h]) /\ FlushFailed(chan[h])')
       => pack.state' # "OPENED"]_cvars

(***************************************************************************)
(* Each id is a log: the rows of a channel arrive at the reader of that    *)
(* id, unchanged, in order, none twice and none skipped, mixed with other  *)
(* channels' frames or not; an accepted end means all of them.             *)
(***************************************************************************)
HasEnded(id) == \E h \in Handles : chan[h].id = id /\ chan[h].use = "closed"

Log(id) == INSTANCE OticLog WITH
  AnyRow <- Row, AnyName <- Sensors,
  log <- sent[id], closed <- HasEnded(id), position <- Len(got[id]),
  wanted <- {}, output <- got[id],
  finished <- \E h \in Readers : reader[h].id = id /\ reader[h].complete

EachIsALog ==
  /\ \A id \in ChannelIds : Log(id)!LInit
  /\ [][\A id \in ChannelIds : [Log(id)!LNext]_(Log(id)!lvars)]_cvars

(***************************************************************************)
(* Reading leaves defined ground only at a frame that is torn or without   *)
(* its tag: no record of a whole block sends the reader outside its        *)
(* channel's dictionary, whatever blocks of other channels lie in between. *)
(***************************************************************************)
OnlyBadFramesMislead ==
  [][unp'.astray /\ ~unp.astray =>
       file # <<>> /\ Head(file).meta \in Broken]_cvars

(***************************************************************************)
(* Rows handed over for an id begin the rows accepted for it.              *)
(***************************************************************************)
RightSensor == \A id \in ChannelIds : IsPrefix(got[id], sent[id])

(***************************************************************************)
(* parse reads a file in which every frame is whole to the EOF record of   *)
(* each selected channel that was closed with no write failing.            *)
(***************************************************************************)
Whole == \A i \in DOMAIN file : file[i].meta \notin Broken

EndsRead ==
  \A h \in unp.linked : \A g \in Handles :
    chan[g].use = "closed" /\ ~FlushFailed(chan[g]) /\ chan[g].id = reader[h].id => reader[h].complete

ReadsEveryChannel ==
  phase = "read" /\ unp.by = "parse" /\ unp.fresh /\ Whole
    ~> unp.linked = {} \/ (unp.ended /\ EndsRead)

=============================================================================
