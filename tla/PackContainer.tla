--------------------------- MODULE PackContainer ---------------------------
(***************************************************************************)
(* otic_pack_t, src/core/pack.c: the list of channels, its state and error *)
(* and the calls on it, with the calls of a channel as far as the other    *)
(* channels and the file are concerned.                                    *)
(*                                                                         *)
(* A channel is a handle, numbered in the order of allocation.  The list   *)
(* has the newest channel first and only ever loses members, so that the   *)
(* set of linked handles determines it (ChannelList has the links).  No    *)
(* handle is allocated twice.                                              *)
(***************************************************************************)
EXTENDS ContainerFile, SequencesExt, FiniteSetsExt

CONSTANTS
  MaxHandles,    \* bound: channels allocated
  MaxRows,       \* bound: rows accepted
  MaxBlocks,     \* bound: blocks in the file when a call begins
  FlushResults,  \* outcomes of a write: "ok", or "meta" or "data" fails
  Reopen         \* may an id be defined again after its channel was closed?

ASSUME ContainerAssumption ==
  /\ MaxHandles \in Nat /\ MaxRows \in Nat /\ MaxBlocks \in Nat
  /\ FlushResults \subseteq {"ok", "meta", "data"} /\ "ok" \in FlushResults
  /\ Reopen \in BOOLEAN

VARIABLES
  pack,   \* otic_pack_t
  chan,   \* the channels by handle
  sent    \* history: the rows accepted, by channel id

pkvars == <<pack, chan, sent, file>>

Handles == 1 .. MaxHandles
States == {"OPENED", "ON_ERROR", "CLOSED"}

Pack ==
  [state : States, linked : SUBSET Handles,
   next : 1 .. MaxHandles + 1]   \* the handle malloc returns next

PackChan ==
  [use : {"unused", "live", "closed", "dropped"}, id : Ids,
   state : States, error : {"NONE", "REFUSED", "FLUSH_FAILED"},
   names : Seq(Sensors), ts : Times \cup {NoTime}, rowCounter : Nat, bucket : Seq(Record)]

NewChannel(id, use) ==
  [use |-> use, id |-> id, state |-> "OPENED", error |-> "NONE",
   names |-> <<>>, ts |-> NoTime, rowCounter |-> 0, bucket |-> <<>>]

(* otic_pack_init. *)
PackInit ==
  /\ pack = [state |-> "OPENED", linked |-> {}, next |-> 1]
  /\ chan = [h \in Handles |-> NewChannel(0, "unused")]
  /\ sent = [id \in ChannelIds |-> <<>>]
  /\ file = <<>>

(* The list newest first, which is how every loop of the container goes. *)
Live == {h \in Handles : chan[h].use = "live"}
Place(S, h) == Cardinality({g \in S : g >= h})
NewestFirst(S) == [i \in 1 .. Cardinality(S) |-> CHOOSE h \in S : Place(S, h) = i]

(***************************************************************************)
(* A call that walks the list is defined while the list holds live         *)
(* channels only; a channel's own calls as long as the channel lives.      *)
(***************************************************************************)
Walkable == pack.linked \subseteq Live
Occupied(id) == \E h \in pack.linked : chan[h].id = id
Blocks == Len(SelectSeq(file, LAMBDA f : f.meta # "DEFINE"))
TotalRows == MapThenSumSet(LAMBDA id : Len(sent[id]), ChannelIds)

-----------------------------------------------------------------------------
(* Calls of one channel. *)

FlushedChannel(c, r) ==
  IF r = "ok" THEN [c EXCEPT !.bucket = <<>>]
  ELSE [c EXCEPT !.state = "ON_ERROR", !.error = "FLUSH_FAILED"]

FlushedFrames(c, r) ==
  CASE r = "ok" -> <<DataFrame(c.id, c.bucket)>>
    [] r = "data" -> <<MetaFrame("TORN", c.id)>>
    [] OTHER -> <<>>

HeardOf_Slip(failed) == pack     \* the container does not hear of it

(* otic_pack_channel_flush tells the container's state, not its error. *)
HeardOf(failed) == IF failed THEN [pack EXCEPT !.state = "ON_ERROR"] ELSE pack

(***************************************************************************)
(* A call at work on a channel: the channel as it is by now, the frames    *)
(* written so far, and whether a write failed.  A call may flush more than *)
(* once.                                                                   *)
(***************************************************************************)
Begun(c) == [chan |-> c, out |-> <<>>, failed |-> FALSE]
On(w, c) == [chan |-> c, out |-> w.out, failed |-> w.failed]

Flushed(w, r) ==
  [chan |-> FlushedChannel(w.chan, r), out |-> w.out \o FlushedFrames(w.chan, r),
   failed |-> w.failed \/ r # "ok"]

Leaves(h, w) ==
  /\ chan' = [chan EXCEPT ![h] = w.chan]
  /\ file' = file \o w.out
  /\ pack' = HeardOf(w.failed)

(* otic_pack_flush_if_flushable: its size decides, and its result is not looked at. *)
FlushedOrNot(w) == {w} \cup {Flushed(w, r) : r \in FlushResults}

(* The records of a row. *)
Stamped(c, t) ==
  IF c.ts = t THEN c ELSE [c EXCEPT !.ts = t, !.bucket = Append(@, TimeRecord(t))]

Named(c, n) ==
  IF Contains(c.names, n) THEN c
  ELSE [c EXCEPT !.names = Append(@, n), !.bucket = Append(@, NameRecord(n))]

IndexOf(c, n) == CHOOSE i \in 0 .. Len(c.names) - 1 : c.names[i + 1] = n

Written(c, n, v) ==
  [c EXCEPT !.bucket = Append(@, RowRecord(IndexOf(c, n), v)), !.rowCounter = @ + 1]

Late(c, t) == c.ts # NoTime /\ t < c.ts

(* What otic_ts_handler leaves for a time that is not late. *)
Timed(c, t) ==
  IF c.ts = t THEN {Begun(c)} ELSE FlushedOrNot(Begun(Stamped(c, t)))

(* inject_s flushes first if the string does not fit behind the bucket; no other handler does. *)
RoomMade(w) == {w} \cup (IF w.chan.bucket = <<>> THEN {} ELSE {Flushed(w, "ok")})

(* An accepted row, with the flush at its time, the one that makes room and the last. *)
Inject(h, t, n, v) ==
  /\ h \in Live /\ TotalRows < MaxRows /\ ~Late(chan[h], t)
  /\ \E w \in Timed(chan[h], t) :
       \E x \in RoomMade(w) :
         \E z \in FlushedOrNot(On(x, Written(Named(x.chan, n), n, v))) : Leaves(h, z)
  /\ sent' = [sent EXCEPT ![chan[h].id] = Append(@, [time |-> t, sensor |-> n, value |-> v])]

Failed(c, error, state) == [c EXCEPT !.error = error, !.state = state]

(***************************************************************************)
(* A refused row puts its channel in error and says nothing to the         *)
(* container; the handlers of booleans, negative integers and nulls call   *)
(* the state CLOSED.  A late time is refused at once, a name and unit or a *)
(* string too long only behind the time, and behind the flush that made    *)
(* room for a string, which may be what fails.                             *)
(***************************************************************************)
InjectRefused(h, t, state) ==
  /\ h \in Live
  /\ \/ Late(chan[h], t) /\ Leaves(h, Begun(Failed(chan[h], "REFUSED", state)))
     \/ /\ ~Late(chan[h], t)
        /\ \E w \in Timed(chan[h], t) :
             \/ \E x \in RoomMade(w) :
                  /\ x # w => state = "ON_ERROR"
                  /\ Leaves(h, On(x, Failed(x.chan, "REFUSED", state)))
             \/ /\ state = "ON_ERROR" /\ w.chan.bucket # <<>>
                /\ \E r \in FlushResults \ {"ok"} : Leaves(h, Flushed(w, r))
  /\ UNCHANGED sent

ChannelFlush(h) ==
  /\ h \in Live
  /\ \E r \in FlushResults : Leaves(h, Flushed(Begun(chan[h]), r))
  /\ UNCHANGED sent

Ended(c) == [c EXCEPT !.bucket = Append(@, EofRecord(c.rowCounter))]

ChannelClosed(c, r) == [FlushedChannel(Ended(c), r) EXCEPT !.use = "closed"]

Unlinked_Slip(p, h) == [p EXCEPT !.linked = @ \ {Max(@)}]  \* always the head

Unlinked(p, h) == [p EXCEPT !.linked = @ \ {h}]

(* otic_pack_channel_close; it returns 1 whatever became of the last flush. *)
ChannelClose(h) ==
  /\ h \in Live /\ Walkable
  /\ \E r \in FlushResults :
       /\ chan' = [chan EXCEPT ![h] = ChannelClosed(@, r)]
       /\ file' = file \o FlushedFrames(Ended(chan[h]), r)
       /\ pack' = Unlinked(HeardOf(r # "ok"), h)
  /\ UNCHANGED sent

-----------------------------------------------------------------------------
(* Calls of the container. *)

Refused == pack' = [pack EXCEPT !.state = "ON_ERROR"]

DefineChannel_Slip(id) ==    \* the reserved id is accepted
  /\ Walkable /\ pack.state = "OPENED" /\ ~Occupied(id)
  /\ pack.next \in Handles
  /\ chan' = [chan EXCEPT ![pack.next] = NewChannel(id, "live")]
  /\ pack' = [pack EXCEPT !.linked = @ \cup {pack.next}, !.next = @ + 1]
  /\ file' = Append(file, MetaFrame("DEFINE", id))
  /\ UNCHANGED sent

(* Only the flusher's answer to the four frames is not looked at. *)
DefineChannel(id) ==
  /\ Walkable /\ pack.state = "OPENED" /\ id # 0 /\ ~Occupied(id)
  /\ pack.next \in Handles
  /\ Reopen \/ \A h \in Handles : chan[h].id # id
  /\ chan' = [chan EXCEPT ![pack.next] = NewChannel(id, "live")]
  /\ pack' = [pack EXCEPT !.linked = @ \cup {pack.next}, !.next = @ + 1]
  /\ \/ file' = Append(file, MetaFrame("DEFINE", id))
     \/ FlushResults # {"ok"} /\ UNCHANGED file
  /\ UNCHANGED sent

DefineRefused(id) ==
  /\ Walkable
  /\ pack.state # "OPENED" \/ id = 0 \/ Occupied(id)
  /\ Refused
  /\ UNCHANGED <<chan, sent, file>>

(***************************************************************************)
(* otic_pack_closeChannel: nothing is flushed, and the same error is set   *)
(* whether the id was found or not.  A channel that is not the head of the *)
(* list is freed but stays in it.  The loop goes on from the link of the   *)
(* freed channel, which free leaves as it was.                             *)
(***************************************************************************)
CloseChannel(id) ==
  /\ Walkable
  /\ LET found == {h \in pack.linked : chan[h].id = id}
         head == Max(pack.linked)
     IN  /\ chan' = [h \in Handles |-> IF h \in found THEN [chan[h] EXCEPT !.use = "dropped"]
                                       ELSE chan[h]]
         /\ pack' = [pack EXCEPT !.state = "ON_ERROR",
                       !.linked = IF found = {} THEN @ ELSE @ \ (found \cap {head})]
  /\ UNCHANGED <<sent, file>>

(***************************************************************************)
(* otic_pack_flush: channel by channel until a write fails.  The failing   *)
(* channel has its error set but not its state.                            *)
(***************************************************************************)
PackFlush ==
  /\ Walkable
  /\ LET list == NewestFirst(pack.linked)
         payload(k) == [i \in 1 .. k |-> MetaFrame("PAYLOAD", chan[list[i]].id)]
         flushed(k) == {list[i] : i \in 1 .. k}
     IN  \/ /\ file' = file \o payload(Len(list))
            /\ chan' = [h \in Handles |-> IF h \in pack.linked THEN [chan[h] EXCEPT !.bucket = <<>>]
                                          ELSE chan[h]]
            /\ UNCHANGED pack
         \/ \E k \in 0 .. Len(list) - 1, r \in FlushResults \ {"ok"} :
              /\ file' = file \o payload(k)
                   \o (IF r = "data" THEN <<MetaFrame("TORN_PAYLOAD", chan[list[k + 1]].id)>> ELSE <<>>)
              /\ chan' = [h \in Handles |->
                            IF h \in flushed(k) THEN [chan[h] EXCEPT !.bucket = <<>>]
                            ELSE IF h = list[k + 1] THEN [chan[h] EXCEPT !.error = "FLUSH_FAILED"]
                            ELSE chan[h]]
              /\ pack' = [pack EXCEPT !.state = "ON_ERROR"]
  /\ UNCHANGED sent

(* The channels keep their errors. *)
ClearErrorFlag ==
  /\ pack' = [pack EXCEPT !.state = "OPENED"]
  /\ UNCHANGED <<chan, sent, file>>

(* otic_pack_close: every channel is closed; failed flushes end in CLOSED too. *)
PackClose ==
  /\ Walkable
  /\ \E r \in [pack.linked -> FlushResults] :
       LET frames(h) == FlushedFrames(Ended(chan[h]), r[h])
           list == NewestFirst({h \in pack.linked : frames(h) # <<>>})
       IN  /\ file' = file \o [i \in DOMAIN list |-> frames(list[i])[1]]
           /\ chan' = [h \in Handles |-> IF h \in pack.linked THEN ChannelClosed(chan[h], r[h])
                                         ELSE chan[h]]
  /\ pack' = [pack EXCEPT !.state = "CLOSED", !.linked = {}]
  /\ UNCHANGED sent

PackNext ==
  \/ \E h \in Handles :
       \/ \E t \in Times, n \in Sensors, v \in Numbers : Inject(h, t, n, v)
       \/ \E t \in Times, state \in {"ON_ERROR", "CLOSED"} : InjectRefused(h, t, state)
       \/ ChannelFlush(h) \/ ChannelClose(h)
  \/ \E id \in Ids : DefineChannel(id) \/ DefineRefused(id) \/ CloseChannel(id)
  \/ PackFlush \/ ClearErrorFlag \/ PackClose

=============================================================================
