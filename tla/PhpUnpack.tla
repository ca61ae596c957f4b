------------------------------ MODULE PhpUnpack ------------------------------
(***************************************************************************)
(* bindings/php7/src/otic_php_unpack.c: OticUnpack and OticUnpackChannel.  *)
(* A script reads a file with parse in a loop or with generate, whose      *)
(* result it looks at; the callbacks of selectChannel are called in both   *)
(* cases (got).  (read is the same loop in C, and asks for no error.)      *)
(*                                                                         *)
(* While parse and selectChannel are used, error is set exactly when state *)
(* is ON_ERROR, so that the one stands for both.                           *)
(***************************************************************************)
EXTENDS UnpackContainer

VARIABLES
  heard,  \* history: the constructor or a call of parse threw
  misled, \* history: parse met a frame that is not what it seems
  entry,  \* cache.currentEntry of each channel
  seen    \* history: what generate returned, by channel id

phpuvars == <<heard, misled, entry, seen>>

NoEntry == [none |-> TRUE]
NoValue == "EOF"     \* the type of a value not read yet

GeneratedLine == [time : Times \cup {NoTime}, sensor : Sensors, value : Numbers \cup {NoValue}]
Entry == {NoEntry} \cup [sensor : Sensors, value : Numbers \cup {NoValue}]

PhpUInit ==
  /\ UInit
  /\ heard = FALSE /\ misled = FALSE
  /\ entry = [h \in Readers |-> NoEntry]
  /\ seen = [id \in ChannelIds |-> <<>>]

(* __construct: it throws for a header that is not of OTIC, or newer. *)
PhpConstruct(by, header) ==
  /\ UnpackInit(by, header)
  /\ heard' = (header # "good")
  /\ UNCHANGED <<misled, entry, seen>>

PhpSelectChannel(id) ==
  /\ SelectChannel(id) \/ SelectRefused(id)    \* the second throws
  /\ UNCHANGED phpuvars

PhpClearUnpackError ==
  /\ Between /\ unp.state # "CLOSED"
  /\ unp' = [unp EXCEPT !.state = "OPENED"]
  /\ UNCHANGED <<reader, got, file, phpuvars>>

PhpReaderClose(h) ==
  /\ DropReader(h)
  /\ UNCHANGED phpuvars

PhpUnpackClose ==
  /\ UnpackClose
  /\ UNCHANGED phpuvars

-----------------------------------------------------------------------------
(* parse and generate. *)

ParseThrows_Slip == unp.state = "ON_ERROR" /\ ~unp.ended    \* only a call that returned 1

(* Looked at when the call is over. *)
ParseThrows == unp.state = "ON_ERROR"

PhpParse ==
  /\ unp.by = "parse" /\ ReadStep
  /\ heard' = (heard \/ (~unp'.inCall /\ ParseThrows'))
  /\ misled' = (misled \/ AtFrame(Broken))
  /\ UNCHANGED <<entry, seen>>

EntryAfter_Slip(c, e, r) ==    \* a row's value does not reach the entry
  IF r.rec = "NAME" THEN [sensor |-> r.sensor, value |-> NoValue] ELSE e

(* The entry a record leaves current: a name without a value yet, or a row's. *)
EntryAfter(c, e, r) ==
  CASE r.rec = "NAME" -> [sensor |-> r.sensor, value |-> NoValue]
    [] r.rec = "ROW" -> [sensor |-> c.entries[r.index + 1], value |-> r.value]
    [] OTHER -> e

(***************************************************************************)
(* Returned(h): null if the call returned 0, an empty array outside a      *)
(* block and before the first entry, else the current entry at the current *)
(* time, whichever record the call has read.                               *)
(***************************************************************************)
Returned(h) ==
  IF unp.ended \/ entry[h] = NoEntry THEN <<>>
  ELSE <<[time |-> reader[h].ts, sensor |-> entry[h].sensor, value |-> entry[h].value]>>

PhpGenerate ==
  /\ unp.by = "generate" /\ ReadStep
  /\ UNCHANGED <<heard, misled>>
  /\ IF InBlock("generate") /\ ~unp'.astray
     THEN /\ LET c == Current  line == Line(c)
             IN  entry' = [entry EXCEPT ![unp.at] = EntryAfter(c, EntryAfter(c, @, Head(line)), Last(line))]
          /\ seen' = [seen EXCEPT ![Current.id] = @ \o Returned(unp.at)']
     ELSE UNCHANGED <<entry, seen>>

PhpReadStep == PhpParse \/ PhpGenerate

PhpReaderCalls ==
  \/ \E id \in ChannelIds : PhpSelectChannel(id)
  \/ \E h \in Readers : PhpReaderClose(h)
  \/ PhpClearUnpackError \/ PhpUnpackClose

=============================================================================
