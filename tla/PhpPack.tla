------------------------------- MODULE PhpPack -------------------------------
(***************************************************************************)
(* bindings/php7/src/otic_php_pack.c: the classes OticPack and             *)
(* OticPackChannel as a PHP script sees them.  A method is one call of     *)
(* the library (PackContainer) and a decision whether to throw.  The       *)
(* flusher of the bindings always reports success: to the library no write *)
(* fails, and what a stream does not take is lost (StreamLoses).           *)
(*                                                                         *)
(* The script keeps its file open as long as the pack object lives: the    *)
(* object has no reference to the stream of its own.                       *)
(***************************************************************************)
EXTENDS PackContainer

CONSTANTS
  Kinds,        \* the PHP values a script injects, by the library function they lead to
  ShortWrites   \* may the stream take less than it is given?

(* The failing handlers of booleans, negative integers and nulls set another state. *)
HeardKinds == {"int", "double", "string"}
SilentKinds == {"negative", "null", "bool"}

ASSUME PhpAssumption ==
  /\ FlushResults = {"ok"}
  /\ Kinds \subseteq HeardKinds \cup SilentKinds
  /\ ShortWrites \in BOOLEAN

VARIABLES
  script,   \* what the script holds and what it was told
  returned  \* history: calls of inject that returned without an exception

phpvars == <<script, returned>>

Script ==
  [held : SUBSET Handles,                           \* its OticPackChannel objects
   object : {"live", "destructed", "freed",         \* its OticPack; "freed" without __destruct
             "undefined"},                          \* nothing is known from here on
   quiet : BOOLEAN,                                 \* history: no call has thrown
   silent : BOOLEAN,                                \* history: a refused row of a silent kind
   short : BOOLEAN]                                 \* history: the stream has taken less

PhpInit ==
  /\ PackInit
  /\ script = [held |-> {}, object |-> "live", quiet |-> TRUE, silent |-> FALSE, short |-> FALSE]
  /\ returned = 0

Running == script.object = "live"
(* When a channel's object goes, its channel stays with the container, never called again. *)
Usable(h) == Running /\ h \in script.held /\ h \in Live

Told(s, raised) == [s EXCEPT !.quiet = @ /\ ~raised]
Tells(raised) == script' = Told(script, raised)

-----------------------------------------------------------------------------
(* OticPackChannel. *)

(* Whatever the call did: the exception is about the state it leaves. *)
InjectThrows_Slip(c) == FALSE

InjectThrows(c) == c.state = "ON_ERROR"

(* No longer counted once a row of a silent kind was refused. *)
Counted(raised) ==
  returned' = IF script'.silent THEN 0 ELSE IF raised THEN returned ELSE returned + 1

PhpInject(h, t, n, v) ==
  /\ Usable(h)
  /\ Inject(h, t, n, v)
  /\ LET raised == InjectThrows(chan[h]') IN Tells(raised) /\ Counted(raised)

Refusal(kind) == IF kind \in SilentKinds THEN "CLOSED" ELSE "ON_ERROR"

(* A time that goes back, a name, unit or string too long. *)
PhpInjectRefused(h, t, kind) ==
  /\ Usable(h)
  /\ InjectRefused(h, t, Refusal(kind))
  /\ LET raised == InjectThrows(chan[h]')
     IN  /\ script' = [Told(script, raised) EXCEPT !.silent = @ \/ kind \in SilentKinds]
         /\ Counted(raised)

(* A value of another type throws, and nothing reaches the library. *)
PhpInjectUnsupported(h) ==
  /\ Usable(h) /\ Tells(TRUE)
  /\ UNCHANGED <<pkvars, returned>>

PhpChannelFlush(h) ==
  /\ Usable(h) /\ ChannelFlush(h)
  /\ Tells(FALSE) /\ UNCHANGED returned

(***************************************************************************)
(* A size out of range throws, and its low 32 bits are tried all the same. *)
(* realloc may move the bucket, and base.top then points into memory that  *)
(* is free.  (The frame that tells the new size is of no consequence here: *)
(* PackChannel, OticPipe.)                                                 *)
(***************************************************************************)
PhpResize(h) ==
  /\ Usable(h)
  /\ \/ /\ chan[h].state = "OPENED" /\ UNCHANGED pack
        /\ Tells(FALSE) \/ Tells(TRUE) \/ script' = [script EXCEPT !.object = "undefined"]
     \/ Refused /\ Tells(TRUE)
  /\ UNCHANGED <<chan, sent, file, returned>>

PhpChannelClose(h) ==
  /\ Usable(h) /\ ChannelClose(h)
  /\ Tells(FALSE) /\ UNCHANGED returned

-----------------------------------------------------------------------------
(* OticPack. *)

PhpDefineChannel(id) ==
  /\ Running /\ UNCHANGED returned
  /\ \/ /\ DefineChannel(id)
        /\ script' = [Told(script, FALSE) EXCEPT !.held = @ \cup {pack.next}]
     \/ DefineRefused(id) /\ Tells(TRUE)

(***************************************************************************)
(* A type that is none, or an id out of range: the method throws and goes  *)
(* on, with the id's low byte.  The exception discards the new object.     *)
(***************************************************************************)
PhpDefineInvalid(id) ==
  /\ Running /\ UNCHANGED returned
  /\ DefineChannel(id) \/ DefineRefused(id)
  /\ Tells(TRUE)

PhpClearErrorFlag ==
  /\ Running /\ ClearErrorFlag
  /\ Tells(FALSE) /\ UNCHANGED returned

PhpCloseChannel(id) ==
  /\ Running /\ CloseChannel(id)
  /\ Tells(pack'.state = "ON_ERROR") /\ UNCHANGED returned

PhpFlush ==
  /\ Running /\ PackFlush
  /\ Tells(pack'.state = "ON_ERROR") /\ UNCHANGED returned

CloseOnce_Slip ==     \* a container in error is left as it is
  IF pack.state # "OPENED" THEN UNCHANGED pkvars ELSE PackClose

CloseOnce == IF pack.state = "CLOSED" THEN UNCHANGED pkvars ELSE PackClose

PhpClose ==
  /\ Running /\ CloseOnce
  /\ Tells(FALSE) /\ UNCHANGED returned

(* __destruct, then the memory of the object: before or after its channel objects go. *)
PhpDestruct ==
  /\ Running /\ CloseOnce
  /\ script' = [Told(script, FALSE) EXCEPT !.object = "destructed"]
  /\ UNCHANGED returned

(***************************************************************************)
(* After a fatal error PHP frees objects and runs no destructor; a killed  *)
(* process does not even do that, and may leave a frame without its body.  *)
(***************************************************************************)
Torn_Slip(f) == MetaFrame(f.meta, f.id)

Torn(f) ==
  CASE f.meta = "DATA" -> MetaFrame("TORN", f.id)
    [] f.meta = "PAYLOAD" -> MetaFrame("TORN_PAYLOAD", f.id)
    [] f.meta = "DEFINE" -> MetaFrame("TORN_DEFINE", f.id)
    [] OTHER -> f

PhpDie ==
  /\ Running
  /\ script' = [script EXCEPT !.object = "freed"]
  /\ \/ UNCHANGED file
     \/ file # <<>> /\ file' = Append(Front(file), Torn(Last(file)))
  /\ UNCHANGED <<pack, chan, sent, returned>>

(***************************************************************************)
(* oticPack_flusher does not look at what php_stream_write returns.  Of a  *)
(* frame there may be nothing in the file, its first bytes, or what lacks  *)
(* its beginning; the library has emptied the bucket all the same.  The    *)
(* writer cannot know, so that it makes no difference when it happens.     *)
(***************************************************************************)
Remains(f) ==
  {p \o q : p \in {<<>>, <<Torn(f)>>},
            q \in {<<>>} \cup (IF f.meta = "DEFINE" THEN {} ELSE {<<MetaFrame("TORN_PAYLOAD", f.id)>>})}

StreamLoses ==
  /\ ShortWrites /\ script.object # "undefined"
  /\ \E i \in DOMAIN file : \E rest \in Remains(file[i]) :
       file' = SubSeq(file, 1, i - 1) \o rest \o SubSeq(file, i + 1, Len(file))
  /\ script' = [script EXCEPT !.short = TRUE]
  /\ UNCHANGED <<pack, chan, sent, returned>>

ScriptCall ==
  \/ \E h \in Handles :
       \/ \E t \in Times, n \in Sensors, v \in Numbers : PhpInject(h, t, n, v)
       \/ \E t \in Times, k \in Kinds : PhpInjectRefused(h, t, k)
       \/ PhpInjectUnsupported(h) \/ PhpChannelFlush(h) \/ PhpResize(h)
       \/ PhpChannelClose(h)
  \/ \E id \in Ids : PhpDefineChannel(id) \/ PhpDefineInvalid(id) \/ PhpCloseChannel(id)
  \/ PhpClearErrorFlag \/ PhpFlush \/ PhpClose

ScriptEnd == PhpDestruct \/ PhpDie

-----------------------------------------------------------------------------
(* Properties. *)

PhpPackTypeOK ==
  /\ pack \in Pack /\ chan \in [Handles -> PackChan] /\ sent \in [ChannelIds -> Seq(Row)]
  /\ script \in Script /\ returned \in Nat

(***************************************************************************)
(* What inject does not throw for is in the channel: as long as no row of  *)
(* a silent kind was refused, whatever the script caught, cleared and      *)
(* flushed, no more calls of inject returned than rows were accepted; and  *)
(* exactly as many when no call ever threw (after an exception accepted    *)
(* rows throw too: the channel stays in error).                            *)
(***************************************************************************)
RowsTold ==
  ~script.silent => returned <= TotalRows /\ (script.quiet => returned = TotalRows)

(***************************************************************************)
(* The destructor leaves a whole file: whatever was refused, thrown and    *)
(* cleared before, whether the channels' objects are gone already, and     *)
(* closed or not by the script, every channel that closeChannel did not    *)
(* drop has all its accepted rows and one EOF record, the last, in the     *)
(* file, if the stream has taken all it was given.  Not the rows of        *)
(* OticPack::flush, which are in no data frame.                            *)
(***************************************************************************)
(* Where the file has a channel's records: the frame, and the place in its block. *)
Places(frames, id) ==
  UNION {{i} \X DOMAIN frames[i].block :
           i \in {i \in DOMAIN frames : frames[i].meta = "DATA" /\ frames[i].id = id}}

Kept(frames, id, r) == {p \in Places(frames, id) : frames[p[1]].block[p[2]].rec = r}

AtOrBefore(p, q) == p[1] < q[1] \/ (p[1] = q[1] /\ p[2] <= q[2])

(* So many rows, and behind every record the only EOF record. *)
Finished(frames, id, rows) ==
  /\ Cardinality(Kept(frames, id, "ROW")) = rows
  /\ \E p \in Places(frames, id) :
       Kept(frames, id, "EOF") = {p} /\ \A q \in Places(frames, id) : AtOrBefore(q, p)

DestructorWhole ==
  script.object = "destructed" =>
    \A h \in Handles :
      LET id == chan[h].id
      IN  chan[h].use \in {"live", "closed"} /\ MetaFrame("PAYLOAD", id) \notin Range(file) =>
            Finished(file, id, Len(sent[id]))

=============================================================================
