--------------------------- MODULE SessionProofs ---------------------------
(***************************************************************************)
(* What a PHP script can rely on, for every value of the constants: the    *)
(* types of a session, that a loop over parse does not stop unheard, that  *)
(* inject throws for every row that is not in the channel, that a          *)
(* destructor leaves a whole file, and that what generate returns was      *)
(* injected.  The calls on the containers are those of ContainerProofs,    *)
(* and a few the bindings add.                                             *)
(***************************************************************************)
EXTENDS PhpSession, EachLogProofs

-----------------------------------------------------------------------------
(* What the script's calls do to the container. *)

(* A call that at most puts the container into error. *)
AtMostRefused ==
  /\ pack' = pack \/ pack' = [pack EXCEPT !.state = "ON_ERROR"]
  /\ UNCHANGED <<chan, sent, file>>

(* The end of a process in the middle of a frame. *)
FrameTorn ==
  /\ file # <<>> /\ file' = Append(Front(file), Torn(Last(file)))
  /\ UNCHANGED <<pack, chan, sent>>

LEMMA CallKinds ==
  ASSUME ScriptCall \/ ScriptEnd
  PROVE  PackNext \/ AtMostRefused \/ (PhpDie /\ FrameTorn)
<1>1. CASE \E h \in Handles, t \in Times, n \in Sensors, v \in Numbers : PhpInject(h, t, n, v)
  BY <1>1 DEF PhpInject, PackNext
<1>2. CASE \E h \in Handles, t \in Times, k \in Kinds : PhpInjectRefused(h, t, k)
  <2>1. PICK h \in Handles, t \in Times, k \in Kinds : PhpInjectRefused(h, t, k)
    BY <1>2
  <2>2. PICK state \in {"ON_ERROR", "CLOSED"} : InjectRefused(h, t, state)
    BY Zenon, <2>1 DEF PhpInjectRefused, Refusal
  <2> QED
    BY <2>2 DEF PackNext
<1>3. CASE \E h \in Handles : PhpInjectUnsupported(h) \/ PhpResize(h)
  BY <1>3 DEF PhpInjectUnsupported, PhpResize, Refused, pkvars, AtMostRefused
<1>4. CASE \E h \in Handles : PhpChannelFlush(h) \/ PhpChannelClose(h)
  BY <1>4 DEF PhpChannelFlush, PhpChannelClose, PackNext
<1>5. CASE \E id \in Ids : PhpDefineChannel(id) \/ PhpDefineInvalid(id) \/ PhpCloseChannel(id)
  BY <1>5 DEF PhpDefineChannel, PhpDefineInvalid, PhpCloseChannel, PackNext
<1>6. CASE PhpClearErrorFlag \/ PhpFlush
  BY <1>6 DEF PhpClearErrorFlag, PhpFlush, PackNext
<1>7. CASE PhpClose \/ PhpDestruct
  BY <1>7 DEF PhpClose, PhpDestruct, CloseOnce, PackNext, pkvars, AtMostRefused
<1>8. CASE PhpDie
  BY <1>8 DEF PhpDie, FrameTorn, AtMostRefused
<1> QED
  BY <1>1, <1>2, <1>3, <1>4, <1>5, <1>6, <1>7, <1>8 DEF ScriptCall, ScriptEnd

LEMMA AtMostRefusedTyped ==
  ASSUME PackInv, PackTyped, AtMostRefused
  PROVE  PackInv' /\ PackTyped'
<1>1. PICK x \in States : pack' = [pack EXCEPT !.state = x]
  BY DEF AtMostRefused, PackTyped, Pack, States
<1> QED
  BY <1>1, StateKeeps DEF AtMostRefused, PackTyped, Pack

LEMMA TornTyped ==
  ASSUME NEW f \in Frame
  PROVE  Torn(f) \in Frame
<1>1. f.id \in ChannelIds
  BY DEF Frame
<1>2. /\ MetaFrame("TORN", f.id) \in Frame /\ MetaFrame("TORN_PAYLOAD", f.id) \in Frame
      /\ MetaFrame("TORN_DEFINE", f.id) \in Frame
  BY <1>1, FrameFacts
<1> QED
  BY Zenon, <1>2 DEF Torn

LEMMA FrameTornTyped ==
  ASSUME PackInv, PackTyped, FrameTorn
  PROVE  PackInv' /\ PackTyped'
<1>1. file \in Seq(Frame) /\ file # <<>>
  BY DEF PackTyped, FrameTorn
<1>2. Front(file) \in Seq(Frame) /\ Last(file) \in Frame
  BY <1>1 DEF Front, Last
<1>3. Torn(Last(file)) \in Frame
  BY <1>2, TornTyped
<1>4. file' \in Seq(Frame)
  BY <1>2, <1>3 DEF FrameTorn
<1>5. pack' = [pack EXCEPT !.state = pack.state]
  BY DEF FrameTorn, PackInv, IsPack
<1> QED
  BY <1>4, <1>5, StateKeeps DEF FrameTorn, PackTyped

LEMMA ScriptTypes ==
  ASSUME PackInv, PackTyped, ScriptCall \/ ScriptEnd
  PROVE  PackInv' /\ PackTyped'
  BY CallKinds, PackNextKeeps, PackStepTyped, AtMostRefusedTyped, FrameTornTyped

(* What is left of a frame the stream did not take as a whole: no frame, one or two. *)
LEMMA RemainsTyped ==
  ASSUME NEW f \in Frame, NEW rest \in Remains(f)
  PROVE  rest \in Seq(Frame)
<1>1. Torn(f) \in Frame
  BY TornTyped
<1>2. MetaFrame("TORN_PAYLOAD", f.id) \in Frame
  <2>1. f.id \in ChannelIds
    BY DEF Frame
  <2> QED
    BY <2>1, FrameFacts
<1> DEFINE g == Torn(f)
           m == MetaFrame("TORN_PAYLOAD", f.id)
<1> DEFINE ends == IF f.meta = "DEFINE" THEN {} ELSE {<<m>>}
<1> HIDE DEF g, m
<1>3. PICK p \in {<<>>, <<g>>}, q \in {<<>>} \cup ends : rest = p \o q
  <2>1. Remains(f) = {p \o q : p \in {<<>>, <<g>>}, q \in {<<>>} \cup ends}
    BY DEF Remains, g, m
  <2> HIDE DEF ends
  <2> QED
    BY <2>1
<1>4. g \in Frame /\ m \in Frame
  BY <1>1, <1>2 DEF g, m
<1>5. p \in Seq(Frame) /\ q \in Seq(Frame)
  <2>1. (p = <<>> \/ p = <<g>>) /\ (q = <<>> \/ q = <<m>>)
    BY <1>3
  <2>2. <<>> \in Seq(Frame) /\ <<g>> \in Seq(Frame) /\ <<m>> \in Seq(Frame)
    BY <1>4
  <2> QED
    BY Zenon, <2>1, <2>2
<1> QED
  BY <1>3, <1>5

LEMMA LosesTyped ==
  ASSUME PackInv, PackTyped, StreamLoses
  PROVE  PackInv' /\ PackTyped'
<1>1. file \in Seq(Frame)
  BY DEF PackTyped
<1>2. PICK i \in DOMAIN file : \E rest \in Remains(file[i]) :
        file' = SubSeq(file, 1, i - 1) \o rest \o SubSeq(file, i + 1, Len(file))
  BY Zenon DEF StreamLoses
<1>8. PICK rest \in Remains(file[i]) :
        file' = SubSeq(file, 1, i - 1) \o rest \o SubSeq(file, i + 1, Len(file))
  BY Zenon, <1>2
<1>3. rest \in Seq(Frame)
  <2>1. file[i] \in Frame
    BY <1>1
  <2> QED
    BY <2>1, RemainsTyped
<1> DEFINE a == SubSeq(file, 1, i - 1)
           b == SubSeq(file, i + 1, Len(file))
<1>4. a \in Seq(Frame) /\ b \in Seq(Frame)
  BY <1>1
<1> HIDE DEF a, b
<1>5. file' = a \o rest \o b
  BY <1>8 DEF a, b
<1>6. file' \in Seq(Frame)
  BY <1>3, <1>4, <1>5
<1>7. pack' = [pack EXCEPT !.state = pack.state] /\ UNCHANGED <<pack, chan, sent>>
  BY DEF StreamLoses, PackInv, IsPack
<1> QED
  BY <1>6, <1>7, StateKeeps DEF PackTyped

-----------------------------------------------------------------------------
(* The types of a session. *)

ScriptTyped == script \in Script /\ returned \in Nat

OutputTyped ==
  /\ heard \in BOOLEAN /\ misled \in BOOLEAN /\ entry \in [Readers -> Entry]
  /\ seen \in [ChannelIds -> Seq(GeneratedLine)]

SessionTyped == ContainersTyped /\ ScriptTyped /\ OutputTyped

(* What the script is told: quiet and silent as they become, the objects kept or one more. *)
LEMMA ScriptFields ==
  ASSUME script \in Script
  PROVE  /\ \A r \in BOOLEAN : Told(script, r) \in Script
         /\ \A s \in Script, h \in Handles : [s EXCEPT !.held = @ \cup {h}] \in Script
         /\ \A s \in Script, b \in BOOLEAN : [s EXCEPT !.silent = @ \/ b] \in Script
         /\ \A s \in Script, o \in {"destructed", "freed", "undefined"} :
              [s EXCEPT !.object = o] \in Script
<1>1. ASSUME NEW r \in BOOLEAN PROVE Told(script, r) \in Script
  <2> DEFINE q == script.quiet /\ ~r
  <2>1. q \in BOOLEAN /\ Told(script, r) = [script EXCEPT !.quiet = q]
    BY DEF Told, Script
  <2> HIDE DEF q
  <2> QED
    BY <2>1 DEF Script
<1>2. ASSUME NEW s \in Script, NEW b \in BOOLEAN PROVE [s EXCEPT !.silent = @ \/ b] \in Script
  <2> DEFINE q == s.silent \/ b
  <2>1. q \in BOOLEAN /\ [s EXCEPT !.silent = @ \/ b] = [s EXCEPT !.silent = q]
    BY DEF Script
  <2> HIDE DEF q
  <2> QED
    BY <2>1 DEF Script
<1>3. ASSUME NEW s \in Script, NEW h \in Handles PROVE [s EXCEPT !.held = @ \cup {h}] \in Script
  BY DEF Script
<1>4. ASSUME NEW s \in Script, NEW o \in {"destructed", "freed", "undefined"}
      PROVE  [s EXCEPT !.object = o] \in Script
  BY DEF Script
<1> QED
  BY <1>1, <1>2, <1>3, <1>4

LEMMA CountedTyped ==
  ASSUME returned \in Nat, NEW raised, Counted(raised)
  PROVE  returned' \in Nat
  BY DEF Counted

LEMMA ScriptStepTyped ==
  ASSUME ScriptTyped, PackTyped, ScriptCall \/ ScriptEnd
  PROVE  ScriptTyped'
<1>1. \A r \in BOOLEAN : Tells(r) => script' \in Script
  BY ScriptFields DEF Tells, ScriptTyped
<1>2. CASE \E h \in Handles, t \in Times, n \in Sensors, v \in Numbers : PhpInject(h, t, n, v)
  <2>1. PICK r \in BOOLEAN : Tells(r) /\ Counted(r)
    BY <1>2 DEF PhpInject, InjectThrows
  <2> QED
    BY <1>1, <2>1, CountedTyped DEF ScriptTyped
<1>3. CASE \E h \in Handles, t \in Times, k \in Kinds : PhpInjectRefused(h, t, k)
  <2>1. PICK r \in BOOLEAN, b \in BOOLEAN :
          script' = [Told(script, r) EXCEPT !.silent = @ \/ b] /\ Counted(r)
    <3>1. PICK h \in Handles, t \in Times, k \in Kinds : PhpInjectRefused(h, t, k)
      BY Zenon, <1>3
    <3> DEFINE raised == InjectThrows(chan[h]')
               quiet == (k \in SilentKinds)
    <3>2. /\ script' = [Told(script, raised) EXCEPT !.silent = @ \/ quiet]
          /\ Counted(raised)
      BY Zenon, <3>1 DEF PhpInjectRefused
    <3>3. raised \in BOOLEAN /\ quiet \in BOOLEAN
      BY DEF InjectThrows
    <3> HIDE DEF raised, quiet
    <3> QED
      BY <3>2, <3>3
  <2> QED
    BY <2>1, ScriptFields, CountedTyped DEF ScriptTyped
<1>4. CASE \E h \in Handles : PhpInjectUnsupported(h) \/ PhpChannelFlush(h) \/ PhpChannelClose(h)
  <2>1. PICK r \in BOOLEAN : Tells(r) /\ returned' = returned
    BY <1>4 DEF PhpInjectUnsupported, PhpChannelFlush, PhpChannelClose
  <2> QED
    BY <1>1, <2>1 DEF ScriptTyped
<1>8. CASE \E h \in Handles : PhpResize(h)
  <2>1. /\ (\E r \in BOOLEAN : Tells(r)) \/ script' = [script EXCEPT !.object = "undefined"]
        /\ returned' = returned
    BY <1>8 DEF PhpResize
  <2> QED
    BY <1>1, <2>1, ScriptFields DEF ScriptTyped
<1>5. CASE \/ \E id \in Ids : PhpDefineInvalid(id) \/ PhpCloseChannel(id)
           \/ PhpClearErrorFlag \/ PhpFlush \/ PhpClose
  <2>1. PICK r \in BOOLEAN : Tells(r) /\ returned' = returned
    BY <1>5 DEF PhpDefineInvalid, PhpCloseChannel, PhpClearErrorFlag, PhpFlush, PhpClose
  <2> QED
    BY <1>1, <2>1 DEF ScriptTyped
<1>6. CASE \E id \in Ids : PhpDefineChannel(id)
  <2>1. PICK id \in Ids : PhpDefineChannel(id)
    BY <1>6
  <2>2. CASE DefineChannel(id) /\ script' = [Told(script, FALSE) EXCEPT !.held = @ \cup {pack.next}]
    <3>1. pack.next \in Handles /\ Told(script, FALSE) \in Script
      BY <2>2, ScriptFields DEF DefineChannel, ScriptTyped
    <3>2. script' \in Script
      BY <2>2, <3>1, ScriptFields DEF ScriptTyped
    <3> QED
      BY <2>1, <3>2 DEF PhpDefineChannel, ScriptTyped
  <2> QED
    BY <1>1, <2>1, <2>2 DEF PhpDefineChannel, ScriptTyped
<1>7. CASE PhpDestruct \/ PhpDie
  <2>1. PICK s \in {script, Told(script, FALSE)}, o \in {"destructed", "freed"} :
          script' = [s EXCEPT !.object = o] /\ returned' = returned
    BY <1>7 DEF PhpDestruct, PhpDie
  <2>2. s \in Script
    BY <2>1, ScriptFields DEF ScriptTyped
  <2> QED
    BY <2>1, <2>2, ScriptFields DEF ScriptTyped
<1> QED
  BY <1>2, <1>3, <1>4, <1>5, <1>6, <1>7, <1>8 DEF ScriptCall, ScriptEnd

(* An entry holds a sensor the reader knows, and the value of its last row or none. *)
LEMMA EntryTyped ==
  ASSUME NEW c \in ReadChan, NEW e \in Entry, NEW r \in Record, Defined(c, r)
  PROVE  EntryAfter(c, e, r) \in Entry
<1>1. CASE r.rec = "ROW"
  <2> DEFINE i == r.index
             l == Len(c.entries)
  <2>1. i \in Nat /\ l \in Nat /\ i < l /\ c.entries \in Seq(Sensors) /\ r.value \in Numbers
    BY <1>1, ReadFields DEF Record, Defined
  <2>2. c.entries[i + 1] \in Sensors
    <3> HIDE DEF i, l
    <3>1. i + 1 \in 1 .. l
      BY <2>1
    <3> QED
      BY <2>1, <3>1 DEF l
  <2>3. EntryAfter(c, e, r) = [sensor |-> c.entries[i + 1], value |-> r.value]
    BY <1>1 DEF EntryAfter
  <2> QED
    BY <2>1, <2>2, <2>3 DEF Entry
<1>2. CASE r.rec = "NAME"
  BY <1>2 DEF EntryAfter, Entry, Record
<1>3. CASE r.rec \notin {"NAME", "ROW"}
  BY <1>3 DEF EntryAfter
<1> QED
  BY <1>1, <1>2, <1>3

(* generate in a block: what it read was defined. *)
LEMMA GenerateReads ==
  ASSUME ReadTyped, ReadStep, InBlock("generate"), ~unp'.astray
  PROVE  /\ GenerateLine /\ unp.at \in Readers /\ Current = reader[unp.at] /\ Current \in ReadChan
         /\ Current.id \in ChannelIds /\ unp'.at = unp.at
         /\ Head(Line(Current)) \in Record /\ Defined(Current, Head(Line(Current)))
         /\ Last(Line(Current)) \in Record /\ Defined(Current, Last(Line(Current)))
<1>1. unp.by = "generate" /\ unp.at \in LiveReaders /\ Current.block # <<>>
  BY DEF InBlock, Current
<1>2. unp.at \in Readers /\ Current = reader[unp.at] /\ Current \in ReadChan /\ Current.id \in ChannelIds
  BY <1>1 DEF LiveReaders, Current, ReadTyped
<1>3. ~ReadFrame
  <2>1. unp.at # NoReader
    BY <1>2 DEF Readers, NoReader
  <2> QED
    BY Zenon, <2>1 DEF ReadFrame, ReadDefine, ReadBlock, SkipBlock, ReadTorn, ReadTornDefine,
                       ReadUntagged, ReadEnd, AtFrame, Reading
<1>4. GenerateLine
  BY <1>1, <1>3 DEF ReadStep, LeaveBlock, ParseRecord, InBlock
<1> DEFINE line == Line(Current)
<1>5. unp' # Astray
  BY UnpMoves DEF ReadTyped
<1>6. /\ \A i \in DOMAIN line : Defined(Current, line[i])
      /\ unp' = [unp EXCEPT !.inCall = FALSE, !.ended = Last(line).rec = "EOF"]
  BY <1>4, <1>5 DEF GenerateLine
<1>7. unp'.at = unp.at
  BY <1>6 DEF ReadTyped, Unp
<1>8. \/ line = <<Head(Current.block)>>
      \/ Len(line) = 2 /\ line \in Seq(Record)
  <2>1. Current.block \in Seq(Record) /\ Head(Current.block) \in Record
    BY <1>1, <1>2, ReadFields, LineRecords
  <2>2. CASE line # <<Head(Current.block)>>
    <3>1. /\ line = SubSeq(Current.block, 1, 2) /\ Len(Current.block) > 1
      BY <2>2 DEF Line
    <3> DEFINE b == Current.block
    <3> HIDE DEF line, b
    <3>2. b \in Seq(Record) /\ Len(b) > 1 /\ line = SubSeq(b, 1, 2)
      BY <2>1, <3>1 DEF b
    <3> QED
      BY <3>2
  <2> QED
    BY <2>2
<1>9. Head(Current.block) \in Record
  BY <1>1, <1>2, LineRecords
<1> HIDE DEF line
<1>10. /\ Head(line) \in Record /\ Defined(Current, Head(line))
       /\ Last(line) \in Record /\ Defined(Current, Last(line))
  <2>1. CASE line = <<Head(Current.block)>>
    <3>1. Head(line) = line[1] /\ Last(line) = line[1] /\ line[1] \in Record /\ 1 \in DOMAIN line
      BY <1>9, <2>1 DEF Last
    <3> QED
      BY <1>6, <3>1
  <2>2. CASE Len(line) = 2 /\ line \in Seq(Record)
    <3>1. Head(line) = line[1] /\ Last(line) = line[2] /\ line[1] \in Record /\ line[2] \in Record
          /\ 1 \in DOMAIN line /\ 2 \in DOMAIN line
      <4>1. line # <<>> /\ DOMAIN line = 1 .. 2
        BY <2>2
      <4>2. line[1] \in Record /\ line[2] \in Record
        BY <2>2, <4>1
      <4>3. Head(line) = line[1] /\ Last(line) = line[2]
        BY <2>2 DEF Last
      <4> QED
        BY <4>1, <4>2, <4>3
    <3> QED
      BY <1>6, <3>1
  <2> QED
    BY <1>8, <2>1, <2>2
<1> QED
  BY <1>2, <1>4, <1>7, <1>10 DEF line

LEMMA OutputStepTyped ==
  ASSUME ReadTyped, ReadTyped', OutputTyped, PhpReadStep
  PROVE  OutputTyped'
<1>1. CASE PhpParse
  <2>1. heard' \in BOOLEAN /\ misled' \in BOOLEAN
    BY <1>1 DEF PhpParse, ParseThrows, OutputTyped, AtFrame
  <2> QED
    BY <1>1, <2>1 DEF PhpParse, OutputTyped
<1>2. CASE PhpGenerate /\ ~(InBlock("generate") /\ ~unp'.astray)
  BY <1>2 DEF PhpGenerate, OutputTyped
<1>3. CASE PhpGenerate /\ InBlock("generate") /\ ~unp'.astray
  <2> DEFINE h == unp.at
             c == Current
             e == EntryAfter(c, EntryAfter(c, entry[h], Head(Line(c))), Last(Line(c)))
             x == Returned(h)'
  <2>1. /\ ReadStep /\ UNCHANGED <<heard, misled>>
        /\ entry' = [entry EXCEPT ![h] = e]
        /\ seen' = [seen EXCEPT ![c.id] = @ \o x]
    BY <1>3 DEF PhpGenerate
  <2>2. h \in Readers /\ c \in ReadChan /\ c.id \in ChannelIds /\ unp'.at = h
    BY <1>3, <2>1, GenerateReads
  <2>3. e \in Entry
    <3>1. EntryAfter(c, entry[h], Head(Line(c))) \in Entry
      BY <1>3, <2>1, <2>2, GenerateReads, EntryTyped DEF OutputTyped
    <3> QED
      BY <1>3, <2>1, <2>2, <3>1, GenerateReads, EntryTyped
  <2>4. entry' \in [Readers -> Entry]
    <3> HIDE DEF e
    <3> QED
      BY <2>1, <2>2, <2>3 DEF OutputTyped
  <2>5. x \in Seq(GeneratedLine)
    <3>1. entry'[h] \in Entry /\ reader'[h] \in ReadChan
      BY <2>2, <2>4 DEF ReadTyped
    <3>2. x = IF unp'.ended \/ entry'[unp'.at] = NoEntry THEN <<>>
              ELSE <<[time |-> reader'[unp'.at].ts, sensor |-> entry'[unp'.at].sensor,
                      value |-> entry'[unp'.at].value]>>
      BY DEF Returned
    <3>3. CASE entry'[h] = NoEntry \/ unp'.ended
      BY <2>2, <3>2, <3>3
    <3>4. CASE entry'[h] # NoEntry /\ ~unp'.ended
      <4> DEFINE y == [time |-> reader'[h].ts, sensor |-> entry'[h].sensor, value |-> entry'[h].value]
      <4>1. entry'[h] \in [sensor : Sensors, value : Numbers \cup {NoValue}]
        BY <3>1, <3>4 DEF Entry
      <4>2. y \in GeneratedLine /\ x = <<y>>
        BY <2>2, <3>1, <3>2, <3>4, <4>1, ReadFields DEF GeneratedLine
      <4> HIDE DEF y
      <4> QED
        BY <4>2
    <3> QED
      BY <3>3, <3>4
  <2> HIDE DEF x, h, e
  <2>6. seen' \in [ChannelIds -> Seq(GeneratedLine)]
    <3>1. seen[c.id] \o x \in Seq(GeneratedLine)
      BY <2>2, <2>5 DEF OutputTyped
    <3> QED
      BY <2>1, <2>2, <3>1 DEF OutputTyped
  <2> QED
    BY <2>1, <2>4, <2>6 DEF OutputTyped
<1> QED
  BY <1>1, <1>2, <1>3 DEF PhpReadStep

(* A session's reader does what any reader does, and may clear its error. *)
LEMMA ReadKinds ==
  ASSUME ReadScript
  PROVE  /\ ReadFile \/ UnpackCall
            \/ (PhpClearUnpackError /\ UNCHANGED <<pack, chan, sent, phase>>)
         /\ UNCHANGED phpvars
         /\ PhpReadStep \/ UNCHANGED phpuvars
<1>1. CASE PhpReadStep /\ unp.linked # {}
  BY <1>1 DEF ReadScript, PhpReadStep, PhpParse, PhpGenerate, ReadFile
<1>2. CASE PhpReaderCalls
  BY <1>2 DEF ReadScript, PhpReaderCalls, PhpSelectChannel, PhpReaderClose, PhpClearUnpackError,
              PhpUnpackClose, UnpackCall, UnpackCalls
<1> QED
  BY <1>1, <1>2 DEF ReadScript

LEMMA ClearUnpackTyped ==
  ASSUME ReaderInv, ReadTyped, PhpClearUnpackError
  PROVE  ReaderInv' /\ ReadTyped' /\ file' = file
<1>1. unp' = [unp EXCEPT !.state = "OPENED"] /\ UNCHANGED <<reader, got, file>>
  BY DEF PhpClearUnpackError
<1>2. unp' \in Unp
  BY <1>1 DEF ReadTyped, Unp, UStates
<1>3. IsUnp(unp') /\ SameList(unp, unp')
  <2>1. IsUnp(unp) /\ SameList(unp, unp)
    BY DEF ReaderInv, SameList
  <2> QED
    BY <1>1, <2>1, FieldKept
<1> QED
  BY <1>1, <1>2, <1>3, UnpKept DEF ReadTyped

LEMMA SessionInductive == SessionTyped /\ [SNext]_svars => SessionTyped'
<1> SUFFICES ASSUME SessionTyped, [SNext]_svars PROVE SessionTyped'
  OBVIOUS
<1>1. CASE WriteScript
  <2>1. PackInv' /\ PackTyped' /\ ScriptTyped' /\ UNCHANGED <<unp, reader, got, phase, phpuvars>>
    <3>1. CASE ScriptCall \/ ScriptEnd
      BY <1>1, <3>1, ScriptTypes, ScriptStepTyped DEF WriteScript, SessionTyped, ContainersTyped, ListsInv
    <3>2. CASE StreamLoses
      <4>1. ScriptTyped'
        BY <3>2 DEF StreamLoses, SessionTyped, ScriptTyped, Script
      <4> QED
        BY <1>1, <3>2, <4>1, LosesTyped DEF WriteScript, SessionTyped, ContainersTyped, ListsInv
    <3> QED
      BY <1>1, <3>1, <3>2 DEF WriteScript
  <2>2. ReaderInv'
    <3>1. IsUnp(unp') /\ SameList(unp, unp')
      BY <2>1 DEF SessionTyped, ContainersTyped, ListsInv, ReaderInv, SameList
    <3> QED
      BY <2>1, <3>1, UnpKept DEF SessionTyped, ContainersTyped, ListsInv
  <2> QED
    BY <2>1, <2>2 DEF SessionTyped, ContainersTyped, ListsInv, ReadTyped, OutputTyped, phpuvars
<1>2. CASE NextScript
  <2>1. PICK by \in {"parse", "generate"}, header \in Headers : PhpConstruct(by, header)
    BY <1>2 DEF NextScript
  <2>2. Open
    BY <1>2 DEF NextScript, Open, PhpConstruct
  <2>3. ContainersTyped'
    BY <2>2, TypedInductive DEF CNext, SessionTyped
  <2>4. script' \in Script
    BY <1>2 DEF NextScript, SessionTyped, ScriptTyped, Script
  <2>5. heard' = (header # "good") /\ UNCHANGED <<misled, entry, seen>> /\ returned' = 0
    BY <1>2, <2>1 DEF PhpConstruct, NextScript
  <2> QED
    BY <2>3, <2>4, <2>5 DEF SessionTyped, ScriptTyped, OutputTyped
<1>3. CASE ReadScript
  <2>1. ScriptTyped'
    BY <1>3, ReadKinds DEF phpvars, ScriptTyped, SessionTyped
  <2>2. ASSUME ReadFile \/ UnpackCall PROVE ContainersTyped'
    BY <2>2, TypedInductive DEF CNext, SessionTyped
  <2>3. ASSUME PhpClearUnpackError, UNCHANGED <<pack, chan, sent, phase>> PROVE ContainersTyped'
    <3>1. ReaderInv' /\ ReadTyped' /\ file' = file
      BY <2>3, ClearUnpackTyped DEF SessionTyped, ContainersTyped, ListsInv
    <3>2. PackInv'
      <4>1. pack' = [pack EXCEPT !.state = pack.state]
        BY <2>3 DEF SessionTyped, ContainersTyped, ListsInv, PackInv, IsPack
      <4> QED
        BY <2>3, <4>1, StateKeeps DEF SessionTyped, ContainersTyped, ListsInv
    <3> QED
      BY <2>3, <3>1, <3>2 DEF SessionTyped, ContainersTyped, ListsInv, PackTyped
  <2>4. ContainersTyped'
    BY <1>3, <2>2, <2>3, ReadKinds
  <2>5. OutputTyped'
    BY <1>3, <2>4, ReadKinds, OutputStepTyped DEF SessionTyped, ContainersTyped, OutputTyped, phpuvars
  <2> QED
    BY <2>1, <2>4, <2>5 DEF SessionTyped
<1>4. CASE UNCHANGED svars
  <2>1. ContainersTyped'
    BY <1>4, TypedInductive DEF svars, SessionTyped
  <2> QED
    BY <1>4, <2>1 DEF svars, phpvars, phpuvars, SessionTyped, ScriptTyped, OutputTyped
<1> QED
  BY <1>1, <1>2, <1>3, <1>4 DEF SNext

LEMMA InitSession == SInit => SessionTyped
<1> SUFFICES ASSUME SInit PROVE SessionTyped
  OBVIOUS
<1>1. ContainersTyped
  BY InitPack, InitReader, InitPackTyped, InitReadTyped
     DEF SInit, PhpInit, PhpUInit, ContainersTyped, ListsInv
<1>2. ScriptTyped
  BY DEF SInit, PhpInit, ScriptTyped, Script
<1>3. OutputTyped
  <2>1. <<>> \in Seq(GeneratedLine)
    OBVIOUS
  <2> QED
    BY <2>1 DEF SInit, PhpUInit, OutputTyped, Entry
<1> QED
  BY <1>1, <1>2, <1>3 DEF SessionTyped

LEMMA SessionAlways == SSpec => []SessionTyped
  BY InitSession, SessionInductive, PTL DEF SSpec

(***************************************************************************)
(* The two scripts, what they hold and were told, both containers and the  *)
(* file keep their shapes through every method of the PHP classes, refused *)
(* and failed calls, a fatal error and a killed process among them; an     *)
(* entry generate returns never names a sensor the reader does not know.   *)
(***************************************************************************)
THEOREM SessionTypeCorrect == SSpec => []SessionTypeOK
<1>1. SessionTyped => SessionTypeOK
  BY DEF SessionTyped, ContainersTyped, PackTyped, ReadTyped, ScriptTyped, OutputTyped,
         SessionTypeOK, PhpPackTypeOK, ContainersTypeOK
<1> QED
  BY <1>1, SessionAlways, PTL

-----------------------------------------------------------------------------
(* A loop over parse. *)

(* Before the second script there is no unpacker, which is as good as a closed one. *)
QuietInv ==
  /\ SessionTyped
  /\ phase = "write" => unp.state = "CLOSED"
  /\ QuietLoopReadAll

(* A broken frame, whichever it is. *)
LEMMA SomeBroken ==
  ASSUME NEW metas, metas \subseteq Broken, AtFrame(metas)
  PROVE  AtFrame(Broken)
  BY DEF AtFrame

(* parse ends its loop at the end of the file, with an error, or at a frame that is not
   what it seems; and then its call is over. *)
LEMMA ParseEnds ==
  ASSUME ReadTyped, ReadStep, unp.by = "parse", unp'.ended
  PROVE  /\ ~unp'.inCall
         /\ file' = <<>> \/ unp'.state = "ON_ERROR" \/ AtFrame(Broken)
<1>1. ~unp.ended
  BY Zenon DEF ReadStep, ReadFrame, ReadDefine, ReadBlock, SkipBlock, ReadTorn, ReadTornDefine,
         ReadUntagged, ReadEnd, AtFrame, Reading, LeaveBlock, ParseRecord, GenerateLine, InBlock
<1>2. /\ \A f : ~Past(f).ended
      /\ ~Astray.ended /\ ~AtEnd.inCall
      /\ \A e : ~Stopped(e).inCall
  <2>1. \A f : ~Past(f).ended
    BY <1>1, UnpMoves DEF ReadTyped
  <2>2. ~Astray.ended
    BY <1>1 DEF Astray, ReadTyped, Unp
  <2>3. AtEnd \in Unp /\ ~AtEnd.inCall
    BY UnpMoves DEF ReadTyped, Unp, AtEnd
  <2>4. \A e : Stopped(e) = [AtEnd EXCEPT !.state = "ON_ERROR"]
    BY DEF Stopped
  <2> QED
    BY <2>1, <2>2, <2>3, <2>4 DEF Unp
<1>3. CASE ReadDefine \/ SkipBlock
  BY <1>2, <1>3 DEF ReadDefine, SkipBlock
<1>4. CASE ReadBlock
  <2>1. \E h : unp' = [unp EXCEPT !.fresh = FALSE, !.at = h, !.inCall = TRUE]
    BY <1>4 DEF ReadBlock
  <2> QED
    BY <1>1, <2>1 DEF ReadTyped, Unp
<1>5. CASE ReadTorn \/ ReadTornDefine \/ ReadUntagged
  <2>1. AtFrame(Broken)
    BY Zenon, <1>5, FrameFacts, SomeBroken DEF ReadTorn, ReadTornDefine, ReadUntagged
  <2>2. unp' \in {AtEnd, Astray} \/ (\E e : unp' = Stopped(e)) \/ (\E f : unp' = Past(f))
    BY <1>5 DEF ReadTorn, ReadTornDefine, ReadUntagged, Misread
  <2> QED
    BY Zenon, <1>2, <2>1, <2>2
<1>6. CASE ReadEnd
  BY <1>2, <1>6 DEF ReadEnd
<1>7. CASE LeaveBlock
  BY <1>1, <1>7 DEF LeaveBlock, ReadTyped, Unp
<1>8. CASE ParseRecord
  BY <1>1, <1>2, <1>8 DEF ParseRecord
<1> QED
  BY <1>3, <1>4, <1>5, <1>6, <1>7, <1>8 DEF ReadStep, ReadFrame, GenerateLine, InBlock

LEMMA StepBy ==
  ASSUME ReadTyped, ReadStep
  PROVE  unp'.by = unp.by
<1>1. unp \in Unp
  BY DEF ReadTyped
<1>2. \A e : Stopped(e).by = unp.by
  <2>1. AtEnd \in Unp /\ AtEnd.by = unp.by
    BY <1>1, UnpMoves DEF Unp, AtEnd
  <2> QED
    BY <2>1 DEF Stopped, Unp
<1>3. AtEnd.by = unp.by /\ Astray.by = unp.by /\ \A f : Past(f).by = unp.by
  BY <1>1, UnpMoves DEF Unp, AtEnd, Astray
<1>4. CASE ReadFrame
  <2>1. \/ unp' \in {AtEnd, Astray} \/ (\E e : unp' = Stopped(e)) \/ (\E f : unp' = Past(f))
        \/ (\E h : unp' = [unp EXCEPT !.fresh = FALSE, !.at = h, !.inCall = TRUE])
    <3>1. CASE ReadTorn \/ ReadTornDefine \/ ReadUntagged
      BY Zenon, <3>1 DEF ReadTorn, ReadTornDefine, ReadUntagged, Misread
    <3> QED
      BY Zenon, <1>4, <3>1 DEF ReadFrame, ReadDefine, ReadBlock, SkipBlock, ReadEnd
  <2>2. \A h : [unp EXCEPT !.fresh = FALSE, !.at = h, !.inCall = TRUE].by = unp.by
    BY <1>1 DEF Unp
  <2> QED
    BY Zenon, <1>2, <1>3, <2>1, <2>2
<1>5. CASE LeaveBlock \/ ParseRecord \/ GenerateLine
  <2>1. \/ unp' \in {unp, Astray}
        \/ unp' = [unp EXCEPT !.at = NoReader, !.inCall = FALSE]
        \/ \E e : unp' = [unp EXCEPT !.inCall = FALSE, !.ended = e]
    BY Zenon, <1>5 DEF LeaveBlock, ParseRecord, GenerateLine
  <2> QED
    BY <1>1, <1>3, <2>1 DEF Unp
<1> QED
  BY <1>4, <1>5 DEF ReadStep

LEMMA QuietInductive == QuietInv /\ [SNext]_svars => QuietInv'
<1> SUFFICES ASSUME QuietInv, [SNext]_svars PROVE QuietInv'
  OBVIOUS
<1>1. SessionTyped'
  BY SessionInductive DEF QuietInv
<1>2. ReadTyped /\ file \in Seq(Frame) /\ unp \in Unp
  BY DEF QuietInv, SessionTyped, ContainersTyped, PackTyped, ReadTyped
<1>3. CASE WriteScript
  <2>1. phase = "write" /\ unp' = unp /\ phase' = phase
    BY <1>3 DEF WriteScript
  <2>2. unp'.state = "CLOSED"
    BY <2>1 DEF QuietInv
  <2> QED
    BY <1>1, <2>1, <2>2 DEF QuietInv, QuietLoopReadAll, QuietEnd
<1>4. CASE NextScript
  <2>1. PICK by \in {"parse", "generate"}, header \in Headers : PhpConstruct(by, header)
    BY <1>4 DEF NextScript
  <2>2. unp'.ended = (header # "good") /\ heard' = (header # "good")
    <3> DEFINE e == (header # "good")
               s == (IF header = "good" THEN "OPENED" ELSE "ON_ERROR")
    <3>1. unp' = [unp EXCEPT !.by = by, !.ended = e, !.state = s] /\ heard' = e
      BY <2>1 DEF PhpConstruct, UnpackInit
    <3> HIDE DEF e, s
    <3>2. unp'.ended = e
      BY <1>2, <3>1 DEF Unp
    <3> QED
      BY <3>1, <3>2 DEF e
  <2>3. phase' = "read"
    BY <1>4 DEF NextScript, PackerGone
  <2> QED
    BY <1>1, <2>2, <2>3 DEF QuietInv, QuietLoopReadAll, QuietEnd
<1>5. CASE ReadScript
  <2>1. phase' = "read"
    BY <1>5 DEF ReadScript
  <2>2. CASE PhpReaderCalls
    <3>1. Between
      BY <2>2 DEF PhpReaderCalls, PhpSelectChannel, SelectChannel, SelectRefused, PhpReaderClose,
                  DropReader, PhpClearUnpackError, PhpUnpackClose, UnpackClose, Listing
    <3>2. unp'.ended => unp'.state = "CLOSED"
      BY <1>2, <2>2, <3>1 DEF PhpReaderCalls, PhpSelectChannel, SelectChannel, SelectRefused,
           PhpReaderClose, DropReader, PhpClearUnpackError, PhpUnpackClose, UnpackClose, Between, Unp
    <3> QED
      BY <1>1, <2>1, <3>2 DEF QuietInv, QuietLoopReadAll, QuietEnd
  <2>3. CASE PhpReadStep
    <3>1. ReadStep
      BY <2>3 DEF PhpReadStep, PhpParse, PhpGenerate
    <3>2. unp'.by = unp.by
      BY <1>2, <3>1, StepBy
    <3>3. unp'.ended /\ unp.by = "parse" =>
            ~unp'.inCall /\ (file' = <<>> \/ unp'.state = "ON_ERROR" \/ AtFrame(Broken))
      BY <1>2, <3>1, ParseEnds
    <3>4. unp.by = "parse" => PhpParse
      BY <2>3 DEF PhpReadStep, PhpGenerate
    <3>5. ASSUME QuietEnd' PROVE unp'.state = "OPENED" /\ (file' = <<>> \/ misled')
      <4>1. PhpParse /\ unp'.ended /\ ~heard' /\ unp'.state # "CLOSED"
        BY <3>2, <3>4, <3>5 DEF QuietEnd
      <4>2. ~unp'.inCall /\ (file' = <<>> \/ unp'.state = "ON_ERROR" \/ AtFrame(Broken))
        BY <3>2, <3>3, <3>5 DEF QuietEnd
      <4>3. unp'.state # "ON_ERROR" /\ (AtFrame(Broken) => misled')
        BY <4>1, <4>2 DEF PhpParse, ParseThrows
      <4>4. unp'.state \in UStates
        BY <1>1 DEF SessionTyped, ContainersTyped, ReadTyped, Unp
      <4> QED
        BY <4>1, <4>2, <4>3, <4>4 DEF UStates
    <3> QED
      BY <1>1, <2>1, <3>5 DEF QuietInv, QuietLoopReadAll
  <2> QED
    BY <1>5, <2>2, <2>3 DEF ReadScript
<1>6. CASE UNCHANGED svars
  BY <1>1, <1>6 DEF svars, cvars, phpuvars, QuietInv, QuietLoopReadAll, QuietEnd
<1> QED
  BY <1>3, <1>4, <1>5, <1>6 DEF SNext

(***************************************************************************)
(* OticUnpack::parse in a loop: if no call threw, nor the constructor, and *)
(* the script did not close the unpacker, the loop has left no error       *)
(* behind, whatever the writer's end and the stream made of the file and   *)
(* whatever errors were cleared; and nothing is left in the file unless a  *)
(* frame was met that is not what it seems.                                *)
(***************************************************************************)
THEOREM QuietLoopsReadAll == SSpec => []QuietLoopReadAll
<1>1. SInit => QuietInv
  <2>1. SInit => unp.state = "CLOSED" /\ ~unp.ended
    BY DEF SInit, PhpUInit, UInit
  <2> QED
    BY <2>1, InitSession DEF QuietInv, QuietLoopReadAll, QuietEnd
<1>2. QuietInv => QuietLoopReadAll
  BY DEF QuietInv
<1> QED
  BY <1>1, <1>2, QuietInductive, PTL DEF SSpec

-----------------------------------------------------------------------------
(* Sums.  The rows of all channels are counted by a fold over the set of   *)
(* ids.  Induction over that set is an argument about a smallest           *)
(* counterexample: a set of finite sets has a member without a smaller one. *)

Picked(s) == CHOOSE x \in s : TRUE
Others(s) == s \ {Picked(s)}

(* g is the sum of the weights w over every subset of S. *)
Sums(w, S, g) ==
  \A s \in SUBSET S : g[s] = IF s = {} THEN 0 ELSE w[Picked(s)] + g[Others(s)]

LEMMA SmallestSet ==
  ASSUME NEW S, IsFiniteSet(S), NEW T, T \subseteq SUBSET S, T # {}
  PROVE  \E s \in T : \A u \in T : u \subseteq s => u = s
<1>1. IsWellFoundedOn(StrictSubsetOrdering(S), FiniteSubsetsOf(S))
  BY FS_StrictSubsetOrderingWellFounded
<1>2. FiniteSubsetsOf(S) = SUBSET S
  BY FS_FiniteSubsetsOfFinite
<1>3. PICK s \in T : \A u \in T : <<u, s>> \notin StrictSubsetOrdering(S)
  BY <1>1, <1>2, WFMin
<1> QED
  BY <1>3 DEF StrictSubsetOrdering

LEMMA PickedIn ==
  ASSUME NEW S, NEW s \in SUBSET S, s # {}
  PROVE  /\ Picked(s) \in s /\ Picked(s) \in S
         /\ Others(s) \in SUBSET S /\ Others(s) \subseteq s /\ Others(s) # s
         /\ Picked(s) \notin Others(s) /\ s = Others(s) \cup {Picked(s)}
<1>1. Picked(s) \in s
  BY DEF Picked
<1> QED
  BY <1>1 DEF Others

(* A sum of natural numbers is one. *)
LEMMA SumTyped ==
  ASSUME NEW S, IsFiniteSet(S), NEW w, \A x \in S : w[x] \in Nat, NEW g, Sums(w, S, g)
  PROVE  \A s \in SUBSET S : g[s] \in Nat
<1> DEFINE T == {s \in SUBSET S : g[s] \notin Nat}
<1> SUFFICES ASSUME T # {} PROVE FALSE
  OBVIOUS
<1>1. PICK s \in T : \A u \in T : u \subseteq s => u = s
  <2>1. T \subseteq SUBSET S /\ T # {}
    OBVIOUS
  <2> HIDE DEF T
  <2> QED
    BY <2>1, SmallestSet
<1>2. s # {}
  BY DEF Sums
<1>3. g[Others(s)] \in Nat /\ w[Picked(s)] \in Nat
  BY <1>1, <1>2, PickedIn
<1>4. g[s] = w[Picked(s)] + g[Others(s)]
  BY <1>2 DEF Sums
<1> QED
  BY <1>3, <1>4

(* Two sums of the same weights agree where both are defined. *)
LEMMA SumsAgree ==
  ASSUME NEW S, IsFiniteSet(S), NEW A \in SUBSET S, NEW B \in SUBSET S, NEW w,
         NEW g, Sums(w, A, g), NEW h, Sums(w, B, h)
  PROVE  \A s \in SUBSET (A \cap B) : g[s] = h[s]
<1> DEFINE T == {s \in SUBSET (A \cap B) : g[s] # h[s]}
<1> SUFFICES ASSUME T # {} PROVE FALSE
  OBVIOUS
<1>1. PICK s \in T : \A u \in T : u \subseteq s => u = s
  <2>1. T \subseteq SUBSET S /\ T # {}
    OBVIOUS
  <2> HIDE DEF T
  <2> QED
    BY <2>1, SmallestSet
<1>2. s \in SUBSET A /\ s \in SUBSET B
  OBVIOUS
<1>3. s # {}
  BY <1>2 DEF Sums
<1>4. g[Others(s)] = h[Others(s)]
  <2>1. Others(s) \in SUBSET (A \cap B) /\ Others(s) \subseteq s /\ Others(s) # s
    BY <1>3, PickedIn
  <2> QED
    BY Zenon, <1>1, <2>1
<1> QED
  BY <1>2, <1>3, <1>4 DEF Sums

(* Each finite set has a sum. *)
LEMMA SumExists ==
  ASSUME NEW S, IsFiniteSet(S), NEW w
  PROVE  \E g : g = [s \in SUBSET S |-> g[s]] /\ Sums(w, S, g)
<1> DEFINE T == {s \in SUBSET S : ~ \E g : Sums(w, s, g)}
<1>1. ASSUME T # {} PROVE FALSE
  <2>1. PICK s \in T : \A u \in T : u \subseteq s => u = s
    <3>1. T \subseteq SUBSET S /\ T # {}
      BY <1>1
    <3> HIDE DEF T
    <3> QED
      BY <3>1, SmallestSet
  <2> DEFINE part(r) == CHOOSE g : Sums(w, r, g)
             g == [u \in SUBSET s |-> IF u = {} THEN 0
                                      ELSE w[Picked(u)] + part(Others(u))[Others(u)]]
  <2>2. \A r \in SUBSET s : r # s => Sums(w, r, part(r))
    <3>1. \A r \in SUBSET s : r # s => \E f : Sums(w, r, f)
      BY <2>1
    <3> QED
      BY <3>1
  <2> HIDE DEF part
  <2>3. \A r, u \in SUBSET s : u # s /\ r \subseteq u => part(u)[r] = part(r)[r]
    <3> SUFFICES ASSUME NEW r \in SUBSET s, NEW u \in SUBSET s, u # s, r \subseteq u
                 PROVE  part(u)[r] = part(r)[r]
      OBVIOUS
    <3>1. Sums(w, u, part(u)) /\ Sums(w, r, part(r))
      BY <2>2
    <3>2. r \in SUBSET S /\ u \in SUBSET S /\ r \in SUBSET (u \cap r)
      OBVIOUS
    <3> QED
      BY <3>1, <3>2, SumsAgree
  <2>4. \A u \in SUBSET s : u # {} => g[Others(u)] = part(Others(u))[Others(u)]
    <3> SUFFICES ASSUME NEW u \in SUBSET s, u # {}
                 PROVE  g[Others(u)] = part(Others(u))[Others(u)]
      OBVIOUS
    <3> DEFINE r == Others(u)
    <3>1. r \in SUBSET s /\ r # s /\ r \in SUBSET r
      BY PickedIn
    <3>2. Sums(w, r, part(r))
      BY <2>2, <3>1
    <3>3. part(r)[r] = IF r = {} THEN 0 ELSE w[Picked(r)] + part(r)[Others(r)]
      BY <3>1, <3>2 DEF Sums
    <3>4. r # {} => part(r)[Others(r)] = part(Others(r))[Others(r)]
      <4> SUFFICES ASSUME r # {} PROVE part(r)[Others(r)] = part(Others(r))[Others(r)]
        OBVIOUS
      <4> HIDE DEF r
      <4>1. Others(r) \in SUBSET s /\ Others(r) \subseteq r
        BY <3>1, PickedIn
      <4> QED
        BY <2>3, <3>1, <4>1
    <3>5. g[r] = IF r = {} THEN 0 ELSE w[Picked(r)] + part(Others(r))[Others(r)]
      <4> HIDE DEF r
      <4> QED
        BY <3>1
    <3> HIDE DEF r, g
    <3> QED
      BY <3>3, <3>4, <3>5 DEF r
  <2>5. Sums(w, s, g)
    <3>1. \A u \in SUBSET s : g[u] = IF u = {} THEN 0 ELSE w[Picked(u)] + part(Others(u))[Others(u)]
      OBVIOUS
    <3> HIDE DEF g
    <3> QED
      BY <2>4, <3>1 DEF Sums
  <2> QED
    BY <2>5
<1>2. PICK g : Sums(w, S, g)
  BY <1>1
<1> DEFINE f == [s \in SUBSET S |-> g[s]]
<1>3. f = [s \in SUBSET S |-> f[s]]
  OBVIOUS
<1>4. \A s \in SUBSET S : f[s] = g[s]
  OBVIOUS
<1>5. \A s \in SUBSET S : s # {} => Others(s) \in SUBSET S
  BY PickedIn
<1> HIDE DEF f
<1>6. Sums(w, S, f)
  BY <1>2, <1>4, <1>5 DEF Sums
<1> QED
  BY <1>3, <1>6

(* One weight grows by one, and with it every sum it is part of. *)
OneMore(S, w, v, y, g, h) ==
  /\ \A x \in S : w[x] \in Nat
  /\ y \in S /\ v[y] = w[y] + 1 /\ \A x \in S : x # y => v[x] = w[x]
  /\ Sums(w, S, g) /\ Sums(v, S, h)

LEMMA SumGrows ==
  ASSUME NEW S, IsFiniteSet(S), NEW w, NEW v, NEW y, NEW g, NEW h, OneMore(S, w, v, y, g, h)
  PROVE  \A s \in SUBSET S : h[s] = IF y \in s THEN g[s] + 1 ELSE g[s]
<1>0. /\ \A x \in S : w[x] \in Nat
      /\ y \in S /\ v[y] = w[y] + 1 /\ \A x \in S : x # y => v[x] = w[x]
      /\ Sums(w, S, g) /\ Sums(v, S, h)
  BY DEF OneMore
<1> DEFINE T == {s \in SUBSET S : h[s] # IF y \in s THEN g[s] + 1 ELSE g[s]}
<1> SUFFICES ASSUME T # {} PROVE FALSE
  OBVIOUS
<1>1. PICK s \in T : \A u \in T : u \subseteq s => u = s
  <2>1. T \subseteq SUBSET S /\ T # {}
    OBVIOUS
  <2> HIDE DEF T
  <2> QED
    BY <2>1, SmallestSet
<1>2. s # {}
  BY <1>0 DEF Sums
<1> DEFINE r == Others(s)
           x == Picked(s)
<1>3. r \in SUBSET S /\ x \in S /\ x \notin r /\ s = r \cup {x} /\ r \subseteq s /\ r # s
  BY <1>2, PickedIn
<1>4. h[r] = IF y \in r THEN g[r] + 1 ELSE g[r]
  BY <1>1, <1>3
<1>5. g[r] \in Nat /\ w[x] \in Nat
  BY <1>0, <1>3, SumTyped
<1>6. g[s] = w[x] + g[r] /\ h[s] = v[x] + h[r]
  BY <1>0, <1>2 DEF Sums
<1>7. h[s] # IF y \in s THEN g[s] + 1 ELSE g[s]
  OBVIOUS
<1> HIDE DEF r, x
<1>8. CASE y = x
  BY <1>0, <1>3, <1>4, <1>5, <1>6, <1>7, <1>8
<1>9. CASE y # x
  BY <1>0, <1>3, <1>4, <1>5, <1>6, <1>7, <1>9
<1> QED
  BY <1>8, <1>9

(* A sum of nothing is nothing. *)
LEMMA SumOfNothing ==
  ASSUME NEW S, IsFiniteSet(S), NEW w, \A x \in S : w[x] = 0, NEW g, Sums(w, S, g)
  PROVE  g[S] = 0
<1> DEFINE T == {s \in SUBSET S : g[s] # 0}
<1> SUFFICES ASSUME T # {} PROVE FALSE
  OBVIOUS
<1>1. PICK s \in T : \A u \in T : u \subseteq s => u = s
  <2>1. T \subseteq SUBSET S /\ T # {}
    OBVIOUS
  <2> HIDE DEF T
  <2> QED
    BY <2>1, SmallestSet
<1>2. s # {}
  BY DEF Sums
<1>3. g[Others(s)] = 0 /\ w[Picked(s)] = 0
  BY <1>1, <1>2, PickedIn
<1>4. g[s] = w[Picked(s)] + g[Others(s)]
  BY <1>2 DEF Sums
<1> QED
  BY <1>3, <1>4

LEMMA FiniteIds == IsFiniteSet(ChannelIds) /\ ChannelIds \in SUBSET ChannelIds
<1>1. 0 \in Int /\ 255 \in Int
  OBVIOUS
<1>2. IsFiniteSet(0 .. 255)
  <2>1. \A a, b \in Int : IsFiniteSet(a .. b)
    BY FS_Interval
  <2> QED
    BY Zenon, <1>1, <2>1
<1>3. ChannelIds \subseteq 0 .. 255
  BY FileAssumption DEF ChannelIds
<1> QED
  BY <1>2, <1>3, FS_Subset

(* TotalRows is such a sum. *)
RowsSummed ==
  \E g : Sums([id \in ChannelIds |-> Len(sent[id])], ChannelIds, g) /\ TotalRows = g[ChannelIds]

LEMMA TotalIsSum == RowsSummed
<1> DEFINE w == [id \in ChannelIds |-> Len(sent[id])]
           Fold(g) == g = [s \in SUBSET ChannelIds |->
                             IF s = {} THEN 0
                             ELSE Len(sent[CHOOSE x \in s : TRUE]) + g[s \ {CHOOSE x \in s : TRUE}]]
<1>1. IsFiniteSet(ChannelIds)
  BY FiniteIds
<1>2. \E g : Fold(g)
  <2>1. PICK g : g = [s \in SUBSET ChannelIds |-> g[s]] /\ Sums(w, ChannelIds, g)
    BY <1>1, SumExists
  <2>2. \A s \in SUBSET ChannelIds : s # {} => w[Picked(s)] = Len(sent[Picked(s)])
    BY PickedIn
  <2>3. \A s \in SUBSET ChannelIds :
          g[s] = IF s = {} THEN 0 ELSE Len(sent[Picked(s)]) + g[Others(s)]
    <3> HIDE DEF w
    <3> QED
      BY <2>1, <2>2 DEF Sums
  <2>4. g = [s \in SUBSET ChannelIds |->
               IF s = {} THEN 0 ELSE Len(sent[Picked(s)]) + g[Others(s)]]
    BY <2>1, <2>3
  <2> QED
    BY <2>4 DEF Picked, Others
<1>3. TotalRows = (CHOOSE g : Fold(g))[ChannelIds]
  BY DEF TotalRows, MapThenSumSet, MapThenFoldSet
<1>4. PICK g : g = (CHOOSE f : Fold(f))
  OBVIOUS
<1>5. Fold(g)
  BY <1>2, <1>4
<1>6. \A s \in SUBSET ChannelIds :
        g[s] = IF s = {} THEN 0 ELSE Len(sent[Picked(s)]) + g[Others(s)]
  BY <1>5 DEF Picked, Others
<1>7. \A s \in SUBSET ChannelIds : s # {} => w[Picked(s)] = Len(sent[Picked(s)])
  BY PickedIn
<1> HIDE DEF w, Fold
<1>8. Sums(w, ChannelIds, g)
  BY <1>6, <1>7 DEF Sums
<1> QED
  BY <1>3, <1>4, <1>8 DEF w, RowsSummed

LEMMA TotalIsSumNext == RowsSummed'
  BY TotalIsSum, PTL

-----------------------------------------------------------------------------
(* The rows accepted, counted. *)

LEMMA RowsCounted ==
  ASSUME sent \in [ChannelIds -> Seq(Row)]
  PROVE  TotalRows \in Nat
<1> DEFINE w == [id \in ChannelIds |-> Len(sent[id])]
<1>1. PICK g : Sums(w, ChannelIds, g) /\ TotalRows = g[ChannelIds]
  BY TotalIsSum DEF RowsSummed
<1>2. \A id \in ChannelIds : w[id] \in Nat
  OBVIOUS
<1> HIDE DEF w
<1> QED
  BY <1>1, <1>2, FiniteIds, SumTyped

LEMMA NoRows ==
  ASSUME \A id \in ChannelIds : sent[id] = <<>>
  PROVE  TotalRows = 0
<1> DEFINE w == [id \in ChannelIds |-> Len(sent[id])]
<1>1. PICK g : Sums(w, ChannelIds, g) /\ TotalRows = g[ChannelIds]
  BY TotalIsSum DEF RowsSummed
<1>2. \A id \in ChannelIds : w[id] = 0
  OBVIOUS
<1> HIDE DEF w
<1> QED
  BY <1>1, <1>2, FiniteIds, SumOfNothing

LEMMA SameRows ==
  ASSUME sent' = sent
  PROVE  TotalRows' = TotalRows
<1> DEFINE w == [id \in ChannelIds |-> Len(sent[id])]
           v == [id \in ChannelIds |-> Len(sent'[id])]
<1>1. PICK g : Sums(w, ChannelIds, g) /\ TotalRows = g[ChannelIds]
  BY TotalIsSum DEF RowsSummed
<1>2. PICK f : Sums(v, ChannelIds, f) /\ TotalRows' = f[ChannelIds]
  BY TotalIsSumNext DEF RowsSummed
<1>3. v = w
  OBVIOUS
<1> HIDE DEF w, v
<1>4. \A s \in SUBSET (ChannelIds \cap ChannelIds) : g[s] = f[s]
  BY <1>1, <1>2, <1>3, FiniteIds, SumsAgree
<1> QED
  BY <1>1, <1>2, <1>4

LEMMA OneRowMore ==
  ASSUME sent \in [ChannelIds -> Seq(Row)], NEW id \in ChannelIds, NEW row \in Row,
         sent' = [sent EXCEPT ![id] = Append(@, row)]
  PROVE  TotalRows' = TotalRows + 1
<1> DEFINE w == [i \in ChannelIds |-> Len(sent[i])]
           v == [i \in ChannelIds |-> Len(sent'[i])]
<1>1. PICK g : Sums(w, ChannelIds, g) /\ TotalRows = g[ChannelIds]
  BY TotalIsSum DEF RowsSummed
<1>2. PICK f : Sums(v, ChannelIds, f) /\ TotalRows' = f[ChannelIds]
  BY TotalIsSumNext DEF RowsSummed
<1>3. \A i \in ChannelIds : w[i] \in Nat
  OBVIOUS
<1>4. v[id] = w[id] + 1
  OBVIOUS
<1>5. \A i \in ChannelIds : i # id => v[i] = w[i]
  OBVIOUS
<1>6. PICK x, y : x = w /\ y = v
  OBVIOUS
<1> HIDE DEF w, v
<1>7. /\ \A i \in ChannelIds : x[i] \in Nat
      /\ y[id] = x[id] + 1
      /\ \A i \in ChannelIds : i # id => y[i] = x[i]
  BY <1>3, <1>4, <1>5, <1>6
<1>8. Sums(x, ChannelIds, g) /\ Sums(y, ChannelIds, f)
  BY <1>1, <1>2, <1>6
<1>9. \A s \in SUBSET ChannelIds : f[s] = IF id \in s THEN g[s] + 1 ELSE g[s]
  <2>1. OneMore(ChannelIds, x, y, id, g, f)
    BY <1>7, <1>8 DEF OneMore
  <2> QED
    BY <2>1, FiniteIds, SumGrows
<1> QED
  BY <1>1, <1>2, <1>9, FiniteIds

LEMMA ToldFields ==
  ASSUME script \in Script, NEW r \in BOOLEAN
  PROVE  /\ Told(script, r).silent = script.silent
         /\ Told(script, r).quiet = (script.quiet /\ ~r)
         /\ Told(script, r).object = script.object /\ Told(script, r).short = script.short
<1> DEFINE q == script.quiet /\ ~r
<1>1. Told(script, r) = [script EXCEPT !.quiet = q]
  BY DEF Told
<1> HIDE DEF q
<1>2. [script EXCEPT !.quiet = q].quiet = q /\ [script EXCEPT !.quiet = q].silent = script.silent
      /\ [script EXCEPT !.quiet = q].object = script.object
      /\ [script EXCEPT !.quiet = q].short = script.short
  BY DEF Script
<1> QED
  BY <1>1, <1>2 DEF q

(* A call that is no inject: no row and no count, and what it tells is told to everybody. *)
NoRowTold ==
  /\ sent' = sent /\ returned' = returned
  /\ script'.silent = script.silent /\ (script'.quiet => script.quiet)

LEMMA OtherCallsTell ==
  ASSUME script \in Script, ScriptCall \/ ScriptEnd
  PROVE  \/ NoRowTold
         \/ \E h \in Handles, t \in Times, n \in Sensors, v \in Numbers : PhpInject(h, t, n, v)
         \/ \E h \in Handles, t \in Times, k \in Kinds : PhpInjectRefused(h, t, k)
<1>1. ASSUME NEW r \in BOOLEAN, Tells(r)
      PROVE  script'.silent = script.silent /\ (script'.quiet => script.quiet)
  BY <1>1, ToldFields DEF Tells
<1>2. CASE \E h \in Handles : PhpInjectUnsupported(h) \/ PhpChannelFlush(h) \/ PhpChannelClose(h)
  <2>1. PICK r \in BOOLEAN : Tells(r) /\ returned' = returned
    BY <1>2 DEF PhpInjectUnsupported, PhpChannelFlush, PhpChannelClose
  <2>2. sent' = sent
    BY <1>2 DEF PhpInjectUnsupported, PhpChannelFlush, PhpChannelClose, pkvars,
                ChannelFlush, ChannelClose
  <2> QED
    BY <1>1, <2>1, <2>2 DEF NoRowTold
<1>6. CASE \E h \in Handles : PhpResize(h)
  <2>1. /\ (\E r \in BOOLEAN : Tells(r)) \/ script' = [script EXCEPT !.object = "undefined"]
        /\ UNCHANGED <<sent, returned>>
    BY <1>6 DEF PhpResize
  <2>2. [script EXCEPT !.object = "undefined"].silent = script.silent
        /\ [script EXCEPT !.object = "undefined"].quiet = script.quiet
    BY DEF Script
  <2> QED
    BY Zenon, <1>1, <2>1, <2>2 DEF NoRowTold
<1>3. CASE \/ \E id \in Ids : PhpDefineInvalid(id) \/ PhpCloseChannel(id)
           \/ PhpClearErrorFlag \/ PhpFlush \/ PhpClose
  <2>1. PICK r \in BOOLEAN : Tells(r) /\ returned' = returned
    BY <1>3 DEF PhpDefineInvalid, PhpCloseChannel, PhpClearErrorFlag, PhpFlush, PhpClose
  <2>2. sent' = sent
    BY Zenon, <1>3 DEF PhpDefineInvalid, PhpCloseChannel, PhpClearErrorFlag, PhpFlush, PhpClose,
                DefineChannel, DefineRefused, CloseChannel, ClearErrorFlag, PackFlush, CloseOnce,
                PackClose, pkvars
  <2> QED
    BY <1>1, <2>1, <2>2 DEF NoRowTold
<1>4. CASE \E id \in Ids : PhpDefineChannel(id)
  <2>1. PICK id \in Ids : PhpDefineChannel(id)
    BY <1>4
  <2>2. sent' = sent /\ returned' = returned
    BY <2>1 DEF PhpDefineChannel, DefineChannel, DefineRefused
  <2>3. PICK r \in BOOLEAN :
          \E x : script' = Told(script, r) \/ script' = [Told(script, r) EXCEPT !.held = x]
    BY <2>1 DEF PhpDefineChannel, Tells
  <2>4. Told(script, r) \in Script
    BY ScriptFields
  <2>5. script'.silent = Told(script, r).silent /\ script'.quiet = Told(script, r).quiet
    BY <2>3, <2>4 DEF Script
  <2> QED
    BY <2>2, <2>5, ToldFields DEF NoRowTold
<1>5. CASE PhpDestruct \/ PhpDie
  <2>1. sent' = sent /\ returned' = returned
    <3>1. CASE PhpDestruct
      <4>1. PackClose => sent' = sent
        BY Zenon DEF PackClose
      <4> QED
        BY <3>1, <4>1 DEF PhpDestruct, CloseOnce, pkvars
    <3>2. CASE PhpDie
      BY <3>2 DEF PhpDie
    <3> QED
      BY <1>5, <3>1, <3>2
  <2>2. PICK r \in BOOLEAN, o \in {"destructed", "freed"} :
          \E s \in {script, Told(script, r)} : script' = [s EXCEPT !.object = o]
    BY <1>5 DEF PhpDestruct, PhpDie
  <2>3. PICK s \in {script, Told(script, r)} : script' = [s EXCEPT !.object = o]
    BY <2>2
  <2>4. s \in Script
    BY <2>3, ScriptFields
  <2>5. script'.silent = s.silent /\ script'.quiet = s.quiet
    BY <2>3, <2>4 DEF Script
  <2> QED
    BY <2>1, <2>3, <2>5, ToldFields DEF NoRowTold
<1> QED
  BY <1>2, <1>3, <1>4, <1>5, <1>6 DEF ScriptCall, ScriptEnd

(* A refused row of a kind that is heard leaves its channel in error, flushed or not. *)
LEMMA RefusedRowHeard ==
  ASSUME PackTyped, NEW h \in Handles, NEW t \in Times, NEW k \in Kinds, k \notin SilentKinds,
         PhpInjectRefused(h, t, k)
  PROVE  chan'[h].state = "ON_ERROR"
<1> DEFINE c == chan[h]
<1>1. /\ InjectRefused(h, t, "ON_ERROR") /\ FlushResults = {"ok"}
      /\ c \in PackChan /\ c.id \in ChannelIds
  BY PhpAssumption DEF PhpInjectRefused, Usable, Refusal, Live, PackTyped
<1>2. \A d \in PackChan : Failed(d, "REFUSED", "ON_ERROR").state = "ON_ERROR"
  BY DEF Failed, PackChan
<1>3. PICK w : Leaves(h, w) /\ w.chan.state = "ON_ERROR"
  <2>1. CASE Leaves(h, Begun(Failed(c, "REFUSED", "ON_ERROR")))
    <3>1. Begun(Failed(c, "REFUSED", "ON_ERROR")).chan = Failed(c, "REFUSED", "ON_ERROR")
      BY DEF Begun
    <3> QED
      BY Zenon, <1>1, <1>2, <2>1, <3>1
  <2>2. CASE \E w \in Timed(c, t) : \E x \in RoomMade(w) : Leaves(h, On(x, Failed(x.chan, "REFUSED", "ON_ERROR")))
    <3>1. PICK w \in Timed(c, t) : \E x \in RoomMade(w) : Leaves(h, On(x, Failed(x.chan, "REFUSED", "ON_ERROR")))
      BY <2>2
    <3>2. PICK x \in RoomMade(w) : Leaves(h, On(x, Failed(x.chan, "REFUSED", "ON_ERROR")))
      BY <3>1
    <3> HIDE DEF c
    <3>3. x.chan \in PackChan
      <4>1. WorkTyped(c, w)
        BY <1>1, <3>1, WorkTimed
      <4> QED
        BY <1>1, <3>2, <4>1, WorkRoom DEF WorkTyped
    <3>4. On(x, Failed(x.chan, "REFUSED", "ON_ERROR")).chan = Failed(x.chan, "REFUSED", "ON_ERROR")
      BY DEF On
    <3> QED
      BY Zenon, <1>2, <3>2, <3>3, <3>4
  <2> QED
    BY Zenon, <1>1, <2>1, <2>2 DEF InjectRefused
<1> QED
  BY <1>3 DEF Leaves, PackTyped

LEMMA RowsStepTold ==
  ASSUME SessionTyped, RowsTold, ScriptCall \/ ScriptEnd
  PROVE  RowsTold'
<1>1. script \in Script /\ returned \in Nat /\ PackTyped /\ sent \in [ChannelIds -> Seq(Row)]
  BY DEF SessionTyped, ScriptTyped, ContainersTyped, PackTyped
<1>2. TotalRows \in Nat
  BY <1>1, RowsCounted
<1>3. CASE NoRowTold
  BY <1>3, SameRows DEF NoRowTold, RowsTold
<1>4. CASE \E h \in Handles, t \in Times, n \in Sensors, v \in Numbers : PhpInject(h, t, n, v)
  <2>1. PICK h \in Handles, t \in Times, n \in Sensors, v \in Numbers : PhpInject(h, t, n, v)
    BY <1>4
  <2>2. PICK r \in BOOLEAN : Tells(r) /\ Counted(r)
    BY <2>1 DEF PhpInject, InjectThrows
  <2>3. script'.silent = script.silent /\ script'.quiet = (script.quiet /\ ~r)
    BY <1>1, <2>2, ToldFields DEF Tells
  <2>4. TotalRows' = TotalRows + 1
    <3> DEFINE row == [time |-> t, sensor |-> n, value |-> v]
               id == chan[h].id
    <3>1. row \in Row
      BY DEF Row
    <3>2. id \in ChannelIds
      BY <1>1, <2>1 DEF PhpInject, Usable, Live, PackTyped
    <3>3. sent' = [sent EXCEPT ![id] = Append(@, row)]
      BY <2>1 DEF PhpInject, Inject
    <3> HIDE DEF row, id
    <3>4. PICK i \in ChannelIds : i = id
      BY <3>2
    <3> QED
      BY <1>1, <3>1, <3>3, <3>4, OneRowMore
  <2>5. ~script'.silent => returned' = IF r THEN returned ELSE returned + 1
    BY <2>2 DEF Counted
  <2>6. CASE r
    <3>1. ~script'.silent => returned <= TotalRows /\ returned' = returned
      BY <2>3, <2>5, <2>6 DEF RowsTold
    <3>2. ~script'.quiet
      BY <2>3, <2>6
    <3>3. returned <= TotalRows => returned <= TotalRows'
      BY <1>1, <1>2, <2>4
    <3> QED
      BY <3>1, <3>2, <3>3 DEF RowsTold
  <2>7. CASE ~r
    BY <1>1, <1>2, <2>3, <2>4, <2>5, <2>7 DEF RowsTold
  <2> QED
    BY <2>6, <2>7
<1>5. CASE \E h \in Handles, t \in Times, k \in Kinds : PhpInjectRefused(h, t, k)
  <2>1. PICK h \in Handles, t \in Times, k \in Kinds : PhpInjectRefused(h, t, k)
    BY <1>5
  <2>2. TotalRows' = TotalRows
    BY <2>1, SameRows DEF PhpInjectRefused, InjectRefused
  <2>3. PICK r \in BOOLEAN, s \in BOOLEAN :
          /\ r = (chan'[h].state = "ON_ERROR") /\ s = (k \in SilentKinds)
          /\ script' = [Told(script, r) EXCEPT !.silent = @ \/ s] /\ Counted(r)
    <3> DEFINE q == (chan'[h].state = "ON_ERROR")
               y == (k \in SilentKinds)
    <3>1. script' = [Told(script, q) EXCEPT !.silent = @ \/ y] /\ Counted(q)
      BY <2>1 DEF PhpInjectRefused, InjectThrows
    <3>2. q \in BOOLEAN /\ y \in BOOLEAN
      OBVIOUS
    <3> HIDE DEF q, y
    <3>3. \E r \in BOOLEAN, s \in BOOLEAN :
            /\ r = q /\ s = y
            /\ script' = [Told(script, r) EXCEPT !.silent = @ \/ s] /\ Counted(r)
      BY <3>1, <3>2
    <3> QED
      BY <3>3 DEF q, y
  <2>4. script'.silent = (script.silent \/ s) /\ script'.quiet = (script.quiet /\ ~r)
    <3> DEFINE q == Told(script, r)
               b == q.silent \/ s
    <3>1. q \in Script
      BY <1>1, ScriptFields
    <3>2. script' = [q EXCEPT !.silent = b]
      BY <2>3
    <3> HIDE DEF q, b
    <3>3. script'.silent = b /\ script'.quiet = q.quiet
      BY <3>1, <3>2 DEF Script
    <3> QED
      BY <1>1, <3>3, ToldFields DEF q, b
  <2>5. ~s => r
    BY <1>1, <2>1, <2>3, RefusedRowHeard
  <2>6. ~script'.silent => returned' = IF r THEN returned ELSE returned + 1
    BY <2>3 DEF Counted
  <2> QED
    BY <1>1, <1>2, <2>2, <2>4, <2>5, <2>6 DEF RowsTold
<1> QED
  BY <1>1, <1>3, <1>4, <1>5, OtherCallsTell

(***************************************************************************)
(* OticPackChannel::inject: while no row of a silent kind was refused, the *)
(* calls that returned are never more than the rows accepted, and exactly  *)
(* as many when nothing ever threw, through refusals, flushes and clears   *)
(* in any order and on any number of channels.                             *)
(***************************************************************************)
THEOREM InjectTellsEveryRow == SSpec => []RowsTold
<1>1. SInit => RowsTold
  <2>1. SInit => \A id \in ChannelIds : sent[id] = <<>>
    BY DEF SInit, PhpInit, PackInit
  <2> QED
    BY <2>1, NoRows DEF SInit, PhpInit, RowsTold
<1>2. SessionTyped /\ RowsTold /\ [SNext]_svars => RowsTold'
  <2> SUFFICES ASSUME SessionTyped, RowsTold, [SNext]_svars PROVE RowsTold'
    OBVIOUS
  <2>1. CASE WriteScript
    <3>1. CASE StreamLoses
      <4>1. UNCHANGED <<sent, returned>> /\ script'.silent = script.silent /\ script'.quiet = script.quiet
        BY <3>1 DEF StreamLoses, SessionTyped, ScriptTyped, Script
      <4> QED
        BY <4>1, SameRows DEF RowsTold
    <3> QED
      BY <2>1, <3>1, RowsStepTold DEF WriteScript
  <2>2. CASE NextScript
    <3>1. returned' = 0 /\ ~script'.quiet /\ sent' = sent
      BY <2>2 DEF NextScript, PackerGone, SessionTyped, ScriptTyped, Script
    <3>2. TotalRows' \in Nat
      BY <3>1, SameRows, RowsCounted DEF SessionTyped, ContainersTyped, PackTyped
    <3> QED
      BY <3>1, <3>2 DEF RowsTold
  <2>3. CASE ReadScript
    BY <2>3, ReadKinds, SameRows DEF ReadScript, phpvars, RowsTold
  <2>4. CASE UNCHANGED svars
    BY <2>4, SameRows DEF svars, cvars, phpvars, RowsTold
  <2> QED
    BY <2>1, <2>2, <2>3, <2>4 DEF SNext
<1> QED
  BY <1>1, <1>2, SessionAlways, PTL DEF SSpec

-----------------------------------------------------------------------------
(* Records in the file, and how frames add to them. *)

Held(block, r) == {j \in DOMAIN block : block[j].rec = r}

LEMMA PlaceIs ==
  ASSUME NEW f, NEW id
  PROVE  \A p : p \in Places(f, id) <=>
           \E i, j : i \in DOMAIN f /\ p = <<i, j>> /\ Carries(f[i], id) /\ j \in DOMAIN f[i].block
  BY DEF Places, Carries

LEMMA KeptIs ==
  ASSUME NEW f, NEW id, NEW r
  PROVE  \A p : p \in Kept(f, id, r) <=>
           \E i, j : i \in DOMAIN f /\ p = <<i, j>> /\ Carries(f[i], id) /\ j \in Held(f[i].block, r)
<1> SUFFICES ASSUME NEW p
             PROVE  p \in Kept(f, id, r) <=>
                      \E i, j : i \in DOMAIN f /\ p = <<i, j>> /\ Carries(f[i], id) /\ j \in Held(f[i].block, r)
  OBVIOUS
<1>1. p \in Kept(f, id, r) <=> p \in Places(f, id) /\ f[p[1]].block[p[2]].rec = r
  BY DEF Kept
<1>2. p \in Places(f, id) <=>
        \E i, j : i \in DOMAIN f /\ p = <<i, j>> /\ Carries(f[i], id) /\ j \in DOMAIN f[i].block
  BY PlaceIs
<1> QED
  BY <1>1, <1>2 DEF Held

(* The frames of two files one behind the other. *)
LEMMA FramesBehind ==
  ASSUME NEW f \in Seq(Frame), NEW x \in Seq(Frame)
  PROVE  /\ f \o x \in Seq(Frame)
         /\ \A i \in DOMAIN f : i \in DOMAIN (f \o x) /\ (f \o x)[i] = f[i]
         /\ \A k \in DOMAIN x : Len(f) + k \in DOMAIN (f \o x) /\ (f \o x)[Len(f) + k] = x[k]
         /\ \A i \in DOMAIN (f \o x) : i \in DOMAIN f \/ \E k \in DOMAIN x : i = Len(f) + k
<1>1. \A i \in DOMAIN (f \o x) : i \notin DOMAIN f => i - Len(f) \in DOMAIN x /\ i = Len(f) + (i - Len(f))
  OBVIOUS
<1> QED
  BY <1>1

(* Frames of other channels leave a channel's records as they are. *)
LEMMA OtherFrames ==
  ASSUME NEW f \in Seq(Frame), NEW x \in Seq(Frame), NEW id,
         \A k \in DOMAIN x : ~Carries(x[k], id)
  PROVE  /\ Places(f \o x, id) = Places(f, id)
         /\ \A r : Kept(f \o x, id, r) = Kept(f, id, r)
<1> DEFINE y == f \o x
<1>1. /\ \A i \in DOMAIN f : i \in DOMAIN y /\ y[i] = f[i]
      /\ \A k \in DOMAIN x : Len(f) + k \in DOMAIN y /\ y[Len(f) + k] = x[k]
      /\ \A i \in DOMAIN y : i \in DOMAIN f \/ \E k \in DOMAIN x : i = Len(f) + k
  BY FramesBehind
<1> HIDE DEF y
<1>2. \A i : i \in DOMAIN y /\ Carries(y[i], id) <=> i \in DOMAIN f /\ Carries(f[i], id)
  BY <1>1
<1>3. \A p : p \in Places(y, id) <=> p \in Places(f, id)
  BY <1>1, <1>2, PlaceIs
<1>4. ASSUME NEW r PROVE Kept(y, id, r) = Kept(f, id, r)
  <2>1. \A p : p \in Kept(y, id, r) <=> p \in Kept(f, id, r)
    BY <1>1, <1>2, KeptIs
  <2> QED
    BY <2>1
<1>5. Places(y, id) = Places(f, id)
  BY <1>3
<1> QED
  BY <1>4, <1>5 DEF y

(* One frame of the channel adds the records of its block. *)
LEMMA OwnFrame ==
  ASSUME NEW f \in Seq(Frame), NEW x \in Seq(Frame), NEW id, NEW k \in DOMAIN x,
         Carries(x[k], id), \A i \in DOMAIN x : Carries(x[i], id) => i = k
  PROVE  /\ Places(f \o x, id) = Places(f, id) \cup {<<Len(f) + k, j>> : j \in DOMAIN x[k].block}
         /\ \A r : Kept(f \o x, id, r) =
                     Kept(f, id, r) \cup {<<Len(f) + k, j>> : j \in Held(x[k].block, r)}
<1> DEFINE y == f \o x
           m == Len(f) + k
<1>1. /\ \A i \in DOMAIN f : i \in DOMAIN y /\ y[i] = f[i]
      /\ \A i \in DOMAIN x : Len(f) + i \in DOMAIN y /\ y[Len(f) + i] = x[i]
      /\ \A i \in DOMAIN y : i \in DOMAIN f \/ \E n \in DOMAIN x : i = Len(f) + n
  BY FramesBehind
<1>2. m \in DOMAIN y /\ y[m] = x[k]
  BY <1>1
<1>3. \A i \in DOMAIN y : i \in DOMAIN f \/ i = m \/ ~Carries(y[i], id)
  BY <1>1
<1> HIDE DEF y, m
<1>4. \A p : p \in Places(y, id) <=> p \in Places(f, id) \cup {<<m, j>> : j \in DOMAIN x[k].block}
  <2> SUFFICES ASSUME NEW p
               PROVE  p \in Places(y, id) <=>
                        p \in Places(f, id) \/ \E j \in DOMAIN x[k].block : p = <<m, j>>
    OBVIOUS
  <2> QED
    BY <1>1, <1>2, <1>3, PlaceIs
<1>5. ASSUME NEW r, NEW p
      PROVE  p \in Kept(y, id, r) <=> p \in Kept(f, id, r) \cup {<<m, j>> : j \in Held(x[k].block, r)}
  <2> SUFFICES p \in Kept(y, id, r) <=>
                 p \in Kept(f, id, r) \/ \E j \in Held(x[k].block, r) : p = <<m, j>>
    OBVIOUS
  <2>1. \A g : p \in Kept(g, id, r) <=>
                \E i, j : i \in DOMAIN g /\ p = <<i, j>> /\ Carries(g[i], id) /\ j \in Held(g[i].block, r)
    BY KeptIs
  <2> QED
    BY <1>1, <1>2, <1>3, <2>1
<1>6. Places(y, id) = Places(f, id) \cup {<<m, j>> : j \in DOMAIN x[k].block}
  BY <1>4
<1>7. \A r : Kept(y, id, r) = Kept(f, id, r) \cup {<<m, j>> : j \in Held(x[k].block, r)}
  BY <1>5
<1> QED
  BY <1>6, <1>7 DEF y, m

LEMMA HeldFinite ==
  ASSUME NEW b \in Seq(Record), NEW r
  PROVE  IsFiniteSet(Held(b, r)) /\ Cardinality(Held(b, r)) \in Nat /\ Held(b, r) \subseteq 1 .. Len(b)
<1>1. Held(b, r) \in SUBSET (1 .. Len(b))
  BY DEF Held
<1>2. Len(b) \in Nat /\ IsFiniteSet(1 .. Len(b))
  BY FS_Interval
<1> QED
  BY <1>1, <1>2, FS_Subset, FS_CardinalityType

LEMMA KeptFinite ==
  ASSUME NEW f \in Seq(Frame), NEW id, NEW r
  PROVE  IsFiniteSet(Kept(f, id, r)) /\ Cardinality(Kept(f, id, r)) \in Nat
<1> DEFINE F == {i \in DOMAIN f : f[i].meta = "DATA" /\ f[i].id = id}
           G == {{i} \X DOMAIN f[i].block : i \in F}
<1>1. IsFiniteSet(F)
  <2>1. F \in SUBSET (1 .. Len(f)) /\ Len(f) \in Nat
    OBVIOUS
  <2>2. IsFiniteSet(1 .. Len(f))
    BY <2>1, FS_Interval
  <2> QED
    BY <2>1, <2>2, FS_Subset
<1>2. \A T \in G : IsFiniteSet(T)
  <2> SUFFICES ASSUME NEW i \in F PROVE IsFiniteSet({i} \X DOMAIN f[i].block)
    OBVIOUS
  <2>1. f[i].block \in Seq(Record)
    <3>1. f[i] \in Frame /\ f[i].meta = "DATA"
      OBVIOUS
    <3> QED
      BY <3>1 DEF Frame, Broken, Untagged
  <2>2. IsFiniteSet(DOMAIN f[i].block)
    <3>1. DOMAIN f[i].block = 1 .. Len(f[i].block) /\ Len(f[i].block) \in Nat
      BY <2>1
    <3> QED
      BY <3>1, FS_Interval
  <2> QED
    BY <2>2, FS_Singleton, FS_Product
<1>3. IsFiniteSet(G)
  <2> DEFINE g == [i \in F |-> {i} \X DOMAIN f[i].block]
  <2>1. g \in Surjection(F, G)
    <3>1. \A T \in G : \E i \in F : g[i] = T
      OBVIOUS
    <3>2. g \in [F -> G]
      OBVIOUS
    <3> HIDE DEF g, F, G
    <3> QED
      BY <3>1, <3>2 DEF Surjection
  <2> HIDE DEF F, G
  <2> QED
    BY <1>1, <2>1, FS_Surjection
<1>4. Kept(f, id, r) \in SUBSET UNION G
  BY DEF Kept, Places
<1> HIDE DEF G
<1>5. IsFiniteSet(UNION G)
  BY <1>2, <1>3, FS_UNION
<1> QED
  BY <1>4, <1>5, FS_Subset, FS_CardinalityType

(* The records of a block, counted where the file has them. *)
LEMMA KeptGrows ==
  ASSUME NEW f \in Seq(Frame), NEW id, NEW r, NEW b \in Seq(Record), NEW k \in Nat \ {0}
  PROVE  LET added == {<<Len(f) + k, j>> : j \in Held(b, r)}
         IN  Cardinality(Kept(f, id, r) \cup added)
               = Cardinality(Kept(f, id, r)) + Cardinality(Held(b, r))
<1> DEFINE m == Len(f) + k
           added == {<<m, j>> : j \in Held(b, r)}
<1>1. IsFiniteSet(added) /\ Cardinality(added) = Cardinality(Held(b, r))
  <2> DEFINE g == [j \in Held(b, r) |-> <<m, j>>]
  <2>1. g \in Bijection(Held(b, r), added)
    <3>1. g \in [Held(b, r) -> added]
      OBVIOUS
    <3>2. \A i, j \in Held(b, r) : g[i] = g[j] => i = j
      OBVIOUS
    <3>3. \A p \in added : \E j \in Held(b, r) : g[j] = p
      OBVIOUS
    <3> HIDE DEF g, added
    <3> QED
      BY <3>1, <3>2, <3>3 DEF Bijection, Injection, Surjection, IsInjective
  <2>2. ExistsBijection(Held(b, r), added)
    BY <2>1 DEF ExistsBijection
  <2> HIDE DEF added
  <2> QED
    BY <2>2, HeldFinite, FS_Bijection
<1>2. Kept(f, id, r) \cap added = {}
  <2> SUFFICES ASSUME NEW p \in Kept(f, id, r), p \in added PROVE FALSE
    OBVIOUS
  <2>1. PICK i \in DOMAIN f : \E j : p = <<i, j>>
    BY KeptIs
  <2>2. i <= Len(f) /\ i # m /\ i = m
    BY <2>1
  <2> QED
    BY <2>2
<1> DEFINE K == Kept(f, id, r)
           H == Held(b, r)
<1>3. IsFiniteSet(K) /\ Cardinality(K) \in Nat /\ Cardinality(H) \in Nat
  BY KeptFinite, HeldFinite
<1> HIDE DEF added, K, H
<1>4. Cardinality(K \cup added) = Cardinality(K) + Cardinality(added) - Cardinality(K \cap added)
  BY <1>1, <1>3, FS_Union
<1>5. Cardinality(K \cap added) = 0
  BY <1>2, FS_EmptySet DEF K
<1>6. Cardinality(K \cup added) = Cardinality(K) + Cardinality(H)
  BY <1>1, <1>3, <1>4, <1>5 DEF H
<1> QED
  BY <1>6 DEF K, H, added

(* One more record at the end of a block. *)
LEMMA HeldGrows ==
  ASSUME NEW b \in Seq(Record), NEW e \in Record, NEW r
  PROVE  /\ Append(b, e) \in Seq(Record)
         /\ Held(Append(b, e), r) = Held(b, r) \cup (IF e.rec = r THEN {Len(b) + 1} ELSE {})
         /\ Cardinality(Held(Append(b, e), r)) = Cardinality(Held(b, r)) + (IF e.rec = r THEN 1 ELSE 0)
<1>1. Append(b, e) \in Seq(Record)
  OBVIOUS
<1>2. Held(Append(b, e), r) = Held(b, r) \cup (IF e.rec = r THEN {Len(b) + 1} ELSE {})
  <2>1. \A j : j \in DOMAIN Append(b, e) <=> j \in DOMAIN b \/ j = Len(b) + 1
    OBVIOUS
  <2>2. Append(b, e)[Len(b) + 1] = e /\ \A j \in DOMAIN b : Append(b, e)[j] = b[j] /\ j # Len(b) + 1
    OBVIOUS
  <2> QED
    BY <2>1, <2>2 DEF Held
<1> DEFINE H == Held(b, r)
           n == Len(b) + 1
<1>3. IsFiniteSet(H) /\ Cardinality(H) \in Nat /\ n \notin H
  BY HeldFinite
<1>4. Held(Append(b, e), r) = IF e.rec = r THEN H \cup {n} ELSE H
  BY <1>2
<1> HIDE DEF H, n
<1>5. Cardinality(Held(Append(b, e), r)) = Cardinality(H) + (IF e.rec = r THEN 1 ELSE 0)
  <2>1. Cardinality(H \cup {n}) = Cardinality(H) + 1
    BY <1>3, FS_AddElement
  <2> QED
    BY <1>3, <1>4, <2>1
<1> QED
  BY <1>1, <1>2, <1>5 DEF H

-----------------------------------------------------------------------------
(* What a channel has in the file and in its bucket. *)

(***************************************************************************)
(* The bucket has the rows the file has not, and no EOF record is written  *)
(* before the channel is closed.  A frame of OticPack::flush ends this.    *)
(***************************************************************************)
Unfinished(frames, c, rows) ==
  /\ Cardinality(Kept(frames, c.id, "ROW")) + Cardinality(Held(c.bucket, "ROW")) = rows
  /\ Kept(frames, c.id, "EOF") = {} /\ Held(c.bucket, "EOF") = {}

ChanWhole(frames, c, rows) ==
  MetaFrame("PAYLOAD", c.id) \notin Range(frames) =>
    /\ c.use = "live" => Unfinished(frames, c, rows)
    /\ c.use = "closed" => Finished(frames, c.id, rows)

LEMMA PayloadStays ==
  ASSUME NEW f \in Seq(Frame), NEW x \in Seq(Frame)
  PROVE  /\ \A y \in Range(f) : y \in Range(f \o x)
         /\ \A k \in DOMAIN x : x[k] \in Range(f \o x)
<1> DEFINE z == f \o x
<1>1. /\ \A i \in DOMAIN f : i \in DOMAIN z /\ z[i] = f[i]
      /\ \A k \in DOMAIN x : Len(f) + k \in DOMAIN z /\ z[Len(f) + k] = x[k]
  BY FramesBehind
<1> HIDE DEF z
<1>2. /\ \A y \in Range(f) : y \in Range(z)
      /\ \A k \in DOMAIN x : x[k] \in Range(z)
  BY <1>1 DEF Range
<1> QED
  BY <1>2 DEF z

LEMMA OtherWhole ==
  ASSUME NEW f \in Seq(Frame), NEW x \in Seq(Frame), NEW c, NEW rows, ChanWhole(f, c, rows),
         \A k \in DOMAIN x : ~Carries(x[k], c.id)
  PROVE  ChanWhole(f \o x, c, rows)
<1> DEFINE y == f \o x
<1>1. /\ Places(y, c.id) = Places(f, c.id)
      /\ \A r : Kept(y, c.id, r) = Kept(f, c.id, r)
  <2> DEFINE id == c.id
  <2>1. \A k \in DOMAIN x : ~Carries(x[k], id)
    BY Zenon
  <2> HIDE DEF id
  <2>2. Places(y, id) = Places(f, id) /\ \A r : Kept(y, id, r) = Kept(f, id, r)
    BY <2>1, OtherFrames
  <2> QED
    BY Zenon, <2>2 DEF id
<1>2. MetaFrame("PAYLOAD", c.id) \notin Range(y) => MetaFrame("PAYLOAD", c.id) \notin Range(f)
  BY PayloadStays
<1> HIDE DEF y
<1>3. Unfinished(f, c, rows) => Unfinished(y, c, rows)
  BY <1>1 DEF Unfinished
<1>4. Finished(f, c.id, rows) => Finished(y, c.id, rows)
  BY <1>1 DEF Finished
<1> QED
  BY <1>2, <1>3, <1>4 DEF ChanWhole, y

(* A record in the bucket. *)
LEMMA BucketWhole ==
  ASSUME NEW f \in Seq(Frame), NEW c \in PackChan, NEW d \in PackChan, NEW rows \in Nat,
         NEW e \in Record, e.rec # "EOF", ChanWhole(f, c, rows), c.use = "live", d.use = "live",
         d.id = c.id, d.bucket = Append(c.bucket, e)
  PROVE  ChanWhole(f, d, IF e.rec = "ROW" THEN rows + 1 ELSE rows)
<1> DEFINE K == Cardinality(Kept(f, c.id, "ROW"))
           B == Cardinality(Held(c.bucket, "ROW"))
<1>1. c.bucket \in Seq(Record)
  BY ChanFields
<1>2. K \in Nat /\ B \in Nat
  BY <1>1, KeptFinite, HeldFinite
<1>3. Cardinality(Held(d.bucket, "ROW")) = B + (IF e.rec = "ROW" THEN 1 ELSE 0)
  BY <1>1, HeldGrows
<1>4. Held(d.bucket, "EOF") = Held(c.bucket, "EOF")
  <2>1. Held(d.bucket, "EOF")
          = Held(c.bucket, "EOF") \cup (IF e.rec = "EOF" THEN {Len(c.bucket) + 1} ELSE {})
    BY <1>1, HeldGrows
  <2> QED
    BY <2>1
<1>5. CASE MetaFrame("PAYLOAD", c.id) \notin Range(f)
  <2>1. K + B = rows /\ Kept(f, c.id, "EOF") = {} /\ Held(c.bucket, "EOF") = {}
    BY <1>5 DEF ChanWhole, Unfinished
  <2> HIDE DEF K, B
  <2>2. K + Cardinality(Held(d.bucket, "ROW")) = IF e.rec = "ROW" THEN rows + 1 ELSE rows
    BY <1>2, <1>3, <2>1
  <2> QED
    BY <1>4, <2>1, <2>2 DEF ChanWhole, Unfinished, K
<1>6. CASE MetaFrame("PAYLOAD", c.id) \in Range(f)
  BY <1>6 DEF ChanWhole
<1> QED
  BY <1>5, <1>6

(* The frame a channel's bucket goes into. *)
OwnAt(x, k, id, b) ==
  /\ k \in DOMAIN x /\ b \in Seq(Record) /\ x[k] = DataFrame(id, b)
  /\ \A i \in DOMAIN x : Carries(x[i], id) => i = k

LEMMA OwnWhole ==
  ASSUME NEW f \in Seq(Frame), NEW x \in Seq(Frame), NEW id, NEW k, NEW b, OwnAt(x, k, id, b)
  PROVE  /\ Places(f \o x, id) = Places(f, id) \cup {<<Len(f) + k, j>> : j \in DOMAIN b}
         /\ Kept(f \o x, id, "EOF") =
              Kept(f, id, "EOF") \cup {<<Len(f) + k, j>> : j \in Held(b, "EOF")}
         /\ Cardinality(Kept(f \o x, id, "ROW")) =
              Cardinality(Kept(f, id, "ROW")) + Cardinality(Held(b, "ROW"))
<1>1. Carries(x[k], id) /\ x[k].block = b /\ k \in Nat \ {0}
  BY DEF OwnAt, Carries, DataFrame
<1>2. /\ Places(f \o x, id) = Places(f, id) \cup {<<Len(f) + k, j>> : j \in DOMAIN b}
      /\ \A r : Kept(f \o x, id, r) = Kept(f, id, r) \cup {<<Len(f) + k, j>> : j \in Held(b, r)}
  BY <1>1, OwnFrame DEF OwnAt
<1>3. Cardinality(Kept(f, id, "ROW") \cup {<<Len(f) + k, j>> : j \in Held(b, "ROW")})
        = Cardinality(Kept(f, id, "ROW")) + Cardinality(Held(b, "ROW"))
  BY <1>1, KeptGrows DEF OwnAt
<1> QED
  BY <1>2, <1>3

(* A flush: the rows of the bucket are in the file. *)
LEMMA FlushWhole ==
  ASSUME NEW f \in Seq(Frame), NEW c \in PackChan, c.id \in ChannelIds, NEW rows \in Nat,
         ChanWhole(f, c, rows), c.use = "live", NEW d, d.use = "live", d.id = c.id, d.bucket = <<>>
  PROVE  ChanWhole(f \o <<DataFrame(c.id, c.bucket)>>, d, rows)
<1> DEFINE x == <<DataFrame(c.id, c.bucket)>>
           y == f \o x
<1>1. x \in Seq(Frame) /\ DOMAIN x = {1} /\ x[1] = DataFrame(c.id, c.bucket) /\ c.bucket \in Seq(Record)
  BY ChanFields, FrameFacts
<1> HIDE DEF x
<1>2. /\ Kept(y, c.id, "EOF") = Kept(f, c.id, "EOF") \cup {<<Len(f) + 1, j>> : j \in Held(c.bucket, "EOF")}
      /\ Cardinality(Kept(y, c.id, "ROW")) =
           Cardinality(Kept(f, c.id, "ROW")) + Cardinality(Held(c.bucket, "ROW"))
  <2>1. OwnAt(x, 1, c.id, c.bucket)
    BY <1>1 DEF OwnAt
  <2> QED
    BY <1>1, <2>1, OwnWhole
<1>3. MetaFrame("PAYLOAD", c.id) \notin Range(y) => MetaFrame("PAYLOAD", c.id) \notin Range(f)
  BY <1>1, PayloadStays
<1>4. Held(<<>>, "EOF") = {} /\ Held(<<>>, "ROW") = {} /\ Cardinality({}) = 0
  BY FS_EmptySet DEF Held
<1> HIDE DEF y
<1>5. CASE MetaFrame("PAYLOAD", c.id) \notin Range(f)
  <2>1. Unfinished(f, c, rows)
    BY <1>5 DEF ChanWhole
  <2>2. Kept(y, c.id, "EOF") = {} /\ Cardinality(Kept(y, c.id, "ROW")) = rows
    BY <1>2, <2>1 DEF Unfinished
  <2>3. Cardinality(Held(d.bucket, "ROW")) = 0 /\ Held(d.bucket, "EOF") = {}
    BY <1>4
  <2>4. Unfinished(y, d, rows)
    BY <2>2, <2>3 DEF Unfinished
  <2> QED
    BY <2>4 DEF ChanWhole, x, y
<1>6. CASE MetaFrame("PAYLOAD", c.id) \in Range(f)
  BY <1>3, <1>6 DEF ChanWhole, x, y
<1> QED
  BY <1>5, <1>6

(* A close: the bucket and behind it the EOF record. *)
LEMMA CloseWhole ==
  ASSUME NEW f \in Seq(Frame), NEW x \in Seq(Frame), NEW c \in PackChan, NEW rows \in Nat,
         ChanWhole(f, c, rows), c.use = "live", NEW d, d.use = "closed", d.id = c.id,
         NEW k \in DOMAIN x, x[k] = DataFrame(c.id, Ended(c).bucket),
         \A i \in DOMAIN x : Carries(x[i], c.id) => i = k
  PROVE  ChanWhole(f \o x, d, rows)
<1> DEFINE b == Append(c.bucket, EofRecord(c.rowCounter))
           y == f \o x
           m == Len(f) + k
           n == Len(c.bucket) + 1
           id == c.id
           e == EofRecord(c.rowCounter)
<1>1. c.bucket \in Seq(Record) /\ e \in Record /\ e.rec = "EOF" /\ Ended(c).bucket = b
  BY ChanFields, RecordFacts, EndedTyped DEF EofRecord
<1>2. /\ b \in Seq(Record) /\ DOMAIN b = 1 .. n /\ n \in DOMAIN b
      /\ Held(b, "EOF") = Held(c.bucket, "EOF") \cup {n}
      /\ Cardinality(Held(b, "ROW")) = Cardinality(Held(c.bucket, "ROW"))
  <2>1. /\ b \in Seq(Record)
        /\ Held(b, "EOF") = Held(c.bucket, "EOF") \cup {n}
        /\ Cardinality(Held(b, "ROW")) = Cardinality(Held(c.bucket, "ROW")) + 0
    <3> HIDE DEF e
    <3>1. "EOF" # "ROW"
      OBVIOUS
    <3> QED
      BY <1>1, <3>1, HeldGrows DEF e
  <2>2. Cardinality(Held(c.bucket, "ROW")) \in Nat
    BY <1>1, HeldFinite
  <2>3. DOMAIN b = 1 .. n /\ n \in DOMAIN b
    BY <1>1
  <2> QED
    BY <2>1, <2>2, <2>3
<1> HIDE DEF b, e
<1>3. /\ Places(y, id) = Places(f, id) \cup {<<m, j>> : j \in DOMAIN b}
      /\ Kept(y, id, "EOF") = Kept(f, id, "EOF") \cup {<<m, j>> : j \in Held(b, "EOF")}
      /\ Cardinality(Kept(y, id, "ROW")) = Cardinality(Kept(f, id, "ROW")) + Cardinality(Held(b, "ROW"))
  <2>1. OwnAt(x, k, id, b)
    BY <1>1, <1>2 DEF OwnAt
  <2> QED
    BY <2>1, OwnWhole
<1>4. MetaFrame("PAYLOAD", id) \notin Range(y) => MetaFrame("PAYLOAD", id) \notin Range(f)
  BY PayloadStays
<1>5. \A p \in Places(f, id) : p[1] < m
  <2> SUFFICES ASSUME NEW p \in Places(f, id) PROVE p[1] < m
    OBVIOUS
  <2>1. PICK i \in DOMAIN f : \E j : p = <<i, j>>
    BY PlaceIs
  <2> QED
    BY <2>1
<1> HIDE DEF y, m, n, id
<1>6. CASE MetaFrame("PAYLOAD", id) \notin Range(f)
  <2>1. Unfinished(f, c, rows)
    BY <1>6 DEF ChanWhole, id
  <2>2. Cardinality(Kept(y, id, "ROW")) = rows
    BY <1>2, <1>3, <2>1 DEF Unfinished, id
  <2>3. Kept(y, id, "EOF") = {<<m, n>>}
    BY <1>2, <1>3, <2>1 DEF Unfinished, id
  <2>4. <<m, n>> \in Places(y, id)
    BY <1>2, <1>3
  <2>5. \A q \in Places(y, id) : AtOrBefore(q, <<m, n>>)
    <3> SUFFICES ASSUME NEW q \in Places(y, id) PROVE AtOrBefore(q, <<m, n>>)
      OBVIOUS
    <3>1. CASE q \in Places(f, id)
      BY <1>5, <3>1 DEF AtOrBefore
    <3>2. CASE \E j \in DOMAIN b : q = <<m, j>>
      <4>1. PICK j \in 1 .. n : q = <<m, j>>
        BY <1>2, <3>2
      <4>2. j <= n
        BY <1>1, <4>1 DEF n
      <4> QED
        BY <4>1, <4>2 DEF AtOrBefore
    <3> QED
      BY <1>3, <3>1, <3>2
  <2>6. Finished(y, id, rows)
    BY <2>2, <2>3, <2>4, <2>5 DEF Finished
  <2> QED
    BY <2>6 DEF ChanWhole, y, id
<1>7. CASE MetaFrame("PAYLOAD", id) \in Range(f)
  BY <1>4, <1>7 DEF ChanWhole, y, id
<1> QED
  BY <1>6, <1>7

LEMMA AsWhole ==
  ASSUME NEW f, NEW c, NEW d, NEW rows, ChanWhole(f, c, rows),
         d.use = c.use, d.id = c.id, d.bucket = c.bucket
  PROVE  ChanWhole(f, d, rows)
  BY DEF ChanWhole, Unfinished

LEMMA StampWhole ==
  ASSUME NEW f \in Seq(Frame), NEW c \in PackChan, NEW rows \in Nat, NEW t \in Times,
         ChanWhole(f, c, rows), c.use = "live"
  PROVE  ChanWhole(f, Stamped(c, t), rows)
<1>1. CASE c.ts = t
  BY <1>1, StampedTyped
<1>2. CASE c.ts # t
  <2> DEFINE e == TimeRecord(t)
             b == Append(c.bucket, e)
             d == [c EXCEPT !.ts = t, !.bucket = b]
  <2>1. Stamped(c, t) = d /\ Stamped(c, t) \in PackChan
    <3>1. Stamped(c, t) \in PackChan /\ Stamped(c, t) = Restamped(c, t)
      BY Zenon, <1>2, StampedTyped
    <3> QED
      BY Zenon, <3>1 DEF Restamped
  <2>2. e \in Record /\ e.rec = "TIME"
    BY RecordFacts DEF TimeRecord
  <2> HIDE DEF e
  <2>3. d.use = "live" /\ d.id = c.id /\ d.bucket = b
    <3> HIDE DEF b
    <3> QED
      BY DEF PackChan
  <2> HIDE DEF d
  <2> QED
    BY <2>1, <2>2, <2>3, BucketWhole
<1> QED
  BY <1>1, <1>2

LEMMA NameWhole ==
  ASSUME NEW f \in Seq(Frame), NEW c \in PackChan, NEW rows \in Nat, NEW n \in Sensors,
         ChanWhole(f, c, rows), c.use = "live"
  PROVE  /\ ChanWhole(f, Named(c, n), rows) /\ Named(c, n).use = "live" /\ Named(c, n).id = c.id
         /\ Named(c, n) \in PackChan
<1>1. CASE Contains(c.names, n)
  BY <1>1, NamedTyped
<1>2. CASE ~Contains(c.names, n)
  <2> DEFINE e == NameRecord(n)
             b == Append(c.bucket, e)
             s == Append(c.names, n)
             d == [c EXCEPT !.names = s, !.bucket = b]
  <2>1. Named(c, n) = d /\ Named(c, n) \in PackChan
    BY <1>2, NamedTyped
  <2>2. e \in Record /\ e.rec = "NAME"
    BY RecordFacts DEF NameRecord
  <2> HIDE DEF e
  <2>3. d.use = "live" /\ d.id = c.id /\ d.bucket = b
    <3> HIDE DEF b, s
    <3> QED
      BY DEF PackChan
  <2> HIDE DEF d
  <2> QED
    BY <2>1, <2>2, <2>3, BucketWhole
<1> QED
  BY <1>1, <1>2

LEMMA WriteWhole ==
  ASSUME NEW f \in Seq(Frame), NEW c \in PackChan, NEW rows \in Nat, NEW n, Contains(c.names, n),
         NEW v \in Numbers, ChanWhole(f, c, rows), c.use = "live"
  PROVE  /\ ChanWhole(f, Written(c, n, v), rows + 1)
         /\ Written(c, n, v).use = "live" /\ Written(c, n, v).id = c.id
         /\ Written(c, n, v) \in PackChan
<1> DEFINE e == RowRecord(IndexOf(c, n), v)
           b == Append(c.bucket, e)
           k == c.rowCounter + 1
           d == [c EXCEPT !.bucket = b, !.rowCounter = k]
<1>1. Written(c, n, v) = d /\ Written(c, n, v) \in PackChan
  BY WrittenTyped
<1>2. e \in Record /\ e.rec = "ROW"
  <2>1. IndexOf(c, n) \in Nat
    BY IndexFound
  <2> QED
    BY <2>1, RecordFacts DEF RowRecord
<1> HIDE DEF e
<1>3. d.use = "live" /\ d.id = c.id /\ d.bucket = b
  <2> HIDE DEF b, k
  <2> QED
    BY DEF PackChan
<1> HIDE DEF d
<1>4. ChanWhole(f, d, IF e.rec = "ROW" THEN rows + 1 ELSE rows)
  BY <1>1, <1>2, <1>3, BucketWhole
<1> QED
  BY <1>1, <1>2, <1>3, <1>4

(* An accepted row, behind its time. *)
LEMMA RowWhole ==
  ASSUME NEW f \in Seq(Frame), NEW c \in PackChan, NEW rows \in Nat,
         NEW n \in Sensors, NEW v \in Numbers, ChanWhole(f, c, rows), c.use = "live"
  PROVE  ChanWhole(f, Written(Named(c, n), n, v), rows + 1)
<1>1. PICK q \in PackChan : /\ q = Named(c, n) /\ ChanWhole(f, q, rows) /\ q.use = "live"
                            /\ Contains(q.names, n)
  <2>1. Named(c, n) \in PackChan /\ Contains(Named(c, n).names, n)
    BY NamedTyped
  <2>2. ChanWhole(f, Named(c, n), rows) /\ Named(c, n).use = "live"
    BY NameWhole
  <2> QED
    BY <2>1, <2>2
<1>2. ChanWhole(f, Written(q, n, v), rows + 1)
  BY <1>1, WriteWhole
<1> QED
  BY <1>1, <1>2

-----------------------------------------------------------------------------
(* A call at work on a channel. *)

(* The flusher of the bindings never fails. *)
LEMMA AlwaysOk == FlushResults = {"ok"} /\ "ok" \in FlushResults
  BY PhpAssumption

LEMMA FlushedOk ==
  ASSUME NEW c \in PackChan, c.id \in ChannelIds
  PROVE  /\ FlushedChannel(c, "ok") \in PackChan
         /\ FlushedChannel(c, "ok").use = c.use /\ FlushedChannel(c, "ok").id = c.id
         /\ FlushedChannel(c, "ok").bucket = <<>>
         /\ FlushedFrames(c, "ok") = <<DataFrame(c.id, c.bucket)>>
         /\ <<DataFrame(c.id, c.bucket)>> \in Seq(Frame)
<1>1. FlushedChannel(c, "ok") = [c EXCEPT !.bucket = <<>>] /\ <<>> \in Seq(Record)
  BY DEF FlushedChannel
<1>2. FlushedFrames(c, "ok") = <<DataFrame(c.id, c.bucket)>>
  BY DEF FlushedFrames
<1>3. <<DataFrame(c.id, c.bucket)>> \in Seq(Frame)
  BY ChanFields, FrameFacts
<1>4. /\ [c EXCEPT !.bucket = <<>>] \in PackChan
      /\ [c EXCEPT !.bucket = <<>>].use = c.use /\ [c EXCEPT !.bucket = <<>>].id = c.id
      /\ [c EXCEPT !.bucket = <<>>].bucket = <<>>
  BY <1>1 DEF PackChan
<1> QED
  BY <1>1, <1>2, <1>3, <1>4

(* The file and what the call has written so far, against the channel as it is by now. *)
WorkWhole(f, c, w, rows) ==
  /\ c \in PackChan /\ c.use = "live" /\ c.id \in ChannelIds
  /\ WorkTyped(c, w) /\ ChanWhole(f \o w.out, w.chan, rows)

LEMMA WholeBegins ==
  ASSUME NEW f \in Seq(Frame), NEW c \in PackChan, c.use = "live", c.id \in ChannelIds, NEW rows,
         ChanWhole(f, c, rows)
  PROVE  WorkWhole(f, c, Begun(c), rows)
<1>1. f \o <<>> = f
  OBVIOUS
<1>2. Begun(c).out = <<>> /\ Begun(c).chan = c
  BY DEF Begun
<1> QED
  BY Zenon, <1>1, <1>2, WorkBegins DEF WorkWhole

LEMMA WholeGoesOn ==
  ASSUME NEW f, NEW c, NEW w, NEW rows, WorkWhole(f, c, w, rows), NEW d, Grown(w.chan, d), NEW more,
         ChanWhole(f \o w.out, d, more)
  PROVE  WorkWhole(f, c, On(w, d), more)
<1>1. On(w, d).out = w.out /\ On(w, d).chan = d
  BY DEF On
<1> QED
  BY Zenon, <1>1, WorkGoesOn DEF WorkWhole

(* A flush of the bindings, which never fails. *)
LEMMA WholeFlushed ==
  ASSUME NEW f \in Seq(Frame), NEW c, NEW w, NEW rows \in Nat, WorkWhole(f, c, w, rows)
  PROVE  WorkWhole(f, c, Flushed(w, "ok"), rows)
<1> DEFINE d == FlushedChannel(w.chan, "ok")
           b == <<DataFrame(w.chan.id, w.chan.bucket)>>
           a == w.out
<1>1. w.chan \in PackChan /\ w.chan.id \in ChannelIds /\ w.chan.use = "live" /\ a \in Seq(Frame)
  BY DEF WorkWhole, WorkTyped
<1>2. /\ d.use = w.chan.use /\ d.id = w.chan.id /\ d.bucket = <<>>
      /\ FlushedFrames(w.chan, "ok") = b /\ b \in Seq(Frame)
  BY <1>1, FlushedOk
<1>3. Flushed(w, "ok").chan = d /\ Flushed(w, "ok").out = a \o b
  BY Zenon, <1>2 DEF Flushed
<1>4. WorkTyped(c, Flushed(w, "ok"))
  BY ContainerAssumption, WorkFlushed DEF WorkWhole
<1>5. ChanWhole((f \o a) \o b, d, rows)
  <2> DEFINE g == f \o a
  <2>1. g \in Seq(Frame) /\ ChanWhole(g, w.chan, rows)
    BY <1>1 DEF WorkWhole
  <2> HIDE DEF g, d, a
  <2> QED
    BY <1>1, <1>2, <2>1, FlushWhole DEF g
<1>6. (f \o a) \o b = f \o (a \o b)
  <2> HIDE DEF a, b
  <2> QED
    BY <1>1, <1>2
<1> HIDE DEF a, b, d
<1> QED
  BY Zenon, <1>3, <1>4, <1>5, <1>6 DEF WorkWhole

LEMMA WholeMaybeFlushed ==
  ASSUME NEW f \in Seq(Frame), NEW c, NEW w, NEW rows \in Nat, WorkWhole(f, c, w, rows),
         NEW z \in FlushedOrNot(w)
  PROVE  WorkWhole(f, c, z, rows)
  BY WholeFlushed, PhpAssumption DEF FlushedOrNot

LEMMA WholeRoom ==
  ASSUME NEW f \in Seq(Frame), NEW c, NEW w, NEW rows \in Nat, WorkWhole(f, c, w, rows),
         NEW x \in RoomMade(w)
  PROVE  WorkWhole(f, c, x, rows)
  BY WholeFlushed DEF RoomMade

LEMMA WholeTimed ==
  ASSUME NEW f \in Seq(Frame), NEW c \in PackChan, c.use = "live", c.id \in ChannelIds,
         NEW rows \in Nat, ChanWhole(f, c, rows), NEW t \in Times, NEW w \in Timed(c, t)
  PROVE  WorkWhole(f, c, w, rows)
<1>1. CASE c.ts = t
  BY <1>1, WholeBegins DEF Timed
<1>2. CASE c.ts # t
  <2> DEFINE s == Stamped(c, t)
  <2>1. Grown(c, s) /\ ChanWhole(f, s, rows)
    BY StampedGrows, StampWhole
  <2>2. w \in FlushedOrNot(Begun(s))
    BY <1>2 DEF Timed
  <2> HIDE DEF s
  <2>3. WorkWhole(f, c, On(Begun(c), s), rows)
    <3>1. Begun(c).chan = c /\ Begun(c).out = <<>> /\ f \o <<>> = f
      BY DEF Begun
    <3> QED
      BY <2>1, <3>1, WholeBegins, WholeGoesOn
  <2>4. On(Begun(c), s) = Begun(s)
    BY DEF On, Begun
  <2> QED
    BY <2>2, <2>3, <2>4, WholeMaybeFlushed
<1> QED
  BY <1>1, <1>2

(* A refused row leaves the bucket with the time at most. *)
LEMMA WholeFailed ==
  ASSUME NEW f, NEW c, NEW w, NEW rows, WorkWhole(f, c, w, rows), NEW state \in {"ON_ERROR", "CLOSED"}
  PROVE  WorkWhole(f, c, On(w, Failed(w.chan, "REFUSED", state)), rows)
<1> DEFINE d == Failed(w.chan, "REFUSED", state)
<1>1. w.chan \in PackChan /\ ChanWhole(f \o w.out, w.chan, rows)
  BY DEF WorkWhole, WorkTyped
<1>2. Grown(w.chan, d)
  BY <1>1, FailedTyped
<1>3. d.use = w.chan.use /\ d.id = w.chan.id /\ d.bucket = w.chan.bucket
  BY <1>1 DEF Failed, PackChan
<1> HIDE DEF d
<1>4. ChanWhole(f \o w.out, d, rows)
  BY Zenon, <1>1, <1>3, AsWhole
<1> QED
  BY Zenon, <1>2, <1>4, WholeGoesOn DEF d

-----------------------------------------------------------------------------
(* All channels. *)

(* An id belongs to one channel at most, and what no channel has is nowhere. *)
IdsOnce ==
  /\ \A h \in Handles : chan[h].use = "unused" => chan[h].id = 0
  /\ \A g, h \in Handles : chan[g].id = chan[h].id => g = h \/ chan[g].id = 0

Untouched ==
  \A id \in ChannelIds :
    (\A h \in Handles : chan[h].id # id) => sent[id] = <<>> /\ Places(file, id) = {}

EachWhole ==
  \A h \in Handles :
    chan[h].use # "unused" => ChanWhole(file, chan[h], Len(sent[chan[h].id]))

ChannelsWhole == IdsOnce /\ Untouched /\ EachWhole

(***************************************************************************)
(* A call that defines no channel, and writes records for channels only:   *)
(* what it did to each of them decides.                                    *)
(***************************************************************************)
LEMMA WholeKept ==
  ASSUME PackTyped, ChannelsWhole, NEW x \in Seq(Frame), file' = file \o x,
         \A h \in Handles : chan'[h].id = chan[h].id /\ (chan'[h].use = "unused" <=> chan[h].use = "unused"),
         \A k \in DOMAIN x : x[k].meta = "DATA" => \E h \in Handles : chan[h].id = x[k].id,
         \A id \in ChannelIds : (\A h \in Handles : chan[h].id # id) => sent'[id] = sent[id],
         \A h \in Handles :
           chan[h].use # "unused" => ChanWhole(file \o x, chan'[h], Len(sent'[chan[h].id]))
  PROVE  ChannelsWhole'
<1>1. IdsOnce'
  BY DEF ChannelsWhole, IdsOnce
<1>2. Untouched'
  <2> SUFFICES ASSUME NEW id \in ChannelIds, \A h \in Handles : chan[h].id # id
               PROVE  sent'[id] = <<>> /\ Places(file \o x, id) = {}
    BY DEF Untouched
  <2>1. sent[id] = <<>> /\ Places(file, id) = {}
    BY DEF ChannelsWhole, Untouched
  <2>2. \A k \in DOMAIN x : ~Carries(x[k], id)
    BY DEF Carries
  <2>3. Places(file \o x, id) = Places(file, id)
    BY <2>2, OtherFrames DEF PackTyped
  <2> QED
    BY <2>1, <2>3
<1>3. EachWhole'
  BY DEF EachWhole
<1> QED
  BY <1>1, <1>2, <1>3 DEF ChannelsWhole

(* A call on one channel, and the frames it writes. *)
LEMMA OneWhole ==
  ASSUME PackTyped, ChannelsWhole, NEW h \in Handles, chan[h].use # "unused", NEW d,
         d.id = chan[h].id, d.use # "unused", chan' = [chan EXCEPT ![h] = d],
         NEW x \in Seq(Frame), file' = file \o x,
         \A k \in DOMAIN x : x[k].meta = "DATA" => x[k].id = chan[h].id,
         \A id \in ChannelIds : id # chan[h].id => sent'[id] = sent[id],
         ChanWhole(file \o x, d, Len(sent'[chan[h].id]))
  PROVE  ChannelsWhole'
<1>1. chan'[h] = d /\ \A g \in Handles : g # h => chan'[g] = chan[g]
  BY DEF PackTyped
<1>2. \A g \in Handles : chan'[g].id = chan[g].id /\ (chan'[g].use = "unused" <=> chan[g].use = "unused")
  BY <1>1
<1>3. \A g \in Handles : chan[g].use # "unused" => chan[g].id \in ChannelIds /\ chan[g].id # 0
  BY DEF PackTyped, ChannelIds
<1>4. ASSUME NEW g \in Handles, g # h, chan[g].use # "unused"
      PROVE  ChanWhole(file \o x, chan'[g], Len(sent'[chan[g].id]))
  <2>1. chan[g].id # chan[h].id
    BY <1>3, <1>4 DEF ChannelsWhole, IdsOnce
  <2>2. \A k \in DOMAIN x : ~Carries(x[k], chan[g].id)
    BY <2>1 DEF Carries
  <2>3. sent'[chan[g].id] = sent[chan[g].id] /\ chan'[g] = chan[g]
    BY <1>1, <1>3, <1>4, <2>1
  <2>4. ChanWhole(file, chan[g], Len(sent[chan[g].id]))
    BY <1>4 DEF ChannelsWhole, EachWhole
  <2>5. ChanWhole(file \o x, chan[g], Len(sent[chan[g].id]))
    BY <2>2, <2>4, OtherWhole DEF PackTyped
  <2> QED
    BY <2>3, <2>5
<1>5. \A g \in Handles :
        chan[g].use # "unused" => ChanWhole(file \o x, chan'[g], Len(sent'[chan[g].id]))
  BY <1>1, <1>4
<1>6. \A k \in DOMAIN x : x[k].meta = "DATA" => \E g \in Handles : chan[g].id = x[k].id
  OBVIOUS
<1>7. \A id \in ChannelIds : (\A g \in Handles : chan[g].id # id) => sent'[id] = sent[id]
  OBVIOUS
<1> QED
  BY <1>2, <1>5, <1>6, <1>7, WholeKept

(* The call over. *)
LEMMA LeftWhole ==
  ASSUME PackTyped, ChannelsWhole, NEW h \in Handles, NEW w,
         WorkWhole(file, chan[h], w, Len(sent'[chan[h].id])), Leaves(h, w),
         \A id \in ChannelIds : id # chan[h].id => sent'[id] = sent[id]
  PROVE  ChannelsWhole'
<1> DEFINE d == w.chan
           x == w.out
<1>1. /\ chan[h].use = "live" /\ d.id = chan[h].id /\ d.use = "live" /\ x \in Seq(Frame)
      /\ \A k \in 1 .. Len(x) : x[k].id = chan[h].id
      /\ ChanWhole(file \o x, d, Len(sent'[chan[h].id]))
  BY DEF WorkWhole, WorkTyped
<1>2. chan' = [chan EXCEPT ![h] = d] /\ file' = file \o x
  BY DEF Leaves
<1> HIDE DEF d, x
<1>3. \A k \in DOMAIN x : x[k].id = chan[h].id
  BY <1>1
<1> QED
  BY Zenon, <1>1, <1>2, <1>3, OneWhole

LEMMA WorkingWhole ==
  ASSUME PackTyped, ChannelsWhole, NEW h \in Handles, Working(h)
  PROVE  ChannelsWhole'
<1> DEFINE c == chan[h]
           id == c.id
           m == Len(sent[id])
<1>1. c \in PackChan /\ c.use = "live" /\ id \in ChannelIds /\ sent[id] \in Seq(Row)
  BY WorkOf DEF Live, PackTyped
<1>2. m \in Nat /\ ChanWhole(file, c, m) /\ file \in Seq(Frame)
  BY <1>1 DEF ChannelsWhole, EachWhole, PackTyped
<1>3. ASSUME NEW t \in Times, NEW n \in Sensors, NEW v \in Numbers, Inject(h, t, n, v)
      PROVE  ChannelsWhole'
  <2>1. PICK w \in Timed(c, t) :
          \E x \in RoomMade(w) :
            \E z \in FlushedOrNot(On(x, Written(Named(x.chan, n), n, v))) : Leaves(h, z)
    BY Zenon, <1>3 DEF Inject
  <2>2. PICK x \in RoomMade(w) :
          \E z \in FlushedOrNot(On(x, Written(Named(x.chan, n), n, v))) : Leaves(h, z)
    BY Zenon, <2>1
  <2>3. PICK z \in FlushedOrNot(On(x, Written(Named(x.chan, n), n, v))) : Leaves(h, z)
    BY Zenon, <2>2
  <2>4. /\ Len(sent'[id]) = m + 1
        /\ \A i \in ChannelIds : i # id => sent'[i] = sent[i]
    <3> DEFINE row == [time |-> t, sensor |-> n, value |-> v]
    <3>1. row \in Row /\ sent' = [sent EXCEPT ![id] = Append(sent[id], row)]
      BY <1>3 DEF Inject, Row
    <3> HIDE DEF id, row
    <3>2. sent'[id] = Append(sent[id], row) /\ \A i \in ChannelIds : i # id => sent'[i] = sent[i]
      BY <1>1, <3>1 DEF PackTyped
    <3> QED
      BY <1>1, <3>1, <3>2
  <2> HIDE DEF c
  <2>5. WorkWhole(file, c, w, m)
    <3> HIDE DEF id, m
    <3>1. c.id \in ChannelIds
      BY <1>1 DEF id
    <3> QED
      BY Zenon, <1>1, <1>2, <2>1, <3>1, WholeTimed
  <2> HIDE DEF m
  <2>6. WorkWhole(file, c, x, m)
    BY Zenon, <1>2, <2>2, <2>5, WholeRoom
  <2>7. WorkWhole(file, c, On(x, Written(Named(x.chan, n), n, v)), m + 1)
    <3> DEFINE f == file \o x.out
               d == Written(Named(x.chan, n), n, v)
    <3>1. x.chan \in PackChan /\ x.chan.use = "live" /\ f \in Seq(Frame) /\ ChanWhole(f, x.chan, m)
      BY <1>2, <2>6 DEF WorkWhole, WorkTyped
    <3>2. Grown(x.chan, d)
      BY <3>1, RowTyped
    <3> HIDE DEF f
    <3>3. ChanWhole(f, d, m + 1)
      BY <1>2, <3>1, RowWhole
    <3> HIDE DEF d
    <3> QED
      BY Zenon, <2>6, <3>2, <3>3, WholeGoesOn DEF f, d
  <2>8. WorkWhole(file, c, z, m + 1)
    <3>1. m + 1 \in Nat
      BY <1>2
    <3> QED
      BY Zenon, <1>2, <2>3, <2>7, <3>1, WholeMaybeFlushed
  <2>9. WorkWhole(file, chan[h], z, Len(sent'[chan[h].id]))
        /\ \A i \in ChannelIds : i # chan[h].id => sent'[i] = sent[i]
    BY <2>4, <2>8 DEF c, id
  <2> QED
    BY Zenon, <2>3, <2>9, LeftWhole
<1>4. ASSUME sent' = sent, NEW w, Leaves(h, w), WorkWhole(file, c, w, m)
      PROVE  ChannelsWhole'
  BY Zenon, <1>4, LeftWhole
<1>5. ASSUME NEW t \in Times, NEW state \in {"ON_ERROR", "CLOSED"}, InjectRefused(h, t, state)
      PROVE  ChannelsWhole'
  <2>1. sent' = sent /\ FlushResults = {"ok"}
    BY <1>5, PhpAssumption DEF InjectRefused
  <2>2. CASE Leaves(h, Begun(Failed(c, "REFUSED", state)))
    <3>1. Begun(Failed(c, "REFUSED", state)) = On(Begun(c), Failed(Begun(c).chan, "REFUSED", state))
      BY DEF Begun, On
    <3>2. WorkWhole(file, c, Begun(c), m)
      BY Zenon, <1>1, <1>2, WholeBegins
    <3> HIDE DEF c, m
    <3>3. WorkWhole(file, c, Begun(Failed(c, "REFUSED", state)), m)
      BY <3>1, <3>2, WholeFailed
    <3> QED
      BY Zenon, <1>4, <2>1, <2>2, <3>3
  <2>3. CASE \E w \in Timed(c, t) : \E x \in RoomMade(w) : Leaves(h, On(x, Failed(x.chan, "REFUSED", state)))
    <3>1. PICK w \in Timed(c, t) : \E x \in RoomMade(w) : Leaves(h, On(x, Failed(x.chan, "REFUSED", state)))
      BY <2>3
    <3>2. PICK x \in RoomMade(w) : Leaves(h, On(x, Failed(x.chan, "REFUSED", state)))
      BY <3>1
    <3>3. WorkWhole(file, c, w, m)
      BY Zenon, <1>1, <1>2, <3>1, WholeTimed
    <3>4. WorkWhole(file, c, On(x, Failed(x.chan, "REFUSED", state)), m)
      BY Zenon, <1>2, <3>2, <3>3, WholeRoom, WholeFailed
    <3> QED
      BY Zenon, <1>4, <2>1, <3>2, <3>4
  <2> QED
    BY Zenon, <1>5, <2>1, <2>2, <2>3 DEF InjectRefused
<1>6. ASSUME ChannelFlush(h)
      PROVE  ChannelsWhole'
  <2>1. sent' = sent /\ Leaves(h, Flushed(Begun(c), "ok"))
    BY <1>6, PhpAssumption DEF ChannelFlush
  <2>2. WorkWhole(file, c, Flushed(Begun(c), "ok"), m)
    BY Zenon, <1>1, <1>2, WholeBegins, WholeFlushed
  <2> QED
    BY Zenon, <1>4, <2>1, <2>2
<1> QED
  BY <1>3, <1>5, <1>6 DEF Working

LEMMA ChannelCloseWhole ==
  ASSUME PackTyped, ChannelsWhole, NEW h \in Handles, ChannelClose(h)
  PROVE  ChannelsWhole'
<1> DEFINE c == chan[h]
           d == ChannelClosed(c, "ok")
           x == FlushedFrames(Ended(c), "ok")
<1>1. /\ c \in PackChan /\ c.use = "live" /\ c.id \in ChannelIds /\ sent' = sent
      /\ chan' = [chan EXCEPT ![h] = d] /\ file' = file \o x
  BY AlwaysOk DEF ChannelClose, Live, PackTyped
<1>2. d.use = "closed" /\ d.id = c.id
  BY <1>1, AlwaysOk, ChannelClosedTyped
<1>3. x = <<DataFrame(c.id, Ended(c).bucket)>> /\ x \in Seq(Frame)
  BY <1>1, EndedTyped, FlushedOk
<1>4. ChanWhole(file, c, Len(sent[c.id])) /\ Len(sent[c.id]) \in Nat
  <2>1. ChanWhole(file, c, Len(sent[c.id]))
    BY Zenon, <1>1 DEF ChannelsWhole, EachWhole
  <2>2. sent[c.id] \in Seq(Row)
    BY Zenon, <1>1 DEF PackTyped
  <2> QED
    BY <2>1, <2>2
<1>5. DOMAIN x = {1} /\ x[1] = DataFrame(c.id, Ended(c).bucket) /\ x[1].id = c.id
  BY <1>3 DEF DataFrame
<1> HIDE DEF d, x
<1>6. ChanWhole(file \o x, d, Len(sent[c.id]))
  BY <1>1, <1>2, <1>3, <1>4, <1>5, CloseWhole DEF PackTyped
<1>7. \A k \in DOMAIN x : x[k].id = chan[h].id
  BY <1>5
<1>8. x \in Seq(Frame) /\ d.id = chan[h].id /\ d.use # "unused" /\ chan[h].use # "unused"
  BY <1>1, <1>2, <1>3
<1>9. \A id \in ChannelIds : sent'[id] = sent[id]
  BY <1>1
<1> QED
  BY Zenon, <1>1, <1>6, <1>7, <1>8, <1>9, OneWhole

LEMMA DefineWhole ==
  ASSUME ~Reopen, PackInv, PackTyped, ChannelsWhole, NEW id \in Ids, DefineChannel(id)
  PROVE  ChannelsWhole'
<1> DEFINE n == pack.next
           e == NewChannel(id, "live")
           x == <<MetaFrame("DEFINE", id)>>
<1>1. /\ n \in Handles /\ id \in ChannelIds /\ id # 0 /\ (\A h \in Handles : chan[h].id # id)
      /\ chan' = [chan EXCEPT ![n] = e] /\ sent' = sent /\ file' = Append(file, MetaFrame("DEFINE", id))
  BY AlwaysOk DEF DefineChannel, ChannelIds
<1>2. x \in Seq(Frame) /\ file' = file \o x /\ DOMAIN x = {1} /\ x[1].meta = "DEFINE"
  <2>1. MetaFrame("DEFINE", id) \in Frame /\ MetaFrame("DEFINE", id).meta = "DEFINE"
    BY <1>1, FrameFacts DEF MetaFrame
  <2> DEFINE m == MetaFrame("DEFINE", id)
  <2> HIDE DEF m
  <2>2. file \in Seq(Frame) /\ m \in Frame
    BY <2>1 DEF PackTyped, m
  <2>3. Append(file, m) = file \o <<m>>
    BY <2>2
  <2> QED
    BY <1>1, <2>1, <2>3 DEF m
<1>3. chan[n].use = "unused" /\ chan[n].id = 0
  <2>1. n >= pack.next
    BY <1>1 DEF Handles
  <2> QED
    BY <1>1, <2>1 DEF PackInv, ChannelsWhole, IdsOnce
<1>4. /\ e.use = "live" /\ e.id = id /\ e.bucket = <<>>
      /\ chan'[n] = e /\ \A h \in Handles : h # n => chan'[h] = chan[h]
  BY <1>1 DEF NewChannel, PackTyped
<1> HIDE DEF e, x, n
<1>5. \A i : \A k \in DOMAIN x : ~Carries(x[k], i)
  BY <1>2 DEF Carries
<1>6. IdsOnce'
  BY <1>1, <1>4 DEF ChannelsWhole, IdsOnce
<1>7. Untouched'
  <2> SUFFICES ASSUME NEW i \in ChannelIds, \A h \in Handles : chan'[h].id # i
               PROVE  sent'[i] = <<>> /\ Places(file \o x, i) = {}
    BY <1>2 DEF Untouched
  <2>1. \A h \in Handles : chan[h].id # i
    BY <1>3, <1>4 DEF ChannelIds
  <2>2. Places(file \o x, i) = Places(file, i)
    BY <1>2, <1>5, OtherFrames DEF PackTyped
  <2> QED
    BY <1>1, <2>1, <2>2 DEF ChannelsWhole, Untouched
<1>8. EachWhole'
  <2> SUFFICES ASSUME NEW h \in Handles, chan'[h].use # "unused"
               PROVE  ChanWhole(file \o x, chan'[h], Len(sent[chan'[h].id]))
    BY <1>1, <1>2 DEF EachWhole
  <2>1. CASE h = n
    <3>1. sent[id] = <<>> /\ Places(file \o x, id) = {}
      <4>1. Places(file \o x, id) = Places(file, id)
        BY <1>2, <1>5, OtherFrames DEF PackTyped
      <4> QED
        BY <1>1, <4>1 DEF ChannelsWhole, Untouched
    <3>2. Kept(file \o x, id, "ROW") = {} /\ Kept(file \o x, id, "EOF") = {}
      BY <3>1 DEF Kept
    <3>3. Held(<<>>, "EOF") = {} /\ Held(<<>>, "ROW") = {} /\ Cardinality({}) = 0 /\ Len(<<>>) = 0
      BY FS_EmptySet DEF Held
    <3>4. Unfinished(file \o x, e, Len(sent[id]))
      <4>1. Len(sent[id]) = 0
        BY <3>1, <3>3
      <4>2. Cardinality(Kept(file \o x, id, "ROW")) = 0 /\ Cardinality(Held(<<>>, "ROW")) = 0
        BY <3>2, <3>3
      <4>3. Cardinality(Kept(file \o x, id, "ROW")) + Cardinality(Held(<<>>, "ROW")) = Len(sent[id])
        BY <4>1, <4>2
      <4> QED
        BY <1>4, <3>2, <3>3, <4>3 DEF Unfinished
    <3> QED
      BY <1>4, <2>1, <3>4 DEF ChanWhole
  <2>2. CASE h # n
    <3>1. chan'[h] = chan[h] /\ ChanWhole(file, chan[h], Len(sent[chan[h].id]))
      BY <1>4, <2>2 DEF ChannelsWhole, EachWhole
    <3> QED
      BY <1>2, <1>5, <3>1, OtherWhole DEF PackTyped
  <2> QED
    BY <2>1, <2>2
<1> QED
  BY <1>6, <1>7, <1>8 DEF ChannelsWhole

LEMMA CloseChannelWhole ==
  ASSUME PackTyped, ChannelsWhole, NEW id \in Ids, CloseChannel(id)
  PROVE  ChannelsWhole'
<1>1. PICK found \in SUBSET pack.linked :
        chan' = [h \in Handles |-> IF h \in found THEN [chan[h] EXCEPT !.use = "dropped"] ELSE chan[h]]
  BY DEF CloseChannel
<1>2. pack.linked \subseteq Live /\ UNCHANGED <<sent, file>>
  BY DEF CloseChannel, Walkable
<1>3. PICK x \in Seq(Frame) : file = file \o x /\ DOMAIN x = {}
  <2>1. <<>> \in Seq(Frame) /\ file \o <<>> = file /\ DOMAIN <<>> = {}
    BY DEF PackTyped
  <2> QED
    BY <2>1
<1>4. \A h \in Handles :
        \/ chan'[h] = chan[h]
        \/ chan[h].use = "live" /\ chan'[h].use = "dropped" /\ chan'[h].id = chan[h].id
  <2> SUFFICES ASSUME NEW h \in Handles, h \in found
               PROVE  chan[h].use = "live" /\ chan'[h].use = "dropped" /\ chan'[h].id = chan[h].id
    BY <1>1
  <2>1. chan'[h] = [chan[h] EXCEPT !.use = "dropped"]
    BY <1>1
  <2> QED
    BY <1>2, <2>1 DEF Live, PackTyped, PackChan
<1>5. \A h \in Handles : chan[h].use # "unused" => ChanWhole(file, chan'[h], Len(sent[chan[h].id]))
  BY <1>4 DEF ChannelsWhole, EachWhole, ChanWhole
<1>6. \A h \in Handles : chan'[h].id = chan[h].id /\ (chan'[h].use = "unused" <=> chan[h].use = "unused")
  BY <1>4
<1> QED
  BY Zenon, <1>2, <1>3, <1>5, <1>6, WholeKept

(* OticPack::flush: whoever is in the list gets a frame that nobody can read. *)
LEMMA PackFlushWhole ==
  ASSUME PackTyped, ChannelsWhole, PackFlush
  PROVE  ChannelsWhole'
<1> DEFINE list == NewestFirst(pack.linked)
           x == [i \in 1 .. Len(list) |-> MetaFrame("PAYLOAD", chan[list[i]].id)]
<1>1. pack.linked \subseteq Live /\ pack.linked \subseteq Handles /\ sent' = sent
  BY Zenon DEF PackFlush, Walkable, Live
<1>2. /\ file' = file \o x
      /\ chan' = [h \in Handles |-> IF h \in pack.linked THEN [chan[h] EXCEPT !.bucket = <<>>] ELSE chan[h]]
  BY Zenon, AlwaysOk DEF PackFlush
<1>3. list \in Seq(pack.linked) /\ \A h \in pack.linked : \E i \in 1 .. Len(list) : list[i] = h
  BY <1>1, NewestFirstLists
<1>4. \A h \in pack.linked : chan[h].use = "live" /\ chan[h].id \in ChannelIds
  BY <1>1 DEF Live, PackTyped
<1>5. /\ x \in Seq(Frame) /\ DOMAIN x = 1 .. Len(list)
      /\ \A i \in 1 .. Len(list) : x[i] = MetaFrame("PAYLOAD", chan[list[i]].id) /\ x[i].meta = "PAYLOAD"
  <2> HIDE DEF list
  <2>1. Len(list) \in Nat /\ \A i \in 1 .. Len(list) : list[i] \in pack.linked
    BY <1>3
  <2>2. \A i \in 1 .. Len(list) : MetaFrame("PAYLOAD", chan[list[i]].id) \in Frame
    BY <1>4, <2>1, FrameFacts DEF Untagged
  <2>3. \A i \in 1 .. Len(list) : MetaFrame("PAYLOAD", chan[list[i]].id).meta = "PAYLOAD"
    BY DEF MetaFrame
  <2>4. x \in Seq(Frame)
    BY <2>1, <2>2
  <2> QED
    BY <2>1, <2>3, <2>4
<1> HIDE DEF list, x
<1>6. \A h \in Handles : chan'[h].id = chan[h].id /\ chan'[h].use = chan[h].use
  BY <1>2 DEF PackTyped, PackChan
<1>7. \A i : \A k \in DOMAIN x : ~Carries(x[k], i)
  BY <1>5 DEF Carries
<1>8. ASSUME NEW h \in Handles, chan[h].use # "unused"
      PROVE  ChanWhole(file \o x, chan'[h], Len(sent'[chan[h].id]))
  <2>1. CASE h \in pack.linked
    <3>1. PICK i \in 1 .. Len(list) : list[i] = h
      BY <1>3, <2>1
    <3>2. MetaFrame("PAYLOAD", chan[h].id) \in Range(file \o x)
      BY <1>5, <3>1, PayloadStays DEF PackTyped
    <3> QED
      BY <1>6, <3>2 DEF ChanWhole
  <2>2. CASE h \notin pack.linked
    <3>1. chan'[h] = chan[h] /\ ChanWhole(file, chan[h], Len(sent[chan[h].id]))
      BY <1>2, <1>8, <2>2 DEF ChannelsWhole, EachWhole
    <3> QED
      BY <1>1, <1>5, <1>7, <3>1, OtherWhole DEF PackTyped
  <2> QED
    BY <2>1, <2>2
<1>9. \A k \in DOMAIN x : x[k].meta = "DATA" => \E h \in Handles : chan[h].id = x[k].id
  BY <1>5
<1> QED
  BY <1>1, <1>2, <1>5, <1>6, <1>8, <1>9, WholeKept

LEMMA PackCloseWhole ==
  ASSUME PackTyped, ChannelsWhole, PackClose
  PROVE  ChannelsWhole'
<1> DEFINE list == NewestFirst(pack.linked)
           frame(h) == DataFrame(chan[h].id, Ended(chan[h]).bucket)
           x == [i \in 1 .. Len(list) |-> frame(list[i])]
<1>1. pack.linked \subseteq Live /\ pack.linked \subseteq Handles /\ sent' = sent
  BY Zenon DEF PackClose, Walkable, Live
<1>2. \A h \in pack.linked : /\ chan[h].use = "live" /\ chan[h].id \in ChannelIds /\ chan[h] \in PackChan
                             /\ Ended(chan[h]).bucket \in Seq(Record)
                             /\ FlushedFrames(Ended(chan[h]), "ok") = <<frame(h)>> /\ frame(h) \in Frame
  <2> SUFFICES ASSUME NEW h \in pack.linked
               PROVE  /\ chan[h].use = "live" /\ chan[h].id \in ChannelIds /\ chan[h] \in PackChan
                      /\ Ended(chan[h]).bucket \in Seq(Record)
                      /\ FlushedFrames(Ended(chan[h]), "ok") = <<frame(h)>> /\ frame(h) \in Frame
    OBVIOUS
  <2>1. chan[h].use = "live" /\ chan[h].id \in ChannelIds /\ chan[h] \in PackChan
    BY <1>1 DEF Live, PackTyped
  <2>2. Ended(chan[h]) \in PackChan /\ Ended(chan[h]).id = chan[h].id
    BY <2>1, EndedTyped
  <2>3. Ended(chan[h]).bucket \in Seq(Record)
    BY <2>2, ChanFields
  <2> QED
    BY <2>1, <2>2, <2>3, FlushedOk, FrameFacts
<1>3. /\ list \in Seq(pack.linked) /\ \A h \in pack.linked : \E i \in 1 .. Len(list) : list[i] = h
      /\ \A i, j \in 1 .. Len(list) : list[i] = list[j] => i = j
  BY <1>1, NewestFirstLists
<1>4. /\ file' = file \o x
      /\ chan' = [h \in Handles |-> IF h \in pack.linked THEN ChannelClosed(chan[h], "ok") ELSE chan[h]]
  <2>1. PICK r \in [pack.linked -> FlushResults] :
          LET frames(h) == FlushedFrames(Ended(chan[h]), r[h])
              l == NewestFirst({h \in pack.linked : frames(h) # <<>>})
          IN  /\ file' = file \o [i \in DOMAIN l |-> frames(l[i])[1]]
              /\ chan' = [h \in Handles |-> IF h \in pack.linked THEN ChannelClosed(chan[h], r[h])
                                            ELSE chan[h]]
    BY Zenon DEF PackClose
  <2>2. \A h \in pack.linked : r[h] = "ok"
    BY AlwaysOk
  <2>3. \A h \in pack.linked : FlushedFrames(Ended(chan[h]), r[h]) = <<frame(h)>>
    BY <1>2, <2>2
  <2>4. {h \in pack.linked : FlushedFrames(Ended(chan[h]), r[h]) # <<>>} = pack.linked
    BY <2>3
  <2>5. file' = file \o [i \in DOMAIN list |-> FlushedFrames(Ended(chan[list[i]]), r[list[i]])[1]]
    BY Zenon, <2>1, <2>4
  <2> HIDE DEF list
  <2>6. DOMAIN list = 1 .. Len(list) /\ \A i \in 1 .. Len(list) : list[i] \in pack.linked
    BY <1>3
  <2>7. [i \in DOMAIN list |-> FlushedFrames(Ended(chan[list[i]]), r[list[i]])[1]] = x
    BY <2>3, <2>6
  <2>8. chan' = [h \in Handles |-> IF h \in pack.linked THEN ChannelClosed(chan[h], "ok") ELSE chan[h]]
    BY Zenon, <2>1, <2>2
  <2> QED
    BY <2>5, <2>7, <2>8
<1>5. /\ x \in Seq(Frame) /\ DOMAIN x = 1 .. Len(list)
      /\ \A i \in 1 .. Len(list) : /\ list[i] \in pack.linked /\ x[i] = frame(list[i])
                                   /\ x[i].id = chan[list[i]].id
  <2> HIDE DEF list
  <2>1. Len(list) \in Nat /\ \A i \in 1 .. Len(list) : list[i] \in pack.linked
    BY <1>3
  <2>2. \A h : frame(h).id = chan[h].id
    BY DEF DataFrame
  <2> HIDE DEF frame
  <2> QED
    BY <1>2, <2>1, <2>2
<1> HIDE DEF list, x
<1>6. \A h \in Handles : /\ chan'[h].id = chan[h].id
                         /\ chan'[h].use = "unused" <=> chan[h].use = "unused"
                         /\ h \in pack.linked => chan'[h].use = "closed"
  <2> SUFFICES ASSUME NEW h \in pack.linked
               PROVE  chan'[h].id = chan[h].id /\ chan'[h].use = "closed"
    BY <1>2, <1>4
  <2>1. chan'[h] = ChannelClosed(chan[h], "ok")
    BY <1>1, <1>4
  <2> QED
    BY <1>2, <2>1, AlwaysOk, ChannelClosedTyped
<1>7. \A g, h \in Handles : chan[g].use # "unused" /\ chan[g].id = chan[h].id => g = h
  <2>1. \A g \in Handles : chan[g].use # "unused" => chan[g].id # 0
    BY DEF PackTyped, ChannelIds
  <2> QED
    BY <2>1 DEF ChannelsWhole, IdsOnce
<1>8. ASSUME NEW h \in Handles, chan[h].use # "unused"
      PROVE  ChanWhole(file \o x, chan'[h], Len(sent'[chan[h].id]))
  <2>1. ChanWhole(file, chan[h], Len(sent[chan[h].id])) /\ Len(sent[chan[h].id]) \in Nat
    BY <1>8 DEF ChannelsWhole, EachWhole, PackTyped
  <2>2. \A k \in DOMAIN x : Carries(x[k], chan[h].id) => list[k] = h
    BY <1>1, <1>5, <1>7, <1>8 DEF Carries
  <2>3. CASE h \in pack.linked
    <3>1. PICK k \in 1 .. Len(list) : list[k] = h
      BY <1>3, <2>3
    <3>2. x[k] = DataFrame(chan[h].id, Ended(chan[h]).bucket)
      BY <1>5, <3>1
    <3>3. \A i \in DOMAIN x : Carries(x[i], chan[h].id) => i = k
      BY <1>3, <1>5, <2>2, <3>1
    <3>4. PICK d : d = chan'[h]
      OBVIOUS
    <3>5. d.use = "closed" /\ d.id = chan[h].id /\ chan[h].use = "live" /\ chan[h] \in PackChan
      BY <1>2, <1>6, <2>3, <3>4
    <3>6. ChanWhole(file \o x, d, Len(sent[chan[h].id]))
      BY <1>5, <2>1, <3>2, <3>3, <3>5, CloseWhole DEF PackTyped
    <3> QED
      BY <1>1, <3>4, <3>6
  <2>4. CASE h \notin pack.linked
    <3>1. chan'[h] = chan[h]
      BY <1>4, <2>4
    <3>2. \A k \in DOMAIN x : ~Carries(x[k], chan[h].id)
      BY <1>5, <2>2, <2>4
    <3> QED
      BY <1>1, <1>5, <2>1, <3>1, <3>2, OtherWhole DEF PackTyped
  <2> QED
    BY <2>3, <2>4
<1>9. \A k \in DOMAIN x : x[k].meta = "DATA" => \E h \in Handles : chan[h].id = x[k].id
  BY <1>1, <1>5
<1>10. \A h \in Handles : chan'[h].id = chan[h].id /\ (chan'[h].use = "unused" <=> chan[h].use = "unused")
  BY <1>6
<1> QED
  BY <1>1, <1>4, <1>5, <1>8, <1>9, <1>10, WholeKept

LEMMA StepWhole ==
  ASSUME ~Reopen, PackInv, PackTyped, ChannelsWhole,
         PackNext \/ AtMostRefused
  PROVE  ChannelsWhole'
<1>1. ASSUME UNCHANGED <<chan, sent, file>> PROVE ChannelsWhole'
  BY <1>1 DEF ChannelsWhole, IdsOnce, Untouched, EachWhole
<1>2. CASE AtMostRefused
  BY <1>1, <1>2 DEF AtMostRefused
<1>5. CASE \E h \in Handles : Working(h) \/ ChannelClose(h)
  BY <1>5, WorkingWhole, ChannelCloseWhole
<1>6. CASE \E id \in Ids : DefineRefused(id)
  BY <1>1, <1>6 DEF DefineRefused
<1>7. CASE \E id \in Ids : DefineChannel(id) \/ CloseChannel(id)
  BY <1>7, DefineWhole, CloseChannelWhole
<1>8. CASE ClearErrorFlag
  BY <1>1, <1>8 DEF ClearErrorFlag
<1>9. CASE PackFlush \/ PackClose
  BY <1>9, PackFlushWhole, PackCloseWhole
<1> QED
  BY Zenon, <1>2, <1>5, <1>6, <1>7, <1>8, <1>9, PackCalls

(* A closed container has no channels: only a container in order takes new ones. *)
ClosedEmpty == pack.state = "CLOSED" => pack.linked = {}

LEMMA EmptyKept ==
  ASSUME PackTyped, ClosedEmpty, PackNext \/ AtMostRefused
  PROVE  ClosedEmpty'
<1>1. pack \in Pack
  BY DEF PackTyped
<1>2. HeardOf(FALSE) = pack
  BY DEF HeardOf
<1>3. \/ pack' = pack
      \/ \E s \in {"ON_ERROR", "OPENED"} : pack' = [pack EXCEPT !.state = s]
      \/ \E l \in SUBSET pack.linked : pack' = [pack EXCEPT !.linked = l]
      \/ \E l : pack' = [pack EXCEPT !.state = "ON_ERROR", !.linked = l]
      \/ \E l, n : pack.state = "OPENED" /\ pack' = [pack EXCEPT !.linked = l, !.next = n]
      \/ pack' = [pack EXCEPT !.state = "CLOSED", !.linked = {}]
  <2>1. CASE AtMostRefused \/ \E id \in Ids : DefineRefused(id)
    BY <2>1 DEF AtMostRefused, DefineRefused, Refused
  <2>2. CASE \E h \in Handles : Working(h)
    <3>1. PICK w : pack' = HeardOf(w.failed)
      BY <2>2, WorkOf DEF Leaves
    <3> QED
      BY Zenon, <3>1 DEF HeardOf
  <2>5. CASE \E h \in Handles : ChannelClose(h)
    <3>1. PICK h \in Handles : pack' = Unlinked(pack, h)
      <4>1. PICK h \in Handles, r \in FlushResults : pack' = Unlinked(HeardOf(r # "ok"), h)
        BY Zenon, <2>5 DEF ChannelClose
      <4>2. HeardOf(r # "ok") = pack
        BY AlwaysOk DEF HeardOf
      <4> QED
        BY Zenon, <4>1, <4>2
    <3>2. pack' = [pack EXCEPT !.linked = pack.linked \ {h}]
      BY <3>1 DEF Unlinked
    <3> QED
      BY <3>2
  <2>6. CASE \E id \in Ids : DefineChannel(id)
    BY <2>6 DEF DefineChannel
  <2>7. CASE \E id \in Ids : CloseChannel(id)
    BY Zenon, <2>7 DEF CloseChannel
  <2>8. CASE ClearErrorFlag
    BY <2>8 DEF ClearErrorFlag
  <2>9. CASE PackFlush
    BY Zenon, <2>9, AlwaysOk DEF PackFlush
  <2>10. CASE PackClose
    BY Zenon, <2>10 DEF PackClose
  <2> QED
    BY Zenon, <2>1, <2>2, <2>5, <2>6, <2>7, <2>8, <2>9, <2>10, PackCalls
<1> QED
  BY <1>1, <1>3 DEF ClosedEmpty, Pack

(* The object stays, but for the two ends of the script and a bucket that moved; and a call
   knows nothing of what the stream did. *)
Stays == script'.object \in {"live", "undefined"} /\ script'.short = script.short

LEMMA ObjectStays ==
  ASSUME script \in Script, ScriptCall
  PROVE  script.object = "live" /\ Stays
<1>1. ASSUME NEW r \in BOOLEAN, Tells(r), Running PROVE Stays
  BY <1>1, ToldFields DEF Tells, Running, Stays
<1>2. CASE \E h \in Handles, t \in Times, n \in Sensors, v \in Numbers : PhpInject(h, t, n, v)
  <2>1. PICK r \in BOOLEAN : Tells(r)
    BY <1>2 DEF PhpInject, InjectThrows
  <2> QED
    BY <1>1, <1>2, <2>1 DEF PhpInject, Usable, Running
<1>3. CASE \E h \in Handles, t \in Times, k \in Kinds : PhpInjectRefused(h, t, k)
  <2>1. PICK r \in BOOLEAN : \E s : script' = [Told(script, r) EXCEPT !.silent = s]
    BY <1>3 DEF PhpInjectRefused, InjectThrows
  <2>2. Told(script, r) \in Script
    BY ScriptFields
  <2>3. script'.object = Told(script, r).object /\ script'.short = Told(script, r).short
    BY <2>1, <2>2 DEF Script
  <2> QED
    BY <1>3, <2>3, ToldFields DEF PhpInjectRefused, Usable, Running, Stays
<1>4. CASE \E h \in Handles : PhpInjectUnsupported(h) \/ PhpChannelFlush(h) \/ PhpChannelClose(h)
  <2>1. PICK r \in BOOLEAN : Tells(r)
    BY <1>4 DEF PhpInjectUnsupported, PhpChannelFlush, PhpChannelClose
  <2> QED
    BY <1>1, <1>4, <2>1 DEF PhpInjectUnsupported, PhpChannelFlush, PhpChannelClose,
                            Usable, Running
<1>7. CASE \E h \in Handles : PhpResize(h)
  <2>1. /\ (\E r \in BOOLEAN : Tells(r)) \/ script' = [script EXCEPT !.object = "undefined"]
        /\ Running
    BY <1>7 DEF PhpResize, Usable
  <2>2. [script EXCEPT !.object = "undefined"].object = "undefined"
        /\ [script EXCEPT !.object = "undefined"].short = script.short
    BY DEF Script
  <2>3. Stays
    BY Zenon, <1>1, <2>1, <2>2 DEF Stays
  <2> QED
    BY <2>1, <2>3 DEF Running
<1>5. CASE \/ \E id \in Ids : PhpDefineInvalid(id) \/ PhpCloseChannel(id)
           \/ PhpClearErrorFlag \/ PhpFlush \/ PhpClose
  <2>1. PICK r \in BOOLEAN : Tells(r)
    BY <1>5 DEF PhpDefineInvalid, PhpCloseChannel, PhpClearErrorFlag, PhpFlush, PhpClose
  <2> QED
    BY <1>1, <1>5, <2>1 DEF PhpDefineInvalid, PhpCloseChannel, PhpClearErrorFlag, PhpFlush, PhpClose,
                            Running
<1>6. CASE \E id \in Ids : PhpDefineChannel(id)
  <2>1. PICK r \in BOOLEAN :
          \E x : script' = Told(script, r) \/ script' = [Told(script, r) EXCEPT !.held = x]
    BY <1>6 DEF PhpDefineChannel, Tells
  <2>2. Told(script, r) \in Script
    BY ScriptFields
  <2>3. script'.object = Told(script, r).object /\ script'.short = Told(script, r).short
    BY <2>1, <2>2 DEF Script
  <2> QED
    BY <1>6, <2>3, ToldFields DEF PhpDefineChannel, Running, Stays
<1> QED
  BY <1>2, <1>3, <1>4, <1>5, <1>6, <1>7 DEF ScriptCall

LEMMA EndStays ==
  ASSUME script \in Script, ScriptEnd
  PROVE  script.object = "live" /\ script'.short = script.short
<1>1. CASE PhpDie
  BY <1>1 DEF PhpDie, Running, Script
<1>2. CASE PhpDestruct
  <2>1. script' = [Told(script, FALSE) EXCEPT !.object = "destructed"] /\ Running
    BY <1>2 DEF PhpDestruct
  <2>2. script'.short = Told(script, FALSE).short
    BY <2>1, ScriptFields DEF Script
  <2> QED
    BY <2>1, <2>2, ToldFields DEF Running
<1> QED
  BY <1>1, <1>2 DEF ScriptEnd

(* While the first script and its object are there, and after the destructor, as long as the
   stream has taken what it was given. *)
WholeInv ==
  phase = "write" /\ script.object # "freed" /\ ~script.short =>
    /\ ChannelsWhole /\ ClosedEmpty
    /\ script.object = "destructed" => Live = {}

LEMMA WholeStep ==
  ASSUME ~Reopen, SessionTyped, SessionTyped', WholeInv, WriteScript
  PROVE  WholeInv'
<1>1. phase = "write" /\ phase' = phase /\ PackInv /\ PackTyped /\ PackInv' /\ PackTyped'
      /\ script \in Script /\ (ScriptCall \/ ScriptEnd \/ StreamLoses)
  BY DEF WriteScript, SessionTyped, ContainersTyped, ListsInv, ScriptTyped
<1>4. CASE StreamLoses
  <2>1. script'.short
    BY <1>1, <1>4 DEF StreamLoses, Script
  <2> QED
    BY <2>1 DEF WholeInv
<1>2. CASE PhpDie
  <2>1. script'.object = "freed"
    BY <1>1, <1>2 DEF PhpDie, Script
  <2> QED
    BY <2>1 DEF WholeInv
<1>3. CASE ~PhpDie /\ (ScriptCall \/ ScriptEnd) /\ ~script'.short
  <2>1. script.object = "live" /\ ~script.short
    BY <1>1, <1>3, ObjectStays, EndStays DEF Stays
  <2>2. ChannelsWhole /\ ClosedEmpty
    BY <1>1, <2>1 DEF WholeInv
  <2>3. ChannelsWhole' /\ ClosedEmpty'
    BY <1>1, <1>3, <2>2, CallKinds, StepWhole, EmptyKept
  <2>4. script'.object = "destructed" => Live' = {}
    <3>1. CASE ScriptCall
      BY <1>1, <3>1, ObjectStays DEF Stays
    <3>2. CASE PhpDestruct
      <4>1. pack'.linked = {}
        <5>1. CASE pack.state = "CLOSED" /\ UNCHANGED pkvars
          BY <2>2, <5>1 DEF ClosedEmpty, pkvars
        <5>2. CASE PackClose
          BY Zenon, <1>1, <5>2 DEF PackClose, PackTyped, Pack
        <5> QED
          BY <3>2, <5>1, <5>2 DEF PhpDestruct, CloseOnce
      <4> QED
        BY <1>1, <4>1 DEF PackInv, PackExact, Live
    <3> QED
      BY <1>1, <1>3, <3>1, <3>2 DEF ScriptEnd
  <2> QED
    BY <2>3, <2>4 DEF WholeInv
<1> QED
  BY <1>1, <1>2, <1>3, <1>4 DEF WholeInv

LEMMA WholeInductive ==
  ASSUME ~Reopen, SessionTyped, SessionTyped', WholeInv, [SNext]_svars
  PROVE  WholeInv'
<1>1. CASE WriteScript
  BY <1>1, WholeStep
<1>2. CASE NextScript
  <2>1. phase' = "read"
    BY <1>2 DEF NextScript, PackerGone
  <2> QED
    BY <2>1 DEF WholeInv
<1>3. CASE ReadScript
  <2>1. phase' = "read"
    BY <1>3 DEF ReadScript
  <2> QED
    BY <2>1 DEF WholeInv
<1>4. CASE UNCHANGED svars
  BY <1>4 DEF svars, cvars, phpvars, WholeInv, ChannelsWhole, IdsOnce, Untouched, EachWhole,
              ClosedEmpty, Live
<1> QED
  BY <1>1, <1>2, <1>3, <1>4 DEF SNext

LEMMA InitWhole == SInit => WholeInv
<1> SUFFICES ASSUME SInit PROVE WholeInv
  OBVIOUS
<1>1. /\ pack = [state |-> "OPENED", linked |-> {}, next |-> 1] /\ file = <<>>
      /\ chan = [h \in Handles |-> NewChannel(0, "unused")]
      /\ sent = [id \in ChannelIds |-> <<>>] /\ script.object = "live"
  BY DEF SInit, PhpInit, PackInit
<1>2. \A h \in Handles : chan[h].use = "unused" /\ chan[h].id = 0
  BY <1>1 DEF NewChannel
<1>3. \A id : Places(file, id) = {}
  BY <1>1, PlaceIs
<1> QED
  BY <1>1, <1>2, <1>3 DEF WholeInv, ChannelsWhole, IdsOnce, Untouched, EachWhole, ClosedEmpty

(***************************************************************************)
(* OticPack::__destruct, on a stream that has taken all it was given: when *)
(* it has run, the file has all accepted rows of every channel and one EOF *)
(* record behind them, unless closeChannel or OticPack::flush took hold of *)
(* the channel; whatever was refused, thrown, cleared or closed before.    *)
(* No id is defined twice.                                                 *)
(***************************************************************************)
THEOREM DestructorLeavesWhole ==
  ASSUME ~Reopen
  PROVE  SSpec => []FileLeftWhole
<1>1. SessionTyped /\ SessionTyped' /\ WholeInv /\ [SNext]_svars => WholeInv'
  BY WholeInductive
<1>2. SessionTyped /\ WholeInv => FileLeftWhole
  <2> SUFFICES ASSUME SessionTyped, WholeInv, phase = "write", ~script.short,
                      script.object = "destructed",
                      NEW h \in Handles, chan[h].use \in {"live", "closed"},
                      MetaFrame("PAYLOAD", chan[h].id) \notin Range(file)
               PROVE  Finished(file, chan[h].id, Len(sent[chan[h].id]))
    BY DEF FileLeftWhole, DestructorWhole
  <2>1. ChannelsWhole /\ Live = {}
    BY DEF WholeInv
  <2>2. chan[h].use = "closed"
    BY <2>1 DEF Live
  <2>3. ChanWhole(file, chan[h], Len(sent[chan[h].id]))
    BY <2>1, <2>2 DEF ChannelsWhole, EachWhole
  <2> QED
    BY <2>2, <2>3 DEF ChanWhole
<1> QED
  BY <1>1, <1>2, InitWhole, SessionAlways, PTL DEF SSpec

-----------------------------------------------------------------------------
(* What a script leaves in the file for each id (EachTapeProofs). *)

(* A torn frame is one no reader gets past; the others stay as they were. *)
LEMMA TornPacked ==
  ASSUME Writes, FrameTorn
  PROVE  Books' /\ \A id \in ChannelIds : Packed(id)'
<1> DEFINE n == Len(file)
<1>1. file \in Seq(Frame) /\ file # <<>> /\ UNCHANGED <<chan, sent>>
  BY DEF FrameTorn, Writes, PackTyped
<1>2. n \in Nat \ {0} /\ n \in 1 .. n
  BY <1>1
<1>3. Len(file') = n /\ file'[n] = Torn(file[n]) /\ \A j \in 1 .. n - 1 : file'[j] = file[j]
  <2>1. file' = Append(SubSeq(file, 1, n - 1), Torn(file[n]))
    BY DEF FrameTorn, Front, Last
  <2> DEFINE f == file
             y == Torn(file[n])
  <2>2. f \in Seq(Frame) /\ Len(f) = n /\ file' = Append(SubSeq(f, 1, n - 1), y)
    BY <1>1, <2>1
  <2> HIDE DEF f, n, y
  <2>3. SubSeq(f, 1, n - 1) \in Seq(Frame) /\ Len(SubSeq(f, 1, n - 1)) = n - 1
        /\ \A j \in 1 .. n - 1 : SubSeq(f, 1, n - 1)[j] = f[j]
    BY <1>2, <2>2
  <2> DEFINE s == SubSeq(f, 1, n - 1)
  <2> HIDE DEF s
  <2>4. s \in Seq(Frame) /\ Len(s) = n - 1 /\ file' = Append(s, y) /\ \A j \in 1 .. n - 1 : s[j] = f[j]
    BY <2>2, <2>3 DEF s
  <2>5. Len(file') = n /\ file'[n] = y /\ \A j \in 1 .. n - 1 : file'[j] = s[j]
    BY <1>2, <2>4
  <2> QED
    BY <2>4, <2>5 DEF f, y
<1>4. file'[n] = file[n] \/ ~Good(file'[n])
  <2>1. Torn(file[n]) = file[n] \/ Torn(file[n]).meta \in Broken
    BY FrameFacts DEF Torn, MetaFrame
  <2> QED
    BY <1>3, <2>1, FrameFacts DEF Good
<1> HIDE DEF n
<1>5. \A i \in 1 .. n : Reach(file', i) => Reach(file, i) /\ file'[i] = file[i]
  <2> SUFFICES ASSUME NEW i \in 1 .. n, Reach(file', i)
               PROVE  Reach(file, i) /\ file'[i] = file[i]
    OBVIOUS
  <2>1. \A j \in 1 .. i : Good(file'[j]) /\ j \in 1 .. n /\ (j \in 1 .. n - 1 \/ j = n)
    BY <1>2 DEF Reach
  <2>2. \A j \in 1 .. i : file'[j] = file[j]
    BY <1>3, <1>4, <2>1
  <2>3. i \in 1 .. i
    OBVIOUS
  <2> QED
    BY <2>1, <2>2, <2>3 DEF Reach
<1>6. Clean(file') => Clean(file)
  BY <1>2, <1>3, <1>5 DEF Clean, n
<1>7. ASSUME NEW id \in ChannelIds PROVE Packed(id)'
  <2>1. PICK h : Packs(h, id)
    BY DEF Writes, Packed
  <2>2. Cut(h, file, id)
    BY <2>1 DEF Packs, Filed
  <2>3. Cut(h, file', id)
    BY <1>3, <1>5, <2>2 DEF Cut, n
  <2>4. Closers(id)' = Closers(id) /\ Live' = Live /\ (Unused(id)' <=> Unused(id))
    BY <1>1 DEF Closers, Live, Unused, InUse
  <2>5. Filed(h, file', id, sent'[id], Closers(id)')
    BY <1>1, <2>1, <2>3, <2>4 DEF Packs, Filed
  <2>6. Continues(h, id)'
    BY <1>1, <1>3, <1>6, <2>1, <2>4 DEF Packs, Continues, n
  <2>7. Packs(h, id)'
    BY <2>1, <2>4, <2>5, <2>6 DEF Packs
  <2> QED
    BY <2>7 DEF Packed
<1>8. Books'
  BY <1>1, BooksSame DEF Writes, Live, InUse
<1> QED
  BY <1>7, <1>8

(* Every call of a script, and its end. *)
LEMMA ScriptWrites ==
  ASSUME Writes, ScriptCall \/ ScriptEnd
  PROVE  Writes'
<1>1. PackInv' /\ PackTyped'
  BY ScriptTypes DEF Writes
<1>3. CASE PackNext
  BY <1>3, WritesInductive
<1>4. CASE AtMostRefused
  BY <1>1, <1>4, QuietPacked DEF AtMostRefused, Writes
<1>6. CASE FrameTorn
  BY <1>1, <1>6, TornPacked DEF Writes
<1> QED
  BY <1>3, <1>4, <1>6, CallKinds

(* What a stream has not taken stays lost. *)
LEMMA ShortStays ==
  ASSUME SessionTyped, [SNext]_svars, ~script'.short
  PROVE  ~script.short /\ ~(WriteScript /\ StreamLoses)
<1>1. script \in Script
  BY DEF SessionTyped, ScriptTyped
<1>2. CASE WriteScript
  <2>1. ~StreamLoses
    BY <1>1 DEF StreamLoses, Script
  <2> QED
    BY <1>1, <1>2, <2>1, ObjectStays, EndStays DEF WriteScript, Stays
<1>3. CASE NextScript
  <2>1. script'.short = script.short /\ phase' # "write" /\ phase = "write"
    BY <1>1, <1>3 DEF NextScript, PackerGone, Script
  <2> QED
    BY <2>1 DEF WriteScript
<1>4. CASE ReadScript \/ UNCHANGED svars
  <2>1. script' = script
    BY <1>4 DEF ReadScript, svars, phpvars
  <2>2. ~StreamLoses
    BY <1>1 DEF StreamLoses, Script
  <2> QED
    BY <2>1, <2>2
<1> QED
  BY <1>2, <1>3, <1>4 DEF SNext

(* The tapes stand through both scripts. *)
LEMMA SessionTapes ==
  ASSUME ~LateSelect, ~SmallByGenerate, SessionTyped', OnTape, [SNext]_svars,
         ~(WriteScript /\ StreamLoses)
  PROVE  OnTape'
<1>1. CASE WriteScript
  <2>1. /\ phase = "write" /\ UNCHANGED <<unp, reader, got, phase>> /\ (ScriptCall \/ ScriptEnd)
    BY <1>1 DEF WriteScript
  <2>2. Writes' /\ Pristine
    BY <2>1, ScriptWrites DEF OnTape
  <2>3. Pristine'
    BY <2>1, <2>2 DEF Pristine
  <2> QED
    BY <2>1, <2>2, <2>3 DEF OnTape, SessionTyped
<1>2. CASE NextScript
  <2>1. Open
    BY <1>2 DEF NextScript, Open, PhpConstruct
  <2> QED
    BY <2>1, OnTapeInductive DEF CNext
<1>3. CASE ReadScript
  <2>1. CASE ReadFile \/ UnpackCall
    BY <2>1, OnTapeInductive DEF CNext
  <2>2. CASE PhpClearUnpackError /\ UNCHANGED <<pack, chan, sent, phase>>
    <3>1. /\ phase = "read" /\ ~unp.ended /\ ~unp.astray /\ UNCHANGED <<reader, got, file, phase>>
          /\ unp' = [unp EXCEPT !.state = "OPENED"]
      BY <1>3, <2>2 DEF ReadScript, PhpClearUnpackError, Between
    <3>2. ReadsOn /\ ReadTyped
      BY <3>1 DEF OnTape, ContainersTyped
    <3>3. unp'.at = unp.at /\ unp'.by = unp.by /\ unp'.fresh = unp.fresh
      BY <3>1, <3>2 DEF ReadTyped, Unp
    <3>4. \A g \in LiveReaders' : g \in LiveReaders /\ reader'[g] = reader[g]
      BY <3>1 DEF LiveReaders
    <3>5. \A g \in LiveReaders' : reader'[g].block # <<>> => unp'.at = g
      BY <3>2, <3>3, <3>4 DEF ReadsOn, Orderly
    <3>6. unp'.fresh => unp.fresh /\ unp'.at = NoReader
      BY <3>2, <3>3 DEF ReadsOn, Orderly
    <3>7. ReadsOn'
      BY <2>2, <3>1, <3>2, <3>3, <3>4, <3>5, <3>6, SameReads
    <3> QED
      BY <3>1, <3>7 DEF OnTape, SessionTyped
  <2> QED
    BY <1>3, <2>1, <2>2, ReadKinds
<1>4. CASE UNCHANGED svars
  <2>1. UNCHANGED cvars
    BY <1>4 DEF svars
  <2> QED
    BY <2>1, OnTapeInductive
<1> QED
  BY <1>1, <1>2, <1>3, <1>4 DEF SNext

LEMMA InitTapes == SInit => OnTape
<1> SUFFICES ASSUME SInit PROVE OnTape
  OBVIOUS
<1>1. CInit
  BY DEF SInit, PhpInit, PhpUInit, CInit
<1> QED
  BY <1>1, InitOnTape

-----------------------------------------------------------------------------
(* What generate returns. *)

(* Each is put behind what there was. *)
LEMMA WithinLonger ==
  ASSUME NEW S, NEW T, NEW s \in Seq(S), NEW t \in Seq(T), NEW x \in Seq(T), Within(s, t)
  PROVE  Within(s, t \o x)
<1> DEFINE u == t \o x
<1>1. DOMAIN t \subseteq DOMAIN u /\ \A i \in DOMAIN t : u[i] = t[i]
  OBVIOUS
<1> HIDE DEF u
<1>2. PICK f \in [DOMAIN s -> DOMAIN t] :
        \A i \in DOMAIN s : t[f[i]] = s[i] /\ \A j \in DOMAIN s : i < j => f[i] < f[j]
  BY DEF Within
<1>3. f \in [DOMAIN s -> DOMAIN u] /\ \A i \in DOMAIN s : u[f[i]] = t[f[i]]
  BY <1>1, <1>2
<1>4. Within(s, u)
  BY <1>2, <1>3 DEF Within
<1> QED
  BY <1>4 DEF u

LEMMA WithinBoth ==
  ASSUME NEW S, NEW T, NEW s \in Seq(S), NEW t \in Seq(T), NEW y, y \in S, y \in T, Within(s, t)
  PROVE  Within(s \o <<y>>, t \o <<y>>)
<1> DEFINE m == Len(s)
           n == Len(t)
           v == s \o <<y>>
           u == t \o <<y>>
<1>1. /\ m \in Nat /\ n \in Nat /\ DOMAIN s = 1 .. m /\ DOMAIN t = 1 .. n
      /\ DOMAIN v = 1 .. m + 1 /\ DOMAIN u = 1 .. n + 1 /\ v[m + 1] = y /\ u[n + 1] = y
      /\ \A i \in 1 .. m : v[i] = s[i]
      /\ \A i \in 1 .. n : u[i] = t[i]
  <2>1. <<y>> \in Seq(S) /\ <<y>> \in Seq(T) /\ Len(<<y>>) = 1 /\ <<y>>[1] = y
    OBVIOUS
  <2> QED
    BY <2>1
<1> HIDE DEF m, n, v, u
<1>2. PICK f \in [1 .. m -> 1 .. n] :
        \A i \in 1 .. m : t[f[i]] = s[i] /\ \A j \in 1 .. m : i < j => f[i] < f[j]
  BY <1>1 DEF Within
<1> DEFINE g == [i \in 1 .. m + 1 |-> IF i = m + 1 THEN n + 1 ELSE f[i]]
<1>3. \A i \in 1 .. m : f[i] \in 1 .. n /\ i # m + 1 /\ i \in 1 .. m + 1
  BY <1>1, <1>2
<1>4. g[m + 1] = n + 1 /\ \A i \in 1 .. m : g[i] = f[i]
  BY <1>1, <1>3
<1>5. \A i \in 1 .. m + 1 : i = m + 1 \/ i \in 1 .. m
  BY <1>1
<1>6. g \in [1 .. m + 1 -> 1 .. n + 1]
  <2>1. \A i \in 1 .. m + 1 : g[i] \in 1 .. n + 1
    BY <1>1, <1>3, <1>4, <1>5
  <2> QED
    BY <2>1
<1> HIDE DEF g
<1>7. ASSUME NEW i \in 1 .. m + 1
      PROVE  u[g[i]] = v[i] /\ \A j \in 1 .. m + 1 : i < j => g[i] < g[j]
  <2>1. CASE i = m + 1
    BY <1>1, <1>4, <2>1
  <2>2. CASE i \in 1 .. m
    <3>1. u[g[i]] = v[i] /\ g[i] = f[i] /\ f[i] \in 1 .. n
      BY <1>1, <1>2, <1>3, <1>4, <2>2
    <3>2. ASSUME NEW j \in 1 .. m + 1, i < j PROVE g[i] < g[j]
      <4>1. CASE j = m + 1
        BY <1>1, <1>4, <3>1, <4>1
      <4>2. CASE j \in 1 .. m
        BY <1>2, <1>4, <2>2, <3>2, <4>2
      <4> QED
        BY <1>5, <4>1, <4>2
    <3> QED
      BY <3>1, <3>2
  <2> QED
    BY <1>5, <2>1, <2>2
<1> QED
  BY Zenon, <1>1, <1>6, <1>7 DEF Within, u, v

LEMMA WithinNothing == Within(<<>>, <<>>)
<1>1. DOMAIN <<>> = {}
  OBVIOUS
<1>2. [i \in {} |-> 0] \in [{} -> {}]
  OBVIOUS
<1> QED
  BY <1>1, <1>2 DEF Within

(***************************************************************************)
(* An entry with a value, at the time its reader has got to, is a row that *)
(* was injected, or such a row's sensor and value at a later time; so that *)
(* it may be returned, again and again.                                    *)
(***************************************************************************)
Backed(id, e, ts) ==
  e # NoEntry /\ e.value # NoValue =>
    ts # NoTime /\ Injected(id, [time |-> ts, sensor |-> e.sensor, value |-> e.value])

(* GeneratedExplained, of whatever file. *)
Explained ==
  \A id \in ChannelIds :
    /\ unp.by = "generate" => Within(got[id], seen[id])
    /\ \A i \in DOMAIN seen[id] : seen[id][i].value # NoValue => Injected(id, seen[id][i])

NoOutput == (\A g \in Readers : entry[g] = NoEntry) /\ \A id \in ChannelIds : seen[id] = <<>>

ExplainedInv ==
  /\ phase = "write" \/ unp.by = "parse" => NoOutput
  /\ \A g \in Readers : reader[g].use = "unused" => entry[g] = NoEntry
  /\ \A g \in LiveReaders : Backed(reader[g].id, entry[g], reader[g].ts)
  /\ Explained

LEMMA NothingExplained ==
  ASSUME NoOutput', unp'.by = "generate" => \A id \in ChannelIds : got'[id] = <<>>
  PROVE  ExplainedInv'
<1>1. \A id \in ChannelIds : DOMAIN seen'[id] = {}
  BY DEF NoOutput
<1>2. Explained'
  <2>1. ASSUME NEW id \in ChannelIds, unp'.by = "generate" PROVE Within(got'[id], seen'[id])
    BY <2>1, WithinNothing DEF NoOutput
  <2> QED
    BY <1>1, <2>1 DEF Explained
<1> QED
  BY <1>2 DEF NoOutput, ExplainedInv, Backed, LiveReaders

(* Nothing is read of a block, and nothing returned. *)
LEMMA ExplainedSame ==
  ASSUME ExplainedInv, UNCHANGED <<got, entry, seen, sent, phase>>, unp'.by = unp.by,
         \A g \in Readers : reader'[g].use = "unused" => reader[g].use = "unused",
         \A g \in LiveReaders' : \/ entry[g] = NoEntry
                                 \/ /\ g \in LiveReaders /\ reader'[g].id = reader[g].id
                                    /\ reader'[g].ts = reader[g].ts
  PROVE  ExplainedInv'
<1>1. \A id, line : Injected(id, line)' <=> Injected(id, line)
  BY DEF Injected
<1>2. Explained'
  BY <1>1 DEF ExplainedInv, Explained
<1>3. \A id, e, ts : Backed(id, e, ts)' <=> Backed(id, e, ts)
  BY <1>1 DEF Backed
<1>4. \A g \in LiveReaders' : Backed(reader'[g].id, entry'[g], reader'[g].ts)
  <2> SUFFICES ASSUME NEW g \in LiveReaders'
               PROVE  Backed(reader'[g].id, entry'[g], reader'[g].ts)
    OBVIOUS
  <2>1. CASE entry[g] = NoEntry
    BY <2>1 DEF Backed
  <2>2. CASE g \in LiveReaders /\ reader'[g].id = reader[g].id /\ reader'[g].ts = reader[g].ts
    BY <2>2 DEF ExplainedInv
  <2> QED
    BY <2>1, <2>2
<1>5. (\A g \in LiveReaders : Backed(reader[g].id, entry[g], reader[g].ts))'
  BY <1>3, <1>4
<1> QED
  BY <1>2, <1>5 DEF ExplainedInv, NoOutput

LEMMA EntryMoves ==
  ASSUME NEW c \in ReadChan, NEW e, NEW r \in Record
  PROVE  LET x == EntryAfter(c, EntryAfter(c, e, r), r)
         IN  /\ r.rec = "ROW" =>
                  x = [sensor |-> c.entries[r.index + 1], value |-> r.value] /\ x # NoEntry
             /\ r.rec = "NAME" => x.value = NoValue
             /\ r.rec \notin {"ROW", "NAME"} => x = e
<1>1. CASE r.rec = "ROW"
  <2>1. DOMAIN [sensor |-> c.entries[r.index + 1], value |-> r.value] # DOMAIN NoEntry
    BY DEF NoEntry
  <2> QED
    BY <1>1, <2>1 DEF EntryAfter
<1>2. CASE r.rec = "NAME"
  BY <1>2 DEF EntryAfter
<1>3. CASE r.rec \notin {"ROW", "NAME"}
  BY <1>3 DEF EntryAfter
<1> QED
  BY <1>1, <1>2, <1>3

(* A record read leaves an entry that may be returned: a time record moves it to a later time. *)
LEMMA BackedAfter ==
  ASSUME ~Reopen, NEW c \in ReadChan, c.block # <<>>, sent[c.id] \in Seq(Row),
         NEW r \in Record, Recounts(sent[c.id], Closers(c.id), r, Learnt(c)),
         NEW e, Backed(c.id, e, c.ts)
  PROVE  Backed(c.id, EntryAfter(c, EntryAfter(c, e, r), r), After(c, r).ts)
<1> DEFINE x == EntryAfter(c, EntryAfter(c, e, r), r)
           ts == After(c, r).ts
           log == sent[c.id]
<1>1. /\ ts = IF r.rec = "TIME" THEN r.time ELSE c.ts
      /\ c.ts \in Times \cup {NoTime} /\ c.rowCounter \in Nat
  BY AfterTyped, ReadFields
<1>2. /\ r.rec = "ROW" => x = [sensor |-> c.entries[r.index + 1], value |-> r.value]
      /\ r.rec = "NAME" => x.value = NoValue
      /\ r.rec \notin {"ROW", "NAME"} => x = e
  BY EntryMoves
<1>3. Learnt(c).names = c.entries /\ Learnt(c).rows = c.rowCounter /\ Learnt(c).ts = c.ts
  BY DEF Learnt
<1>4. Times \subseteq Nat /\ NoTime \notin Times
  BY FileAssumption
<1> HIDE DEF x, ts
<1>5. \A i \in DOMAIN log : log[i] \in Row /\ log[i].time \in Nat
  <2>1. \A i \in DOMAIN log : log[i] \in Row
    <3> HIDE DEF log
    <3>1. log \in Seq(Row)
      BY DEF log
    <3> QED
      BY <3>1
  <2> QED
    BY <1>4, <2>1 DEF Row
<1>6. CASE r.rec = "ROW"
  <2> DEFINE n == c.rowCounter + 1
  <2>1. c.rowCounter < Len(log) /\ log[n] = Decoded(r, Learnt(c))
    BY <1>3, <1>6 DEF Recounts
  <2>2. n \in DOMAIN log
    <3> HIDE DEF log
    <3>1. log \in Seq(Row) /\ c.rowCounter < Len(log)
      BY <2>1 DEF log
    <3> QED
      BY <1>1, <3>1
  <2>3. log[n] = [time |-> c.ts, sensor |-> c.entries[r.index + 1], value |-> r.value]
    BY <1>3, <2>1 DEF Decoded
  <2>4. c.ts \in Nat /\ c.ts # NoTime /\ c.ts <= c.ts
    <3>1. log[n].time = c.ts /\ log[n] \in Row
      BY <1>5, <2>2, <2>3
    <3>2. c.ts \in Times
      BY <3>1 DEF Row
    <3>3. c.ts \in Nat /\ c.ts # NoTime
      BY <1>4, <3>2
    <3>4. \A t \in Nat : t <= t
      OBVIOUS
    <3> QED
      BY <3>3, <3>4
  <2>5. log[n].sensor = x.sensor /\ log[n].value = x.value /\ log[n].time = ts
    BY <1>1, <1>2, <1>6, <2>3
  <2>6. ts = c.ts
    BY <1>1, <1>6
  <2> HIDE DEF n
  <2>7. Injected(c.id, [time |-> ts, sensor |-> x.sensor, value |-> x.value])
    BY <2>2, <2>4, <2>5, <2>6 DEF Injected
  <2> QED
    BY <2>4, <2>6, <2>7 DEF Backed, x, ts
<1>7. CASE r.rec = "NAME"
  <2>1. Backed(c.id, x, ts)
    BY <1>2, <1>7 DEF Backed
  <2> QED
    BY <2>1 DEF x, ts
<1>8. CASE r.rec = "TIME"
  <2>1. x = e /\ ts = r.time /\ r.time \in Times
    BY <1>1, <1>2, <1>8 DEF Record
  <2>2. c.ts # NoTime => c.ts <= r.time
    BY <1>3, <1>8 DEF Recounts, NotBefore
  <2>3. ASSUME e # NoEntry, e.value # NoValue
        PROVE  ts # NoTime /\ Injected(c.id, [time |-> ts, sensor |-> e.sensor, value |-> e.value])
    <3>1. c.ts # NoTime /\ Injected(c.id, [time |-> c.ts, sensor |-> e.sensor, value |-> e.value])
      BY <2>3 DEF Backed
    <3>2. PICK i \in DOMAIN log : log[i].sensor = e.sensor /\ log[i].value = e.value
                                  /\ log[i].time <= c.ts
      BY <3>1 DEF Injected
    <3>3. log[i].time \in Nat /\ c.ts \in Nat /\ r.time \in Nat /\ c.ts <= r.time
      BY <1>1, <1>4, <1>5, <2>1, <2>2, <3>1
    <3>4. log[i].time <= r.time
      BY <3>2, <3>3
    <3> QED
      BY <1>4, <2>1, <3>2, <3>4 DEF Injected
  <2>4. Backed(c.id, x, ts)
    BY <2>1, <2>3 DEF Backed
  <2> QED
    BY <2>4 DEF x, ts
<1>9. CASE r.rec \notin {"ROW", "NAME", "TIME"}
  <2>1. x = e /\ ts = c.ts
    BY <1>1, <1>2, <1>9
  <2> QED
    BY <2>1 DEF x, ts
<1> QED
  BY <1>6, <1>7, <1>8, <1>9

(* What is returned behind a line is explained; a row handed over is among it. *)
LEMMA LineExplained ==
  ASSUME ~Reopen, SessionTyped, SessionTyped', ExplainedInv, ReadsOn, PhpGenerate,
         InBlock("generate"), ~unp'.astray, phase = "read", UNCHANGED <<sent, chan, phase>>
  PROVE  ExplainedInv'
<1> DEFINE g == unp.at
           c == reader[g]
           r == Head(c.block)
           d == After(c, r)
           e == EntryAfter(c, EntryAfter(c, entry[g], r), r)
           x == Returned(g)'
           y == [time |-> d.ts, sensor |-> e.sensor, value |-> e.value]
           rows == Delivered(c, r)
<1>1. /\ ReadTyped /\ ReadTyped' /\ PackTyped /\ OutputTyped /\ OutputTyped'
      /\ file \in Seq(Frame) /\ sent \in [ChannelIds -> Seq(Row)]
  BY DEF SessionTyped, ContainersTyped, PackTyped
<1>2. /\ GenerateLine /\ g \in LiveReaders /\ g \in Readers /\ unp'.at = g /\ Current = c
      /\ c.block # <<>> /\ unp.by = "generate"
  BY <1>1, GenerateReads DEF PhpGenerate, InBlock
<1>3. /\ c \in ReadChan /\ r \in Record /\ c.id \in ChannelIds /\ Defined(c, r)
      /\ Recounts(sent[c.id], Closers(c.id), r, Learnt(c))
  BY <1>1, <1>2, AtHand
<1>4. /\ Taken(g) /\ Head(Line(c)) = r /\ Last(Line(c)) = r /\ (unp'.ended <=> r.rec = "EOF")
  BY <1>1, <1>2, LineTaken
<1>5. /\ reader' = [reader EXCEPT ![g] = d] /\ got' = [got EXCEPT ![c.id] = @ \o rows]
      /\ unp'.by = unp.by
  BY <1>4 DEF Taken
<1>6. /\ entry' = [entry EXCEPT ![g] = e]
      /\ seen' = [seen EXCEPT ![c.id] = @ \o x]
  BY Zenon, <1>2, <1>4 DEF PhpGenerate
<1>7. Backed(c.id, e, d.ts) /\ sent[c.id] \in Seq(Row)
  <2>1. Backed(c.id, entry[g], c.ts) /\ sent[c.id] \in Seq(Row)
    BY <1>1, <1>2, <1>3 DEF ExplainedInv
  <2> QED
    BY <1>2, <1>3, <2>1, BackedAfter
<1>8. /\ d.use = c.use /\ d.id = c.id /\ d \in ReadChan
      /\ d.ts = IF r.rec = "TIME" THEN r.time ELSE c.ts
  BY <1>2, <1>3, AfterTyped
<1>9. /\ r.rec = "ROW" =>
           /\ rows = <<[time |-> c.ts, sensor |-> c.entries[r.index + 1], value |-> r.value]>>
           /\ [time |-> c.ts, sensor |-> c.entries[r.index + 1], value |-> r.value] \in Delivery
           /\ e = [sensor |-> c.entries[r.index + 1], value |-> r.value] /\ e # NoEntry
      /\ r.rec # "ROW" => rows = <<>>
  <2>1. r.rec = "ROW" =>
           e = [sensor |-> c.entries[r.index + 1], value |-> r.value] /\ e # NoEntry
    BY <1>3, EntryMoves
  <2> HIDE DEF e
  <2>2. /\ r.rec = "ROW" =>
             /\ rows = <<[time |-> c.ts, sensor |-> c.entries[r.index + 1], value |-> r.value]>>
             /\ [time |-> c.ts, sensor |-> c.entries[r.index + 1], value |-> r.value] \in Delivery
        /\ r.rec # "ROW" => rows = <<>>
    BY Zenon, <1>3, DeliveredTyped
  <2> QED
    BY Zenon, <2>1, <2>2
<1>10. x = IF unp'.ended \/ entry'[g] = NoEntry THEN <<>>
           ELSE <<[time |-> reader'[g].ts, sensor |-> entry'[g].sensor, value |-> entry'[g].value]>>
  BY <1>2 DEF Returned
<1> HIDE DEF d, e, x, r, c, rows
<1>11. /\ \A i \in Readers : reader'[i] = IF i = g THEN d ELSE reader[i]
       /\ \A i \in Readers : entry'[i] = IF i = g THEN e ELSE entry[i]
       /\ \A id \in ChannelIds : got'[id] = IF id = c.id THEN got[id] \o rows ELSE got[id]
       /\ \A id \in ChannelIds : seen'[id] = IF id = c.id THEN seen[id] \o x ELSE seen[id]
  BY <1>1, <1>5, <1>6 DEF ReadTyped, OutputTyped
<1>12. x = <<>> \/ (e # NoEntry /\ r.rec # "EOF" /\ x = <<y>> /\ y \in GeneratedLine)
  <2>1. reader'[g] = d /\ entry'[g] = e /\ e \in Entry
    BY <1>1, <1>2, <1>11 DEF OutputTyped
  <2>2. x = IF r.rec = "EOF" \/ e = NoEntry THEN <<>> ELSE <<y>>
    BY <1>4, <1>10, <2>1 DEF r, c
  <2>3. e # NoEntry => y \in GeneratedLine
    BY <1>8, <2>1, ReadFields DEF Entry, GeneratedLine
  <2> QED
    BY <2>2, <2>3
<1>13. r.rec = "ROW" => rows = <<y>> /\ x = <<y>> /\ y \in Delivery
  <2> SUFFICES ASSUME r.rec = "ROW" PROVE rows = <<y>> /\ x = <<y>> /\ y \in Delivery
    OBVIOUS
  <2>1. y = [time |-> c.ts, sensor |-> c.entries[r.index + 1], value |-> r.value] /\ e # NoEntry
    BY <1>8, <1>9
  <2>2. reader'[g] = d /\ entry'[g] = e /\ ~unp'.ended
    BY <1>2, <1>4, <1>11 DEF r, c
  <2> QED
    BY <1>9, <1>10, <2>1, <2>2
<1>14. \A id, line : Injected(id, line)' <=> Injected(id, line)
  BY DEF Injected
<1>15. (\A i \in LiveReaders : Backed(reader[i].id, entry[i], reader[i].ts))'
  <2>1. \A id, b, ts : Backed(id, b, ts)' <=> Backed(id, b, ts)
    BY <1>14 DEF Backed
  <2>2. ASSUME NEW i \in LiveReaders' PROVE Backed(reader'[i].id, entry'[i], reader'[i].ts)
    <3>1. CASE i = g
      BY <1>2, <1>7, <1>8, <1>11, <3>1
    <3>2. CASE i # g
      BY <1>11, <2>2, <3>2 DEF LiveReaders, ExplainedInv
    <3> QED
      BY <3>1, <3>2
  <2> QED
    BY <2>1, <2>2
<1>16. \A i \in Readers : reader'[i].use = "unused" => entry'[i] = NoEntry
  <2>1. c.use = "live"
    BY <1>2 DEF LiveReaders, c
  <2> QED
    BY <1>8, <1>11, <2>1 DEF ExplainedInv
<1>17. e # NoEntry /\ y.value # NoValue => Injected(c.id, y)
  BY <1>7 DEF Backed
<1> HIDE DEF y
<1>18. ASSUME NEW id \in ChannelIds
       PROVE  /\ Within(got'[id], seen'[id])
              /\ \A i \in DOMAIN seen'[id] : seen'[id][i].value # NoValue => Injected(id, seen'[id][i])
  <2> DEFINE s == got[id]
             t == seen[id]
  <2>1. /\ Within(s, t) /\ s \in Seq(Delivery) /\ t \in Seq(GeneratedLine)
        /\ \A i \in DOMAIN t : t[i].value # NoValue => Injected(id, t[i])
    BY <1>1, <1>2 DEF ExplainedInv, Explained, ReadTyped, OutputTyped
  <2>2. CASE id # c.id
    BY <1>11, <2>1, <2>2
  <2>3. CASE id = c.id
    <3>1. got'[id] = s \o rows /\ seen'[id] = t \o x
      BY <1>11, <2>3
    <3> HIDE DEF s, t
    <3>2. CASE x = <<>>
      <4>1. r.rec # "ROW"
        BY <1>13, <3>2
      <4>2. rows = <<>> /\ s \o <<>> = s /\ t \o <<>> = t
        BY <1>9, <2>1, <4>1
      <4> QED
        BY <2>1, <3>1, <3>2, <4>2
    <3>3. CASE e # NoEntry /\ x = <<y>> /\ y \in GeneratedLine
      <4>1. Within(got'[id], seen'[id])
        <5>1. CASE r.rec = "ROW"
          <6>1. Within(s \o <<y>>, t \o <<y>>)
            BY <1>13, <2>1, <3>3, <5>1, WithinBoth
          <6> QED
            BY <1>13, <3>1, <5>1, <6>1
        <5>2. CASE r.rec # "ROW"
          <6>1. rows = <<>> /\ s \o <<>> = s
            BY <1>9, <2>1, <5>2
          <6>2. x \in Seq(GeneratedLine)
            BY <3>3
          <6>3. Within(s, t \o x)
            BY <2>1, <6>2, WithinLonger
          <6> QED
            BY <3>1, <6>1, <6>3
        <5> QED
          BY <5>1, <5>2
      <4>2. \A i \in DOMAIN (t \o x) : (t \o x)[i] = y \/ (i \in DOMAIN t /\ (t \o x)[i] = t[i])
        <5> DEFINE n == Len(t)
                   u == t \o <<y>>
        <5>1. /\ n \in Nat /\ DOMAIN t = 1 .. n /\ DOMAIN u = 1 .. n + 1 /\ u[n + 1] = y
              /\ \A i \in 1 .. n : u[i] = t[i]
          <6>1. <<y>> \in Seq(GeneratedLine) /\ Len(<<y>>) = 1 /\ <<y>>[1] = y
            BY <3>3
          <6> QED
            BY <2>1, <6>1
        <5>2. u = t \o x
          BY <3>3
        <5> HIDE DEF n, u
        <5>3. \A i \in DOMAIN u : u[i] = y \/ (i \in DOMAIN t /\ u[i] = t[i])
          BY <5>1
        <5> QED
          BY <5>2, <5>3
      <4> QED
        BY <1>17, <2>1, <2>3, <3>1, <3>3, <4>1, <4>2
    <3> QED
      BY <1>12, <3>2, <3>3
  <2> QED
    BY <2>2, <2>3
<1>19. Explained'
  BY <1>14, <1>18 DEF Explained
<1>20. phase' = "write" \/ unp'.by = "parse" => NoOutput'
  BY <1>2, <1>5
<1> QED
  BY <1>15, <1>16, <1>19, <1>20 DEF ExplainedInv

(* A frame taken off the file hands over nothing, and leaves every reader's time. *)
LEMMA FrameKeepsTime ==
  ASSUME ReadTyped, ReadFrame \/ LeaveBlock
  PROVE  /\ got' = got
         /\ \A h \in Readers : /\ reader'[h].use = reader[h].use /\ reader'[h].id = reader[h].id
                               /\ reader'[h].ts = reader[h].ts
<1>1. got' = got
  BY Zenon DEF ReadFrame, LeaveBlock, ReadDefine, ReadBlock, SkipBlock, ReadTorn, ReadTornDefine, ReadUntagged, ReadEnd
<1>2. CASE ReadDefine
  <2>1. \A c \in ReadChan : LET d == [c EXCEPT !.state = "OPENED"]
                            IN  d.use = c.use /\ d.id = c.id /\ d.ts = c.ts
    BY DEF ReadChan
  <2>2. reader' = [h \in Readers |-> IF h \in FoundFor(Head(file).id)
                                     THEN [reader[h] EXCEPT !.state = "OPENED"] ELSE reader[h]]
    BY <1>2 DEF ReadDefine
  <2> QED
    BY <1>1, <2>1, <2>2 DEF ReadTyped
<1>3. CASE ReadBlock
  <2>1. PICK g : reader' = [reader EXCEPT ![g].block = Head(file).block]
    BY <1>3 DEF ReadBlock
  <2>2. \A c \in ReadChan : \A b : LET d == [c EXCEPT !.block = b]
                                   IN  d.use = c.use /\ d.id = c.id /\ d.ts = c.ts
    BY DEF ReadChan
  <2> QED
    BY <1>1, <2>1, <2>2 DEF ReadTyped
<1>4. CASE reader' = reader
  BY <1>1, <1>4
<1> QED
  BY <1>2, <1>3, <1>4 DEF ReadFrame, LeaveBlock, SkipBlock, ReadTorn, ReadTornDefine, ReadUntagged, ReadEnd

(* A channel selected anew has no entry; the others stay what they are, or go. *)
LEMMA CallsKeepEntries ==
  ASSUME ReaderInv, ReadTyped, PhpReaderCalls
  PROVE  /\ UNCHANGED phpuvars /\ got' = got /\ unp'.by = unp.by
         /\ \A g \in Readers : reader'[g].use = "unused" => reader[g].use = "unused"
         /\ \A g \in LiveReaders' : reader[g].use = "unused" \/ (g \in LiveReaders /\ reader'[g] = reader[g])
<1>1. UNCHANGED phpuvars /\ got' = got
  BY DEF PhpReaderCalls, PhpSelectChannel, SelectChannel, SelectRefused, PhpReaderClose, DropReader,
         PhpClearUnpackError, PhpUnpackClose, UnpackClose
<1>2. unp \in Unp /\ reader \in [Readers -> ReadChan]
  BY DEF ReadTyped
<1>3. CASE \E id \in ChannelIds : SelectChannel(id)
  <2>1. PICK id \in ChannelIds : SelectChannel(id)
    BY <1>3
  <2> DEFINE l == unp.linked \cup {unp.next}
             n == unp.next + 1
             k == unp.next
             c == NewReader(id, "live")
  <2>2. /\ k \in Readers /\ reader' = [reader EXCEPT ![k] = c]
        /\ unp' = [unp EXCEPT !.linked = l, !.next = n]
    BY <2>1 DEF SelectChannel, Listing
  <2>3. c.use = "live"
    BY DEF NewReader
  <2>4. reader[k].use = "unused"
    <3>1. k >= k
      BY <2>2 DEF Readers
    <3> QED
      BY <2>2, <3>1 DEF ReaderInv
  <2> HIDE DEF l, n, k, c
  <2>5. unp'.by = unp.by
    BY <1>2, <2>2 DEF Unp
  <2>6. \A i \in Readers : reader'[i] = IF i = k THEN c ELSE reader[i]
    BY <1>2, <2>2
  <2> QED
    BY <1>1, <2>3, <2>4, <2>5, <2>6 DEF LiveReaders
<1>4. CASE \E id \in ChannelIds : SelectRefused(id)
  BY <1>1, <1>2, <1>4 DEF SelectRefused, Unp, LiveReaders
<1>5. CASE PhpClearUnpackError
  BY <1>1, <1>2, <1>5 DEF PhpClearUnpackError, Unp, LiveReaders
<1>6. CASE (\E h \in Readers : DropReader(h)) \/ UnpackClose
  <2>1. unp'.by = unp.by
    <3>1. CASE UnpackClose
      BY <1>2, <3>1 DEF UnpackClose, Unp
    <3>2. CASE \E h \in Readers : DropReader(h)
      <4>1. PICK h \in Readers : DropReader(h)
        BY <3>2
      <4> DEFINE l == unp.linked \ {h}
      <4>2. unp' = [unp EXCEPT !.linked = l]
        BY <4>1 DEF DropReader
      <4> HIDE DEF l
      <4> QED
        BY <1>2, <4>2 DEF Unp
    <3> QED
      BY <1>6, <3>1, <3>2
  <2>2. \A i \in Readers : reader'[i] = reader[i] \/ reader'[i] = Freed(reader[i])
    <3>1. CASE \E h \in Readers : DropReader(h)
      BY <1>2, <3>1 DEF DropReader
    <3>2. CASE UnpackClose
      BY <3>2 DEF UnpackClose
    <3> QED
      BY <1>6, <3>1, <3>2
  <2>3. \A c : Freed(c).use = "freed"
    BY DEF Freed, NewReader
  <2> QED
    BY <1>1, <2>1, <2>2, <2>3 DEF LiveReaders
<1> QED
  BY <1>3, <1>4, <1>5, <1>6 DEF PhpReaderCalls, PhpSelectChannel, PhpReaderClose, PhpUnpackClose

LEMMA ExplainedStep ==
  ASSUME ~Reopen, ~LateSelect, ~SmallByGenerate, SessionTyped, SessionTyped', OnTape, ExplainedInv,
         [SNext]_svars
  PROVE  ExplainedInv'
<1>1. /\ ReadTyped /\ ReaderInv /\ file \in Seq(Frame) /\ sent \in [ChannelIds -> Seq(Row)]
  BY DEF SessionTyped, ContainersTyped, ListsInv, PackTyped
<1>2. CASE WriteScript \/ NextScript
  <2>1. phase = "write" /\ UNCHANGED <<entry, seen, got>>
    BY <1>2 DEF WriteScript, NextScript, PackerGone, PhpConstruct, UnpackInit, phpuvars
  <2>2. NoOutput /\ \A id \in ChannelIds : got[id] = <<>>
    BY <2>1 DEF ExplainedInv, OnTape, Pristine
  <2>3. NoOutput' /\ \A id \in ChannelIds : got'[id] = <<>>
    BY <2>1, <2>2 DEF NoOutput
  <2> QED
    BY <2>3, NothingExplained
<1>3. CASE ReadScript
  <2>1. UNCHANGED <<sent, chan, phase>> /\ phase = "read"
    BY <1>3 DEF ReadScript
  <2>2. CASE PhpReaderCalls
    <3>1. /\ UNCHANGED phpuvars /\ got' = got /\ unp'.by = unp.by
          /\ \A g \in Readers : reader'[g].use = "unused" => reader[g].use = "unused"
          /\ \A g \in LiveReaders' : reader[g].use = "unused" \/ (g \in LiveReaders /\ reader'[g] = reader[g])
      BY <1>1, <2>2, CallsKeepEntries
    <3>2. \A g \in LiveReaders' : \/ entry[g] = NoEntry
                                  \/ /\ g \in LiveReaders /\ reader'[g].id = reader[g].id
                                     /\ reader'[g].ts = reader[g].ts
      BY <3>1 DEF ExplainedInv, LiveReaders
    <3> QED
      BY <2>1, <3>1, <3>2, ExplainedSame DEF phpuvars
  <2>3. CASE PhpParse
    <3>1. unp'.by = "parse" /\ UNCHANGED <<entry, seen>> /\ unp.by = "parse"
      BY <1>1, <2>3, StepBy DEF PhpParse
    <3>2. NoOutput'
      BY <3>1 DEF ExplainedInv, NoOutput
    <3> QED
      BY <3>1, <3>2, NothingExplained
  <2>4. CASE PhpGenerate
    <3>1. ReadStep /\ unp.by = "generate" /\ unp'.by = unp.by
      BY <1>1, <2>4, StepBy DEF PhpGenerate
    <3>2. CASE ReadFrame \/ LeaveBlock
      <4>1. /\ got' = got
            /\ \A h \in Readers : /\ reader'[h].use = reader[h].use /\ reader'[h].id = reader[h].id
                                  /\ reader'[h].ts = reader[h].ts
        BY <1>1, <3>2, FrameKeepsTime
      <4>2. ~InBlock("generate")
        <5>1. CASE ReadFrame
          <6>1. unp.at = NoReader
            BY Zenon, <5>1 DEF ReadFrame, ReadDefine, ReadBlock, SkipBlock, ReadTorn, ReadTornDefine,
                        ReadUntagged, ReadEnd, AtFrame, Reading
          <6> QED
            BY <6>1 DEF InBlock, LiveReaders, NoReader, Readers
        <5>2. CASE LeaveBlock
          BY <5>2 DEF LeaveBlock, InBlock, Current
        <5> QED
          BY <3>2, <5>1, <5>2
      <4>3. UNCHANGED <<entry, seen>>
        BY <2>4, <4>2 DEF PhpGenerate
      <4> QED
        BY <2>1, <3>1, <4>1, <4>3, ExplainedSame DEF LiveReaders
    <3>3. CASE GenerateLine
      <4>1. InBlock("generate") /\ ReadsOn
        BY <2>1, <3>3 DEF GenerateLine, InBlock, OnTape
      <4>2. ~unp'.astray
        BY Zenon, <1>1, <3>3, <4>1, LineTaken DEF Taken
      <4> QED
        BY <2>1, <2>4, <4>1, <4>2, LineExplained
    <3> QED
      BY <3>1, <3>2, <3>3 DEF ReadStep, ParseRecord, InBlock
  <2> QED
    BY <1>3, <2>2, <2>3, <2>4 DEF ReadScript, PhpReadStep
<1>4. CASE UNCHANGED svars
  <2>1. UNCHANGED <<got, entry, seen, sent, phase, unp, reader>>
    BY <1>4 DEF svars, cvars, phpuvars
  <2> QED
    BY <2>1, ExplainedSame DEF LiveReaders
<1> QED
  BY <1>2, <1>3, <1>4 DEF SNext

LEMMA InitExplained == SInit => ExplainedInv
<1> SUFFICES ASSUME SInit PROVE ExplainedInv
  OBVIOUS
<1>1. /\ \A g \in Readers : entry[g] = NoEntry
      /\ \A id \in ChannelIds : seen[id] = <<>> /\ got[id] = <<>>
  BY DEF SInit, PhpUInit, UInit
<1>2. \A id \in ChannelIds : DOMAIN seen[id] = {}
  BY <1>1
<1> QED
  BY <1>1, <1>2, WithinNothing DEF ExplainedInv, NoOutput, Backed, LiveReaders, Explained

(***************************************************************************)
(* OticUnpack::generate, of a file that has all that was written: every    *)
(* row handed to a channel's callback is among what the loop returned for  *)
(* it, in order; and what it returned is, apart from names whose first row *)
(* is still to come, a row that was injected or such a row's sensor and    *)
(* value at a later time.  This holds for whatever else the first script   *)
(* left in the file: refused rows whose time stayed in the bucket, a torn  *)
(* frame, errors cleared or not.                                           *)
(***************************************************************************)
THEOREM GenerateExplains ==
  ASSUME ~Reopen, ~LateSelect, ~SmallByGenerate
  PROVE  SSpec => []GeneratedExplained
<1> DEFINE WhenWhole == ~script.short => OnTape /\ ExplainedInv
<1>1. SessionTyped /\ SessionTyped' /\ WhenWhole /\ [SNext]_svars => WhenWhole'
  <2> SUFFICES ASSUME SessionTyped, SessionTyped', WhenWhole, [SNext]_svars, ~script'.short
               PROVE  OnTape' /\ ExplainedInv'
    OBVIOUS
  <2>1. ~script.short /\ ~(WriteScript /\ StreamLoses)
    BY ShortStays
  <2>2. OnTape /\ ExplainedInv
    BY <2>1
  <2> QED
    BY <2>1, <2>2, SessionTapes, ExplainedStep
<1>2. WhenWhole => GeneratedExplained
  BY DEF ExplainedInv, Explained, GeneratedExplained
<1>3. SInit => WhenWhole
  BY InitTapes, InitExplained
<1> HIDE DEF WhenWhole
<1> QED
  BY <1>1, <1>2, <1>3, SessionAlways, PTL DEF SSpec

=============================================================================
