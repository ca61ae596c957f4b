----------------------------- MODULE PhpSession -----------------------------
(***************************************************************************)
(* Two PHP scripts and a file: one packs with OticPack and ends, the other *)
(* reads what it left with OticUnpack.                                     *)
(***************************************************************************)
EXTENDS OticContainers, PhpPack, PhpUnpack

svars == <<cvars, phpvars, phpuvars>>

SInit == PhpInit /\ PhpUInit /\ phase = "write"

WriteScript ==
  /\ phase = "write"
  /\ (Blocks < MaxBlocks /\ ScriptCall) \/ ScriptEnd \/ StreamLoses
  /\ UNCHANGED <<unp, reader, got, phase, phpuvars>>

NextScript ==
  /\ script.object \in {"destructed", "freed"} /\ PackerGone
  /\ \E by \in {"parse", "generate"}, header \in Headers :
       Readable(by) /\ PhpConstruct(by, header)
  /\ script' = [script EXCEPT !.held = {}, !.object = "freed", !.quiet = FALSE, !.silent = FALSE]
  /\ returned' = 0

ReadScript ==
  /\ phase = "read"
  /\ PhpReaderCalls \/ (unp.linked # {} /\ PhpReadStep)
  /\ UNCHANGED <<pack, chan, sent, phase, phpvars>>

SNext == WriteScript \/ NextScript \/ ReadScript

SSpec == SInit /\ [][SNext]_svars

-----------------------------------------------------------------------------
(* Properties. *)

SessionTypeOK ==
  /\ PhpPackTypeOK /\ ContainersTypeOK
  /\ heard \in BOOLEAN /\ misled \in BOOLEAN /\ entry \in [Readers -> Entry]
  /\ seen \in [ChannelIds -> Seq(GeneratedLine)]

(* DestructorWhole, as long as nobody has read of the file, and if the stream took all it
   was given: of what it did not take nobody hears. *)
FileLeftWhole == phase = "write" /\ ~script.short => DestructorWhole

(***************************************************************************)
(* A loop over parse that ended without an exception, and was not ended by *)
(* close, left no error behind, in whichever call it was set and whether   *)
(* that call went on or not; and it has read the whole file, unless it met *)
(* a frame that is not what it seems.                                      *)
(***************************************************************************)
QuietEnd == unp.ended /\ unp.by = "parse" /\ ~heard /\ unp.state # "CLOSED"

QuietLoopReadAll == QuietEnd => unp.state = "OPENED" /\ (file = <<>> \/ misled)

(***************************************************************************)
(* What generate returns, of a file that has all that was written: every   *)
(* row handed over is among it, in order; and besides names without a      *)
(* value, all of it is rows that were injected, or such a row's sensor and *)
(* value again at a later time (the time record ahead of the next row is   *)
(* returned too).                                                          *)
(***************************************************************************)
Injected(id, line) ==
  \E i \in DOMAIN sent[id] :
    /\ sent[id][i].sensor = line.sensor /\ sent[id][i].value = line.value
    /\ sent[id][i].time <= line.time

Within(s, t) ==
  \E f \in [DOMAIN s -> DOMAIN t] :
    \A i \in DOMAIN s : t[f[i]] = s[i] /\ \A j \in DOMAIN s : i < j => f[i] < f[j]

GeneratedExplained ==
  ~script.short => \A id \in ChannelIds :
    /\ unp.by = "generate" => Within(got[id], seen[id])
    /\ \A i \in DOMAIN seen[id] : seen[id][i].value # NoValue => Injected(id, seen[id][i])

=============================================================================
