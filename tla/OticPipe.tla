------------------------------ MODULE OticPipe ------------------------------
(***************************************************************************)
(* A packing channel, the file, and the unpacking channel of the same id:  *)
(* the reader follows the writer through the file while the user's calls   *)
(* go on, the writer's process may die between two calls or in the middle  *)
(* of a flush, and whatever happens the reader hands over the rows the     *)
(* packer accepted, in order, as the log of OticLog.                       *)
(***************************************************************************)
EXTENDS PackChannel, UnpackChannel

CONSTANT LateFetch    \* may a fetch list be set once names have been read?

ASSUME PipeAssumption == LateFetch \in BOOLEAN

VARIABLE crashed      \* the writer's process is gone

pvars == <<pk, wire, rows, up, got, crashed>>

PipeInit == Init /\ UInit /\ crashed = FALSE

Write == ~crashed /\ Next /\ UNCHANGED <<up, got, crashed>>

(* A crash inside a flush leaves a header, or part of one, in the file. *)
Crash ==
  /\ ~crashed /\ pk.handle = "live" /\ crashed' = TRUE
  /\ \/ UNCHANGED wire
     \/ pk.bucket # <<>> /\ wire' = Append(wire, TornFrame)
  /\ UNCHANGED <<pk, rows, up, got>>

(* The fetcher waits for bytes as long as the writer may still write some. *)
WriterGone == crashed \/ pk.handle # "live"

ReadFile ==
  /\ Parse \/ ReadRecord \/ (WriterGone /\ ParseEnd)
  /\ UNCHANGED <<pk, rows, crashed>>

Fetch ==
  /\ LateFetch \/ up.entries = <<>>
  /\ \E list \in FetchLists : SetFetch(list)
  /\ UNCHANGED <<pk, rows, crashed>>

PipeNext == Write \/ Crash \/ ReadFile \/ Fetch

(***************************************************************************)
(* The caller of otic_unpack_parse calls it until it returns 0; nothing    *)
(* makes the packing side's caller call, close or crash.                   *)
(***************************************************************************)
PipeSpec == PipeInit /\ [][PipeNext]_pvars /\ WF_pvars(ReadFile)

-----------------------------------------------------------------------------
(* Properties. *)

(* The reader's half has the shape declared in UnpackChannel. *)
ReaderTypeOK ==
  TypeOK /\ up \in Reader /\ got \in Seq(Delivery) /\ crashed \in BOOLEAN

(***************************************************************************)
(* The pipe implements the log: rows reach the callback unchanged, in      *)
(* order, none twice and none skipped, under refused injections, failed    *)
(* flushes, retries and a crash; and an accepted end means a whole log.    *)
(***************************************************************************)
Log == INSTANCE OticLog WITH
  AnyRow <- Row, AnyName <- Names,
  log <- rows, closed <- pk.handle = "freed", position <- up.rowCounter,
  wanted <- up.fetch, output <- got, finished <- up.complete

ImplementsLog == Log!LSpec

(***************************************************************************)
(* parseBlock never follows an index the reader's dictionary does not hold *)
(* nor shifts a timestamp that was never set: neither is tested for.       *)
(***************************************************************************)
NoWildRead ==
  up.block # <<>> =>
    /\ IsRow(Current) => InDictionary(Current.index)
    /\ Current.tok = "SHIFT_TIMESTAMP" => up.ts # TsNull

(***************************************************************************)
(* The body of a data frame is read into a buffer of cacheSize bytes: when *)
(* its turn comes, the reader's buffers are as large as the packer's were, *)
(* resized or not, provided the packer's announcement was written.         *)
(***************************************************************************)
ReaderFits == AtFrame("DATA") /\ ~pk.unheard => Head(wire).cap <= up.cacheSize

(* The same, with no proviso. *)
ReaderAlwaysFits == AtFrame("DATA") => Head(wire).cap <= up.cacheSize

(***************************************************************************)
(* The row count of the EOF record agrees with the rows read: the reader   *)
(* never takes a sound file for a damaged one.                             *)
(***************************************************************************)
CountAgrees == up.error # "ROW_COUNT_MISMATCH"

(***************************************************************************)
(* A row of a sensor in the fetch list is handed over when it is read.     *)
(***************************************************************************)
FetchHonoured ==
  [][ReadRow /\ up.entries[Current.index + 1].name \in up.fetch
       => Len(got') = Len(got) + 1]_pvars

(***************************************************************************)
(* What is read back is what was injected, but for the unit: the rows      *)
(* handed over to a reader without a fetch list begin the rows injected.   *)
(***************************************************************************)
ReadBackSame ==
  up.fetch = {} =>
    \A i \in DOMAIN got :
      got[i].time = rows[i].time /\ got[i].name = rows[i].name /\ got[i].value = rows[i].value

(***************************************************************************)
(* A file that was closed with no flush failing is read to its end, and    *)
(* the reader learns that it is complete.                                  *)
(***************************************************************************)
ReadsToTheEnd == pk.handle = "freed" /\ ~pk.flushFailed ~> up.complete

=============================================================================
