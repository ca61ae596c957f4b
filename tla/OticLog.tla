------------------------------ MODULE OticLog ------------------------------
(***************************************************************************)
(* What a channel of OTIC promises, with no bucket, dictionary, frame or   *)
(* file in it: a log to which the packer appends rows until it closes it,  *)
(* and a reader that goes through the log in order, one row at a time, and *)
(* hands over the rows of the sensors it wants.  The reader may stop       *)
(* anywhere (a crash of the packer, a damaged file), but learns that it    *)
(* has read everything only when it has.                                   *)
(***************************************************************************)
EXTENDS Naturals, Sequences

CONSTANTS
  AnyRow,    \* the rows: records with a field name
  AnyName    \* the sensor names

VARIABLES
  log,       \* the rows accepted so far
  closed,    \* no more will come
  position,  \* the rows read
  wanted,    \* the names to hand over, {} for all of them
  output,    \* the rows handed over
  finished   \* the reader has been told that the log is complete

lvars == <<log, closed, position, wanted, output, finished>>

LInit ==
  /\ log = <<>> /\ closed = FALSE
  /\ position = 0 /\ wanted = {} /\ output = <<>> /\ finished = FALSE

AppendRow ==
  /\ ~closed
  /\ Len(log') = Len(log) + 1 /\ SubSeq(log', 1, Len(log)) = log
  /\ log'[Len(log')] \in AnyRow
  /\ UNCHANGED <<closed, position, wanted, output, finished>>

CloseLog ==
  /\ ~closed /\ closed' = TRUE
  /\ UNCHANGED <<log, position, wanted, output, finished>>

ChooseNames ==
  /\ position = 0 /\ wanted' \in SUBSET AnyName
  /\ UNCHANGED <<log, closed, position, output, finished>>

Deliver ==
  /\ position < Len(log) /\ position' = position + 1
  /\ LET r == log[position + 1]
     IN  output' = IF wanted = {} \/ r.name \in wanted THEN Append(output, r) ELSE output
  /\ UNCHANGED <<log, closed, wanted, finished>>

Finish ==
  /\ closed /\ position = Len(log) /\ finished' = TRUE
  /\ UNCHANGED <<log, closed, position, wanted, output>>

LNext == AppendRow \/ CloseLog \/ ChooseNames \/ Deliver \/ Finish

LSpec == LInit /\ [][LNext]_lvars

=============================================================================
