---------------------------- MODULE MCPhpSession ----------------------------
(***************************************************************************)
(* As in MCContainers, ids are interchangeable and one representative of   *)
(* each permutation is looked at.  When a stream takes less makes no       *)
(* difference to the writer: here it does so of one frame of a file of at  *)
(* most four, when the destructor has run.                                 *)
(***************************************************************************)
EXTENDS PhpSession

MCIds == {0, 1, 2}
MCKinds == {"int", "bool"}

FirstOnes == chan[1].use # "unused" => chan[1].id = 1

OneLoss ==
  phase = "write" =>
    /\ script'.short => script.object = "destructed" /\ Len(file) <= 4
    /\ script.short => UNCHANGED file

MCSpec == SInit /\ [][SNext /\ FirstOnes' /\ OneLoss]_svars
=============================================================================
