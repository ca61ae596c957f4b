----------------------------- MODULE MCOticPipe -----------------------------
(***************************************************************************)
(* A writer with two long-named sensors on a bucket just above the         *)
(* smallest size and a reader following it.                                *)
(***************************************************************************)
EXTENDS OticPipe

MCNames == {"a", "b"}
MCUnits == {"u"}
MCNameLen == [n \in MCNames |-> IF n = "a" THEN 250 ELSE 253]
MCUnitLen == [u \in MCUnits |-> 1]
MCHashOf == [n \in MCNames |-> IF n = "a" THEN 7 ELSE 262]

Small(n) == [type |-> "INT_POS", val |-> n, size |-> 0]
Text(n, len) == [type |-> "STRING", val |-> n, size |-> len]

MCValues == {Small(5), Text(1, 500)}

(* A number beyond the word that the dictionary keeps of it, and its rest. *)
WideValues == {Small(5), Small(1005)}

(* Two strings, the first a proper prefix of the second. *)
PrefixValues == {Text(1, 5), Text(2, 9)}
PrefixExtends == {<<1, 2>>}
=============================================================================
