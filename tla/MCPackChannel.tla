--------------------------- MODULE MCPackChannel ---------------------------
(***************************************************************************)
(* One packing channel on a bucket just above the smallest size, where two *)
(* new sensors with long names, or one long string, reach the threshold.   *)
(***************************************************************************)
EXTENDS PackChannel, Leb128

MCNames == {"long", "wide", "over"}
MCUnits == {"u"}
MCNameLen == [n \in MCNames |-> CASE n = "long" -> 250 [] n = "wide" -> 253 [] OTHER -> 254]
MCUnitLen == [u \in MCUnits |-> 1]
(* "long" and "over" share a chain of the hash table. *)
MCHashOf == [n \in MCNames |-> CASE n = "long" -> 7 [] n = "wide" -> 8 [] OTHER -> 262]

MCValues ==
  {[type |-> "INT_POS", val |-> 5, size |-> 0],      \* its own tag
   [type |-> "INT_NEG", val |-> 300, size |-> 0],
   [type |-> "STRING", val |-> 1, size |-> 506],     \* fills a small bucket to the threshold
   [type |-> "STRING", val |-> 2, size |-> 689],     \* longer than the threshold
   [type |-> "RAWBUFFER", val |-> 3, size |-> 243]}

(* Three sensors with short names, each in a chain of its own. *)
ShortNames == {"a", "b", "c"}
ShortNameLen == [n \in ShortNames |-> 1]
ShortHashOf == [n \in ShortNames |-> CASE n = "a" -> 1 [] n = "b" -> 2 [] OTHER -> 3]
=============================================================================
