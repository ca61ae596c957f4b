------------------------------ MODULE OticBase ------------------------------
(***************************************************************************)
(* The vocabulary shared by the packing and the unpacking side of OTIC:    *)
(* the constants of include/core/base.h, the sensor dictionary's inputs,   *)
(* the values that can be injected, the records ("tokens") a channel       *)
(* writes into its bucket with the number of bytes each one takes.         *)
(*                                                                         *)
(* A name, a unit, a string or a double is an abstract element; what the   *)
(* code does with it (its length, its hash, its equality) is kept.         *)
(***************************************************************************)
EXTENDS Naturals, Sequences, FiniteSets

CONSTANTS
  Names,      \* sensor names a caller uses
  Units,      \* units a caller uses
  NameLen,    \* NameLen[n]: strlen of a name
  UnitLen,    \* UnitLen[u]: strlen of a unit
  HashOf,     \* HashOf[n]: the 31-multiplicative hash of a name, not reduced
  Values,     \* what a caller injects: records [type, val, size]
  IndexMod,   \* totalEntries is a uint16_t: 65536
  WordMod,    \* entry_insert_u and _un take a uint32_t: 2^32
  TsNull      \* TS_NULL, (uint64_t)-1

-----------------------------------------------------------------------------
(* include/core/base.h and include/core/pack.h: the numbers of the format. *)
SmallIntLimit == 201     \* SMALL_INT_LIMIT, 0xC9
TopLimit == 512          \* OTIC_PACK_CACHE_TOP_LIMIT
Uint8Max == 255
DefaultBucket == 1638400 \* OTIC_BASE_CACHE_SIZE
MinBucket == 1024        \* resizeBucket accepts only more than this
CacheBuckets == 255      \* OTIC_PACK_CACHE_SIZE
IndexLimit == 65536      \* the values of totalEntries, a uint16_t

IntTypes == {"INT_POS", "INT_NEG"}
BoolTypes == {"TRUE", "FALSE"}
ValueTypes == IntTypes \cup BoolTypes \cup {"NULL", "DOUBLE", "STRING", "RAWBUFFER"}

(***************************************************************************)
(* One value: val is the number of an integer, and an identity for a       *)
(* double, a string or a buffer; size is the length in bytes of a string   *)
(* or a buffer.                                                            *)
(***************************************************************************)
Value == [type : ValueTypes, val : Nat, size : Nat]

ASSUME BaseAssumption ==
  /\ NameLen \in [Names -> Nat] /\ UnitLen \in [Units -> Nat]
  /\ HashOf \in [Names -> Nat]
  /\ Values \subseteq Value
  /\ IndexMod \in 1 .. IndexLimit
  /\ WordMod \in Nat /\ WordMod > SmallIntLimit
  /\ TsNull \notin Nat

-----------------------------------------------------------------------------
(***************************************************************************)
(* leb128_encode_unsigned: seven bits to a byte.  The length of a number   *)
(* below 2^28 by comparison, of a longer one from its higher part, up to   *)
(* the ten bytes of a 64-bit word.                                         *)
(***************************************************************************)
LebBlock == 268435456    \* 2^28, four groups of seven bits

LebLow(n) == IF n < 128 THEN 1 ELSE IF n < 16384 THEN 2 ELSE IF n < 2097152 THEN 3 ELSE 4

LebLen(n) ==
  IF n < LebBlock THEN LebLow(n)
  ELSE LET high == n \div LebBlock
       IN  IF high < LebBlock THEN 4 + LebLow(high) ELSE IF high \div LebBlock < 128 THEN 9 ELSE 10

-----------------------------------------------------------------------------
(* Tokens: the records of a bucket. *)
TsToken(tag, n) == [tok |-> tag, arg |-> n]
NameToken(n, u) == [tok |-> "NAME_ASSIGN", name |-> n, unit |-> u]
RepeatToken(i) == [tok |-> "UNMODIFIED", index |-> i]
EofToken(n) == [tok |-> "EOF", arg |-> n]

(* A small integer is its own tag byte; every other value has its type's. *)
IsSmall(v) == v.type = "INT_POS" /\ v.val < SmallIntLimit
Tag(v) == IF IsSmall(v) THEN "SMALL" ELSE v.type
ValueToken(i, v) == [tok |-> Tag(v), index |-> i, value |-> v]

RowTags == ValueTypes \cup {"SMALL", "UNMODIFIED"}
IsRow(t) == t.tok \in RowTags

Token ==
  [tok : {"SET_TIMESTAMP", "SHIFT_TIMESTAMP", "EOF"}, arg : Nat]
    \cup [tok : {"NAME_ASSIGN"}, name : Names, unit : Units]
    \cup [tok : {"UNMODIFIED"}, index : Nat]
    \cup [tok : ValueTypes \cup {"SMALL"}, index : Nat, value : Values]

(* The bytes each record takes. *)
NameSize(n, u) == NameLen[n] + 1 + UnitLen[u]
NameTokenSize(n, u) == 2 + NameSize(n, u)
ArgTokenSize(n) == 1 + LebLen(n)

PayloadSize(v) ==
  CASE v.type \in IntTypes -> IF IsSmall(v) THEN 0 ELSE LebLen(v.val)
    [] v.type = "DOUBLE" -> 8
    [] v.type = "STRING" -> LebLen(v.size) + v.size
    [] v.type = "RAWBUFFER" -> 8 + v.size
    [] OTHER -> 0

ValueTokenSize(i, v) == ArgTokenSize(i) + PayloadSize(v)

-----------------------------------------------------------------------------
States == {"OPENED", "ON_ERROR", "CLOSED"}
Errors == {"NONE", "BUFFER_OVERFLOW", "INVALID_TIMESTAMP", "ZSTD", "FLUSH_FAILED", "EOF",
           "ROW_COUNT_MISMATCH", "INVALID_ARGUMENT", "AT_INVALID_STATE",
           "ALLOCATION_FAILURE", "DATA_CORRUPTED"}

=============================================================================
