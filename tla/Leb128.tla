------------------------------- MODULE Leb128 -------------------------------
(***************************************************************************)
(* src/core/base.c: the LEB128 encodings, seven bits to a byte, with the   *)
(* width of the machine's words as a parameter (64 in the code).           *)
(***************************************************************************)
EXTENDS OticBase, Integers, FiniteSetsExt

Byte == 0 .. 255
Goes(byte) == byte >= 128     \* the bit that says that another byte follows
Bits(byte) == byte % 128
SignBit(byte) == byte % 128 >= 64

(* leb128_encode_unsigned. *)
Encoded[n \in Nat] ==
  IF n < 128 THEN <<n>> ELSE <<128 + (n % 128)>> \o Encoded[n \div 128]

(***************************************************************************)
(* leb128_decode_unsigned and _signed read up to the first byte that ends  *)
(* the number, and what is shifted out of the word is gone.                *)
(***************************************************************************)
Taken(bytes) == CHOOSE n \in DOMAIN bytes : ~Goes(bytes[n]) /\ \A i \in 1 .. n - 1 : Goes(bytes[i])

Assembled(bytes, w) ==
  MapThenSumSet(LAMBDA i : Bits(bytes[i]) * 2^(7 * (i - 1)), 1 .. Taken(bytes)) % 2^w

(* leb128_encode_signed: >>= of a negative number keeps its sign. *)
EncodedSigned[n \in Int] ==
  LET byte == n % 128
      more == n \div 128
  IN  IF more = (IF SignBit(byte) THEN -1 ELSE 0) THEN <<byte>>
      ELSE <<128 + byte>> \o EncodedSigned[more]

(* leb128_decode_signed: a sign bit is extended unless the word is full. *)
Signed(n, w) == IF n >= 2^(w - 1) THEN n - 2^w ELSE n

AssembledSigned(bytes, w) ==
  LET n == Taken(bytes)
  IN  Signed((Assembled(bytes, w) - (IF 7 * n < w /\ SignBit(bytes[n]) THEN 2^(7 * n) ELSE 0)) % 2^w, w)

-----------------------------------------------------------------------------
(***************************************************************************)
(* Every word is read as it was written, in as many bytes, whatever stands *)
(* behind it; unsigned ones in LebLen bytes, which is what the reserve of  *)
(* a bucket is reckoned with.  Looked at for words of 9 to 14 bits, of     *)
(* which the last byte holds two, five and seven.                          *)
(***************************************************************************)
Behind == <<200, 5>>

ReadsBack(w) ==
  /\ \A n \in 0 .. 2^w - 1 :
       /\ Assembled(Encoded[n] \o Behind, w) = n
       /\ Taken(Encoded[n] \o Behind) = LebLen(n)
  /\ \A n \in -(2^(w - 1)) .. 2^(w - 1) - 1 :
       /\ AssembledSigned(EncodedSigned[n] \o Behind, w) = n
       /\ Taken(EncodedSigned[n] \o Behind) = Len(EncodedSigned[n])

ASSUME LebReadsBack == \A w \in {9, 12, 14} : ReadsBack(w)

(* The length at every border between two lengths that TLC's integers reach. *)
ASSUME LebLength ==
  \A k \in 1 .. 30 : \A n \in {2^k - 1, 2^k} : Len(Encoded[n]) = LebLen(n)

=============================================================================
