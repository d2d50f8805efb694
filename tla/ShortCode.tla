----------------------------- MODULE ShortCode -----------------------------
(***************************************************************************)
(* Short codes of endpoint ids (src/src/contacts.rs): Crockford Base32     *)
(* with a check symbol, and the parser that also takes codes of an older   *)
(* version without one.  A symbol is its index in the alphabet; case,      *)
(* dashes and look-alike letters are folded before.  Ids have IdBytes      *)
(* bytes (32 in the code; every length makes the same loops).              *)
(*                                                                         *)
(* The shift register is a u32 that overflows on purpose.  At most twelve  *)
(* of its bits are ever read, and it is kept modulo 2^16.                  *)
(***************************************************************************)
EXTENDS Naturals, Sequences, SequencesExt

CONSTANTS IdBytes,      \* length of an id
          SampleByte    \* bytes the facts below are checked on

Width == 2^16
Bits(x, from, n) == (x \div 2^from) % 2^n

(* `check_symbol`.                                                         *)
CheckSymbol(data) == FoldLeft(LAMBDA x, b : (x * 31 + b) % Width, 0, data) % 32

(* `encode_crockford`: a byte goes in, five bits at a time come out.       *)
PutByte(s, b) ==
    LET buf == (s.buf * 256 + b) % Width
        n   == s.nbits + 8
    IN [buf |-> buf, nbits |-> n % 5,
        out |-> s.out \o [i \in 1..(n \div 5) |-> Bits(buf, n - 5 * i, 5)]]

EncodeCrockford(data) ==
    LET s == FoldLeft(PutByte, [buf |-> 0, nbits |-> 0, out |-> <<>>], data)
    IN IF s.nbits = 0 THEN s.out
       ELSE Append(s.out, (s.buf * 2^(5 - s.nbits)) % 32)

(* `decode_crockford`.                                                     *)
PutSymbol(s, v) ==
    LET buf == (s.buf * 32 + v) % Width
        n   == s.nbits + 5
    IN IF n >= 8 THEN [buf |-> buf, nbits |-> n - 8, out |-> Append(s.out, Bits(buf, n - 8, 8))]
                 ELSE [buf |-> buf, nbits |-> n, out |-> s.out]

DecodeCrockford(code) ==
    FoldLeft(PutSymbol, [buf |-> 0, nbits |-> 0, out |-> <<>>], code).out

(* `encode_short_code`.                                                    *)
EncodeShortCode(id) == Append(EncodeCrockford(id), CheckSymbol(id))

(* `parse_endpoint_token` on a token that is not an id in hex.             *)
Payload == (8 * IdBytes + 4) \div 5
Refused == <<>>
ParseEndpointToken(code) ==
    CASE Len(code) = Payload + 1 ->
           LET id == SubSeq(DecodeCrockford(Front(code)), 1, IdBytes)
           IN IF CheckSymbol(id) = Last(code) THEN id ELSE Refused
      [] Len(code) = Payload -> SubSeq(DecodeCrockford(code), 1, IdBytes)
      [] OTHER -> Refused

-----------------------------------------------------------------------------
Id == [1..IdBytes -> SampleByte]

(* What the loops compute, without loops: symbol i is bits 5i to 5i+4 of   *)
(* the id read as one string of bits, the last symbol filled with zeros.   *)
BitOf(id, k) == IF k >= 8 * IdBytes THEN 0 ELSE Bits(id[(k \div 8) + 1], 7 - (k % 8), 1)
SymbolAt(id, i) ==
    16 * BitOf(id, 5 * i) + 8 * BitOf(id, 5 * i + 1) + 4 * BitOf(id, 5 * i + 2)
      + 2 * BitOf(id, 5 * i + 3) + BitOf(id, 5 * i + 4)

(* The encoder is the bit-slice definition.                                *)
ASSUME EncoderSlices ==
    \A id \in Id : EncodeCrockford(id) = [i \in 1..Payload |-> SymbolAt(id, i - 1)]

(* A code that was printed is read back, in the new form and in the older. *)
ASSUME RoundTrip ==
    \A id \in Id : /\ ParseEndpointToken(EncodeShortCode(id)) = id
                   /\ ParseEndpointToken(EncodeCrockford(id)) = id

(* A wrong symbol is caught when it changes the low five bits of a byte;   *)
(* the three high bits of each byte do not reach the check symbol.         *)
ASSUME LowBitsChecked ==
    \A id \in Id : \A i \in 1..IdBytes : \A b \in SampleByte :
      (b % 32 = id[i] % 32) <=> (CheckSymbol([id EXCEPT ![i] = b]) = CheckSymbol(id))
=============================================================================
