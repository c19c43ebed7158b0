----------------------------- MODULE FalconCodec -----------------------------
(***************************************************************************)
(* Encodings of polynomials, src/submodules/FN-DSA/codec.c: 14 bits per    *)
(* coefficient modulo q (public keys), a fixed number of bits (private     *)
(* keys, padded signatures), and sign, low bits and unary high bits        *)
(* (compressed signatures).                                                *)
(*                                                                         *)
(* A polynomial is the sequence of its coefficients, a buffer a sequence   *)
(* of bytes.  What the code shifts through its accumulator is the sequence *)
(* of bits not yet written or read.                                        *)
(***************************************************************************)
EXTENDS Integers, Sequences, SequencesExt

CONSTANTS
  ByteBits,  \* 8
  LowBits,   \* 7
  MaxAbs,    \* 2047
  Modulus,   \* 12289
  ModqBits,  \* 14
  NoResult   \* a refusal: the code returns 0

(* "We pushed exactly 8 bits", codec.c:356; one coefficient modulo q ends  *)
(* in every byte at most; the high bits are those of whole multiples.      *)
WidthAssumption ==
  /\ ByteBits = LowBits + 1 /\ ModqBits >= ByteBits
  /\ Modulus \in 1 .. 2^ModqBits /\ (MaxAbs + 1) % 2^LowBits = 0

Bytes    == 0 .. 2^ByteBits - 1
Abs(t)   == IF t < 0 THEN -t ELSE t
Zeros(k) == [i \in 1 .. k |-> 0]

-----------------------------------------------------------------------------
(* Slips the code could contain, none of them used below.                  *)

MinusZeroAllowed(s, a)    == FALSE
OutOfRangeHigh(t, max)    == t > max

-----------------------------------------------------------------------------
BitsOf(w, k)  == [i \in 1 .. k |-> (w \div 2^(k - i)) % 2]
ValueOf(bits) == FoldLeft(LAMBDA w, bit : 2 * w + bit, 0, bits)
BitString(buf) == FlattenSeq([i \in DOMAIN buf |-> BitsOf(buf[i], ByteBits)])
ByteLen(k)    == (k + ByteBits - 1) \div ByteBits

(* The bits with the last byte filled up with zeros.                       *)
Packed(bits) ==
  LET full == bits \o Zeros(ByteBits * ByteLen(Len(bits)) - Len(bits))
  IN  [i \in 1 .. ByteLen(Len(bits)) |->
         ValueOf(SubSeq(full, ByteBits * (i - 1) + 1, ByteBits * i))]

(* A slip: no check before the last byte.                                  *)
WrittenFlushUnchecked(bits, isNull, max_out_len) ==
  CASE isNull -> ByteLen(Len(bits))
    [] ~isNull /\ Len(bits) \div ByteBits <= max_out_len -> Packed(bits)
    [] OTHER -> NoResult

(* The end of an encoder: a NULL buffer asks for the length.               *)
Written(bits, isNull, max_out_len) ==
  CASE isNull -> ByteLen(Len(bits))
    [] ~isNull /\ ByteLen(Len(bits)) <= max_out_len -> Packed(bits)
    [] OTHER -> NoResult

-----------------------------------------------------------------------------
(* Unused bits in the last byte must be zero.                              *)
PaddingZero(bits, pos) ==
  \A i \in pos .. ByteBits * ByteLen(pos - 1) : bits[i] = 0

modq_encode(x, isNull, max_out_len) ==
  IF \E u \in DOMAIN x : x[u] >= Modulus THEN NoResult
  ELSE Written(FlattenSeq([u \in DOMAIN x |-> BitsOf(x[u], ModqBits)]), isNull, max_out_len)

(* The coefficients of a fixed width, and the bits they leave.             *)
FieldsOf(in, n, width) == [u \in 1 .. n |-> ValueOf(SubSeq(BitString(in), width * (u - 1) + 1, width * u))]

modq_decode(n, in) ==
  IF ByteLen(n * ModqBits) > Len(in) THEN NoResult
  ELSE LET x == FieldsOf(in, n, ModqBits) IN
       IF (\E u \in 1 .. n : x[u] >= Modulus) \/ ~PaddingZero(BitString(in), n * ModqBits + 1)
         THEN NoResult
         ELSE [x |-> x, len |-> ByteLen(n * ModqBits)]

OutOfRange(t, max) == t < -max \/ t > max

trim_i16_encode(x, width, isNull, max_out_len) ==
  IF \E u \in DOMAIN x : OutOfRange(x[u], 2^(width - 1) - 1) THEN NoResult
  ELSE Written(FlattenSeq([u \in DOMAIN x |-> BitsOf(x[u] % 2^width, width)]), isNull, max_out_len)

SignExtended(w, width) == IF w >= 2^(width - 1) THEN w - 2^width ELSE w

(* The value -2^(bits-1) is forbidden.                                     *)
Forbidden(w, width) == w = -(2^(width - 1))

trim_i16_decode(n, width, in) ==
  IF ByteLen(n * width) > Len(in) THEN NoResult
  ELSE LET x == [u \in 1 .. n |-> SignExtended(FieldsOf(in, n, width)[u], width)] IN
       IF (\E u \in 1 .. n : Forbidden(x[u], width)) \/ ~PaddingZero(BitString(in), n * width + 1)
         THEN NoResult
         ELSE [x |-> x, len |-> ByteLen(n * width)]

(* The same code on coefficients of 8 bits, for widths up to 8.            *)
trim_i8_encode(x, width, isNull, max_out_len) == trim_i16_encode(x, width, isNull, max_out_len)
trim_i8_decode(n, width, in)                  == trim_i16_decode(n, width, in)

-----------------------------------------------------------------------------
CoefficientBits(t) ==
  <<IF t < 0 THEN 1 ELSE 0>> \o BitsOf(Abs(t) % 2^LowBits, LowBits)
    \o Zeros(Abs(t) \div 2^LowBits) \o <<1>>

comp_encode(x, isNull, max_out_len) ==
  IF \E u \in DOMAIN x : OutOfRange(x[u], MaxAbs) THEN NoResult
  ELSE Written(FlattenSeq([u \in DOMAIN x |-> CoefficientBits(x[u])]), isNull, max_out_len)

MinusZero(s, a) == s = 1 /\ a = 0
TooLarge(a)     == a > MaxAbs

(* One coefficient, from place pos on: sign and low bits, then zeros up to *)
(* a one.  NoResult when the bits run out or the value is refused.         *)
Coefficient(bits, pos) ==
  LET high == {z \in pos + ByteBits .. Len(bits) : bits[z] = 1}
      one  == CHOOSE z \in high : \A y \in high : z <= y
      s    == bits[pos]
      a    == ValueOf(SubSeq(bits, pos + 1, pos + LowBits)) + 2^LowBits * (one - pos - ByteBits)
  IN  IF high = {} THEN NoResult
      ELSE IF TooLarge(a) \/ MinusZero(s, a) THEN NoResult
      ELSE [x |-> IF s = 1 THEN -a ELSE a, next |-> one + 1]

comp_decode(n, in) ==
  LET bits == BitString(in)
      read[u \in 0 .. n] ==
        IF u = 0 THEN [x |-> <<>>, next |-> 1]
        ELSE LET before == read[u - 1] IN
             IF before = NoResult THEN NoResult
             ELSE LET c == Coefficient(bits, before.next) IN
                  IF c = NoResult THEN NoResult
                  ELSE [x |-> Append(before.x, c.x), next |-> c.next]
  IN  IF read[n] = NoResult THEN NoResult
      ELSE IF ~PaddingZero(bits, read[n].next) THEN NoResult
      ELSE [x |-> read[n].x, len |-> ByteLen(read[n].next - 1)]

-----------------------------------------------------------------------------
(* Every polynomial of two coefficients around the limits, written into    *)
(* room of every size, and every buffer of up to four bytes, read.         *)

(* Widths up to a byte are those of the 8-bit functions.                   *)
Widths   == {2, 3, 4}
TrimEncode(a, w, isNull, room) ==
  IF w <= ByteBits THEN trim_i8_encode(a, w, isNull, room) ELSE trim_i16_encode(a, w, isNull, room)
TrimDecode(n, w, in) ==
  IF w <= ByteBits THEN trim_i8_decode(n, w, in) ELSE trim_i16_decode(n, w, in)

Elements == -(MaxAbs + 2) .. MaxAbs + 2
MaxBytes == 4

VARIABLES job, x, buf
vars == <<job, x, buf>>

Init ==
  \/ job = "encode" /\ x \in [1 .. 2 -> Elements] /\ buf = <<>>
  \/ job = "decode" /\ x = <<>> /\ buf = <<>>

(* Buffers grow byte by byte.                                              *)
AppendByte ==
  /\ job = "decode" /\ Len(buf) < MaxBytes
  /\ \E byte \in Bytes : buf' = Append(buf, byte)
  /\ UNCHANGED <<job, x>>

Spec == Init /\ [][AppendByte]_vars

-----------------------------------------------------------------------------
(* What an encoder writes is read back, and all of it is used; values out  *)
(* of range are refused (the encoders and decoders).                       *)
ReadBack ==
  job = "encode" =>
    /\ \A out \in {comp_encode(x, FALSE, MaxBytes)} :
         IF \E u \in 1 .. 2 : Abs(x[u]) > MaxAbs THEN out = NoResult
         ELSE comp_decode(2, out) = [x |-> x, len |-> Len(out)]
    /\ \A width \in Widths : \A out \in {TrimEncode(x, width, FALSE, MaxBytes)} :
         IF \E u \in 1 .. 2 : Abs(x[u]) >= 2^(width - 1) THEN out = NoResult
         ELSE TrimDecode(2, width, out) = [x |-> x, len |-> Len(out)]
    /\ (\A u \in 1 .. 2 : x[u] >= 0) =>
         \A out \in {modq_encode(x, FALSE, MaxBytes)} :
           IF \E u \in 1 .. 2 : x[u] >= Modulus THEN out = NoResult
           ELSE modq_decode(2, out) = [x |-> x, len |-> Len(out)]

(* The length asked for with a NULL buffer is the length written, and the  *)
(* least room in which anything is (the encoders).                         *)
LengthsAgree ==
  job = "encode" =>
    \A room \in 0 .. MaxBytes :
      \A <<asked, out>> \in
           {<<comp_encode(x, TRUE, 0), comp_encode(x, FALSE, room)>>}
           \cup {<<TrimEncode(x, w, TRUE, 0), TrimEncode(x, w, FALSE, room)>> : w \in Widths} :
        IF asked = NoResult THEN out = NoResult
        ELSE IF room < asked THEN out = NoResult ELSE Len(out) = asked

(* A polynomial has one encoding: a buffer that is accepted begins with    *)
(* the bytes the encoder writes, so that nobody can write the same         *)
(* signature or key in a second way (the decoders).                        *)
OneEncoding ==
  job = "decode" =>
    /\ \A in \in {comp_decode(2, buf)} :
         in # NoResult => comp_encode(in.x, FALSE, MaxBytes) = SubSeq(buf, 1, in.len)
    /\ \A width \in Widths : \A in \in {TrimDecode(2, width, buf)} :
         in # NoResult => TrimEncode(in.x, width, FALSE, MaxBytes) = SubSeq(buf, 1, in.len)
    /\ \A in \in {modq_decode(2, buf)} :
         in # NoResult => modq_encode(in.x, FALSE, MaxBytes) = SubSeq(buf, 1, in.len)
=============================================================================
