------------------------------ MODULE MCFalcon ------------------------------
(***************************************************************************)
(* One run for the parts of Falcon that sample, verify, sign and encode.   *)
(* They share no state, so each behaviour is one of one part; the          *)
(* variables x1, x2, ... are those of the part, in the order of its        *)
(* module; GpuSampler and FalconSign, with the transforms, keep their own. *)
(***************************************************************************)
EXTENDS GpuSampler, MCFalconSign

CONSTANT NoResult

VARIABLES part, x1, x2, x3, x4, x5, x6

Rest3 == <<x3, x4, x5, x6>>
Rest4 == <<x4, x5, x6>>
Rest5 == <<x5, x6>>

Unused5 == x5 = 0 /\ x6 = 0
Unused4 == x4 = 0 /\ Unused5
Unused3 == x3 = 0 /\ Unused4

-----------------------------------------------------------------------------
Ntt    == INSTANCE MCNtt WITH logn <- x1, a <- x2, b <- x3, product <- x4, x <- x5, y <- x6
Verify == INSTANCE FalconVerify WITH key <- x1, c0 <- x2, s2 <- x3, verdict <- x4

(* Bytes of three bits.                                                    *)
Codec  == INSTANCE FalconCodec WITH job <- x1, x <- x2, buf <- x3,
            ByteBits <- 3, LowBits <- 2, MaxAbs <- 11, Modulus <- 13, ModqBits <- 4

Gauss  == INSTANCE FalconSampler WITH job <- x1, arg <- x2, value <- x3,
            ByteBits <- 2, Bytes <- 3, Isigmas <- 18 .. 26
Sizes  == INSTANCE MCFalconSizes WITH fn <- x1, logn <- x2, at <- x3, layout <- x4, size <- x5

(* What the parts assume of their constants holds in these instances.      *)
ASSUME PartsAssumption == Codec!WidthAssumption /\ FieldAssumption

-----------------------------------------------------------------------------
NoDevice == job = "none" /\ arg = 0 /\ value = <<>>
NoFft  == a = <<>> /\ b = <<>> /\ fa = <<>> /\ fb = <<>>
NoSign == key = <<>> /\ hm = <<>> /\ m = <<>> /\ tree = <<>> /\ dyn = <<>> /\ attempts = 0
NoPart == x1 = 0 /\ x2 = 0 /\ Unused3
Plain  == logn = 1 /\ avx2 = FALSE

MCInit ==
  \/ part = "sign" /\ SignInit /\ NoDevice /\ NoFft /\ NoPart
  \/ part = "device" /\ Init /\ Plain /\ NoFft /\ NoSign /\ NoPart
  \/ part = "fft" /\ FftInit /\ NoDevice /\ NoSign /\ NoPart
  \/ /\ NoDevice /\ Plain /\ NoFft /\ NoSign
     /\ \/ part = "modq" /\ Ntt!SweepInit /\ x1 = 0 /\ x2 = 0 /\ x3 = 0 /\ x4 = 0
        \/ part = "ntt" /\ Ntt!MultiplyInit /\ Unused5
        \/ part = "verify" /\ Verify!Init /\ Unused5
        \/ part = "codec" /\ Codec!Init /\ Unused4
        \/ part = "gauss" /\ Gauss!Init /\ Unused4
        \/ part = "sizes" /\ Sizes!Init /\ x6 = 0

DeviceStep == /\ part = "device" /\ Compute
              /\ UNCHANGED <<part, logn, avx2, fft_vars, sign_vars, x1, x2, Rest3>>
FftStep  == /\ part = "fft" /\ Transform
            /\ UNCHANGED <<part, vars, sign_vars, x1, x2, Rest3>>
SignStep == /\ part = "sign" /\ SignNext
            /\ UNCHANGED <<part, vars, fft_vars, x1, x2, Rest3>>

OtherStep ==
  /\ UNCHANGED <<part, vars, logn, avx2, fft_vars, sign_vars>>
  /\ \/ part = "modq" /\ Ntt!Sweep /\ UNCHANGED <<x1, x2, x3, x4>>
     \/ part = "ntt" /\ Ntt!Multiply /\ UNCHANGED Rest5
     \/ part = "verify" /\ Verify!Verify /\ UNCHANGED Rest5
     \/ part = "codec" /\ Codec!AppendByte /\ UNCHANGED Rest4
     \/ part = "gauss" /\ Gauss!Compute /\ UNCHANGED Rest4
     \/ part = "sizes" /\ Sizes!Lay /\ UNCHANGED x6

MCNext == DeviceStep \/ FftStep \/ SignStep \/ OtherStep
MCSpec == MCInit /\ [][MCNext]_<<part, vars, logn, avx2, fft_vars, sign_vars, x1, x2, Rest3>>

-----------------------------------------------------------------------------

(* The arithmetic modulo q is exact on all operands swept, and a product   *)
(* through the transforms of vrfy.c is the product modulo X^n + 1.         *)
ArithmeticExact ==
  /\ part = "modq" => Ntt!SumsExact /\ Ntt!MontymulExact /\ Ntt!DivisionExact
  /\ part = "ntt"  => Ntt!ProductRight /\ Ntt!ValuesAtRoots

(* Verification accepts exactly the short vectors of the lattice, and the  *)
(* three ways to a public key from a private one agree (vrfy.c).           *)
VerificationRight ==
  part = "verify" =>
    Verify!AcceptsShort /\ Verify!RecoveryAgrees /\ Verify!KeyCompleted /\ Verify!ZerosCounted

(* What an encoder wrote is read back, and no two buffers decode to one    *)
(* polynomial, so that an encoding cannot be changed unnoticed (codec.c).  *)
EncodingsUnique ==
  part = "codec" => Codec!ReadBack /\ Codec!LengthsAgree /\ Codec!OneEncoding

(* What the sampler makes of its random bytes is exact: the coin with its  *)
(* lazy bytes is that of the whole number, and no integer is reached in    *)
(* two ways (sign.c).  The sampler of the device counts                    *)
(* thresholds and divides exactly, draws every value equally often, and    *)
(* from a generator of its own for each sample (soko_gpu_offline.cu).      *)
SamplerRight ==
  /\ part = "gauss" =>
       Gauss!BuildsAgree /\ Gauss!CoinExact /\ Gauss!EachIntegerOnce /\ Gauss!ExponentNotNegative
  /\ part = "device" =>
       /\ ThresholdsCounted /\ DivisionExact /\ LimitInRange
       /\ EachValueOnce /\ OwnGenerator /\ StepUndone

(* The transforms of fft.c compute values at the roots and undo each       *)
(* other, with every shortcut for halves and adjoints.                     *)
TransformsRight ==
  part = "fft" =>
    /\ ValuesAtRoots /\ ProductRight /\ AdjointsRight
    /\ QuotientsRight /\ DecompositionRight /\ HalvesRight

(* Signing from an expanded key and signing from the key itself sample the *)
(* same vector; it is a lattice point for the hash, the nearest one where  *)
(* the sampler rounds; and nothing overruns the working memory (sign.c).   *)
SigningRight ==
  part = "sign" => RoomKept /\ WaysAgree /\ PointOfLattice /\ NearestPlane

(* The sizes of falcon.h suffice for what is stored in them, for all ten   *)
(* degrees: parts laid into a buffer of the caller fit, are aligned and do *)
(* not overlap, a moved expanded key is found again, and encodings fill    *)
(* their lengths (falcon.c).                                               *)
SizesRight ==
  part = "sizes" =>
    /\ Sizes!PartsFit /\ Sizes!PartsSuitable /\ Sizes!MoveKeepsKey /\ Sizes!EncodingsFill
    /\ Sizes!CompressedWithin /\ Sizes!StackSuffices /\ Sizes!TablesRight
=============================================================================
