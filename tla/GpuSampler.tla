----------------------------- MODULE GpuSampler ------------------------------
(***************************************************************************)
(* The sampler of a coefficient on the device, src/cuda/soko_gpu_offline.cu*)
(* from line 542: seeding, the generator, the table, the exponential and   *)
(* the rejection.                                                          *)
(*                                                                         *)
(* Words too wide for TLC's integers are sequences of bytes, the least     *)
(* significant first.  A product or a sum is computed in as many bytes as  *)
(* it is given: 8 for C's uint64_t, more to see whether one overflows.     *)
(***************************************************************************)
EXTENDS Integers, FiniteSets, Sequences, SequencesExt
LOCAL INSTANCE Bitwise

ByteAt(a, i) == IF i \in DOMAIN a THEN a[i] ELSE 0

(* A sequence of small naturals, with the carries passed on from place i.  *)
RECURSIVE CarriedFrom(_, _, _)
CarriedFrom(digits, i, carry) ==
  IF i > Len(digits) THEN <<>>
  ELSE <<(digits[i] + carry) % 256>> \o CarriedFrom(digits, i + 1, (digits[i] + carry) \div 256)

CarriedOver(digits) == CarriedFrom(digits, 1, 0)

SumTo(n, f(_)) == LET sum[i \in 0 .. n] == IF i = 0 THEN 0 ELSE sum[i - 1] + f(i) IN sum[n]

WAdd(a, b, len) == CarriedOver([i \in 1 .. len |-> ByteAt(a, i) + ByteAt(b, i)])

(* Modulo 2^(8 * len).                                                     *)
WSub(a, b, len) ==
  CarriedOver([i \in 1 .. len |-> ByteAt(a, i) + 255 - ByteAt(b, i) + (IF i = 1 THEN 1 ELSE 0)])

WMul(a, b, len) ==
  CarriedOver([i \in 1 .. len |-> SumTo(i, LAMBDA k : ByteAt(a, k) * ByteAt(b, i + 1 - k))])

WXor(a, b, len) == CarriedOver([i \in 1 .. len |-> ByteAt(a, i) ^^ ByteAt(b, i)])

WShr(a, k, len) ==
  LET at(i) == ByteAt(a, i + k \div 8)
  IN  CarriedOver([i \in 1 .. len |-> (at(i) \div 2^(k % 8) + at(i + 1) * 2^(8 - (k % 8))) % 256])

(* A number in groups of three decimal digits, the first one leading.      *)
Dec(groups, len) ==
  FoldLeft(LAMBDA acc, g : WAdd(WMul(acc, <<232, 3>>, len), <<g % 256, g \div 256>>, len),
           [i \in 1 .. len |-> 0], groups)

FromInt(x, len) == [i \in 1 .. len |-> IF i > 4 THEN 0 ELSE (x \div 256^(i - 1)) % 256]

(* Of words that fit.                                                      *)
ToInt(a) == SumTo(3, LAMBDA i : ByteAt(a, i) * 256^(i - 1)) + ByteAt(a, 4) * 16777216

WLess(a, b) ==
  LET n == IF Len(a) > Len(b) THEN Len(a) ELSE Len(b)
  IN  \E i \in 1 .. n : /\ ByteAt(a, i) < ByteAt(b, i)
                        /\ \A k \in i + 1 .. n : ByteAt(a, k) = ByteAt(b, k)

FitsIn(a, len) == \A i \in DOMAIN a : i > len => a[i] = 0

-----------------------------------------------------------------------------
CONSTANT Rejected

U64 == 8
U32 == 4
Word(groups) == Dec(groups, U64)

-----------------------------------------------------------------------------
(* Slips the code could contain, none of them used below.                  *)

MixWithoutToken(seed, token, j) ==
  WXor(WMul(FromInt(seed, U64), <<0, 0, 0, 0, 1>>, U64),
       WMul(FromInt(j + 1, U64), Word(<<11, 562, 461, 410, 679, 940, 143>>), U64), U64)
KeepsBothZeros(c, z)    == FALSE
QuotientUnhalved(y, x)  == WShr(WAdd(WSub(x, y, U32), y, U32), 23, U32)
AboveByTopOnly(u, t)    == WLess(t[1], u[1])
NextTermSwapped(c, r)   == WSub(r, c, U64)
BUnchanged(st)          == LET a == WAdd(st.a, st.b, U32) IN [a |-> a, b |-> WSub(st.b, st.b, U32)]

-----------------------------------------------------------------------------
splitmix64(x) ==
  LET z0 == WAdd(x, Word(<<11, 400, 714, 819, 323, 198, 485>>), U64)
      z1 == WMul(WXor(z0, WShr(z0, 30, U64), U64), Word(<<13, 787, 848, 793, 156, 543, 929>>), U64)
      z2 == WMul(WXor(z1, WShr(z1, 27, U64), U64), Word(<<10, 723, 151, 780, 598, 845, 931>>), U64)
  IN  WXor(z2, WShr(z2, 31, U64), U64)

(* (seed << 32) ^ ((token + 1) * C1) ^ ((j + 1) * C2)                      *)
Mix(seed, token, j) ==
  WXor(WXor(WMul(FromInt(seed, U64), <<0, 0, 0, 0, 1>>, U64),
            WMul(FromInt(token + 1, U64), Word(<<15, 485, 907, 386, 658, 61, 715>>), U64), U64),
       WMul(FromInt(j + 1, U64), Word(<<11, 562, 461, 410, 679, 940, 143>>), U64), U64)

(* A generator is never left at zero, where it would stay.                 *)
NotAllZero(st) ==
  IF st.a = FromInt(0, U32) /\ st.b = FromInt(0, U32) THEN [st EXCEPT !.a = FromInt(1, U32)] ELSE st

(* The generators of the two samples of a coefficient.                     *)
SeededStates(mix) ==
  LET from(key) == SubSeq(splitmix64(WXor(mix, key, U64)), 1, U32)
  IN  <<NotAllZero([a |-> from(FromInt(0, U64)),
                    b |-> from(Word(<<11, 936, 128, 518, 282, 651, 45>>))]),
        NotAllZero([a |-> from(Word(<<11, 400, 714, 819, 323, 198, 485>>)),
                    b |-> from(Word(<<14, 97, 894, 508, 562, 428, 199>>))])>>

(* One step of a generator, and its byte.                                  *)
Advanced(st) ==
  LET a == WAdd(st.a, st.b, U32) IN [a |-> a, b |-> WAdd(st.b, a, U32)]

-----------------------------------------------------------------------------
(* The table, of numbers of 128 bits: top and bottom half.                 *)
Thresholds == <<
  <<Word(<<11, 881, 272, 476, 311, 950, 404>>), Word(<<2, 232, 598, 800, 125, 794, 762>>)>>,
  <<Word(<<17, 729, 174, 351, 313, 943, 813>>), Word(<<17, 46, 599, 807, 202, 850, 264>>)>>,
  <<Word(<<18, 426, 461, 144, 592, 799, 266>>), Word(<<9, 31, 501, 729, 263, 515, 114>>)>>,
  <<Word(<<18, 446, 602, 887, 327, 906, 610>>), Word(<<11, 817, 852, 927, 693, 963, 396>>)>>,
  <<Word(<<18, 446, 743, 834, 670, 245, 612>>), Word(<<7, 306, 21, 935, 394, 802, 834>>)>>,
  <<Word(<<18, 446, 744, 73, 611, 412, 414>>), Word(<<17, 880, 792, 342, 251, 759, 5>>)>>,
  <<Word(<<18, 446, 744, 73, 709, 541, 852>>), Word(<<14, 689, 9, 182, 29, 885, 173>>)>>,
  <<Word(<<18, 446, 744, 73, 709, 551, 615>>), Word(<<14, 106, 32, 229, 701, 791, 861>>)>>,
  <<Word(<<18, 446, 744, 73, 709, 551, 615>>), Word(<<18, 446, 718, 728, 838, 181, 855>>)>>,
  <<Word(<<18, 446, 744, 73, 709, 551, 615>>), Word(<<18, 446, 744, 73, 673, 701, 140>>)>> >>

(* utop > t, or utop = t and ubot > b.                                     *)
Above(u, t) == WLess(t[1], u[1]) \/ (u[1] = t[1] /\ WLess(t[2], u[2]))

(* The first eight comparisons are counted one by one; each of the last    *)
(* two is for the bottom half only and counts if the one before it did.    *)
sample_berncdt_device(u) ==
  LET b8  == Above(u, Thresholds[8])
      b9  == b8 /\ WLess(Thresholds[9][2], u[2])
      b10 == b9 /\ WLess(Thresholds[10][2], u[2])
      One(b) == IF b THEN 1 ELSE 0
  IN  SumTo(7, LAMBDA i : One(Above(u, Thresholds[i]))) + One(b8) + One(b9) + One(b10)

-----------------------------------------------------------------------------
Divisor == 16404853

(* ((x - y) >> 1) + y, shifted: the quotient without the bit that overflows.*)
Quotient(y, x) == WShr(WAdd(WShr(WSub(x, y, U32), 1, U32), y, U32), 23, U32)

div16404853_device(x) ==
  Quotient(SubSeq(WShr(WMul(FromInt(97488647, U64), FromInt(x, U64), U64), 32, U64), 1, U32),
           FromInt(x, U32))

ExpCoefficients == <<
  <<Word(<<809, 438, 661, 408>>), 28>>,
  <<Word(<<869, 506, 949, 331>>), 28>>,
  <<Word(<<640, 44, 208, 952>>), 27>>,
  <<Word(<<793, 458, 686, 15>>), 27>>,
  <<Word(<<839, 743, 192, 604>>), 27>>,
  <<Word(<<740, 389, 683, 60>>), 26>>,
  <<Word(<<1, 44, 449, 863, 563>>), 27>>,
  <<Word(<<552, 517, 269, 260>>), 25>>,
  <<Word(<<779, 422, 325, 990>>), 23>> >>

NextTerm(c, r) == WSub(c, r, U64)

(* The products of Horner's rule, each in twice the width.                 *)
ExpProducts(x) ==
  FoldLeft(LAMBDA acc, t :
             LET last == IF acc = <<>> THEN FromInt(0, U64)
                         ELSE WShr(acc[Len(acc)].product, acc[Len(acc)].shift, U64)
             IN  Append(acc, [product |-> WMul(NextTerm(t[1], last), FromInt(x, U64), 2 * U64),
                              shift |-> t[2]]),
           <<>>, ExpCoefficients)

TwoTo41 == Word(<<2, 199, 23, 255, 552>>)

exp_scaled_device(x) ==
  LET products == ExpProducts(x)
  IN  NextTerm(TwoTo41, WShr(products[9].product, products[9].shift, U64))

-----------------------------------------------------------------------------
(* z, and the exponent y split into whole powers of two and the rest.      *)
Magnitude(x, yb) == x * 256 + yb
Exponent(x, yb)  == (yb * (yb + 2 * x * 256)) * 256
WholePowers(x, yb) == ToInt(div16404853_device(Exponent(x, yb)))
ShiftFor(k) == 22 - k

AcceptLimit(x, yb) ==
  LET k == WholePowers(x, yb)   t == Exponent(x, yb) - Divisor * k
  IN  WMul(exp_scaled_device(t), FromInt(2^ShiftFor(k), U64), 2 * U64)

(* A zero is drawn again for half of the bytes, since it has one sign only.*)
DropsZero(c, z) == c % 2 = 1 /\ z = 0

(* One turn of the loop.                                                   *)
Attempt(x, yb, wLarge, c) ==
  LET z == Magnitude(x, yb)
  IN  IF wLarge \/ DropsZero(c, z) THEN Rejected
      ELSE IF (c \div 2) % 2 = 1 THEN -z ELSE z

-----------------------------------------------------------------------------
(* The values of the table at and around each threshold; every y of the    *)
(* sampler, its exponentials at steps; the seeds of a few tokens.          *)

VARIABLES job, arg, value
vars == <<job, arg, value>>

YStep == 17

Up(x, d) == IF d < 0 THEN WSub(x, FromInt(1, U64), U64)
            ELSE WAdd(x, FromInt(d, U64), U64)

SeedArgs == [seed : {0, 1, 42}, token : 0 .. 3, j : 0 .. 7]

Init ==
  /\ value = <<>>
  /\ \/ job = "table" /\ arg \in [t : 1 .. 10, b : 1 .. 10, dt : -1 .. 1, db : -1 .. 1]
     \/ job = "draw" /\ arg \in [x : 0 .. 10, yb : 0 .. 255]
     \/ job = "seed" /\ arg = SeedArgs

TableArg == <<Up(Thresholds[arg.t][1], arg.dt), Up(Thresholds[arg.b][2], arg.db)>>

Compute ==
  /\ value = <<>>
  /\ value' = CASE job = "table" -> <<sample_berncdt_device(TableArg)>>
               [] job = "draw" -> <<WholePowers(arg.x, arg.yb),
                                 IF arg.yb % YStep = 0 THEN AcceptLimit(arg.x, arg.yb) ELSE <<>>>>
               [] job = "seed" -> [a \in arg |-> SeededStates(Mix(a.seed, a.token, a.j))]
  /\ UNCHANGED <<job, arg>>

Spec == Init /\ [][Compute]_vars

Ready(what) == job = what /\ value # <<>>

-----------------------------------------------------------------------------
(* The sample is the number of thresholds of 128 bits it exceeds, and the  *)
(* table is in increasing order (sample_berncdt_device).                   *)
ThresholdsCounted ==
  Ready("table") =>
    /\ value[1] = Cardinality({i \in 1 .. 10 :
         WLess(Thresholds[i][2] \o Thresholds[i][1], TableArg[2] \o TableArg[1])})
    /\ arg.t < 10 => Above(Thresholds[arg.t + 1], Thresholds[arg.t])

(* The division is exact for every y that occurs, and what is left of the  *)
(* shift is positive (div16404853_device and its use).                     *)
DivisionExact ==
  Ready("draw") => value[1] = Exponent(arg.x, arg.yb) \div Divisor /\ ShiftFor(value[1]) >= 1

(* No product of the exponential overflows 64 bits, and its value for a    *)
(* rest in 0 .. Divisor-1 lies in 2^40 .. 2^41, so that the limit compared *)
(* with a word of 63 bits is at most 2^63 (exp_scaled_device).             *)
LimitInRange ==
  (Ready("draw") /\ value[2] # <<>>) =>
    /\ \A products \in {ExpProducts(Exponent(arg.x, arg.yb) - Divisor * value[1])} :
         \A i \in 1 .. 9 : FitsIn(products[i].product, U64)
    /\ \A most \in {WMul(TwoTo41, FromInt(2^ShiftFor(value[1]), U64), 2 * U64)} :
         /\ ~WLess(most, value[2])
         /\ ~WLess(WAdd(value[2], value[2], 2 * U64), most)
         /\ ~WLess(FromInt(0, U64) \o FromInt(1, U64), WAdd(most, most, 2 * U64))

(* Of the 256 sign bytes every value takes the same number, zero as well   *)
(* (the rejection of zero).                                                *)
EachValueOnce ==
  (Ready("draw") /\ arg.yb % YStep = 0) =>
    \A z \in {Magnitude(arg.x, arg.yb), -Magnitude(arg.x, arg.yb)} :
      Cardinality({c \in 0 .. 255 : Attempt(arg.x, arg.yb, FALSE, c) = z}) = 128

(* No two samples of a few tokens, places and seeds start from the same    *)
(* generator (the mixing of the seed).                                     *)
OwnGenerator ==
  Ready("seed") =>
    \A a, b \in arg, i, k \in 1 .. 2 : value[a][i] = value[b][k] => a = b /\ i = k

(* A generator that is not zero never becomes zero, where all its bytes    *)
(* would be equal (bern_rand_byte): a step can be undone.                  *)
StepUndone ==
  Ready("seed") =>
    \A a \in arg, i \in 1 .. 2 : \A next \in {Advanced(value[a][i])} :
      \A b \in {WSub(next.b, next.a, U32)} :
        value[a][i] = [a |-> WSub(next.a, b, U32), b |-> b]
=============================================================================
