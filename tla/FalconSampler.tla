---------------------------- MODULE FalconSampler ----------------------------
(***************************************************************************)
(* The integer sampler of src/submodules/FN-DSA/sign.c: a half-Gaussian    *)
(* from 72 random bits, a coin of probability exp(-x), and the rejection   *)
(* loop.  72-bit numbers are three limbs of 24 bits, high limb first.      *)
(***************************************************************************)
EXTENDS Integers, Sequences, FiniteSetsExt, FiniteSets

CONSTANTS ByteBits, Bytes    \* of the generator's bytes; of z in BerExp

-----------------------------------------------------------------------------
(* Slips the code could contain, none of them used below.                  *)

BorrowNot(a, w, cc)      == IF a < w THEN 1 ELSE 0
SaturatedNot(s)          == s
ZeroTwice(b, z0)         == (2 * b - 1) * z0
WithoutSign(b, z0)       == b + z0

-----------------------------------------------------------------------------
(* Sampled is the number of entries that are above v.                      *)
dist == <<<<10745844, 3068844, 3741698>>, <<5559083, 1580863, 8248194>>,
          <<2260429, 13669192, 2736639>>, <<708981, 4421575, 10046180>>,
          <<169348, 7122675, 4136815>>, <<30538, 13063405, 7650655>>,
          <<4132, 14505003, 7826148>>, <<417, 16768101, 11363290>>,
          <<31, 8444042, 8086568>>, <<1, 12844466, 265321>>,
          <<0, 1232676, 13644283>>, <<0, 38047, 9111839>>,
          <<0, 870, 6138264>>, <<0, 14, 12545723>>,
          <<0, 0, 3104126>>, <<0, 0, 28824>>,
          <<0, 0, 198>>, <<0, 0, 1>>>>

(* Subtraction with borrow: 1 if a - w - cc is negative.                   *)
Borrow(a, w, cc) == IF a - w - cc < 0 THEN 1 ELSE 0

Below(v, w) == Borrow(v[1], w[1], Borrow(v[2], w[2], Borrow(v[3], w[3], 0))) = 1

gaussian0_sampler(v) == Cardinality({u \in DOMAIN dist : Below(v, dist[u])})

(* With vectors: the entries' high 15 bits in 16 lanes, their low 57 in 20 *)
(* lanes.                                                                  *)
rhi15 == <<20987, 10857, 4414, 1384, 330, 59, 8, 0, 0, 0, 0, 0, 0, 0, 0, 0>>
rlo57 == <<<<500, 3068844, 3741698>>, <<299, 1580863, 8248194>>,
           <<461, 13669192, 2736639>>, <<373, 4421575, 10046180>>,
           <<388, 7122675, 4136815>>, <<330, 13063405, 7650655>>,
           <<36, 14505003, 7826148>>, <<417, 16768101, 11363290>>,
           <<31, 8444042, 8086568>>, <<1, 12844466, 265321>>,
           <<0, 1232676, 13644283>>, <<0, 38047, 9111839>>,
           <<0, 870, 6138264>>, <<0, 14, 12545723>>,
           <<0, 0, 3104126>>, <<0, 0, 28824>>,
           <<0, 0, 198>>, <<0, 0, 1>>,
           <<0, 0, 0>>, <<0, 0, 0>>>>

LessLimbs(v, w) ==
  \/ v[1] < w[1]
  \/ v[1] = w[1] /\ (v[2] < w[2] \/ (v[2] = w[2] /\ v[3] < w[3]))

(* The lanes of the high words that lane k of the low ones is kept by: its *)
(* own, or from the ninth on the last four.                                *)
HighLanes(v, k) == IF k <= 8 THEN {k} ELSE 13 .. 16

gaussian0_sampler_avx2(v) ==
  LET hi == v[1] \div 512
      lo == <<v[1] % 512, v[2], v[3]>>
      gtlo(k) == LessLimbs(lo, rlo57[k]) /\ \A h \in HighLanes(v, k) : rhi15[h] = hi
      Lane(k) == IF gtlo(k) THEN 1 ELSE 0
  IN  Cardinality({k \in 1 .. 8 : rhi15[k] > hi})
      + Cardinality({k \in 1 .. 4 : gtlo(k) \/ gtlo(k + 4)})
      + Cardinality({k \in 9 .. 20 : gtlo(k)})

-----------------------------------------------------------------------------
(* exp(-x) = 2^-s * exp(-r): e is exp(-r) times ccs, scaled.               *)
Word == 2^(ByteBits * Bytes)

Saturated(s) == IF s > ByteBits * Bytes - 1 THEN ByteBits * Bytes - 1 ELSE s

(* The processor shifts by the count modulo the width.                     *)
Threshold(e, s) == ((2 * e - 1) % Word) \div 2^(Saturated(s) % (ByteBits * Bytes))

ByteOf(z, i) == (z \div 2^(ByteBits * (Bytes - i))) % 2^ByteBits

(* Bytes d are drawn, from the highest, until one differs from that of z.  *)
Drawn(d, z) ==
  Min({i \in 1 .. Bytes : d[i] # ByteOf(z, i)} \cup {Bytes})
LastBelow(d, z, i) == d[i] < ByteOf(z, i)

BerExp(e, s, d) ==
  LET z == Threshold(e, s) IN [bit |-> LastBelow(d, z, Drawn(d, z)), drawn |-> Drawn(d, z)]

-----------------------------------------------------------------------------
(* The rejection loop, for a center of mu / 8 and an inverse deviation of  *)
(* isigma / 32.                                                            *)
Floor(mu)    == mu \div 8
Centered(mu) == mu - 8 * Floor(mu)      \* 8 * r

Bimodal(b, z0) == b + (2 * b - 1) * z0

(* 2^17 * x; inv_2sqrsigma0 is 2^17 / (2 * sigma0^2), rounded up.          *)
inv_2sqrsigma0 == 19775
Exponent(mu, z, z0, isigma) ==
  (8 * z - Centered(mu)) * (8 * z - Centered(mu)) * isigma * isigma - z0 * z0 * inv_2sqrsigma0

Sampled(mu, b, z0) == Floor(mu) + Bimodal(b, z0)

-----------------------------------------------------------------------------
(* 72-bit numbers made of the limbs of three thresholds, each moved by one; *)
(* every comparison of small generator bytes; centers in eighths.           *)

CONSTANTS Isigmas      \* 32 / sigma

VARIABLES job, arg, value
vars == <<job, arg, value>>

Limb == 2^24
Nudge == -1 .. 1

Init ==
  /\ value = <<>>
  /\ \/ job = "count" /\ arg \in [hi : 1 .. 18, mid : 1 .. 18, dhi : Nudge, dmid : Nudge, dlo : Nudge]
     \/ job = "coin" /\ arg \in [e : 2^(ByteBits * Bytes - 3) .. 2^(ByteBits * Bytes - 1), s : 0 .. 70]
     \/ job = "loop" /\ arg \in [mu : -20 .. 20, isigma : Isigmas]

Moved(x, d) == (x + d + Limb) % Limb
V == <<Moved(dist[arg.hi][1], arg.dhi), Moved(dist[arg.mid][2], arg.dmid), Moved(dist[arg.mid][3], arg.dlo)>>

Draws == [1 .. Bytes -> 0 .. 2^ByteBits - 1]

Compute ==
  /\ value = <<>>
  /\ value' = CASE job = "count" -> <<gaussian0_sampler(V), gaussian0_sampler_avx2(V)>>
               [] job = "coin" -> [d \in Draws |-> BerExp(arg.e, arg.s, d)]
               [] job = "loop" -> [b \in 0 .. 1, z0 \in 0 .. 18 |->
                    [z |-> Sampled(arg.mu, b, z0),
                     x |-> Exponent(arg.mu, Bimodal(b, z0), z0, arg.isigma)]]
  /\ UNCHANGED <<job, arg>>

Spec == Init /\ [][Compute]_vars

Ready(what) == job = what /\ value # <<>>

RECURSIVE Number(_, _)
Number(d, n) == IF n = 0 THEN 0 ELSE 2^ByteBits * Number(d, n - 1) + d[n]

-----------------------------------------------------------------------------
(* Both builds return the number of thresholds above the 72-bit value, and *)
(* so at most 18 (the limbs with borrow; the high words of 15 bits and low *)
(* ones of 57 in vectors: two tables of one distribution).                 *)
BuildsAgree ==
  Ready("count") =>
    /\ value[1] = value[2]
    /\ value[1] = Cardinality({u \in 1 .. 18 : LessLimbs(V, dist[u])})

(* The bytes drawn, up to the first that differs, decide as the whole of   *)
(* them would, and exp(-x) <= 2^-s holds for what is accepted, for every s  *)
(* (the lazy comparison, and the shift, which must stay below the width).   *)
CoinExact ==
  Ready("coin") =>
    \A z \in {Threshold(arg.e, arg.s)} :
      /\ \A d \in Draws :
           /\ value[d].bit = (Number(d, Bytes) < z)
           /\ \A i \in 1 .. value[d].drawn - 1 : d[i] = ByteOf(z, i)
      /\ z <= 2^(IF arg.s >= ByteBits * Bytes THEN 0 ELSE ByteBits * Bytes - arg.s)

(* Around any center, negative ones too, the sign and the half-Gaussian    *)
(* reach every integer near the center in exactly one way (Zf(sampler)).   *)
EachIntegerOnce ==
  Ready("loop") =>
    \A z \in (arg.mu \div 8) - 18 .. (arg.mu \div 8) + 19 :
      Cardinality({c \in (0 .. 1) \X (0 .. 18) : value[c].z = z}) = 1

(* The exponent is never negative, as BerExp's truncation and its shift    *)
(* need (the comments at sign.c:1289 and sign.c:1302).                     *)
ExponentNotNegative ==
  Ready("loop") => \A c \in DOMAIN value : value[c].x >= 0
=============================================================================
