-------------------------------- MODULE ModQ --------------------------------
(***************************************************************************)
(* Arithmetic modulo q = 12289, src/submodules/FN-DSA/vrfy.c: conditional  *)
(* subtractions and Montgomery multiplication instead of divisions, for    *)
(* operands in 0 .. q-1.                                                   *)
(*                                                                         *)
(* A 32-bit word is read as signed: its bit 31 is set when it is negative. *)
(***************************************************************************)
EXTENDS Integers

Q   == 12289
Q0I == 12287    \* -1/q mod 2^16
R   == 4091     \* 2^16 mod q
R2  == 10952    \* 2^32 mod q

Residues == 0 .. Q - 1

-----------------------------------------------------------------------------
(* Slips the code could contain, none of them used below.                  *)

AddQIfNotPositive(x)    == IF x <= 0 THEN x + Q ELSE x
CorrectionOtherSign(z)  == (((z % 65536) * (65536 - Q0I)) % 65536) * Q
mq_montysqrPlain(x)     == (x * x) % Q

-----------------------------------------------------------------------------
(* x += Q & -(x >> 31)                                                     *)
AddQIfNegative(x) == IF x < 0 THEN x + Q ELSE x

mq_conv_small(x) == AddQIfNegative(x)
mq_add(x, y)     == AddQIfNegative(x + y - Q)
mq_sub(x, y)     == AddQIfNegative(x - y)
mq_rshift1(x)    == (x + Q * (x % 2)) \div 2

(* The multiple of q that clears the low 16 bits of z.                     *)
Correction(z) == (((z % 65536) * Q0I) % 65536) * Q

mq_montymul(x, y) == AddQIfNegative((x * y + Correction(x * y)) \div 65536 - Q)
mq_montysqr(x)    == mq_montymul(x, x)

(* x / y, as x * y^(q-2): the addition chain of the code.                  *)
mq_div_12289(x, y) ==
  LET y0  == mq_montymul(y, R2)
      y2  == mq_montymul(mq_montysqr(y0), y0)
      y3  == mq_montymul(y2, mq_montysqr(y0))
      y7  == mq_montysqr(mq_montysqr(mq_montysqr(mq_montysqr(y3))))
      y8  == mq_montysqr(y7)
      y9  == mq_montymul(y8, y2)
      y10 == mq_montymul(y9, y8)
      y13 == mq_montymul(mq_montysqr(mq_montysqr(y10)), y9)
      y16 == mq_montymul(mq_montysqr(mq_montysqr(y13)), y10)
      y18 == mq_montymul(mq_montysqr(y16), y0)
  IN  mq_montymul(y18, x)

(* The balanced representative, in -q/2 .. q/2.                            *)
Centered(x) == IF x > Q \div 2 THEN x - Q ELSE x
=============================================================================
