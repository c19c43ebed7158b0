-------------------------------- MODULE MCNtt --------------------------------
(* Every residue y with the residues x at the ends and in the middle; and  *)
(* products of two polynomials of degrees below 2, 4, 8 and 16: one with a *)
(* single coefficient, one with two.  The transform is linear, so these    *)
(* stand for all.                                                          *)
EXTENDS Ntt

Ends == {0, 1, 2, Q \div 2, Q \div 2 + 1, R, Q - 2, Q - 1}

LargestLogn == 4
Factors == {4091, Q - 1}

VARIABLES x, y, logn, a, b, product

SweepInit == x \in Ends /\ y = 0
Sweep     == y < Q - 1 /\ y' = y + 1 /\ UNCHANGED x

Monomial(l, i, v) == [d \in Degrees(l) |-> IF d = i THEN v ELSE 0]

MultiplyInit == \E l \in 1 .. LargestLogn : \E i, j \in Degrees(l), v \in Factors :
  /\ logn = l
  /\ a = Monomial(l, i, v)
  /\ b = [Monomial(l, j, 77) EXCEPT ![0] = 5]
  /\ product = <<>>

Multiply ==
  /\ product = <<>>
  /\ product' = mq_iNTT(mq_poly_montymul_ntt(mq_NTT(a, logn), to_ntt_monty(b, logn)), logn)
  /\ UNCHANGED <<logn, a, b>>

-----------------------------------------------------------------------------
(* The conditional additions of q give the sum, the difference and the     *)
(* half modulo q, in range (mq_add, mq_sub, mq_rshift1).                   *)
SumsExact ==
  /\ mq_add(x, y) = (x + y) % Q
  /\ mq_sub(x, y) = (x - y) % Q
  /\ mq_rshift1(y) \in Residues /\ (2 * mq_rshift1(y)) % Q = y

(* Montgomery multiplication divides the product by 2^16, and one          *)
(* subtraction is enough to bring it into range (mq_montymul).             *)
MontymulExact ==
  /\ mq_montymul(x, y) \in Residues
  /\ (mq_montymul(x, y) * R) % Q = (x * y) % Q

(* The addition chain makes y^(q-2), the inverse of y (mq_div_12289).      *)
DivisionExact == y # 0 => (mq_div_12289(x, y) * y) % Q = x

(* Two transforms, a product place by place and the inverse transform give *)
(* the product modulo X^n + 1 (mq_NTT, mq_iNTT and their tables).          *)
ProductRight == product # <<>> => product = Times(a, b, logn)

(* The transform of a polynomial has its values at the n roots of X^n + 1, *)
(* all different, so that a zero in it means a common factor.              *)
ValuesAtRoots ==
  product = <<>> =>
    \A roots \in {mq_NTT(Monomial(logn, 1, 1), logn)}, values \in {mq_NTT(b, logn)} :
      \A u \in Degrees(logn) :
        /\ Power(roots[u], 2^logn) = Q - 1
        /\ \A v \in Degrees(logn) : roots[u] = roots[v] => u = v
        /\ values[u] = ValueAt(b, roots[u])
=============================================================================
