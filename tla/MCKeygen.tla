------------------------------ MODULE MCKeygen ------------------------------
(***************************************************************************)
(* One run for the parts of key generation.  They share no state, so each  *)
(* behaviour is one of one part; the variables x1, x2, ... are those of    *)
(* the part, in the order of its module.  KeygenSolve, in words where all  *)
(* numbers fit, keeps its own.                                             *)
(***************************************************************************)
EXTENDS KeygenSolve

VARIABLES part, x1, x2, x3, x4, x5, x6, x7, x8, x9, x10

Rest4  == <<x4, x5, x6, x7, x8, x9, x10>>
Rest5  == <<x5, x6, x7, x8, x9, x10>>
Rest8  == <<x8, x9, x10>>
Rest1  == <<x1, x2, x3, Rest4>>

Unused10 == x10 = 0
Unused8  == x8 = 0 /\ x9 = 0 /\ Unused10
Unused5  == x5 = 0 /\ x6 = 0 /\ x7 = 0 /\ Unused8
Unused1  == x1 = 0 /\ x2 = 0 /\ x3 = 0 /\ x4 = 0 /\ Unused5

-----------------------------------------------------------------------------
(* Words of seven bits.                                                    *)
Ntru == INSTANCE MCNtru WITH p <- x1, g <- x2, a <- x3, b <- x4, len <- x5, x <- x6, y <- x7,
          W <- 7, Doublings <- 3, MaxLogn <- 2

(* Words of three bits, numbers of three.                                  *)
Odd(h) == 2 * h + 1
OddPairs == {<<Odd(i), Odd(j)>> : i \in 0 .. 255, j \in 0 .. 4 \cup {31, 32, 33, 252, 255} \cup {52 * k + 13 : k \in 1 .. 4}}
Bezout == INSTANCE NtruBezout WITH x <- x1, y <- x2, a <- x3, b <- x4, u0 <- x5, u1 <- x6,
            v0 <- x7, v1 <- x8, num <- x9,
            W <- 3, Doublings <- 2, MaxLogn <- 1, LEN <- 3, Operands <- OddPairs

(* Words of seven bits, too short for many numbers.                        *)
Tight == INSTANCE KeygenSolve WITH pc <- x1, logn <- x2, f <- x3, g <- x4, depth <- x5, F <- x6, G <- x7,
            scale_k <- x8, maxbl_FG <- x9, FGlen <- x10,
            W <- 7, PRIMES <- Primes7, Gain <- 3, Slack <- 2, Lim <- 7

(* All ten degrees with the tables of the code, through all calls.         *)
Plan == INSTANCE KeygenPlan WITH logn <- x1, call <- x2, depth <- x3, stage <- x4,
            scale_k <- x5, maxbl_FG <- x6, FGlen <- x7

(* What the parts assume of their constants holds in these instances.      *)
ASSUME PartsAssumption ==
  PrimesAssumption /\ Tight!PrimesAssumption /\ Ntru!WidthAssumption

-----------------------------------------------------------------------------
NoSolve == /\ pc = "none" /\ logn = 0 /\ f = 0 /\ g = 0 /\ depth = 0 /\ F = 0 /\ G = 0
           /\ scale_k = 0 /\ maxbl_FG = 0 /\ FGlen = 0

MCInit ==
  \/ part = "solve" /\ Init /\ Unused1
  \/ /\ NoSolve
     /\ \/ part = "modp" /\ Ntru!ModpInit /\ Unused5
        \/ part = "ints" /\ Ntru!IntsInit /\ x1 = 0 /\ x2 = 0 /\ x3 = 0 /\ x4 = 0 /\ Unused8
        \/ part = "bezout" /\ Bezout!Init /\ Unused10
        \/ part = "tight" /\ Tight!Init
        \/ part = "plan" /\ Plan!Init /\ Unused8

SolveStep == part = "solve" /\ Next /\ UNCHANGED <<part, Rest1>>

OtherStep ==
  /\ UNCHANGED <<part, vars>>
  /\ \/ part = "modp" /\ Ntru!ModpSweep /\ UNCHANGED Rest5
     \/ part = "ints" /\ Ntru!IntsSweep /\ UNCHANGED <<x1, x2, x3, x4, Rest8>>
     \/ part = "bezout" /\ Bezout!Next /\ UNCHANGED x10
     \/ part = "tight" /\ Tight!Next
     \/ part = "plan" /\ Plan!Next /\ UNCHANGED Rest8

MCNext == SolveStep \/ OtherStep
MCSpec == MCInit /\ [][MCNext]_<<part, vars, Rest1>>

-----------------------------------------------------------------------------
(* The arithmetic below the NTRU equation is exact: modulo a small prime,  *)
(* and on numbers of many words whose carries, signs and shifts cross      *)
(* words (the modp_ and zint_ functions of keygen.c).                      *)
ArithmeticRight ==
  /\ part = "modp" =>
       /\ Ntru!ProductsExact /\ Ntru!PowersExact /\ Ntru!QuotientsExact
       /\ Ntru!BalancedExact /\ Ntru!TransformExact /\ Ntru!HalvingExact
  /\ part = "ints" => Ntru!RebuiltExact /\ Ntru!ScaledExact /\ Ntru!WordwiseExact

(* The loop of the extended Euclidean algorithm keeps its combinations,    *)
(* and success means coefficients in range that make 1 (zint_bezout).      *)
BezoutRight ==
  part = "bezout" => Bezout!TypeOK /\ Bezout!CombinationsKept /\ Bezout!BezoutRight

(* Only solutions of the NTRU equation are accepted, in words too short    *)
(* for many of the numbers as well; where all fit, the equation holds at   *)
(* every degree on the way up from the resultants (solve_NTRU and the      *)
(* functions it calls).                                                    *)
OnlySolutions ==
  /\ part = "tight" => Tight!AcceptedSolves
  /\ part = "solve" =>
       /\ TypeOK /\ AcceptedSolves /\ OddResultants /\ EquationAtEveryDegree
       /\ ReducedAtEnd /\ AssumedLengthRight /\ PassesKeepEquation

(* The workspace of key generation holds all ten degrees: at every depth   *)
(* the parts laid into it stay within it and apart, and the window of the  *)
(* reduction reaches the top of the numbers (the pointers of keygen.c).    *)
PlanRight ==
  part = "plan" =>
    /\ Plan!RoomEnough /\ Plan!PartsApart /\ Plan!MovesSafe
    /\ Plan!WordsHoldLength /\ Plan!WindowReaches
=============================================================================
