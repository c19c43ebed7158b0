----------------------------- MODULE KeygenPlan ------------------------------
(***************************************************************************)
(* How key generation (src/submodules/FN-DSA/keygen.c) lays out its one    *)
(* temporary buffer, call by call and stage by stage, for every degree;    *)
(* and the lengths it assumes while it reduces F and G.  The numbers       *)
(* themselves are in KeygenSolve.                                          *)
(*                                                                         *)
(* Offsets and lengths are in words of four bytes from the buffer's start; *)
(* an fpr is two words.  A stage is the parts used at the same time, in    *)
(* the order of their addresses, and the moves made on the way to it.      *)
(***************************************************************************)
EXTENDS FalconSizes, SequencesExt

VARIABLES
  logn,             \* the degree is 2^logn
  call, depth,      \* the function running, and its depth
  stage,
  scale_k, maxbl_FG, FGlen  \* of solve_NTRU_intermediate's reduction
vars  == <<logn, call, depth, stage, scale_k, maxbl_FG, FGlen>>
babai == <<scale_k, maxbl_FG, FGlen>>

-----------------------------------------------------------------------------
(* Slips, none of which is used below.                                     *)
SecondBehindK(rt1, n)    == Aligned(rt1 + n, 2)
TableLast(gm, n)         == LET m == << <<gm + 2 * n, gm + n, n>>, <<gm + 3 * n, gm + 2 * n, n>>,
                                        <<gm + 5 * n, gm + 3 * n, n>> >>
                            IN  <<m[3], m[2], m[1]>>
FasterScale              == IF scale_k > 40 THEN scale_k - 40 ELSE 0
EarlyWord(len, bits)     == IF len * 31 >= bits THEN len - 1 ELSE len

-----------------------------------------------------------------------------
(* Tables, from depth 0.                                                   *)
MAX_BL_SMALL == <<1, 1, 2, 2, 4, 7, 14, 27, 53, 106, 209>>
MAX_BL_LARGE == <<2, 2, 5, 7, 12, 21, 40, 78, 157, 308>>
BITLENGTH    == << <<4, 0>>, <<11, 1>>, <<24, 1>>, <<50, 1>>, <<102, 1>>, <<202, 2>>, <<401, 4>>,
                   <<794, 5>>, <<1577, 8>>, <<3138, 13>>, <<6308, 25>> >>
DEPTH_INT_FG == 4
Small(d)  == MAX_BL_SMALL[d + 1]
Large(d)  == MAX_BL_LARGE[d + 1]
minbl(d)  == BITLENGTH[d + 1][1] - 6 * BITLENGTH[d + 1][2]
maxbl(d)  == BITLENGTH[d + 1][1] + 6 * BITLENGTH[d + 1][2]
Larger(a, b) == IF a > b THEN a ELSE b

Stage(parts, moves) == [parts |-> parts, moves |-> moves]
Still(parts) == Stage(parts, <<>>)

(* Parts one after another; of words, of fpr.                              *)
From(at, lens, multiple) ==
  [i \in DOMAIN lens |-> Region(at + FoldLeft(LAMBDA s, l : s + l, 0, SubSeq(lens, 1, i - 1)), lens[i], multiple)]
Words(at, lens) == From(at, lens, 1)
Fprs(at, lens)  == From(at, [i \in DOMAIN lens |-> 2 * lens[i]], 2)

-----------------------------------------------------------------------------
(* make_fg_step from degree n at depth d; make_fg, ending at degree m.     *)
make_fg_step(at, n, d) ==
  LET slen == Small(d)   tlen == Small(d + 1)   hn == n \div 2
  IN  Words(at, <<hn * tlen, hn * tlen, n * slen, n * slen, Larger(3 * n, slen)>>)
make_fg(before, at, n, dep, out_ntt) ==
  LET start == IF dep = 0 /\ out_ntt THEN <<n, n, n, n>> ELSE <<n, n>>
  IN  <<Still(before \o Words(at, start))>>
        \o [d \in 1 .. dep |-> Still(before \o make_fg_step(at, n \div 2^(d - 1), d - 1))]

(* The orthogonalized norm, and h with what compute_public needs.          *)
KeygenStages(n) ==
  <<Still(Fprs(0, <<n, n>>) \o Fprs(4 * n, <<n \div 2>>)), Still(Words(0, <<n \div 2, n \div 2>>))>>

DeepestStages(ln) ==
  LET len == Small(ln)
  IN  make_fg(Words(0, <<len, len>>), 2 * len, 2^ln, ln, FALSE)
        \o <<Still(Words(0, <<len, len, len, len, 4 * len>>))>>

(* f and g are made behind F and G of the degree below, then moved away,   *)
(* and these behind them, to make room for the new F and G.                *)
LiftStages(n, d, top) ==
  LET hn == n \div 2   slen == Small(d)   dlen == Small(d + 1)   llen == Large(d)
      t1 == 2 * n * llen
      FGfg == <<n * llen, n * llen, n * slen, n * slen>>
  IN  make_fg(Words(0, <<hn * dlen, hn * dlen>>), 2 * hn * dlen, top, d, TRUE)
        \o <<Stage(Words(0, FGfg \o <<hn * dlen, hn * dlen>>),
                   << <<2 * hn * dlen, t1, 2 * n * slen>>, <<0, t1 + 2 * n * slen, 2 * hn * dlen>> >>),
             Still(Words(0, FGfg \o <<n, n, n, n, hn, hn>>)),
             Still(Words(0, FGfg \o <<Larger(slen, llen)>>))>>

(* The reduction's numbers; k shares the place of rt1, which is read no    *)
(* more when k is written.                                                 *)
Rt2(rt1, n) == Larger(Aligned(rt1 + n, 2), rt1 + 2 * n)
ReduceStages(n, d) ==
  LET slen == Small(d)   llen == Large(d)
      FGfg == Words(0, <<n * llen, n * llen, n * slen, n * slen>>)
      rt3  == Aligned(2 * n * llen + 2 * n * slen, 2)
      kept == FGfg \o Fprs(rt3, <<n, n>>) \o <<Region(rt3 + 4 * n, n, 2)>>
      rt1  == rt3 + 5 * n
  IN  <<Still(kept \o <<Region(rt1, 2 * n, 2), Region(Rt2(rt1, n), 2 * n, 2)>>),
        Still(kept \o Words(rt1, IF d <= DEPTH_INT_FG
                                 THEN <<n, n, n, n * (slen + 1), Larger(n, slen + 1)>> ELSE <<n>>))>>

IntermediateStages(ln, d) ==
  LET n == 2^(ln - d) IN LiftStages(n, d, 2^ln) \o ReduceStages(n, d)

(* Tables and f, g of the full degree 2n are made first, and only their    *)
(* first halves kept.                                                      *)
TableMoves(gm, n) == << <<gm + 2 * n, gm + n, n>>, <<gm + 3 * n, gm + 2 * n, n>>, <<gm + 5 * n, gm + 3 * n, n>> >>
LiftStages1(n) ==
  LET hn == n \div 2   slen == Small(1)   dlen == Small(2)   llen == Large(1)
      FGfg == <<llen * n, llen * n, slen * n, slen * n>>
      gm   == 2 * llen * n + 2 * slen * n
      old  == 2 * dlen * hn
  IN  <<Still(Words(0, <<dlen * hn, dlen * hn, llen * n, llen * n>>)),
        Stage(Words(0, FGfg \o <<2 * n, n, 2 * n, 2 * n>>),
              << <<old, 0, llen * n>>, <<old + llen * n, llen * n, llen * n>> >>),
        Stage(Words(0, FGfg \o <<n, n, n, n, hn, hn>>), TableMoves(gm, n)),
        Still(Words(0, FGfg \o <<llen>>))>>
ReduceStages1(n) ==
  LET slen == Small(1)   llen == Large(1)
      FGfg == <<llen * n, llen * n, slen * n, slen * n>>
      high == Aligned(2 * llen * n + 2 * slen * n, 2)
      low  == Aligned(2 * slen * n, 2)
      res  == Aligned(2 * n, 2)
  IN  <<Still(Words(0, FGfg) \o Fprs(high, <<n, n>>)),
        Stage(Words(0, <<slen * n, slen * n>>) \o Fprs(low, <<n, n, n, n>>),
              << <<2 * llen * n, 0, 2 * slen * n>>, <<high, low, 4 * n>> >>),
        Stage(Fprs(0, <<n, n, n, n, n>>) \o <<Region(10 * n, n, 2)>>, << <<low, 0, 8 * n>> >>),
        Stage(Words(0, <<n, n>>) \o Fprs(res, <<n, n>>), << <<0, res, 4 * n>> >>)>>

Stages0(n) ==
  LET hn == n \div 2
      t2 == Aligned(3 * n, 2)   t3 == Aligned(4 * n, 2)
  IN  <<Still(Words(0, <<hn, hn, n, n, n, n>>)),
        Stage(Words(0, <<n, n, n, n, n, n, n>>), << <<n, 0, 2 * n>> >>),
        Still(Words(0, <<n, n, n, n>>) \o Fprs(t3, <<n>>)),
        Stage(Words(0, <<n, n, n>>) \o <<Region(t2, n, 2), Region(t2 + n, 2 * n, 2)>>, << <<t3, t2, n>> >>),
        Still(Words(0, <<n, n, n, n, n, n, n>>))>>

(* F and G in words and, if the caller wants no G, its bytes behind them;  *)
(* G in words again, before anything is put where its bytes are; then all  *)
(* four and the tables.                                                    *)
CheckStages(n) ==
  LET bytes == Region(2 * n, (n + 3) \div 4, 1)
  IN  <<Still(Words(0, <<n, n>>) \o <<bytes>>),
        Still(Words(0, <<n>>) \o <<bytes>> \o Words(4 * n, <<n>>)),
        Still(Words(0, <<n, n, n, n, n>>))>>

Stages ==
  LET n == 2^logn
  IN  CASE call = "keygen"       -> KeygenStages(n)
        [] call = "deepest"      -> DeepestStages(logn)
        [] call = "intermediate" -> IntermediateStages(logn, depth)
        [] call = "depth1"       -> LiftStages1(n \div 2) \o ReduceStages1(n \div 2)
        [] call = "depth0"       -> Stages0(n)
        [] call = "check"        -> CheckStages(n)
Now  == Stages[stage]
Room == FALCON_KEYGEN_TEMP(2^logn) \div 4

-----------------------------------------------------------------------------
Init ==
  /\ logn \in 1 .. 10 /\ call = "keygen" /\ depth = logn /\ stage = 1
  /\ scale_k = 0 /\ maxbl_FG = 0 /\ FGlen = 0

NextStage ==
  /\ stage < Len(Stages)
  /\ stage' = stage + 1
  /\ IF call = "intermediate" /\ stage' = Len(Stages)
     THEN /\ FGlen' = Large(depth) /\ maxbl_FG' = 31 * Large(depth)
          /\ scale_k' = 31 * Large(depth) - minbl(depth)
     ELSE UNCHANGED babai
  /\ UNCHANGED <<logn, call, depth>>

(* One pass of the reduction, the last of which is not scaled.             *)
ShorterWords(len, bits) == IF len * 31 >= bits + 31 THEN len - 1 ELSE len
NextScale == IF scale_k > 25 THEN scale_k - 25 ELSE 0
Reducing == call = "intermediate" /\ stage = Len(Stages) /\ FGlen > 0
Pass ==
  /\ Reducing /\ scale_k > 0
  /\ LET bits == scale_k + maxbl(depth) + 10
     IN  IF bits < maxbl_FG
         THEN maxbl_FG' = bits /\ FGlen' = ShorterWords(FGlen, bits)
         ELSE UNCHANGED <<maxbl_FG, FGlen>>
  /\ scale_k' = NextScale
  /\ UNCHANGED <<logn, call, depth, stage>>

(* The order of the calls; degrees up to 4 have no special last two.       *)
After ==
  CASE call = "keygen" -> <<"deepest", logn>>
    [] call \in {"deepest", "intermediate"} /\ depth > (IF logn <= 2 THEN 0 ELSE 2) -> <<"intermediate", depth - 1>>
    [] call \in {"deepest", "intermediate"} /\ depth = 2 /\ logn > 2 -> <<"depth1", 1>>
    [] call = "depth1" -> <<"depth0", 0>>
    [] OTHER -> <<"check", 0>>
NextCall ==
  /\ stage = Len(Stages) /\ scale_k = 0 /\ call # "check"
  /\ call' = After[1] /\ depth' = After[2] /\ stage' = 1
  /\ scale_k' = 0 /\ maxbl_FG' = 0 /\ FGlen' = 0
  /\ UNCHANGED logn

Next == NextStage \/ Pass \/ NextCall
Spec == Init /\ [][Next]_vars

-----------------------------------------------------------------------------
(* All ten degrees with the tables of the code, through all calls.         *)

(* Every stage of every function stays inside the buffer whose size        *)
(* inner.h gives, the two smallest degrees, which need more per            *)
(* coefficient, included ("temporary buffer sizes must be recomputed       *)
(* accordingly", keygen.c:2409).                                           *)
RoomEnough == Fits(Now.parts, 0, Room)

(* No part of a stage lies over another, and numbers of type fpr are at    *)
(* even words, since the buffer is aligned for them.                       *)
PartsApart == Apart(Now.parts) /\ Suitable(Now.parts)

(* Several moves in a row: none writes over what a later one has yet to    *)
(* move, each starts and ends where parts of the two stages do, so what    *)
(* was put somewhere is found where the next stage looks for it.           *)
Overlap(a, b, len, blen) == a < b + blen /\ b < a + len
MovesSafe ==
  \A i \in DOMAIN Now.moves :
    LET m == Now.moves[i]
    IN  /\ \A j \in DOMAIN Now.moves : i < j =>
             /\ ~Overlap(m[2], Now.moves[j][1], m[3], Now.moves[j][3])
             /\ ~Overlap(m[2], Now.moves[j][2], m[3], Now.moves[j][3])
        /\ \E a \in DOMAIN Now.parts : Now.parts[a].first = m[2]
        /\ \E a \in DOMAIN Now.parts : End(Now.parts[a]) = m[2] + m[3]
        /\ \E a \in DOMAIN Stages[stage - 1].parts : Stages[stage - 1].parts[a].first = m[1]

(* While F and G are reduced, their words hold the length assumed.         *)
WordsHoldLength == Reducing => 31 * FGlen >= maxbl_FG

(* Only the ten highest words are converted to numbers of type fpr: they   *)
(* reach down to the digits that decide the last bit of k, as long as f    *)
(* and g have their usual lengths; and of f and g themselves at least the  *)
(* 53 bits of an fpr are seen (keygen.c:2379, keygen.c:3092).              *)
WindowReaches ==
  Reducing => /\ 31 * (FGlen - 10) <= scale_k + minbl(depth)
              /\ Small(depth) > 10 => 31 * (Small(depth) - 10) + 53 <= minbl(depth)
=============================================================================
