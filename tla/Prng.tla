-------------------------------- MODULE Prng --------------------------------
(***************************************************************************)
(* The pseudorandom generator of Falcon: prng_init, prng_refill and        *)
(* prng_get_bytes of src/submodules/FN-DSA/rng.c, prng_get_u64 and         *)
(* prng_get_u8 of inner.h.                                                 *)
(*                                                                         *)
(* The ChaCha20 block function is opaque: the word of a block is the block *)
(* counter and its number in the block.  The buffer holds Lanes blocks of  *)
(* Words words, whose words are interleaved; a word stands for the bytes   *)
(* that are always read together, and Short for the eight bytes of a       *)
(* 64-bit value.                                                           *)
(***************************************************************************)
EXTENDS Integers, Sequences, FiniteSets

CONSTANTS
  Lanes,   \* 8
  Words,   \* words of a block
  Short,   \* cells of a 64-bit value
  MaxCounter, MaxLen

SizeAssumption ==
  /\ Lanes \in Nat \ {0} /\ Words \in Nat \ {0} /\ Short \in Nat \ {0}
  /\ Short + 1 < Lanes * Words /\ MaxCounter \in Nat /\ MaxLen \in Nat \ {0}

BufSize == Lanes * Words
Cells   == 0 .. BufSize - 1

VARIABLES
  buf,    \* p->buf.d
  ptr,    \* p->ptr
  cc,     \* the block counter in the state
  len,    \* what prng_get_bytes still has to copy
  call,   \* the last call, and
  result, \* what it gave
  served  \* everything given before
vars == <<buf, ptr, cc, len, call, result, served>>

Calls == {"none", "u64", "u8", "bytes"}

TypeOK ==
  /\ buf \in [Cells -> (0 .. MaxCounter + 2 * Lanes) \X (0 .. Words - 1)]
  /\ ptr \in Cells /\ cc \in Lanes .. MaxCounter + 2 * Lanes /\ len \in 0 .. MaxLen
  /\ call \in Calls

Lesser(a, b) == IF a < b THEN a ELSE b

-----------------------------------------------------------------------------
(* Slips the code could contain, none of them used below.                  *)

OneLane(counter)     == counter + 1
BlockByBlock(counter) == [k \in Cells |-> <<counter + k \div Words, k % Words>>]
SameCounter(counter)  == [k \in Cells |-> <<counter, k \div Lanes>>]

-----------------------------------------------------------------------------
AfterLanes(counter) == counter + Lanes

(* prng_refill.  The AVX2 code computes the blocks side by side and stores *)
(* word v of all of them together; the portable code computes block u with *)
(* the counter cc + u and spreads its words out.                           *)
FilledAvx2(counter) ==
  [k \in Cells |-> <<counter + (k % Lanes), k \div Lanes>>]
FilledPortable(counter) ==
  [k \in Cells |->
     LET from == CHOOSE from \in (0 .. Lanes - 1) \X (0 .. Words - 1) : from[1] + Lanes * from[2] = k
     IN  <<counter + from[1], from[2]>>]

(* Less than a 64-bit value and one more byte is left.                     *)
TooFew(u) == u >= BufSize - (Short + 1)

UsedUp(at) == at = BufSize

(* prng_init leaves the buffer full.                                       *)
Init ==
  /\ buf = FilledAvx2(0) /\ ptr = 0 /\ cc = AfterLanes(0)
  /\ len = 0 /\ call = "none" /\ result = <<>> /\ served = {}

Given(cells) == {cells[k] : k \in DOMAIN cells}

(* What a call leaves in the buffer when it has read up to a place.        *)
RefilledIf(full) ==
  IF full THEN buf' = FilledAvx2(cc) /\ cc' = AfterLanes(cc) ELSE UNCHANGED <<buf, cc>>

prng_get_u64 ==
  /\ len = 0 /\ cc < MaxCounter
  /\ RefilledIf(TooFew(ptr))
  /\ LET u == IF TooFew(ptr) THEN 0 ELSE ptr
     IN  /\ ptr' = u + Short
         /\ result' = [k \in 1 .. Short |-> buf'[u + k - 1]]
  /\ call' = "u64" /\ served' = served \cup Given(result) /\ UNCHANGED len

prng_get_u8 ==
  /\ len = 0 /\ cc < MaxCounter
  /\ result' = <<buf[ptr]>>
  /\ ptr' = IF UsedUp(ptr + 1) THEN 0 ELSE ptr + 1
  /\ RefilledIf(UsedUp(ptr + 1))
  /\ call' = "u8" /\ served' = served \cup Given(result) /\ UNCHANGED len

prng_get_bytes ==
  /\ len = 0 /\ cc < MaxCounter
  /\ \E k \in 1 .. MaxLen : len' = k
  /\ call' = "bytes" /\ result' = <<>> /\ served' = served \cup Given(result)
  /\ UNCHANGED <<buf, ptr, cc>>

(* One turn of its loop.  It copies from the start of the buffer.          *)
CopyBytes ==
  /\ len > 0
  /\ LET clen == Lesser(BufSize - ptr, len)
     IN  /\ result' = result \o [k \in 1 .. clen |-> buf[k - 1]]
         /\ len' = len - clen
         /\ ptr' = IF UsedUp(ptr + clen) THEN 0 ELSE ptr + clen
         /\ RefilledIf(UsedUp(ptr + clen))
  /\ UNCHANGED <<call, served>>

(* Falcon itself calls the first two only.                                 *)
Next == prng_get_u64 \/ prng_get_u8 \/ prng_get_bytes \/ CopyBytes
Spec == Init /\ [][Next]_vars

-----------------------------------------------------------------------------
(* A value drawn by signing was given by no earlier call and repeats       *)
(* nothing, wherever calls of different sizes meet the end of the buffer   *)
(* (prng_get_u64, prng_get_u8, prng_refill).                               *)
NothingTwice ==
  call \in {"u64", "u8"} =>
    /\ Given(result) \cap served = {}
    /\ Cardinality(Given(result)) = Len(result)

(* The buffer is the same whichever code filled it, so that a seed gives   *)
(* the same key in every build (prng_refill).                              *)
BuildsAgree == buf = FilledPortable(cc - Lanes)

(* A word given already: of blocks before those in the buffer, or of the   *)
(* part of it that is used.                                                *)
Past(word) == word[1] < cc - Lanes \/ \E k \in Cells : k < ptr /\ word = buf[k]

(* The state between two steps.  This is inductive.                        *)
PrngInv ==
  /\ cc \in Nat /\ cc >= Lanes /\ ptr \in Cells /\ len \in Nat /\ (len > 0 => call = "bytes")
  /\ buf = FilledAvx2(cc - Lanes)
  /\ result \in Seq(Nat \X Nat) /\ served \subseteq Nat \X Nat
  /\ \A word \in served \cup Given(result) : Past(word)
  /\ NothingTwice
=============================================================================
