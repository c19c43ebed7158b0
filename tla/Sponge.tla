------------------------------- MODULE Sponge -------------------------------
(***************************************************************************)
(* SHAKE256 as a stream: inner_shake256_init, _inject, _flip and _extract  *)
(* of src/submodules/FN-DSA/shake.c, and the one padded block that the GPU *)
(* absorbs instead (src/cuda/soko_gpu_offline.cu).                         *)
(*                                                                         *)
(* The permutation is opaque (see Keccak): the state is what was absorbed, *)
(* as the list of blocks it has permuted and the one it is filling.  At a  *)
(* place of a block is the set of the bytes XORed into it.                 *)
(***************************************************************************)
EXTENDS Integers, Sequences

CONSTANTS
  Rate,        \* 136
  MaxMessage,  \* bytes injected
  MaxOutput,   \* bytes extracted
  MaxCall      \* bytes of one call

RateAssumption == Rate \in Nat /\ Rate >= 2
BoundsAssumption == MaxMessage \in Nat /\ MaxOutput \in Nat /\ MaxCall \in Nat \ {0}

(* The padding bytes; those of a message are numbered from 1.              *)
Pad1F == 0
Pad80 == -1

Empty == [d \in 0 .. Rate - 1 |-> {}]

VARIABLES
  permuted, filling,  \* the state A
  dptr,
  phase,              \* "absorb", "squeeze": what the caller may do
  len,                \* what is left of the current call
  fed,                \* bytes injected, numbered 1, 2, ...
  out                 \* bytes extracted
vars == <<permuted, filling, dptr, phase, len, fed, out>>

TypeOK ==
  /\ permuted \in Seq([0 .. Rate - 1 -> SUBSET (1 .. MaxMessage \cup {Pad1F, Pad80})])
  /\ filling \in [0 .. Rate - 1 -> SUBSET (1 .. MaxMessage \cup {Pad1F, Pad80})]
  /\ dptr \in 0 .. Rate /\ (phase = "absorb" => dptr < Rate)
  /\ phase \in {"absorb", "squeeze"} /\ len \in 0 .. MaxCall
  /\ fed \in 0 .. MaxMessage /\ Len(out) <= MaxOutput

Lesser(a, b) == IF a < b THEN a ELSE b

-----------------------------------------------------------------------------
(* Slips the code could contain, none of them used below.                  *)

ChunkOfCall(left, at)    == left
PadPlaceNext(at)         == Lesser(at + 1, Rate - 1)
IsFullByOne(at)          == at >= Rate - 1
DeviceBlockShort(k)      == [d \in 0 .. Rate - 1 |-> IF d < k THEN {d + 1} ELSE IF d = k THEN {Pad1F} ELSE {}]

-----------------------------------------------------------------------------
(* What the caller sees of the state at a place.                           *)
ByteAt(blocks, d) == <<blocks, d>>

(* clen: what fits before the end of the block.                            *)
Chunk(left, at) == Lesser(left, Rate - at)

IsFull(at)  == at = Rate
PadPlace(at) == at

(* The block of the GPU: a message of k bytes and its padding, in one.     *)
DeviceBlock(k) ==
  [d \in 0 .. Rate - 1 |->
     (IF d < k THEN {d + 1} ELSE IF d = k THEN {Pad1F} ELSE {})
     \cup (IF d = Rate - 1 THEN {Pad80} ELSE {})]

Init ==
  /\ permuted = <<>> /\ filling = Empty /\ dptr = 0
  /\ phase = "absorb" /\ len = 0 /\ fed = 0 /\ out = <<>>

CallInject ==
  /\ phase = "absorb" /\ len = 0
  /\ \E k \in 1 .. Lesser(MaxCall, MaxMessage - fed) : len' = k
  /\ UNCHANGED <<permuted, filling, dptr, phase, fed, out>>

(* One turn of the loop of inject.                                         *)
InjectChunk ==
  /\ phase = "absorb" /\ len > 0
  /\ LET clen == Chunk(len, dptr)
         added == [d \in 0 .. Rate - 1 |->
                     IF d \in dptr .. dptr + clen - 1 THEN filling[d] \cup {fed + d - dptr + 1}
                                                      ELSE filling[d]]
     IN  /\ fed' = fed + clen /\ len' = len - clen
         /\ IF IsFull(dptr + clen)
              THEN permuted' = Append(permuted, added) /\ filling' = Empty /\ dptr' = 0
              ELSE filling' = added /\ dptr' = dptr + clen /\ UNCHANGED permuted
  /\ UNCHANGED <<phase, out>>

(* The padding; the next extraction permutes first.                        *)
Flip ==
  /\ phase = "absorb" /\ len = 0
  /\ filling' = [filling EXCEPT ![PadPlace(dptr)] = @ \cup {Pad1F}, ![Rate - 1] = @ \cup {Pad80}]
  /\ dptr' = Rate
  /\ phase' = "squeeze"
  /\ UNCHANGED <<permuted, len, fed, out>>

CallExtract ==
  /\ phase = "squeeze" /\ len = 0
  /\ \E k \in 1 .. Lesser(MaxCall, MaxOutput - Len(out)) : len' = k
  /\ UNCHANGED <<permuted, filling, dptr, phase, fed, out>>

(* One turn of the loop of extract.                                        *)
ExtractChunk ==
  /\ phase = "squeeze" /\ len > 0
  /\ permuted' = IF IsFull(dptr) THEN Append(permuted, filling) ELSE permuted
  /\ filling'  = IF IsFull(dptr) THEN Empty ELSE filling
  /\ LET from == IF IsFull(dptr) THEN 0 ELSE dptr
         clen == Chunk(len, from)
     IN  /\ out' = out \o [k \in 1 .. clen |-> ByteAt(permuted', from + k - 1)]
         /\ dptr' = from + clen /\ len' = len - clen
  /\ UNCHANGED <<phase, fed>>

Next == CallInject \/ InjectChunk \/ Flip \/ CallExtract \/ ExtractChunk
Spec == Init /\ [][Next]_vars

-----------------------------------------------------------------------------
(* What the function is by its definition: the bytes of the message one    *)
(* after the other, the padding in the last block.                         *)
MessageBlock(k, b) ==
  [d \in 0 .. Rate - 1 |-> IF b * Rate + d < k THEN {b * Rate + d + 1} ELSE {}]
WholeBlocks(k) == [b \in 1 .. k \div Rate |-> MessageBlock(k, b - 1)]
LastBlock(k) ==
  [d \in 0 .. Rate - 1 |->
     MessageBlock(k, k \div Rate)[d] \cup (IF d = k % Rate THEN {Pad1F} ELSE {})
       \cup (IF d = Rate - 1 THEN {Pad80} ELSE {})]

(* However the message is cut into calls, the same blocks are absorbed     *)
(* (inject, flip).                                                         *)
AbsorbedAsOne ==
  /\ phase = "absorb" =>
       permuted = WholeBlocks(fed) /\ filling = MessageBlock(fed, fed \div Rate)
  /\ phase = "squeeze" /\ out = <<>> =>
       permuted \o <<filling>> = WholeBlocks(fed) \o <<LastBlock(fed)>>

(* What the state has absorbed when the k-th byte is taken from it: one    *)
(* empty block more for every Rate bytes.                                  *)
AbsorbedAt(k) ==
  WholeBlocks(fed) \o <<LastBlock(fed)>> \o [b \in 1 .. (k - 1) \div Rate |-> Empty]

(* However the output is cut into calls, its k-th byte is the same         *)
(* (extract).                                                              *)
SqueezedAsOne ==
  \A k \in 1 .. Len(out) :
    out[k] = ByteAt(AbsorbedAt(k), (k - 1) % Rate)

(* A message that fits in one block is absorbed by the GPU as by the CPU   *)
(* (shake256_device_absorb_bench_input).                                   *)
DeviceAgrees ==
  phase = "squeeze" /\ out = <<>> /\ fed < Rate => permuted = <<>> /\ filling = DeviceBlock(fed)

(* The state between two steps.  This is inductive.                        *)
SpongeInv ==
  /\ fed \in Nat /\ len \in Nat /\ Len(out) \in Nat /\ phase \in {"absorb", "squeeze"}
  /\ phase = "absorb" =>
       /\ permuted = WholeBlocks(fed) /\ filling = MessageBlock(fed, fed \div Rate)
       /\ dptr = fed % Rate /\ out = <<>>
  /\ phase = "squeeze" /\ out = <<>> =>
       permuted = WholeBlocks(fed) /\ filling = LastBlock(fed) /\ dptr = Rate
  /\ phase = "squeeze" /\ out # <<>> =>
       permuted = AbsorbedAt(Len(out)) /\ filling = Empty /\ dptr = 1 + ((Len(out) - 1) % Rate)
  /\ out = [k \in 1 .. Len(out) |-> ByteAt(AbsorbedAt(k), (k - 1) % Rate)]
=============================================================================
