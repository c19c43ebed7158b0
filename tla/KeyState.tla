------------------------------ MODULE KeyState ------------------------------
(***************************************************************************)
(* Key state and signers of src/src/backends/soko_falcon_common.c.  One    *)
(* key state is prepared, threads with buffers of their own sign with      *)
(* tokens under it, and everything is released again.                      *)
(*                                                                         *)
(* A polynomial is told apart by what it was computed from.  The signer    *)
(* proper, sign_dyn_lazy_online, is external: it reads the samples, the    *)
(* target and the hash, and leaves its target buffer overwritten.          *)
(***************************************************************************)
EXTENDS Integers, FiniteSets

CONSTANTS
  Threads,
  Tokens,
  Messages,
  MaxSigns,   \* signatures per thread
  Null

VARIABLES
  heap,      \* blocks that are allocated
  shared,    \* soko_falcon_shared_t: its pointers
  material,  \* what the key material was computed from
  phase,     \* "none", "ready", "exited"
  code,      \* result of soko_prepare_falcon_key_material
  local,     \* soko_falcon_signer_local_t of each thread
  pc, msg, token, signs,  \* each thread's call of soko_falcon_sign_token
  target,    \* token->target of each token
  result     \* what the last call of a thread returned
vars == <<heap, shared, material, phase, code, local, pc, msg, token, signs, target, result>>

Buffers == {"privkey", "pubkey", "tmp", "f", "g", "F", "G", "h", "h_monty",
            "f_fft", "g_fft", "F_fft", "G_fft"}
LocalBuffers == {"sig_buf", "tmp_sign"}

Block(owner, field) == <<owner, field>>
Blocks == {Block(o, b) : o \in {"shared"} \cup Threads, b \in Buffers \cup LocalBuffers}
NoShared == [b \in Buffers |-> Null]
NoLocal  == [sig_buf |-> Null, tmp_sign |-> Null, hm |-> Null, target_work |-> Null,
             sv |-> Null]

(* A null pointer is none to a block.                                      *)
KeyStateAssumption ==
  /\ MaxSigns \in Nat
  /\ \A o \in {"shared"} \cup Threads, b \in Buffers \cup LocalBuffers : Null # Block(o, b)

Pointers == {shared[b] : b \in Buffers} \cup
            {local[t][b] : t \in Threads, b \in LocalBuffers}

-----------------------------------------------------------------------------
(* Slips the code could contain, none of them used below.                  *)

FreedWithSecondNone(l)        == {}
WorkingTargetShared(k, l)     == Null
DerivedWithoutLast            == {"h_monty", "f_fft", "g_fft", "F_fft"}
EncodesHashBuffer(l)          == [hm |-> l.hm, by |-> l.hm]

-----------------------------------------------------------------------------
Init ==
  /\ heap = {} /\ shared = NoShared /\ material = {} /\ phase = "none" /\ code = 0
  /\ local = [t \in Threads |-> NoLocal]
  /\ pc = [t \in Threads |-> "idle"]
  /\ msg = [t \in Threads |-> Null]
  /\ token = [t \in Threads |-> Null]
  /\ signs = [t \in Threads |-> 0]
  /\ target = [k \in Tokens |-> k]
  /\ result = [t \in Threads |-> Null]

signVars == <<pc, msg, token, signs, target, result>>

(* The stages of the preparation.  The negative code is that of the first  *)
(* one that fails: no seed (-1), f, g, F not decoded (-2, -3, -4), bytes   *)
(* left over (-5), no G (-6), no h (-7).                                   *)
Stages == <<"seed", "f", "g", "F", "whole", "G", "h">>
StagesBefore(r) == {Stages[i] : i \in 1 .. (IF r = 0 THEN 7 ELSE -r - 1)}

(* After the last stage: the NTT form of h and the transforms.             *)
Derived == {"h_monty", "f_fft", "g_fft", "F_fft", "G_fft"}

FreedOnFailure(sh) == {sh[b] : b \in Buffers} \ {Null}

soko_prepare_falcon_key_material(r) ==
  material' = StagesBefore(r) \cup (IF r = 0 THEN Derived ELSE {})

(* backend_xmalloc does not return without memory.                         *)
OutOfMemory ==
  /\ phase = "none" /\ phase' = "exited"
  /\ UNCHANGED <<heap, shared, material, code, local, signVars>>

soko_prepare_falcon_key_state ==
  /\ phase = "none"
  /\ \E r \in -7 .. 0, allocated \in {[b \in Buffers |-> Block("shared", b)]} :
       /\ code' = r
       /\ soko_prepare_falcon_key_material(r)
       /\ IF r = 0
            THEN /\ shared' = allocated
                 /\ heap' = heap \cup {allocated[b] : b \in Buffers}
                 /\ phase' = "ready"
            ELSE /\ shared' = NoShared
                 /\ heap' = (heap \cup {allocated[b] : b \in Buffers}) \ FreedOnFailure(allocated)
                 /\ UNCHANGED phase
  /\ UNCHANGED <<local, signVars>>

Idle(t) == pc[t] = "idle" /\ phase # "exited"

(* The caller destroys the state when no thread holds buffers any more.    *)
soko_destroy_falcon_key_state ==
  /\ phase = "ready"
  /\ \A t \in Threads : Idle(t) /\ local[t] = NoLocal
  /\ heap' = heap \ {shared[b] : b \in Buffers}
  /\ shared' = NoShared /\ material' = {} /\ phase' = "none"
  /\ UNCHANGED <<code, local, signVars>>

-----------------------------------------------------------------------------
(* What is freed when tmp_sign cannot be allocated.                        *)
FreedWithSecond(l) == {l.sig_buf}

soko_falcon_init_signer_local(t) ==
  /\ phase = "ready" /\ Idle(t) /\ local[t] = NoLocal
  /\ LET got == [NoLocal EXCEPT !.sig_buf = Block(t, "sig_buf"), !.tmp_sign = Block(t, "tmp_sign")]
     IN  \/ /\ local' = [local EXCEPT ![t] = got]
            /\ heap' = heap \cup {got.sig_buf, got.tmp_sign}
         \/ /\ heap' = (heap \cup {got.sig_buf}) \ FreedWithSecond(got)
            /\ UNCHANGED local
         \/ UNCHANGED <<heap, local>>
  /\ UNCHANGED <<shared, material, phase, code, signVars>>

soko_falcon_destroy_signer_local(t) ==
  /\ Idle(t) /\ local[t] # NoLocal
  /\ heap' = heap \ {local[t][b] : b \in LocalBuffers}
  /\ local' = [local EXCEPT ![t] = NoLocal]
  /\ UNCHANGED <<shared, material, phase, code, signVars>>

-----------------------------------------------------------------------------
(* soko_falcon_sign_token: the hash, the copy of the target, the signer,   *)
(* the encoding, interleaved with those of other threads.                  *)
Begin(t) ==
  /\ Idle(t) /\ local[t] # NoLocal /\ signs[t] < MaxSigns
  /\ \E m \in Messages, k \in Tokens :
       msg' = [msg EXCEPT ![t] = m] /\ token' = [token EXCEPT ![t] = k]
  /\ pc' = [pc EXCEPT ![t] = "hash"]
  /\ signs' = [signs EXCEPT ![t] = @ + 1]
  /\ UNCHANGED <<heap, shared, material, phase, code, local, target, result>>

HashMessage(t) ==
  /\ pc[t] = "hash" /\ pc' = [pc EXCEPT ![t] = "copy"]
  /\ local' = [local EXCEPT ![t].hm = msg[t]]
  /\ UNCHANGED <<heap, shared, material, phase, code, msg, token, signs, target, result>>

CopyTarget(t) ==
  /\ pc[t] = "copy" /\ pc' = [pc EXCEPT ![t] = "sign"]
  /\ local' = [local EXCEPT ![t].target_work = target[token[t]]]
  /\ UNCHANGED <<heap, shared, material, phase, code, msg, token, signs, target, result>>

(* The target of the token itself is not what the signer overwrites.       *)
TargetAfter(k, l) == target[k]

SignOnline(t) ==
  /\ pc[t] = "sign" /\ pc' = [pc EXCEPT ![t] = "encode"]
  /\ local' = [local EXCEPT ![t].sv = [hm |-> local[t].hm, by |-> local[t].target_work],
                            ![t].target_work = Null]
  /\ target' = [target EXCEPT ![token[t]] = TargetAfter(token[t], local[t])]
  /\ UNCHANGED <<heap, shared, material, phase, code, msg, token, signs, result>>

Encoded(l) == l.sv

(* comp_encode refuses a signature with a large coefficient.               *)
Encode(t) ==
  /\ pc[t] = "encode" /\ pc' = [pc EXCEPT ![t] = "idle"]
  /\ \E r \in {Null, Encoded(local[t])} : result' = [result EXCEPT ![t] = r]
  /\ UNCHANGED <<heap, shared, material, phase, code, local, msg, token, signs, target>>

Next ==
  \/ OutOfMemory \/ soko_prepare_falcon_key_state \/ soko_destroy_falcon_key_state
  \/ \E t \in Threads :
       \/ soko_falcon_init_signer_local(t) \/ soko_falcon_destroy_signer_local(t)
       \/ Begin(t) \/ HashMessage(t) \/ CopyTarget(t) \/ SignOnline(t) \/ Encode(t)

Spec == Init /\ [][Next]_vars

-----------------------------------------------------------------------------
(* The state of the keys and of each signer has its types.                 *)
TypeOK ==
  /\ heap \subseteq Blocks
  /\ phase \in {"none", "ready", "exited"} /\ code \in -7 .. 0
  /\ \A t \in Threads :
       /\ signs[t] \in 0 .. MaxSigns /\ pc[t] \in {"idle", "hash", "copy", "sign", "encode"}
       /\ result[t] \in [hm : Messages, by : Tokens] \cup {Null}

(* What is allocated is what a structure points to: every way out of the   *)
(* preparation and of the initialisation of a signer frees what it had     *)
(* allocated, and no pointer outlives its block.                           *)
NothingLost == heap = Pointers \ {Null}

(* A thread signs under a complete key.                                    *)
SignsUnderKey ==
  \A t \in Threads : local[t] # NoLocal =>
    code = 0 /\ {"F", "G", "h", "h_monty", "f_fft", "g_fft", "F_fft", "G_fft"} \subseteq material

(* Signing does not use a token up: its target is the one generated, so    *)
(* that what a second call computes from it is right as well.              *)
TokenIntact == \A k \in Tokens : target[k] = k

(* A call that succeeds returns the signature of its own message with its  *)
(* own token, whatever the other threads do (soko_falcon_sign_token).      *)
OwnSignature ==
  \A t \in Threads : pc[t] = "idle" /\ result[t] # Null =>
    result[t] = [hm |-> msg[t], by |-> token[t]]

-----------------------------------------------------------------------------
(* What the key state holds at each of its phases, and a signer at each of *)
(* its places: all buffers or none, and behind the place what the message  *)
(* and the token of the call were turned into.  This is inductive.         *)
AllShared == [b \in Buffers |-> Block("shared", b)]

KeyInv ==
  /\ shared = IF phase = "ready" THEN AllShared ELSE NoShared
  /\ phase = "ready" => code = 0 /\ material = StagesBefore(0) \cup Derived

SignerState ==
  [sig_buf : {Null} \cup {Block(t, "sig_buf") : t \in Threads},
   tmp_sign : {Null} \cup {Block(t, "tmp_sign") : t \in Threads},
   hm : {Null} \cup Messages, target_work : {Null} \cup Tokens,
   sv : {Null} \cup [hm : {Null} \cup Messages, by : {Null} \cup Tokens]]

Holds(t) == local[t].sig_buf = Block(t, "sig_buf") /\ local[t].tmp_sign = Block(t, "tmp_sign")

SignerInv(t) ==
  /\ local[t] = NoLocal \/ (Holds(t) /\ phase = "ready")
  /\ pc[t] # "idle" =>
       local[t] # NoLocal /\ msg[t] \in Messages /\ token[t] \in Tokens
  /\ pc[t] \in {"copy", "sign"} => local[t].hm = msg[t]
  /\ pc[t] = "sign" => local[t].target_work = token[t]
  /\ pc[t] = "encode" => local[t].sv = [hm |-> msg[t], by |-> token[t]]

KeyStateInv ==
  /\ TypeOK /\ NothingLost /\ TokenIntact /\ OwnSignature
  /\ KeyInv
  /\ local \in [Threads -> SignerState]
  /\ pc \in [Threads -> {"idle", "hash", "copy", "sign", "encode"}]
  /\ msg \in [Threads -> {Null} \cup Messages] /\ token \in [Threads -> {Null} \cup Tokens]
  /\ signs \in [Threads -> 0 .. MaxSigns] /\ target \in [Tokens -> Tokens]
  /\ result \in [Threads -> {Null} \cup [hm : Messages, by : Tokens]]
  /\ \A t \in Threads : SignerInv(t)

(* No way out of the key preparation or of a signer's initialisation loses *)
(* memory, threads sign only under a complete key, and each gets the       *)
(* signature of its own message and token (soko_falcon_common.c).          *)
KeyStateRight == TypeOK /\ NothingLost /\ SignsUnderKey /\ TokenIntact /\ OwnSignature
=============================================================================
