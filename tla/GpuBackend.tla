------------------------------ MODULE GpuBackend ------------------------------
(***************************************************************************)
(* The GPU side as its callers see it: the loader of                       *)
(* src/src/backends/soko_gpu_backend.c and the host code of                *)
(* src/cuda/soko_gpu_offline.cu.  A call makes tokens or verifies a batch; *)
(* between calls the NTT tables and two public keys stay on the device,    *)
(* one in the form for making tokens, one in the form for verifying.       *)
(*                                                                         *)
(* CUDA's calls may fail at any time.  Some of their results are checked   *)
(* where they are made; those of the tables and keys are not, and are      *)
(* noticed only when the kernel was launched, by cudaGetLastError: it      *)
(* returns the last error of any earlier call and clears it.               *)
(*                                                                         *)
(* All calls come from one thread, as in the benchmarks.                   *)
(***************************************************************************)
EXTENDS Integers

CONSTANTS
  Keys,    \* public keys
  NoKey    \* the hash 0

ASSUME KeyAssumption == NoKey \notin Keys

Generate == "generate"
Verifies == {"verify_raw", "verify_full"}
Kinds    == {Generate, "reset"} \cup Verifies
Symbols  == <<Generate, "reset", "verify_raw", "verify_full">>
Tables   == {"gmb", "igmb"}
Bufs     == 1 .. 3        \* a call's banks, and their counterparts on the device
Uses     == {"making", "verifying"}     \* a key has a form for each
Logn     == 9
Content  == Keys \cup {"null", "raw"}   \* not allocated; not known to be a key

VARIABLES
  loader,               \* gpu_loader_state
  module, functions,    \* gpu_module is set; function pointers that are set
  stream, event,        \* g_stream and g_kernel_done are set
  hostTables,           \* g_ntt_host has its tables
  table,                \* g_d_gmb, g_d_igmb
  deviceKey,            \* g_d_h_hat, g_d_h_verify
  hash, cachedLogn,     \* g_h_hash, g_h_verify_hash; g_cached_logn, g_cached_verify_logn
  lastError,            \* CUDA's last error, of the calling thread
  pc, kind, key,        \* the call
  buffers, registered,  \* device buffers allocated, banks registered with CUDA
  status,               \* what the last call returned
  exited,
  ownFailure,           \* history: something failed in this call
  usedKey, usedTables,  \* history: what the kernel of this call worked with
  tablesLost            \* history: a copy of the tables failed since the reset

loaderVars == <<loader, module, functions>>
syncVars   == <<stream, event>>
tableVars  == <<hostTables, table, tablesLost>>
keyVars    == <<deviceKey, hash, cachedLogn>>
callVars   == <<kind, key>>
bufferVars == <<buffers, registered>>
errorVars  == <<lastError, ownFailure>>
endVars    == <<status, exited>>
usedVars   == <<usedKey, usedTables>>
vars == <<loaderVars, syncVars, tableVars, keyVars, pc, callVars, bufferVars,
          errorVars, endVars, usedVars>>

Making == kind = Generate
Use    == IF Making THEN "making" ELSE "verifying"

-----------------------------------------------------------------------------
(* Slips the code could contain, none of them used by an action.           *)

LoadedIfTried             == loader # 0
TablesThereIfAny          == \E t \in Tables : table[t] # "null"
KeyThereIfSame            == deviceKey[Use] # "null" /\ cachedLogn[Use] = Logn
FreedOnFailureButLast(n)  == 1 .. n - 1
FreedButAtRecord(exit)    == IF exit = "record" THEN Bufs \ {3} ELSE Bufs
ExitsNever                == FALSE

-----------------------------------------------------------------------------
Init ==
  /\ loader = 0 /\ module = FALSE /\ functions = {}
  /\ stream = FALSE /\ event = FALSE
  /\ hostTables = FALSE /\ table = [t \in Tables |-> "null"] /\ tablesLost = FALSE
  /\ deviceKey = [u \in Uses |-> "null"]
  /\ hash = [u \in Uses |-> NoKey] /\ cachedLogn = [u \in Uses |-> 0]
  /\ lastError = FALSE /\ ownFailure = FALSE
  /\ pc = "idle" /\ kind = "reset" /\ key = NoKey
  /\ buffers = {} /\ registered = {}
  /\ status = "none" /\ exited = FALSE
  /\ usedKey = NoKey /\ usedTables = FALSE

(* A failed verification ends the benchmark; a failed generation does not. *)
Exits == kind \in Verifies

Return(s) ==
  /\ pc' = "idle"
  /\ status' = s
  /\ exited' = (s = "failed" /\ Exits)

Goto(place) == pc' = place /\ UNCHANGED endVars

(* CUDA calls, one of which failed if f, whose results are not cleared.    *)
Cuda(f) ==
  /\ lastError' = (lastError \/ f)
  /\ ownFailure' = (ownFailure \/ f)

(* Something else failed.                                                  *)
OtherFailure == ownFailure' = TRUE /\ UNCHANGED lastError

Call(c, k) ==
  /\ pc = "idle" /\ ~exited
  /\ pc' = "load"
  /\ kind' = c /\ key' = k
  /\ status' = "none" /\ exited' = FALSE
  /\ ownFailure' = FALSE
  /\ usedKey' = NoKey /\ usedTables' = FALSE
  /\ UNCHANGED <<loaderVars, syncVars, tableVars, keyVars, bufferVars, lastError>>

-----------------------------------------------------------------------------
(* soko_gpu_backend_load                                                   *)

Loaded == loader = 1
Start  == IF kind = "reset" THEN "reset" ELSE "setup"

LoadedBefore ==
  /\ pc = "load" /\ loader # 0
  /\ \/ Loaded /\ Goto(Start) /\ UNCHANGED errorVars
     \/ ~Loaded /\ Return("failed") /\ OtherFailure
  /\ UNCHANGED <<loaderVars, syncVars, tableVars, keyVars, callVars, bufferVars, usedVars>>

(* The library is not found, its symbol i is not found, or all is well.    *)
LoaderAfter(i) == IF i = 5 THEN 1 ELSE IF i < 2 THEN -101 - i ELSE -102 - i

Load == \E i \in 0 .. 5 :
  /\ pc = "load" /\ loader = 0
  /\ loader' = LoaderAfter(i)
  /\ module' = (i = 5)
  /\ functions' = {Symbols[j] : j \in 1 .. i - 1}
  /\ \/ i = 5 /\ Goto(Start) /\ UNCHANGED errorVars
     \/ i # 5 /\ Return("failed") /\ OtherFailure
  /\ UNCHANGED <<syncVars, tableVars, keyVars, callVars, bufferVars, usedVars>>

-----------------------------------------------------------------------------
(* The calls of the library                                                *)

(* Stream and event are made once.                                         *)
Setup == \E s, e \in BOOLEAN :
  /\ pc = "setup"
  /\ stream => s
  /\ event => e
  /\ ~s => e = event
  /\ stream' = s /\ event' = e
  /\ Cuda(~(s /\ e))
  /\ IF s /\ e THEN Goto("tables") ELSE Return("failed")
  /\ UNCHANGED <<loaderVars, tableVars, keyVars, callVars, bufferVars, usedVars>>

(* ensure_device_tables: malloc for the host's tables may fail,            *)
NoHostTables ==
  /\ pc = "tables" /\ ~hostTables
  /\ Return("failed") /\ OtherFailure
  /\ UNCHANGED <<loaderVars, syncVars, tableVars, keyVars, callVars, bufferVars, usedVars>>

(* both tables may have been on the device before,                         *)
TablesThere == \A t \in Tables : table[t] # "null"

(* (making the host's tables forgets the key for making tokens)            *)
ForgetKey ==
  /\ cachedLogn' = [cachedLogn EXCEPT !.making = 0]
  /\ UNCHANGED <<deviceKey, hash>>

KeepTables ==
  /\ pc = "tables" /\ TablesThere
  /\ hostTables' = TRUE
  /\ ForgetKey
  /\ Goto("key")
  /\ UNCHANGED <<loaderVars, syncVars, table, tablesLost, callVars, bufferVars,
                 errorVars, usedVars>>

(* or those not there are allocated, and both are copied, unchecked.       *)
CopyTables == \E room, copied \in SUBSET Tables :
  /\ pc = "tables" /\ ~TablesThere
  /\ copied \subseteq room
  /\ {t \in Tables : table[t] # "null"} \subseteq room
  /\ hostTables' = TRUE
  /\ table' = [t \in Tables |-> IF t \in copied THEN "good"
                                ELSE IF t \in room /\ table[t] = "null" THEN "raw"
                                ELSE table[t]]
  /\ tablesLost' = (tablesLost \/ copied # room)
  /\ ForgetKey
  /\ Cuda(copied # Tables)
  /\ Goto("key")
  /\ UNCHANGED <<loaderVars, syncVars, callVars, bufferVars, usedVars>>

(* ensure_h_hat and ensure_h_verify: the hit,                              *)
KeyThere == deviceKey[Use] # "null" /\ hash[Use] = key /\ cachedLogn[Use] = Logn

KeepKey ==
  /\ pc = "key" /\ KeyThere
  /\ Goto("alloc")
  /\ UNCHANGED <<loaderVars, syncVars, tableVars, keyVars, callVars, bufferVars,
                 errorVars, usedVars>>

(* the miss, where room is allocated once and the copy is unchecked,       *)
CopyKey == \E room, copied \in BOOLEAN :
  /\ pc = "key" /\ ~KeyThere
  /\ deviceKey[Use] # "null" => room
  /\ copied => room
  /\ deviceKey' = [deviceKey EXCEPT ![Use] =
                     IF copied THEN key ELSE IF room THEN "raw" ELSE "null"]
  /\ hash' = [hash EXCEPT ![Use] = key]
  /\ cachedLogn' = [cachedLogn EXCEPT ![Use] = Logn]
  /\ Cuda(~copied)
  /\ Goto("alloc")
  /\ UNCHANGED <<loaderVars, syncVars, tableVars, callVars, bufferVars, usedVars>>

(* and no memory for the transformed key, after room was made for it.      *)
NoHostKey == \E room \in BOOLEAN :
  /\ pc = "key" /\ Making /\ ~KeyThere
  /\ deviceKey.making # "null" => room
  /\ IF deviceKey.making = "null"
       THEN /\ deviceKey' = [deviceKey EXCEPT !.making = IF room THEN "raw" ELSE "null"]
            /\ hash' = [hash EXCEPT !.making = NoKey]
       ELSE UNCHANGED <<deviceKey, hash>>
  /\ lastError' = (lastError \/ ~room)
  /\ ownFailure' = TRUE
  /\ Return("failed")
  /\ UNCHANGED <<loaderVars, syncVars, tableVars, cachedLogn, callVars, bufferVars, usedVars>>

(* The first n buffers were allocated; if not all, they are freed again.   *)
FreedOnFailure(n) == 1 .. n

Allocate == \E n \in 0 .. 3 :
  /\ pc = "alloc"
  /\ Cuda(n < 3)
  /\ IF n = 3
       THEN buffers' = Bufs /\ Goto(IF Making THEN "launch" ELSE "register")
       ELSE buffers' = (1 .. n) \ FreedOnFailure(n) /\ Return("failed")
  /\ UNCHANGED <<loaderVars, syncVars, tableVars, keyVars, callVars, registered, usedVars>>

(* Registering the banks is optional: without it they are copied slower.   *)
Register == \E banks \in SUBSET Bufs :
  /\ pc = "register"
  /\ registered' = banks
  /\ Cuda(banks # Bufs)
  /\ Goto(IF Making THEN "copyOut" ELSE "copyIn")
  /\ UNCHANGED <<loaderVars, syncVars, tableVars, keyVars, callVars, buffers, usedVars>>

(* The exits of a call that has its buffers are named for the step that    *)
(* failed there, the last one "end", which success takes too.  Each has a  *)
(* cleanup of its own; the steps that have none go through the end.        *)
OwnExits ==
  CASE Making              -> {"launch", "record", "wait", "copy"}
    [] kind = "verify_raw" -> {"copyIn", "launch", "record"}
    [] OTHER               -> {"copyIn"}

ExitOf(step) == IF step \in OwnExits THEN step ELSE "end"

(* What an exit frees, and what it unregisters if it was registered: a     *)
(* call that makes tokens does not register before its kernel runs.        *)
Freed(exit)        == Bufs
Unregistered(exit) == IF Making /\ exit \in {"launch", "record"} THEN {} ELSE Bufs

Release(exit, s) ==
  /\ registered' = registered \ Unregistered(exit)
  /\ buffers' = buffers \ Freed(exit)
  /\ Return(s)

CopyIn == \E failed \in BOOLEAN :
  /\ pc = "copyIn"
  /\ Cuda(failed)
  /\ IF failed THEN Release(ExitOf("copyIn"), "failed")
               ELSE Goto("launch") /\ UNCHANGED bufferVars
  /\ UNCHANGED <<loaderVars, syncVars, tableVars, keyVars, callVars, usedVars>>

(* The kernel is launched, the last error is taken, the event is recorded. *)
(* After a failure releasing may fail too, which is not checked.           *)
LeftAfterCheck == FALSE

Launch == \E failed, unrecorded, late \in BOOLEAN :
  /\ pc = "launch"
  /\ unrecorded => ~(lastError \/ failed)
  /\ late => lastError \/ failed \/ unrecorded
  /\ usedKey' = deviceKey[Use]
  /\ usedTables' = (\A t \in Tables : table[t] = "good")
  /\ lastError' = (LeftAfterCheck \/ unrecorded \/ late)
  /\ ownFailure' = (ownFailure \/ failed \/ unrecorded \/ late)
  /\ IF lastError \/ failed THEN Release(ExitOf("launch"), "failed")
     ELSE IF unrecorded THEN Release(ExitOf("record"), "failed")
     ELSE Goto(IF Making THEN "register" ELSE "copyOut") /\ UNCHANGED bufferVars
  /\ UNCHANGED <<loaderVars, syncVars, tableVars, keyVars, callVars>>

(* The kernel is awaited, its results are copied, and awaited again: the   *)
(* last of these goes through the end whether it failed or not.            *)
CopyOut == \E step \in {"wait", "copy", "end"}, failed, late \in BOOLEAN :
  /\ pc = "copyOut"
  /\ failed \/ step = "end"
  /\ Cuda(failed \/ late)
  /\ Release(ExitOf(step), IF failed THEN "failed" ELSE "ok")
  /\ UNCHANGED <<loaderVars, syncVars, tableVars, keyVars, callVars, usedVars>>

(* oofalcon_gpu_reset_device; whether it clears the last error is CUDA's.  *)
Reset == \E failed, left \in BOOLEAN :
  /\ pc = "reset"
  /\ stream' = FALSE /\ event' = FALSE
  /\ table' = [t \in Tables |-> "null"]
  /\ deviceKey' = [u \in Uses |-> "null"]
  /\ hash' = [u \in Uses |-> NoKey]
  /\ cachedLogn' = [u \in Uses |-> 0]
  /\ tablesLost' = FALSE
  /\ lastError' = left
  /\ failed => left
  /\ ownFailure' = failed
  /\ Return(IF failed THEN "failed" ELSE "ok")
  /\ UNCHANGED <<loaderVars, hostTables, callVars, bufferVars, usedVars>>

Ended == exited /\ UNCHANGED vars

Next ==
  \/ \E c \in Kinds, k \in Keys : Call(c, k)
  \/ LoadedBefore \/ Load
  \/ Setup \/ NoHostTables \/ KeepTables \/ CopyTables
  \/ KeepKey \/ CopyKey \/ NoHostKey
  \/ Allocate \/ Register \/ CopyIn \/ Launch \/ CopyOut
  \/ Reset \/ Ended

Spec == Init /\ [][Next]_vars

-----------------------------------------------------------------------------
(* Properties *)

Places == {"idle", "load", "setup", "tables", "key", "alloc", "register", "copyIn",
           "launch", "copyOut", "reset"}

(* Types of the variables.                                                 *)
TypeOK ==
  /\ loader \in {0, 1, -101, -102, -104, -105, -106}
  /\ module \in BOOLEAN /\ functions \subseteq Kinds
  /\ stream \in BOOLEAN /\ event \in BOOLEAN
  /\ hostTables \in BOOLEAN /\ tablesLost \in BOOLEAN
  /\ table \in [Tables -> {"null", "raw", "good"}]
  /\ deviceKey \in [Uses -> Content]
  /\ hash \in [Uses -> Keys \cup {NoKey}] /\ cachedLogn \in [Uses -> {0, Logn}]
  /\ lastError \in BOOLEAN /\ ownFailure \in BOOLEAN
  /\ pc \in Places /\ kind \in Kinds /\ key \in Keys \cup {NoKey}
  /\ buffers \subseteq Bufs /\ registered \subseteq Bufs
  /\ status \in {"none", "ok", "failed"} /\ exited \in BOOLEAN
  /\ usedKey \in Content \cup {NoKey} /\ usedTables \in BOOLEAN

(* A call that returned success worked with the key it was given, although *)
(* keys stay on the device, a failed copy of a key is noticed late and     *)
(* leaves the hash of the key it should have made.                         *)
Succeeded == status = "ok" /\ kind # "reset"
OwnKeyUsed == Succeeded => usedKey = key

(* It also worked with the tables, unless a copy of them failed in an      *)
(* earlier call since the device was reset.                                *)
TablesUsed == Succeeded /\ ~tablesLost => usedTables

(* No call leaves a buffer on the device or a bank registered, whichever   *)
(* exit of its own it takes.                                               *)
AllReleased == pc = "idle" => buffers = {} /\ registered = {}

(* Only functions of the library loaded are called.                        *)
CallsResolved == pc \notin {"idle", "load"} => module /\ kind \in functions

(* A call may fail for an error left over from an earlier one; the error   *)
(* is gone then.                                                           *)
LeftoverReportedOnce == status = "failed" /\ ~ownFailure => ~lastError

(* Tokens made have target = sample1 - h * sample2, h being the key given: *)
(* the kernel worked with the tables and that key.                         *)
SuccessMeansTarget ==
  status = "ok" /\ kind = Generate => usedKey = key /\ usedTables

(* A call fails only if something failed in it.                            *)
ErrorMeansFailure == status = "failed" => ownFailure

-----------------------------------------------------------------------------
(* The inductive invariant of the proofs.                                  *)

LoaderInv ==
  /\ Loaded => module /\ functions = Kinds
  /\ pc \notin {"idle", "load"} => Loaded
  /\ pc = "reset" => kind = "reset"
  /\ pc \notin {"idle", "load", "reset"} => kind # "reset"
  /\ pc = "copyIn" => ~Making

BuffersInv ==
  /\ pc \notin {"launch", "register", "copyIn", "copyOut"} => buffers = {}
  /\ pc \notin {"copyIn", "launch", "copyOut"} => registered = {}
  /\ pc = "launch" /\ Making => registered = {}

(* What failed unchecked is either remembered in lastError, until the      *)
(* launch, or visible in the table itself or in tablesLost.                *)
TablesInv ==
  /\ ~tablesLost => \A t \in Tables : table[t] # "raw"
  /\ pc \in {"key", "alloc", "register", "copyIn", "launch"} =>
       lastError \/ tablesLost \/ TablesThere
  /\ pc = "copyOut" \/ (pc = "register" /\ Making) => tablesLost \/ usedTables

(* A key that the hash vouches for is there, unless the call that copied   *)
(* it is still going to fail, and then exits.  The hash never vouches for  *)
(* the key for making tokens.                                              *)
KeysInv ==
  /\ \/ exited
     \/ lastError /\ ~Making /\ pc \in {"alloc", "register", "copyIn", "launch"}
     \/ cachedLogn.verifying = Logn /\ deviceKey.verifying # "null" =>
          deviceKey.verifying = hash.verifying
  /\ pc = "key" => cachedLogn.making = 0
  /\ pc \in {"alloc", "copyIn", "launch"} \/ (pc = "register" /\ ~Making) =>
       lastError \/ deviceKey[Use] = key
  /\ pc = "copyOut" \/ (pc = "register" /\ Making) => usedKey = key
  /\ pc # "idle" => key \in Keys /\ status = "none" /\ ~exited

GpuInv ==
  /\ TypeOK /\ LoaderInv /\ BuffersInv /\ TablesInv /\ KeysInv
  /\ OwnKeyUsed /\ TablesUsed /\ LeftoverReportedOnce

=============================================================================
