------------------------------ MODULE CertChain ------------------------------
(***************************************************************************)
(* The certificate-chain benchmarks (bench_cert_*.c): six drivers that     *)
(* make a chain of keys, let each level sign the public key of the next,   *)
(* let the client sign a message and verify all of it, some number of      *)
(* times.  They differ in the order of these operations and in what they   *)
(* do before the message is known: a driver says which operation follows   *)
(* which (in its iteration, and for OO-Dilithium in a setup before), and   *)
(* an operation is an action.                                              *)
(*                                                                         *)
(* A key pair is a number, none twice; a signature says whose it is and    *)
(* over what (the number of a public key, or 0 for the message).  The      *)
(* signature schemes are external to the drivers: a signature verifies if  *)
(* it is by that key over that data.  Signing may fail.  ed25519 and       *)
(* ooed25519 then return; falcon, dilithium and oodilithium do not look at *)
(* the result and keep what the buffer held; oofalcon writes a signature   *)
(* that is too long or was not encoded, for the lazy signer tries once.    *)
(***************************************************************************)
EXTENDS Integers

CONSTANTS
    Schemes,        \* the drivers that are run
    MaxLength,      \* bound: longest chain (MAX_CHAIN_LENGTH is 10)
    MaxIterations   \* bound: most iterations

Names == {"falcon", "ed25519", "dilithium", "oofalcon", "ooed25519", "oodilithium"}

CertChainAssumption ==
    /\ Schemes \subseteq Names
    /\ {MaxLength, MaxIterations} \subseteq Nat \ {0}

VARIABLES
    scheme, chain_length, iterations,
    phase,       \* "setup", "run", "done" or "returned"
    iter,        \* iterations completed, or in the setup rounds of throw-away keys
    at,          \* the operation that comes next, and its level
    made,        \* key pairs made so far
    keys,        \* chain[level].pk and .sk; 0 before there is one
    certs,       \* chain[level].cert_sig
    msg_sig,     \* the client's signature of the message
    sample,      \* oofalcon's offline sample: whose, and which one
    times,       \* how often each operation was timed at each level
    complaints,  \* levels complained about in this iteration
    failed,      \* history: a signature of this iteration failed
    spent,       \* history: nonces used, as <<key, sample or group>>
    reused       \* history: a nonce was used again

vars == <<scheme, chain_length, iterations, phase, iter, at, made, keys, certs,
          msg_sig, sample, times, complaints, failed, spent, reused>>

None == [by |-> 0, over |-> 0]
Client == chain_length - 1
Levels == 0..Client

-----------------------------------------------------------------------------
(* The drivers: which operation follows the present one, and at what level. *)

At(op, level) == [op |-> op, level |-> level]
End == At("end", 0)

(* A loop that comes to a level: its operation, or what follows the loop. *)
Upward(op, level, then)         == IF level <= Client THEN At(op, level) ELSE then
Downward(op, level, last, then) == IF level >= last THEN At(op, level) ELSE then

(* Slip: the loop ends before the certificate of level 1. *)
VerifyShort(level) == Downward("verify_cert", level, 2, End)

(* The certificates, from the client's up. *)
VerifyChain(level) == Downward("verify_cert", level, 1, End)

(* The end of an iteration is the same in all drivers but oofalcon. *)
AfterSigning ==
    CASE at.op = "sign_message"   -> At("verify_message", Client)
      [] at.op = "verify_message" -> VerifyChain(Client)
      [] at.op = "verify_cert"    -> VerifyChain(at.level - 1)

(* Slip: a level is certified before its key is made. *)
PlainEarly ==
    CASE at.op = "keygen"   -> Upward("certify", at.level + 1, At("allocate", Client))
      [] at.op = "certify"  -> At("keygen", at.level)
      [] at.op = "allocate" -> At("sign_message", Client)
      [] OTHER              -> AfterSigning

Plain ==
    LET NextLevel == Upward("keygen", at.level + 1, At("allocate", Client))
    IN  CASE at.op = "keygen"   -> IF at.level = 0 THEN NextLevel ELSE At("certify", at.level)
          [] at.op = "certify"  -> NextLevel
          [] at.op = "allocate" -> At("sign_message", Client)
          [] OTHER              -> AfterSigning

(* Keys upwards; then each level signs, and is verified, downwards. *)
OoFalcon ==
    LET Signer(level) == Downward("offline", level, 0, End)
    IN  CASE at.op = "keygen"         -> Upward("keygen", at.level + 1, Signer(Client))
          [] at.op = "offline"        -> Upward("certify", at.level + 1, At("sign_message", Client))
          [] at.op = "sign_message"   -> At("verify_message", Client)
          [] at.op = "certify"        -> At("verify_cert", at.level)
          [] at.op = "verify_message" -> Signer(Client - 1)
          [] at.op = "verify_cert"    -> Signer(at.level - 2)

OoEd25519 ==
    LET Certify(level) == Upward("certify", level, At("sign_message", Client))
    IN  CASE at.op = "keygen"  -> At("offline", at.level)
          [] at.op = "offline" -> Upward("keygen", at.level + 1, Certify(1))
          [] at.op = "certify" -> Certify(at.level + 1)
          [] OTHER             -> AfterSigning

(* Slip: the last certificate authority is not timed. *)
ResignShort(level) == IF level < Client THEN At("resign", level) ELSE At("sign_message", Client)

ResignChain(level) == Upward("resign", level, At("sign_message", Client))

(* Throw-away keys to time key generation, then the keys of the chain; the *)
(* iterations sign with these.                                             *)
OoDilithium ==
    LET NextLevel  == Upward("make", at.level + 1, End)
        NextRound  == IF iter + 1 < iterations THEN At("throw_away", 0) ELSE At("make", 0)
    IN  CASE at.op = "throw_away" -> Upward("throw_away", at.level + 1, NextRound)
          [] at.op = "make"       -> At("offline", at.level)
          [] at.op = "offline"    -> IF at.level = 0 THEN NextLevel ELSE At("certify", at.level)
          [] at.op = "certify"    -> NextLevel
          [] at.op = "resign"     -> ResignChain(at.level + 1)
          [] OTHER                -> AfterSigning

Following ==
    CASE scheme = "oofalcon"    -> OoFalcon
      [] scheme = "ooed25519"   -> OoEd25519
      [] scheme = "oodilithium" -> OoDilithium
      [] OTHER                  -> Plain

First == IF scheme = "oodilithium" THEN ResignChain(1) ELSE At("keygen", 0)

-----------------------------------------------------------------------------
Kinds == {"keygen", "offline", "online", "verify"}

Init ==
    /\ scheme \in Schemes
    /\ chain_length \in 1..MaxLength
    /\ iterations \in 1..MaxIterations
    /\ phase = IF scheme = "oodilithium" THEN "setup" ELSE "run"
    /\ at = IF scheme = "oodilithium" THEN At("throw_away", 0) ELSE At("keygen", 0)
    /\ iter = 0
    /\ made = 0
    /\ keys = [level \in Levels |-> 0]
    /\ certs = [level \in Levels |-> None]
    /\ msg_sig = None /\ sample = [key |-> 0, id |-> 0]
    /\ times = [kind \in Kinds |-> [level \in Levels |-> 0]]
    /\ complaints = {} /\ failed = FALSE
    /\ spent = {} /\ reused = FALSE

Doing(op) == phase \in {"setup", "run"} /\ at.op = op
Level == at.level
Go == at' = Following /\ UNCHANGED <<scheme, chain_length, iterations, phase, iter>>
Timed(kind, level) == times' = [times EXCEPT ![kind][level] = @ + 1]

(* A key pair for a level; OO-Dilithium times others, thrown away. *)
NewKey == /\ made' = made + 1
          /\ keys' = [keys EXCEPT ![Level] = made + 1]

Keygen ==
    /\ Doing("keygen") /\ NewKey /\ Timed("keygen", Level) /\ Go
    /\ UNCHANGED <<certs, msg_sig, sample, complaints, failed, spent, reused>>

MakeKey ==
    /\ Doing("make") /\ NewKey /\ Go
    /\ UNCHANGED <<certs, msg_sig, sample, times, complaints, failed, spent, reused>>

ThrowAwayKey ==
    /\ Doing("throw_away") /\ Timed("keygen", Level) /\ at' = Following
    /\ iter' = IF Level = Client THEN iter + 1 ELSE iter
    /\ UNCHANGED <<scheme, chain_length, iterations, phase, made, keys, certs, msg_sig,
                   sample, complaints, failed, spent, reused>>

(* What is done before the message: a sample of this level's key (oofalcon), *)
(* a token (ooed25519, whose signer ignores it), a table of nonces.          *)
Offline ==
    /\ Doing("offline") /\ Timed("offline", Level) /\ Go
    /\ sample' = IF scheme = "oofalcon"
                 THEN [key |-> keys[Level], id |-> sample.id + 1] ELSE sample
    /\ UNCHANGED <<made, keys, certs, msg_sig, complaints, failed, spent, reused>>

(* Slip: the iterations start at the group that built the chain. *)
GroupFromZero == IF phase = "setup" THEN 0 ELSE iter

(* The group of nonces: 0 builds the chain, then one for each iteration. *)
Group == IF phase = "setup" THEN 0 ELSE 1 + iter

Nonces(key) ==
    CASE scheme = "oofalcon" -> {<<sample.key, sample.id>>}
      [] scheme = "oodilithium" -> {<<key, Group>>}
      [] OTHER -> {}

(* The signature of a level, which oofalcon makes with what the sample holds. *)
Signature(level, over) ==
    [by |-> IF scheme = "oofalcon" THEN sample.key ELSE keys[level], over |-> over]

(* A try to sign: what comes to stand in place of the old signature. *)
Attempts(level, over, old) ==
    {Signature(level, over)} \cup
        CASE scheme = "oofalcon" -> {None}
          [] scheme \in {"ed25519", "ooed25519"} -> {}
          [] OTHER -> {old}

Signs(level, over, new) ==
    /\ IF phase = "run" THEN Timed("online", level) ELSE UNCHANGED times
    /\ failed' = (failed \/ new # [by |-> keys[level], over |-> over])
    /\ reused' = (reused \/ Nonces(keys[level]) \cap spent # {})
    /\ spent' = spent \cup Nonces(keys[level])
    /\ Go
    /\ UNCHANGED <<made, keys, sample, complaints>>

Certify ==
    /\ Doing("certify")
    /\ \E new \in Attempts(Level - 1, keys[Level], certs[Level]) :
          /\ certs' = [certs EXCEPT ![Level] = new]
          /\ Signs(Level - 1, keys[Level], new)
    /\ UNCHANGED msg_sig

(* OO-Dilithium signs the next level's key again, to time it, into a buffer *)
(* that nothing reads.                                                      *)
Resign ==
    /\ Doing("resign")
    /\ Signs(Level - 1, keys[Level], [by |-> keys[Level - 1], over |-> keys[Level]])
    /\ UNCHANGED <<certs, msg_sig>>

(* The buffer of the message's signature, new in each iteration of falcon *)
(* and ed25519; without it the iterations end and the results are printed. *)
Allocate ==
    /\ Doing("allocate") /\ msg_sig' = None /\ at' = Following
    /\ phase' \in IF scheme = "dilithium" THEN {phase} ELSE {phase, "done"}
    /\ UNCHANGED <<scheme, chain_length, iterations, iter, made, keys, certs, sample,
                   times, complaints, failed, spent, reused>>

SignMessage ==
    /\ Doing("sign_message")
    /\ \E new \in Attempts(Level, 0, None) :
          msg_sig' = new /\ Signs(Level, 0, new)
    /\ UNCHANGED certs

(* Ed25519's drivers return, without results, when a call fails. *)
Return ==
    /\ \/ scheme = "ed25519" /\ Doing("keygen")
       \/ scheme = "ooed25519" /\ Doing("offline")
       \/ scheme \in {"ed25519", "ooed25519"} /\ (Doing("certify") \/ Doing("sign_message"))
    /\ phase' = "returned"
    /\ UNCHANGED <<scheme, chain_length, iterations, iter, at, made, keys, certs,
                   msg_sig, sample, times, complaints, failed, spent, reused>>

Verify(signature, signer, over, level) ==
    /\ Timed("verify", signer)
    /\ complaints' = IF signature = [by |-> keys[signer], over |-> over]
                     THEN complaints ELSE complaints \cup {level}
    /\ Go
    /\ UNCHANGED <<made, keys, certs, msg_sig, sample, failed, spent, reused>>

VerifyMessage == Doing("verify_message") /\ Verify(msg_sig, Level, 0, 0)
VerifyCert == Doing("verify_cert") /\ Verify(certs[Level], Level - 1, keys[Level], Level)

(* The next iteration, or the results. *)
Again ==
    /\ Doing("end")
    /\ iter' = IF phase = "run" THEN iter + 1 ELSE 0
    /\ phase' = IF iter' < iterations THEN "run" ELSE "done"
    /\ at' = First
    /\ IF phase' = "run"
       THEN complaints' = {} /\ failed' = (failed /\ scheme = "oodilithium")
       ELSE UNCHANGED <<complaints, failed>>
    /\ UNCHANGED <<scheme, chain_length, iterations, made, keys, certs, msg_sig,
                   sample, times, spent, reused>>

Next == \/ Keygen \/ MakeKey \/ ThrowAwayKey \/ Offline \/ Certify \/ Resign
        \/ Allocate \/ SignMessage \/ Return \/ VerifyMessage \/ VerifyCert \/ Again

Spec == Init /\ [][Next]_vars

-----------------------------------------------------------------------------
(* The end of an iteration: everything was verified. *)
Finished == phase = "run" /\ Doing("end")

(* The state of the drivers has its types. *)
TypeOK ==
    /\ scheme \in Schemes /\ chain_length \in 1..MaxLength
    /\ phase \in {"setup", "run", "done", "returned"} /\ iter \in 0..iterations
    /\ keys \in [Levels -> 0..made]
    /\ certs \in [Levels -> [by : 0..made, over : 0..made]]
    /\ times \in [Kinds -> [Levels -> 0..iterations]]
    /\ complaints \subseteq Levels

(* An iteration that ends without a complaint leaves an unbroken chain: the *)
(* message is signed by the client's present key, and the present public    *)
(* key of every level by the present key of the level above; no stale       *)
(* certificate of an earlier iteration passes (the verification loops).     *)
SilenceMeansChain ==
    Finished /\ complaints = {} =>
        /\ msg_sig = [by |-> keys[Client], over |-> 0]
        /\ \A level \in 1..Client :
              certs[level] = [by |-> keys[level - 1], over |-> keys[level]]

(* The other way round: a driver complains only if some signature failed,   *)
(* so its order of operations never makes it verify a certificate of a key  *)
(* that was replaced, or with a parent's key that was.                      *)
ComplaintMeansFailure == complaints # {} => failed

(* The printed averages divide by the number of iterations: every level is  *)
(* timed once per iteration, at signing, verification and key generation,   *)
(* though the drivers book a certificate to the level that signs it; and    *)
(* offline work once per iteration or, with OO-Dilithium, once.             *)
TimesPerRun ==
    phase = "done" /\ iter = iterations =>
        \A level \in Levels :
            /\ \A kind \in Kinds \ {"offline"} : times[kind][level] = iterations
            /\ times["offline"][level] =
                   CASE scheme = "oodilithium" -> 1
                     [] scheme \in {"oofalcon", "ooed25519"} -> iterations
                     [] OTHER -> 0

(* No offline sample (oofalcon) and no group of nonces (OO-Dilithium) makes *)
(* two signatures under one key.                                            *)
NonceOnce == ~reused
-----------------------------------------------------------------------------
(* The inductive invariant.  Along the places of a driver a number grows;   *)
(* an operation is passed in this iteration (or, with OO-Dilithium, since   *)
(* the setup) if its number is below that of the present place.             *)
Rank(op, level) ==
    LET n == chain_length
    IN  CASE op = "throw_away"     -> level - n
          [] op = "make"           -> 3 * level
          [] op = "keygen"         -> IF scheme = "oofalcon" THEN level ELSE 2 * level
          [] op = "allocate"       -> 2 * n
          [] op = "offline"        -> CASE scheme = "oofalcon"    -> n + 3 * (Client - level)
                                        [] scheme = "oodilithium" -> 3 * level + 1
                                        [] OTHER                  -> 2 * level + 1
          [] op = "certify"        -> CASE scheme = "oofalcon"    -> n + 3 * (n - level) + 1
                                        [] scheme = "oodilithium" -> 3 * level + 2
                                        [] scheme = "ooed25519"   -> 2 * n + level
                                        [] OTHER                  -> 2 * level + 1
          [] op = "resign"         -> 3 * n + level
          [] op = "sign_message"   -> IF scheme = "oofalcon" THEN n + 1 ELSE 4 * n
          [] op = "verify_message" -> IF scheme = "oofalcon" THEN n + 2 ELSE 4 * n + 1
          [] op = "verify_cert"    -> IF scheme = "oofalcon" THEN n + 3 * (n - level) + 2
                                      ELSE 5 * n + 1 - level
          [] op = "end"            -> IF phase = "setup" THEN 3 * n ELSE 5 * n + 1

Passed(op, level) == Rank(op, level) < Rank(at.op, at.level)

(* The places of a driver, in all its phases. *)
SetupOps == {"throw_away", "make", "offline", "certify"}

Ops ==
    CASE scheme = "oodilithium"               -> SetupOps \cup {"resign"}
      [] scheme \in {"oofalcon", "ooed25519"} -> {"keygen", "offline", "certify"}
      [] OTHER                                -> {"keygen", "certify", "allocate"}

Place(op, level) ==
    /\ op \in Ops \cup {"sign_message", "verify_message", "verify_cert", "end"}
    /\ level \in Levels
    /\ op \in {"certify", "verify_cert", "resign"} => level # 0
    /\ op \in {"allocate", "sign_message", "verify_message"} => level = Client
    /\ op = "end" => level = 0

Signed(level) == IF level = Client THEN Passed("sign_message", level)
                 ELSE Passed(IF scheme = "oodilithium" THEN "resign" ELSE "certify", level + 1)
Checked(level) == IF level = Client THEN Passed("verify_message", level)
                  ELSE Passed("verify_cert", level + 1)

Working == phase \in {"setup", "run"}
One(condition) == IF condition THEN 1 ELSE 0

PlaceInv ==
    Working =>
        /\ at = At(at.op, at.level) /\ Place(at.op, at.level)
        /\ phase = "setup" => at.op \in SetupOps \cup {"end"}
        /\ phase = "run" /\ scheme = "oodilithium" => at.op \notin SetupOps
        /\ phase = "setup" => (iter < iterations <=> at.op = "throw_away")

StateInv ==
    /\ TypeOK
    /\ iterations \in 1..MaxIterations /\ made \in Nat
    /\ msg_sig \in [by : 0..made, over : 0..made] /\ sample \in [key : 0..made, id : Nat]
    /\ failed \in BOOLEAN /\ reused \in BOOLEAN
    /\ phase = "setup" => scheme = "oodilithium"
    /\ phase = "run" => iter < iterations
    /\ PlaceInv

CertRight(level) == certs[level] = [by |-> keys[level - 1], over |-> keys[level]]
MessageRight     == msg_sig = [by |-> keys[Client], over |-> 0]

(* What was signed is right unless a signature failed, and what was found   *)
(* wrong is complained about.                                               *)
SignaturesInv ==
    /\ Working /\ ~failed =>
          /\ \A level \in 1..Client : Passed("certify", level) => CertRight(level)
          /\ Passed("sign_message", Client) => MessageRight
    /\ phase = "run" =>
          /\ \A level \in 1..Client :
                Passed("verify_cert", level) => level \in complaints \/ CertRight(level)
          /\ Passed("verify_message", Client) => 0 \in complaints \/ MessageRight
    /\ ComplaintMeansFailure

(* A nonce of the present sample, or group, is spent only by who has signed *)
(* with it; keys in use are different ones.                                 *)
Used(level) == IF phase = "setup" THEN level < Client /\ Passed("certify", level + 1)
               ELSE Signed(level)

NoncesInv ==
    /\ ~reused
    /\ \A x, y \in Levels : keys[x] = keys[y] /\ keys[x] # 0 => x = y
    /\ Working /\ scheme = "oodilithium" =>
          /\ \A nonce \in spent : nonce[1] \in 1..made /\ nonce[2] \in 0..Group
          /\ \A level \in Levels : Passed("make", level) => keys[level] # 0
          /\ \A level \in Levels : <<keys[level], Group>> \in spent => Used(level)
    /\ Working /\ scheme = "oofalcon" =>
          /\ \A nonce \in spent : nonce[2] \in 0..sample.id
          /\ \A level \in Levels : Passed("offline", level) /\ ~Signed(level) =>
                /\ sample.key = keys[level]
                /\ <<sample.key, sample.id>> \notin spent

Runs == IF phase = "run" THEN iter ELSE 0

(* Every operation was timed once in each iteration that is over, and in    *)
(* the present one if it is passed.                                         *)
TimesInv ==
    /\ Working => \A level \in Levels :
          /\ times["keygen"][level] =
                CASE scheme # "oodilithium" -> iter + One(Passed("keygen", level))
                  [] phase = "setup" -> iter + One(at.op = "throw_away" /\ level < at.level)
                  [] OTHER -> iterations
          /\ times["offline"][level] =
                CASE scheme = "oodilithium" -> One(Passed("offline", level))
                  [] scheme \in {"oofalcon", "ooed25519"} -> iter + One(Passed("offline", level))
                  [] OTHER -> 0
          /\ times["online"][level] = Runs + One(Signed(level))
          /\ times["verify"][level] = Runs + One(Checked(level))
    /\ TimesPerRun

ChainInv == StateInv /\ SignaturesInv /\ NoncesInv /\ TimesInv
=============================================================================
