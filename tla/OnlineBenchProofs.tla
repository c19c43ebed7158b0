------------------------- MODULE OnlineBenchProofs -------------------------
(***************************************************************************)
(* Proofs about OnlineBench, for every number of tokens and threads.       *)
(***************************************************************************)
EXTENDS OnlineBench, FiniteSetTheorems, TLAPS

LEMMA Sizes ==
  ASSUME NEW S \in SUBSET TokenSet
  PROVE  IsFiniteSet(S) /\ Cardinality(S) \in 0 .. Tokens
<1>1. IsFiniteSet(TokenSet) /\ Cardinality(TokenSet) = Tokens
  BY OnlineAssumption, FS_Interval DEF TokenSet
<1>2. IsFiniteSet(S) /\ Cardinality(S) <= Tokens
  BY <1>1, FS_Subset
<1>3. Cardinality(S) \in Nat
  BY <1>2, FS_CardinalityType
<1> QED  BY <1>2, <1>3, OnlineAssumption

LEMMA PlusOne ==
  ASSUME NEW S \in SUBSET TokenSet, NEW t, t \notin S
  PROVE  Cardinality(S \cup {t}) = Cardinality(S) + 1
BY Sizes, FS_AddElement

LEMMA PlusBlock ==
  ASSUME NEW S \in SUBSET TokenSet, NEW T \in SUBSET TokenSet, S \cap T = {}
  PROVE  Cardinality(S \cup T) = Cardinality(S) + Cardinality(T)
<1>1. /\ IsFiniteSet(S) /\ IsFiniteSet(T)
      /\ Cardinality(S) \in Nat /\ Cardinality(T) \in Nat
  BY Sizes
<1>2. Cardinality(S \cup T) = Cardinality(S) + Cardinality(T) - Cardinality({})
  BY <1>1, FS_Union
<1> QED  BY <1>1, <1>2, FS_EmptySet

(* Every token belongs to a thread of the team.                            *)
LEMMA OwnerInTeam ==
  ASSUME threads \in 1 .. MaxThreads, NEW t \in TokenSet
  PROVE  Owner(t) \in Team
<1>1. /\ Tokens \in Nat \ {0} /\ threads \in Nat \ {0}
      /\ t \in Nat /\ t <= Tokens - 1
  BY OnlineAssumption DEF TokenSet
<1> DEFINE a == t * threads
           d == Tokens
<1>2. a \in Nat /\ d \in Nat \ {0}
  BY <1>1, SMT
<1>3. a <= (d - 1) * threads
  BY <1>1, SMT
<1>4. (d - 1) * threads < d * threads
  BY <1>1, SMT
<1>5. d * threads \in Int /\ (d - 1) * threads \in Int
  BY <1>1, SMT
<1>6. a < d * threads
  BY <1>2, <1>3, <1>4, <1>5, SMT
<1> HIDE DEF a, d
<1>7. a \div d \in Nat /\ d * (a \div d) <= a
  BY <1>2, SMTT(30)
<1> DEFINE k == a \div d
<1>8. k \in Nat /\ d * k < d * threads
  <2>1. d * k \in Int
    BY <1>2, <1>7, SMT
  <2> QED  BY <1>2, <1>6, <1>7, <2>1, <1>1 DEF d
<1> HIDE DEF k
<1>9. k < threads
  BY <1>1, <1>2, <1>8, SMT
<1>10. Owner(t) = k + 1
  BY DEF Owner, k, a, d
<1> QED  BY <1>1, <1>8, <1>9, <1>10 DEF Team

LEMMA Blocks ==
  ASSUME threads \in 1 .. MaxThreads
  PROVE  /\ Team \subseteq Nat
         /\ \A i \in Team : Chunk(i) \subseteq TokenSet
         /\ \A i, j \in Team : i # j => Chunk(i) \cap Chunk(j) = {}
         /\ \A t \in TokenSet : Owner(t) \in Team /\ t \in Chunk(Owner(t))
BY OwnerInTeam DEF Chunk, Team

LEMMA InitBench == Init => BenchInv
<1> SUFFICES ASSUME Init PROVE BenchInv
  OBVIOUS
<1> USE DEF Init
<1>1. TypeOK
  <2>1. 0 \in 0 .. Tokens /\ 0 \in 0 .. 2 * Tokens
    BY OnlineAssumption
  <2>2. /\ at \in [Team -> {"loop", "barrier", "addBad", "addAttempts", "joined"}]
        /\ todo \in [Team -> SUBSET TokenSet]
        /\ good \in [Team -> 0 .. Tokens] /\ bad \in [Team -> 0 .. Tokens]
        /\ sigLen \in [TokenSet -> {"unset", "none", "sig"}]
    BY <2>1
  <2>3. /\ packed \subseteq TokenSet /\ signed \subseteq TokenSet /\ accepted \subseteq TokenSet
        /\ usesPipeline \in BOOLEAN /\ pipelineMode \in BOOLEAN
    OBVIOUS
  <2> QED  BY <2>1, <2>2, <2>3 DEF TypeOK
<1> QED
  BY <1>1 DEF BenchInv, TeamInv, SignInv, VerifyInv, BeforeInv, LengthsWritten,
     SignedTotals, VerifiedTotals

(* A team starts: nothing is past the barrier, every block is whole.       *)
LEMMA TeamStarts ==
  ASSUME TypeOK, StartTeam, threads' = threads
  PROVE  /\ at' \in [Team -> {"loop"}]
         /\ todo' \in [Team -> SUBSET TokenSet] /\ \A i \in Team : todo'[i] = Chunk(i)
         /\ good' \in [Team -> {0}] /\ bad' \in [Team -> {0}]
         /\ Team' = Team /\ \A i \in Team : Chunk(i)' = Chunk(i)
         /\ \A P : "loop" \notin P => {t \in TokenSet : at'[Owner(t)] \in P} = {}
<1>1. threads \in 1 .. MaxThreads
  BY DEF TypeOK
<1>2. /\ Team' = Team /\ \A i \in Team : Chunk(i)' = Chunk(i)
      /\ \A i \in Team : Chunk(i) \subseteq TokenSet
  BY <1>1, Blocks DEF Team, Chunk, Owner
<1>3. \A t \in TokenSet : at'[Owner(t)] = "loop"
  BY <1>1, Blocks DEF StartTeam
<1> QED
  BY <1>2, <1>3 DEF StartTeam

LEMMA ChooseStep == ASSUME BenchInv, Choose PROVE BenchInv'
<1>1. TypeOK /\ threads' = threads /\ phase = "choose"
  BY DEF BenchInv, Choose, caseVars
<1>2. ~NeedsPipeline
  BY OnlineAssumption DEF NeedsPipeline, TokensPerBank
<1>3. /\ phase' = "sign" /\ usesPipeline' = FALSE
      /\ UNCHANGED <<caseVars, sigLen, signVars, verifyVars, ok, fail, signed, accepted>>
  BY <1>2 DEF Choose
<1>4. /\ at' \in [Team -> {"loop"}]
      /\ todo' \in [Team -> SUBSET TokenSet] /\ \A i \in Team : todo'[i] = Chunk(i)
      /\ good' \in [Team -> {0}] /\ bad' \in [Team -> {0}]
      /\ Team' = Team /\ \A i \in Team : Chunk(i)' = Chunk(i)
      /\ \A P : "loop" \notin P => Past(P)' = {}
  BY <1>1, TeamStarts DEF Choose, Past, Owner
<1>5. TypeOK'
  <2>1. 0 \in 0 .. Tokens
    BY OnlineAssumption
  <2>2. /\ (at \in [Team -> {"loop", "barrier", "addBad", "addAttempts", "joined"}])'
        /\ (todo \in [Team -> SUBSET TokenSet])'
        /\ (good \in [Team -> 0 .. Tokens])' /\ (bad \in [Team -> 0 .. Tokens])'
    BY <1>4, <2>1
  <2>3. usesPipeline' \in BOOLEAN /\ phase' = "sign"
    BY <1>3
  <2> QED  BY <1>1, <1>3, <2>2, <2>3 DEF TypeOK, caseVars, signVars, verifyVars
<1>6. TeamInv'
  BY <1>4 DEF TeamInv
<1>7. signed = {} /\ signSuccess = 0 /\ signFail = 0 /\ attempts = 0
      /\ verifyOk = 0 /\ verifyFail = 0 /\ accepted = {}
  BY <1>1 DEF BenchInv, BeforeInv
<1>8. SignInv'
  <2>1. ASSUME NEW i \in Team
        PROVE  /\ good'[i] = 0 /\ bad'[i] = 0
               /\ signed' = {} /\ (Chunk(i) \ todo[i])' = {}
    BY <1>3, <1>4, <1>7
  <2>2. /\ Past({"addBad", "addAttempts", "joined"})' = {}
        /\ Past({"addAttempts", "joined"})' = {} /\ Past({"joined"})' = {}
    BY <1>4
  <2> QED
    BY <1>3, <1>4, <1>7, <2>1, <2>2, FS_EmptySet DEF SignInv, signVars
<1>9. VerifyInv' /\ LengthsWritten' /\ SignedTotals' /\ VerifiedTotals'
  BY <1>3 DEF VerifyInv, LengthsWritten, SignedTotals, VerifiedTotals
<1>10. BeforeInv'
  BY <1>3, <1>7 DEF BeforeInv, verifyVars
<1> QED
  BY <1>3, <1>5, <1>6, <1>7, <1>8, <1>9, <1>10 DEF BenchInv

(* The token a thread takes is of its block only, and of no thread past    *)
(* the loop.                                                               *)
LEMMA NextToken ==
  ASSUME BenchInv, phase \in {"sign", "verify"},
         NEW i \in Team, NEW t \in todo[i], IsNext(i, t)
  PROVE  /\ t \in TokenSet /\ t \in Chunk(i) /\ Owner(t) = i
         /\ \A j \in Team : j # i => t \notin Chunk(j)
         /\ \A P : "loop" \notin P => t \notin Past(P)
         /\ todo[i] \subseteq Chunk(i) /\ Chunk(i) \subseteq TokenSet
BY DEF BenchInv, TeamInv, IsNext, Chunk, Past

LEMMA SignNextStep == ASSUME BenchInv, NEW i \in Team, SignNext(i) PROVE BenchInv'
<1>1. PICK t \in todo[i], success \in BOOLEAN :
        /\ phase = "sign" /\ IsNext(i, t)
        /\ todo' = [todo EXCEPT ![i] = @ \ {t}]
        /\ Counted(i, success)
        /\ sigLen' = IF backend = "none" THEN sigLen ELSE [sigLen EXCEPT ![t] = LengthOf(success)]
        /\ signed' = IF success THEN signed \cup {t} ELSE signed
        /\ UNCHANGED <<caseVars, usesPipeline, phase, at, signVars, verifyVars, ok, fail, accepted>>
  BY DEF SignNext
<1>2. /\ TypeOK /\ TeamInv /\ SignInv /\ threads \in 1 .. MaxThreads
  BY DEF BenchInv, TypeOK
<1>3. /\ t \in TokenSet /\ t \in Chunk(i) /\ Owner(t) = i
      /\ \A j \in Team : j # i => t \notin Chunk(j)
      /\ \A P : "loop" \notin P => t \notin Past(P)
      /\ todo[i] \subseteq Chunk(i) /\ Chunk(i) \subseteq TokenSet
      /\ t \notin signed /\ signed \subseteq TokenSet
  BY <1>1, <1>2, NextToken DEF SignInv, TypeOK
<1>4. /\ Team' = Team /\ \A P : Past(P)' = Past(P)
      /\ \A j \in Team : Chunk(j)' = Chunk(j)
      /\ \A j \in Team : Chunk(j) \subseteq TokenSet
  BY <1>1, <1>2, Blocks DEF Team, Past, Chunk, Owner, caseVars
<1>5. ASSUME NEW j \in Team
      PROVE  /\ todo'[j] \cap signed' = {}
             /\ todo'[j] \subseteq Chunk(j) /\ (at[j] # "loop" => todo'[j] = {})
             /\ good'[j] = Cardinality(signed' \cap Chunk(j))
             /\ bad'[j] = Cardinality((Chunk(j) \ todo'[j]) \ signed')
             /\ Verifies => \A u \in Chunk(j) \ todo'[j] :
                              sigLen'[u] = (IF u \in signed' THEN "sig" ELSE "none")
  <2>1. /\ todo[j] \cap signed = {} /\ todo[j] \subseteq Chunk(j)
        /\ good[j] = Cardinality(signed \cap Chunk(j))
        /\ bad[j] = Cardinality((Chunk(j) \ todo[j]) \ signed)
        /\ Verifies => \A u \in Chunk(j) \ todo[j] :
                         sigLen[u] = (IF u \in signed THEN "sig" ELSE "none")
        /\ at[j] # "loop" => todo[j] = {}
    BY <1>1, <1>2 DEF SignInv, TeamInv
  <2>2. CASE j # i
    <3>1. /\ todo'[j] = todo[j] /\ good'[j] = good[j] /\ bad'[j] = bad[j]
      BY <1>1, <1>2, <2>2 DEF Counted, TypeOK
    <3>2. /\ signed' \cap Chunk(j) = signed \cap Chunk(j)
          /\ (Chunk(j) \ todo'[j]) \ signed' = (Chunk(j) \ todo[j]) \ signed
      BY <1>1, <1>3, <2>2, <3>1
    <3>3. \A u \in Chunk(j) : sigLen'[u] = sigLen[u] /\ (u \in signed' <=> u \in signed)
      BY <1>1, <1>2, <1>3, <1>4, <2>2 DEF TypeOK
    <3>4. todo'[j] \cap signed' = {}
      BY <1>1, <1>3, <2>1, <2>2, <3>1
    <3> QED  BY <2>1, <3>1, <3>2, <3>3, <3>4
  <2>3. CASE j = i
    <3>1. /\ todo'[i] = todo[i] \ {t}
          /\ good'[i] = good[i] + (IF success THEN 1 ELSE 0)
          /\ bad'[i] = bad[i] + (IF success THEN 0 ELSE 1)
          /\ good[i] \in Nat /\ bad[i] \in Nat
      BY <1>1, <1>2 DEF Counted, TypeOK
    <3>2. Verifies => \A u \in Chunk(i) \ todo'[i] :
                        sigLen'[u] = (IF u \in signed' THEN "sig" ELSE "none")
      <4>1. SUFFICES ASSUME Verifies, NEW u \in Chunk(i) \ todo'[i]
                     PROVE  sigLen'[u] = (IF u \in signed' THEN "sig" ELSE "none")
        OBVIOUS
      <4>2. CASE u = t
        BY <1>1, <1>2, <1>3, <4>1, <4>2 DEF Verifies, LengthOf, TypeOK
      <4>3. CASE u # t
        BY <1>1, <1>2, <1>3, <2>1, <2>3, <3>1, <4>1, <4>3 DEF TypeOK
      <4> QED  BY <4>2, <4>3
    <3>5. todo'[i] \subseteq Chunk(i) /\ (at[i] # "loop" => todo'[i] = {})
      BY <2>1, <2>3, <3>1
    <3>3. CASE success
      <4>1. /\ signed' \cap Chunk(i) = (signed \cap Chunk(i)) \cup {t}
            /\ (Chunk(i) \ todo'[i]) \ signed' = (Chunk(i) \ todo[i]) \ signed
        BY <1>1, <1>3, <3>1, <3>3
      <4>2. Cardinality(signed' \cap Chunk(i)) = Cardinality(signed \cap Chunk(i)) + 1
        BY <1>3, <4>1, PlusOne
      <4>3. todo'[i] \cap signed' = {}
        BY <1>1, <2>1, <2>3, <3>1, <3>3
      <4>4. good'[i] = Cardinality(signed' \cap Chunk(i))
        BY <2>1, <2>3, <3>1, <3>3, <4>2
      <4>5. bad'[i] = Cardinality((Chunk(i) \ todo'[i]) \ signed')
        <5>1. bad'[i] = bad[i]
          BY <3>1, <3>3
        <5>2. bad[i] = Cardinality((Chunk(i) \ todo[i]) \ signed)
          BY <2>1, <2>3
        <5> QED  BY <4>1, <5>1, <5>2
      <4> QED  BY <2>3, <3>2, <3>5, <4>3, <4>4, <4>5
    <3>4. CASE ~success
      <4>1. /\ signed' = signed
            /\ (Chunk(i) \ todo'[i]) \ signed' = ((Chunk(i) \ todo[i]) \ signed) \cup {t}
        BY <1>1, <1>3, <3>1, <3>4
      <4>2. Cardinality((Chunk(i) \ todo'[i]) \ signed') = Cardinality((Chunk(i) \ todo[i]) \ signed) + 1
        BY <1>3, <4>1, PlusOne
      <4>3. good'[i] = Cardinality(signed' \cap Chunk(i)) /\ todo'[i] \cap signed' = {}
        BY <2>1, <2>3, <3>1, <3>4, <4>1
      <4>4. bad'[i] = Cardinality((Chunk(i) \ todo'[i]) \ signed')
        BY <2>1, <2>3, <3>1, <3>4, <4>2
      <4> QED  BY <2>3, <3>2, <3>5, <4>3, <4>4
    <3> QED  BY <3>3, <3>4
  <2> QED  BY <2>2, <2>3
<1>6. TypeOK'
  <2>1. /\ todo' \in [Team -> SUBSET TokenSet] /\ signed' \subseteq TokenSet
        /\ DOMAIN good' = Team /\ DOMAIN bad' = Team
        /\ good' = [j \in Team |-> good'[j]] /\ bad' = [j \in Team |-> bad'[j]]
    BY <1>1, <1>2, <1>3 DEF TypeOK, Counted
  <2>2. \A j \in Team : good'[j] \in 0 .. Tokens /\ bad'[j] \in 0 .. Tokens
    <3>1. ASSUME NEW j \in Team PROVE good'[j] \in 0 .. Tokens /\ bad'[j] \in 0 .. Tokens
      <4>1. signed' \cap Chunk(j) \in SUBSET TokenSet /\ (Chunk(j) \ todo'[j]) \ signed' \in SUBSET TokenSet
        BY <1>4
      <4> QED  BY <1>5, <4>1, Sizes
    <3> QED  BY <3>1
  <2>3. sigLen' \in [TokenSet -> {"unset", "none", "sig"}]
    BY <1>1, <1>2, <1>3 DEF TypeOK, LengthOf
  <2>4. good' \in [Team -> 0 .. Tokens] /\ bad' \in [Team -> 0 .. Tokens]
    BY <2>1, <2>2
  <2> QED  BY <1>1, <1>2, <1>4, <2>1, <2>3, <2>4 DEF TypeOK, caseVars, signVars, verifyVars
<1>7. TeamInv'
  <2>1. \A j \in Team : todo'[j] \subseteq Chunk(j) /\ (at'[j] # "loop" => todo'[j] = {})
    BY <1>1, <1>5
  <2> QED  BY <1>4, <2>1 DEF TeamInv
<1>8. /\ signed' \cap Past({"addBad", "addAttempts", "joined"}) = signed \cap Past({"addBad", "addAttempts", "joined"})
      /\ Past({"addAttempts", "joined"}) \ signed' = Past({"addAttempts", "joined"}) \ signed
      /\ signed' \cap Past({"joined"}) = signed \cap Past({"joined"})
  <2>1. t \notin Past({"addBad", "addAttempts", "joined"}) /\ t \notin Past({"addAttempts", "joined"})
        /\ t \notin Past({"joined"})
    BY <1>3
  <2> QED  BY <1>1, <2>1
<1>9. SignInv'
  <2>1. /\ signSuccess' = signSuccess /\ signFail' = signFail /\ attempts' = attempts
        /\ Verifies' = Verifies
    BY <1>1 DEF signVars, caseVars, Verifies
  <2>2. /\ signSuccess = Cardinality(signed \cap Past({"addBad", "addAttempts", "joined"}))
        /\ signFail = Cardinality(Past({"addAttempts", "joined"}) \ signed)
        /\ attempts = Cardinality(signed \cap Past({"joined"}))
    BY <1>1, <1>2 DEF SignInv
  <2> QED  BY <1>4, <1>5, <1>8, <2>1, <2>2 DEF SignInv
<1>10. /\ VerifyInv' /\ LengthsWritten' /\ SignedTotals' /\ VerifiedTotals'
       /\ (phase = "done" => ok = OkTotal /\ fail = FailTotal)'
  BY <1>1 DEF VerifyInv, LengthsWritten, SignedTotals, VerifiedTotals
<1>11. BeforeInv' /\ accepted' \subseteq signed'
  BY <1>1 DEF BenchInv, BeforeInv, verifyVars
<1> QED  BY <1>6, <1>7, <1>9, <1>10, <1>11 DEF BenchInv

(* One iteration of the verification: as of the signing, on signatures.    *)
LEMMA VerifyNextStep == ASSUME BenchInv, NEW i \in Team, VerifyNext(i) PROVE BenchInv'
<1>1. PICK t \in todo[i] :
        /\ phase = "verify" /\ IsNext(i, t)
        /\ todo' = [todo EXCEPT ![i] = @ \ {t}]
        /\ \/ sigLen[t] = "none" /\ UNCHANGED <<good, bad, accepted>>
           \/ /\ sigLen[t] # "none"
              /\ \E valid \in BOOLEAN :
                   /\ Counted(i, valid)
                   /\ accepted' = IF valid THEN accepted \cup {t} ELSE accepted
        /\ UNCHANGED <<caseVars, usesPipeline, phase, at, sigLen, signVars, verifyVars,
                       ok, fail, signed>>
  BY DEF VerifyNext
<1>2. /\ TypeOK /\ TeamInv /\ VerifyInv /\ threads \in 1 .. MaxThreads /\ backend = "cpu"
  BY <1>1 DEF BenchInv, TypeOK, VerifyInv
<1>3. /\ t \in TokenSet /\ t \in Chunk(i) /\ Owner(t) = i
      /\ \A j \in Team : j # i => t \notin Chunk(j)
      /\ \A P : "loop" \notin P => t \notin Past(P)
      /\ todo[i] \subseteq Chunk(i) /\ Chunk(i) \subseteq TokenSet
      /\ t \notin accepted /\ accepted \subseteq signed /\ signed \subseteq TokenSet
  BY <1>1, <1>2, NextToken DEF VerifyInv, TypeOK, BenchInv
<1>4. /\ Team' = Team /\ \A P : Past(P)' = Past(P)
      /\ \A j \in Team : Chunk(j)' = Chunk(j)
      /\ \A j \in Team : Chunk(j) \subseteq TokenSet
  BY <1>1, <1>2, Blocks DEF Team, Past, Chunk, Owner, caseVars
<1>5. sigLen[t] = (IF t \in signed THEN "sig" ELSE "none")
  BY <1>1, <1>2, <1>3 DEF BenchInv, LengthsWritten, Verifies
<1>6. \/ /\ t \notin signed /\ accepted' = accepted
         /\ good' = good /\ bad' = bad
      \/ /\ t \in signed /\ accepted' = accepted \cup {t}
         /\ good' = [good EXCEPT ![i] = @ + 1] /\ bad' = [bad EXCEPT ![i] = @ + 0]
      \/ /\ t \in signed /\ accepted' = accepted
         /\ good' = [good EXCEPT ![i] = @ + 0] /\ bad' = [bad EXCEPT ![i] = @ + 1]
  <2>1. CASE sigLen[t] = "none" /\ UNCHANGED <<good, bad, accepted>>
    BY <1>5, <2>1
  <2>2. CASE /\ sigLen[t] # "none"
             /\ Counted(i, TRUE) /\ accepted' = accepted \cup {t}
    BY <1>5, <2>2 DEF Counted
  <2>3. CASE /\ sigLen[t] # "none"
             /\ Counted(i, FALSE) /\ accepted' = accepted
    BY <1>5, <2>3 DEF Counted
  <2> QED  BY <1>1, <2>1, <2>2, <2>3
<1>7. ASSUME NEW j \in Team
      PROVE  /\ todo'[j] \cap accepted' = {}
             /\ todo'[j] \subseteq Chunk(j) /\ (at[j] # "loop" => todo'[j] = {})
             /\ good'[j] = Cardinality(accepted' \cap Chunk(j))
             /\ bad'[j] = Cardinality((signed \cap (Chunk(j) \ todo'[j])) \ accepted')
  <2>1. /\ todo[j] \cap accepted = {} /\ todo[j] \subseteq Chunk(j)
        /\ good[j] = Cardinality(accepted \cap Chunk(j))
        /\ bad[j] = Cardinality((signed \cap (Chunk(j) \ todo[j])) \ accepted)
        /\ at[j] # "loop" => todo[j] = {}
        /\ good[j] \in Nat /\ bad[j] \in Nat
    <3>1. good[j] \in Nat /\ bad[j] \in Nat
      BY <1>2 DEF TypeOK
    <3>2. todo[j] \subseteq Chunk(j) /\ (at[j] # "loop" => todo[j] = {})
      BY <1>1, <1>2 DEF TeamInv
    <3>3. /\ todo[j] \cap accepted = {}
          /\ good[j] = Cardinality(accepted \cap Chunk(j))
          /\ bad[j] = Cardinality((signed \cap (Chunk(j) \ todo[j])) \ accepted)
      BY <1>1, <1>2 DEF VerifyInv
    <3> QED  BY <3>1, <3>2, <3>3
  <2>2. CASE j # i
    <3>1. todo'[j] = todo[j]
      BY <1>1, <1>2, <2>2 DEF TypeOK
    <3>2. good'[j] = good[j] /\ bad'[j] = bad[j]
      BY <1>2, <1>6, <2>2 DEF TypeOK
    <3>3. /\ accepted' \cap Chunk(j) = accepted \cap Chunk(j)
          /\ (signed \cap (Chunk(j) \ todo'[j])) \ accepted' = (signed \cap (Chunk(j) \ todo[j])) \ accepted
          /\ todo'[j] \cap accepted' = {}
      BY <1>3, <1>6, <2>1, <2>2, <3>1
    <3> QED  BY <2>1, <3>1, <3>2, <3>3
  <2>3. CASE j = i
    <3>1. todo'[i] = todo[i] \ {t} /\ t \in todo[i]
      BY <1>1, <1>2 DEF TypeOK
    <3>2. todo'[i] \subseteq Chunk(i) /\ (at[i] # "loop" => todo'[i] = {})
      BY <2>1, <2>3, <3>1
    <3>3. CASE t \notin signed /\ accepted' = accepted /\ good' = good /\ bad' = bad
      <4>1. /\ (signed \cap (Chunk(i) \ todo'[i])) \ accepted' = (signed \cap (Chunk(i) \ todo[i])) \ accepted
            /\ todo'[i] \cap accepted' = {}
        BY <2>1, <2>3, <3>1, <3>3
      <4> QED  BY <2>1, <2>3, <3>2, <3>3, <4>1
    <3>4. CASE /\ t \in signed /\ accepted' = accepted \cup {t}
               /\ good' = [good EXCEPT ![i] = @ + 1] /\ bad' = [bad EXCEPT ![i] = @ + 0]
      <4>1. /\ accepted' \cap Chunk(i) = (accepted \cap Chunk(i)) \cup {t}
            /\ (signed \cap (Chunk(i) \ todo'[i])) \ accepted' = (signed \cap (Chunk(i) \ todo[i])) \ accepted
            /\ todo'[i] \cap accepted' = {}
        BY <1>3, <2>1, <2>3, <3>1, <3>4
      <4>2. Cardinality(accepted' \cap Chunk(i)) = Cardinality(accepted \cap Chunk(i)) + 1
        BY <1>3, <4>1, PlusOne
      <4>3. good'[i] = good[i] + 1 /\ bad'[i] = bad[i]
        BY <1>2, <2>1, <2>3, <3>4 DEF TypeOK
      <4> QED  BY <2>1, <2>3, <3>2, <4>1, <4>2, <4>3
    <3>5. CASE /\ t \in signed /\ accepted' = accepted
               /\ good' = [good EXCEPT ![i] = @ + 0] /\ bad' = [bad EXCEPT ![i] = @ + 1]
      <4>1. /\ (signed \cap (Chunk(i) \ todo'[i])) \ accepted' = ((signed \cap (Chunk(i) \ todo[i])) \ accepted) \cup {t}
            /\ todo'[i] \cap accepted' = {}
        BY <1>3, <2>1, <2>3, <3>1, <3>5
      <4>2. Cardinality((signed \cap (Chunk(i) \ todo'[i])) \ accepted')
              = Cardinality((signed \cap (Chunk(i) \ todo[i])) \ accepted) + 1
        BY <1>3, <4>1, PlusOne
      <4>3. good'[i] = good[i] /\ bad'[i] = bad[i] + 1
        BY <1>2, <2>1, <2>3, <3>5 DEF TypeOK
      <4> QED  BY <2>1, <2>3, <3>2, <3>5, <4>1, <4>2, <4>3
    <3> QED  BY <1>6, <2>3, <3>3, <3>4, <3>5
  <2> QED  BY <2>2, <2>3
<1>8. TypeOK'
  <2>1. /\ todo' \in [Team -> SUBSET TokenSet] /\ accepted' \subseteq TokenSet
    BY <1>1, <1>2, <1>3, <1>6 DEF TypeOK
  <2>2. good' = [j \in Team |-> good'[j]] /\ bad' = [j \in Team |-> bad'[j]]
    BY <1>2, <1>6 DEF TypeOK
  <2>3. \A j \in Team : good'[j] \in 0 .. Tokens /\ bad'[j] \in 0 .. Tokens
    <3>1. ASSUME NEW j \in Team PROVE good'[j] \in 0 .. Tokens /\ bad'[j] \in 0 .. Tokens
      <4>1. accepted' \cap Chunk(j) \in SUBSET TokenSet /\ (signed \cap (Chunk(j) \ todo'[j])) \ accepted' \in SUBSET TokenSet
        BY <1>4
      <4> QED  BY <1>7, <4>1, Sizes
    <3> QED  BY <3>1
  <2>4. good' \in [Team -> 0 .. Tokens] /\ bad' \in [Team -> 0 .. Tokens]
    BY <2>2, <2>3
  <2> QED  BY <1>1, <1>2, <1>4, <2>1, <2>4 DEF TypeOK, caseVars, signVars, verifyVars
<1>9. TeamInv'
  <2>1. \A j \in Team : todo'[j] \subseteq Chunk(j) /\ (at'[j] # "loop" => todo'[j] = {})
    BY <1>1, <1>7
  <2> QED  BY <1>4, <2>1 DEF TeamInv
<1>10. VerifyInv'
  <2>1. /\ verifyOk' = verifyOk /\ verifyFail' = verifyFail /\ backend' = backend /\ signed' = signed
    BY <1>1 DEF verifyVars, caseVars
  <2>2. /\ verifyOk = Cardinality(accepted \cap Past({"addBad", "joined"}))
        /\ verifyFail = Cardinality((signed \cap Past({"joined"})) \ accepted)
    BY <1>1, <1>2 DEF VerifyInv
  <2>3. /\ accepted' \cap Past({"addBad", "joined"}) = accepted \cap Past({"addBad", "joined"})
        /\ (signed \cap Past({"joined"})) \ accepted' = (signed \cap Past({"joined"})) \ accepted
    <3>1. t \notin Past({"addBad", "joined"}) /\ t \notin Past({"joined"})
      BY <1>3
    <3> QED  BY <1>6, <3>1
  <2>4. \A j \in Team :
          /\ todo'[j] \cap accepted' = {}
          /\ good'[j] = Cardinality(accepted' \cap Chunk(j))
          /\ bad'[j] = Cardinality((signed' \cap (Chunk(j) \ todo'[j])) \ accepted')
    BY <1>7, <2>1
  <2> QED  BY <1>2, <1>4, <2>1, <2>2, <2>3, <2>4 DEF VerifyInv
<1>11. /\ SignInv' /\ BeforeInv' /\ VerifiedTotals'
       /\ (phase = "done" => ok = OkTotal /\ fail = FailTotal)'
  BY <1>1 DEF SignInv, BeforeInv, VerifiedTotals
<1>12. LengthsWritten' /\ SignedTotals'
  BY <1>1 DEF BenchInv, LengthsWritten, SignedTotals, Verifies, signVars, caseVars
<1>13. accepted' \subseteq signed'
  BY <1>1, <1>3, <1>6
<1> QED  BY <1>8, <1>9, <1>10, <1>11, <1>12, <1>13 DEF BenchInv

-----------------------------------------------------------------------------

(* A thread that moves takes its block with it.                            *)
LEMMA Moves ==
  ASSUME TypeOK, threads' = threads, NEW i \in Team, NEW to,
         at' = [at EXCEPT ![i] = to]
  PROVE  /\ Team' = Team /\ \A j \in Team : Chunk(j)' = Chunk(j)
         /\ Chunk(i) \subseteq TokenSet
         /\ \A P : (at[i] \in P <=> to \in P) => Past(P)' = Past(P)
         /\ \A P : at[i] \notin P /\ to \in P =>
                   Past(P)' = Past(P) \cup Chunk(i) /\ Past(P) \cap Chunk(i) = {}
<1>1. threads \in 1 .. MaxThreads /\ DOMAIN at = Team
  BY DEF TypeOK
<1>2. Team' = Team /\ (\A j \in Team : Chunk(j)' = Chunk(j)) /\ Chunk(i) \subseteq TokenSet
  BY <1>1, Blocks DEF Team, Chunk, Owner
<1>3. \A t \in TokenSet : Owner(t) \in Team /\ Owner(t)' = Owner(t)
  BY <1>1, Blocks DEF Owner
<1>4. \A t \in TokenSet : at'[Owner(t)] = IF Owner(t) = i THEN to ELSE at[Owner(t)]
  BY <1>1, <1>3
<1>5. \A P : Past(P)' = {t \in TokenSet : (IF Owner(t) = i THEN to ELSE at[Owner(t)]) \in P}
  BY <1>3, <1>4 DEF Past
<1>6. ASSUME NEW P, at[i] \in P <=> to \in P PROVE Past(P)' = Past(P)
  BY <1>5, <1>6 DEF Past
<1>7. ASSUME NEW P, at[i] \notin P, to \in P
      PROVE  Past(P)' = Past(P) \cup Chunk(i) /\ Past(P) \cap Chunk(i) = {}
  BY <1>5, <1>7 DEF Past, Chunk
<1> QED  BY <1>2, <1>6, <1>7

(* What a thread's move leaves of the invariant, whatever it adds.         *)
LEMMA MovesKeep ==
  ASSUME BenchInv, phase \in {"sign", "verify"}, NEW i \in Team,
         NEW to \in {"barrier", "addBad", "addAttempts", "joined"},
         at' = [at EXCEPT ![i] = to],
         todo[i] = {},
         UNCHANGED <<caseVars, usesPipeline, phase, todo, good, bad, sigLen, packed,
                     ok, fail, signed, accepted>>
  PROVE  /\ TeamInv' /\ LengthsWritten' /\ VerifiedTotals' /\ (accepted \subseteq signed)'
         /\ (phase = "done" => ok = OkTotal /\ fail = FailTotal)'
         /\ phase = "verify" => BeforeInv'
         /\ phase = "sign" => SignedTotals'
         /\ (at \in [Team -> {"loop", "barrier", "addBad", "addAttempts", "joined"}])'
<1>1. TypeOK /\ TeamInv /\ threads' = threads
  BY DEF BenchInv, caseVars
<1>2. Team' = Team /\ \A j \in Team : Chunk(j)' = Chunk(j)
  BY <1>1, Moves
<1>3. TeamInv'
  <2>1. \A j \in Team : todo'[j] \subseteq Chunk(j) /\ (at'[j] # "loop" => todo'[j] = {})
    BY <1>1 DEF TeamInv, TypeOK
  <2> QED  BY <1>2, <2>1 DEF TeamInv
<1>4. (at \in [Team -> {"loop", "barrier", "addBad", "addAttempts", "joined"}])'
  BY <1>1, <1>2 DEF TypeOK
<1>5. LengthsWritten' /\ (accepted \subseteq signed)'
  BY DEF BenchInv, LengthsWritten, Verifies, caseVars
<1> QED  BY <1>3, <1>4, <1>5 DEF VerifiedTotals, BeforeInv, SignedTotals

LEMMA LoopDoneStep == ASSUME BenchInv, NEW i \in Team, LoopDone(i) PROVE BenchInv'
<1>1. /\ phase \in {"sign", "verify"} /\ at[i] = "loop" /\ todo[i] = {}
      /\ at' = [at EXCEPT ![i] = "barrier"] /\ threads' = threads /\ TypeOK
      /\ UNCHANGED <<caseVars, usesPipeline, phase, todo, good, bad, sigLen, signVars,
                     verifyVars, ok, fail, signed, accepted>>
  BY DEF LoopDone, caseVars, BenchInv
<1>2. /\ Team' = Team /\ \A j \in Team : Chunk(j)' = Chunk(j)
      /\ \A P : (at[i] \in P <=> "barrier" \in P) => Past(P)' = Past(P)
  BY <1>1, Moves
<1>3. /\ Past({"addBad", "addAttempts", "joined"})' = Past({"addBad", "addAttempts", "joined"})
      /\ Past({"addAttempts", "joined"})' = Past({"addAttempts", "joined"})
      /\ Past({"addBad", "joined"})' = Past({"addBad", "joined"})
      /\ Past({"joined"})' = Past({"joined"})
  BY <1>1, <1>2
<1>4. /\ TeamInv' /\ LengthsWritten' /\ VerifiedTotals' /\ (accepted \subseteq signed)'
      /\ (phase = "done" => ok = OkTotal /\ fail = FailTotal)'
      /\ (at \in [Team -> {"loop", "barrier", "addBad", "addAttempts", "joined"}])'
  BY <1>1, MovesKeep DEF verifyVars
<1>5. TypeOK'
  BY <1>1, <1>2, <1>4 DEF TypeOK, caseVars, signVars, verifyVars
<1>6. SignInv'
  BY <1>1, <1>2, <1>3 DEF BenchInv, SignInv, Verifies, caseVars, signVars
<1>7. VerifyInv'
  BY <1>1, <1>2, <1>3 DEF BenchInv, VerifyInv, caseVars, verifyVars
<1>8. BeforeInv' /\ SignedTotals'
  BY <1>1 DEF BenchInv, BeforeInv, SignedTotals, signVars, verifyVars, caseVars
<1> QED  BY <1>4, <1>5, <1>6, <1>7, <1>8 DEF BenchInv

(* The shared count of a set of tokens grows by a thread's own count.      *)
LEMMA SharedGrows ==
  ASSUME TypeOK, threads' = threads, NEW i \in Team, NEW to, NEW P,
         at' = [at EXCEPT ![i] = to], at[i] \notin P, to \in P,
         NEW S \in SUBSET TokenSet
  PROVE  Cardinality(S \cap Past(P)') = Cardinality(S \cap Past(P)) + Cardinality(S \cap Chunk(i))
<1>1. Past(P)' = Past(P) \cup Chunk(i) /\ Past(P) \cap Chunk(i) = {} /\ Chunk(i) \subseteq TokenSet
  BY Moves
<1>2. /\ S \cap Past(P)' = (S \cap Past(P)) \cup (S \cap Chunk(i))
      /\ (S \cap Past(P)) \cap (S \cap Chunk(i)) = {}
      /\ S \cap Past(P) \in SUBSET TokenSet /\ S \cap Chunk(i) \in SUBSET TokenSet
  BY <1>1
<1> QED  BY <1>2, PlusBlock

(* Adding while signing: one of the three shared counts grows.             *)
LEMMA SignAddsStep ==
  ASSUME BenchInv, NEW i \in Team, AddSigned(i) \/ AddUnsigned(i) \/ AddAttempts(i)
  PROVE  BenchInv'
<1>1. PICK from, to \in {"barrier", "addBad", "addAttempts", "joined"} :
        /\ Adds(i, from, to)
        /\ \/ /\ from = "barrier" /\ to = "addBad"
              /\ signSuccess' = signSuccess + good[i]
              /\ UNCHANGED <<signFail, attempts>>
           \/ /\ from = "addBad" /\ to = "addAttempts"
              /\ signFail' = signFail + bad[i]
              /\ UNCHANGED <<signSuccess, attempts>>
           \/ /\ from = "addAttempts" /\ to = "joined"
              /\ attempts' = attempts + good[i]
              /\ UNCHANGED <<signSuccess, signFail>>
  BY DEF AddSigned, AddUnsigned, AddAttempts
<1>2. /\ phase = "sign" /\ at[i] = from /\ at' = [at EXCEPT ![i] = to]
      /\ TypeOK /\ threads' = threads /\ phase' = "sign"
      /\ UNCHANGED <<caseVars, usesPipeline, phase, todo, good, bad, sigLen, packed,
                     ok, fail, signed, accepted, verifyOk, verifyFail>>
  BY <1>1 DEF AddSigned, AddUnsigned, AddAttempts, Adds, BenchInv, caseVars
<1>3. /\ todo[i] = {} /\ signed \subseteq TokenSet
      /\ Chunk(i) \subseteq TokenSet
      /\ good[i] = Cardinality(signed \cap Chunk(i))
      /\ bad[i] = Cardinality((TokenSet \ signed) \cap Chunk(i))
  <2>1. todo[i] = {} /\ Chunk(i) \subseteq TokenSet
    BY <1>1, <1>2, Moves DEF BenchInv, TeamInv
  <2>2. (Chunk(i) \ todo[i]) \ signed = (TokenSet \ signed) \cap Chunk(i)
    BY <2>1
  <2> QED  BY <1>2, <2>1, <2>2 DEF BenchInv, SignInv, TypeOK
<1>4. /\ Team' = Team /\ \A j \in Team : Chunk(j)' = Chunk(j)
      /\ \A P : (at[i] \in P <=> to \in P) => Past(P)' = Past(P)
  BY <1>2, Moves
<1>5. /\ TeamInv' /\ LengthsWritten' /\ VerifiedTotals' /\ (accepted \subseteq signed)'
      /\ (phase = "done" => ok = OkTotal /\ fail = FailTotal)'
      /\ SignedTotals'
      /\ (at \in [Team -> {"loop", "barrier", "addBad", "addAttempts", "joined"}])'
  BY <1>2, <1>3, MovesKeep
<1> DEFINE A == {"addBad", "addAttempts", "joined"}
           B == {"addAttempts", "joined"}
           C == {"joined"}
<1>6. /\ signSuccess = Cardinality(signed \cap Past(A))
      /\ signFail = Cardinality((TokenSet \ signed) \cap Past(B))
      /\ attempts = Cardinality(signed \cap Past(C))
  <2>1. Past(B) \ signed = (TokenSet \ signed) \cap Past(B)
    BY DEF Past
  <2> QED  BY <1>2, <2>1 DEF BenchInv, SignInv
<1>7. /\ signSuccess' = Cardinality(signed \cap Past(A)')
      /\ signFail' = Cardinality((TokenSet \ signed) \cap Past(B)')
      /\ attempts' = Cardinality(signed \cap Past(C)')
  <2>1. CASE /\ from = "barrier" /\ to = "addBad"
             /\ signSuccess' = signSuccess + good[i]
             /\ UNCHANGED <<signFail, attempts>>
    <3>1. Past(B)' = Past(B) /\ Past(C)' = Past(C)
      BY <1>2, <1>4, <2>1
    <3>2. Cardinality(signed \cap Past(A)') = Cardinality(signed \cap Past(A)) + Cardinality(signed \cap Chunk(i))
      BY <1>2, <1>3, <2>1, SharedGrows, ZenonT(20)
    <3> QED  BY <1>3, <1>6, <2>1, <3>1, <3>2
  <2>2. CASE /\ from = "addBad" /\ to = "addAttempts"
             /\ signFail' = signFail + bad[i]
             /\ UNCHANGED <<signSuccess, attempts>>
    <3>1. Past(A)' = Past(A) /\ Past(C)' = Past(C)
      BY <1>2, <1>4, <2>2
    <3>2. Cardinality((TokenSet \ signed) \cap Past(B)')
            = Cardinality((TokenSet \ signed) \cap Past(B)) + Cardinality((TokenSet \ signed) \cap Chunk(i))
      BY <1>2, <1>3, <2>2, SharedGrows, ZenonT(20)
    <3> QED  BY <1>3, <1>6, <2>2, <3>1, <3>2
  <2>3. CASE /\ from = "addAttempts" /\ to = "joined"
             /\ attempts' = attempts + good[i]
             /\ UNCHANGED <<signSuccess, signFail>>
    <3>1. Past(A)' = Past(A) /\ Past(B)' = Past(B)
      BY <1>2, <1>4, <2>3
    <3>2. Cardinality(signed \cap Past(C)') = Cardinality(signed \cap Past(C)) + Cardinality(signed \cap Chunk(i))
      BY <1>2, <1>3, <2>3, SharedGrows
    <3> QED  BY <1>3, <1>6, <2>3, <3>1, <3>2
  <2> QED  BY <1>1, <2>1, <2>2, <2>3
<1>8. TypeOK'
  <2>1. signSuccess' \in 0 .. Tokens /\ signFail' \in 0 .. Tokens /\ attempts' \in 0 .. Tokens
    <3>1. /\ signed \cap Past(A)' \in SUBSET TokenSet /\ signed \cap Past(C)' \in SUBSET TokenSet
          /\ (TokenSet \ signed) \cap Past(B)' \in SUBSET TokenSet
      BY <1>3
    <3> QED  BY <1>7, <3>1, Sizes
  <2> QED  BY <1>2, <1>4, <1>5, <2>1 DEF TypeOK, caseVars
<1>9. SignInv'
  <2>1. Past(B)' \ signed = (TokenSet \ signed) \cap Past(B)'
    BY DEF Past
  <2>2. Verifies' = Verifies
    BY <1>2 DEF Verifies, caseVars
  <2>3. \A j \in Team :
         /\ todo[j] \cap signed = {}
         /\ good[j] = Cardinality(signed \cap Chunk(j))
         /\ bad[j] = Cardinality((Chunk(j) \ todo[j]) \ signed)
         /\ Verifies => \A t \in Chunk(j) \ todo[j] :
                          sigLen[t] = (IF t \in signed THEN "sig" ELSE "none")
    BY <1>2 DEF BenchInv, SignInv
  <2> QED  BY <1>2, <1>4, <1>7, <2>1, <2>2, <2>3 DEF SignInv
<1>10. VerifyInv' /\ BeforeInv'
  BY <1>2 DEF BenchInv, VerifyInv, BeforeInv
<1> QED  BY <1>5, <1>8, <1>9, <1>10 DEF BenchInv

LEMMA VerifyAddsStep ==
  ASSUME BenchInv, NEW i \in Team, AddAccepted(i) \/ AddRejected(i)
  PROVE  BenchInv'
<1>1. PICK from, to \in {"barrier", "addBad", "joined"} :
        /\ Adds(i, from, to)
        /\ \/ /\ from = "barrier" /\ to = "addBad"
              /\ verifyOk' = verifyOk + good[i] /\ verifyFail' = verifyFail
           \/ /\ from = "addBad" /\ to = "joined"
              /\ verifyFail' = verifyFail + bad[i] /\ verifyOk' = verifyOk
  BY DEF AddAccepted, AddRejected
<1>2. /\ phase = "verify" /\ at[i] = from /\ at' = [at EXCEPT ![i] = to]
      /\ TypeOK /\ threads' = threads /\ phase' = "verify"
      /\ UNCHANGED <<caseVars, usesPipeline, phase, todo, good, bad, sigLen, packed,
                     ok, fail, signed, accepted, signVars>>
  BY <1>1 DEF AddAccepted, AddRejected, Adds, BenchInv, caseVars
<1>3. /\ todo[i] = {} /\ accepted \subseteq TokenSet /\ signed \subseteq TokenSet
      /\ Chunk(i) \subseteq TokenSet
      /\ good[i] = Cardinality(accepted \cap Chunk(i))
      /\ bad[i] = Cardinality((signed \ accepted) \cap Chunk(i))
  <2>1. todo[i] = {} /\ Chunk(i) \subseteq TokenSet
    BY <1>1, <1>2, Moves DEF BenchInv, TeamInv
  <2>2. (signed \cap (Chunk(i) \ todo[i])) \ accepted = (signed \ accepted) \cap Chunk(i)
    BY <2>1
  <2> QED  BY <1>2, <2>1, <2>2 DEF BenchInv, VerifyInv, TypeOK
<1>4. /\ Team' = Team /\ \A j \in Team : Chunk(j)' = Chunk(j)
      /\ \A P : (at[i] \in P <=> to \in P) => Past(P)' = Past(P)
  BY <1>2, Moves
<1>5. /\ TeamInv' /\ LengthsWritten' /\ VerifiedTotals' /\ (accepted \subseteq signed)'
      /\ (phase = "done" => ok = OkTotal /\ fail = FailTotal)'
      /\ BeforeInv'
      /\ (at \in [Team -> {"loop", "barrier", "addBad", "addAttempts", "joined"}])'
  BY <1>2, <1>3, MovesKeep
<1> DEFINE A == {"addBad", "joined"}
           C == {"joined"}
<1>6. /\ verifyOk = Cardinality(accepted \cap Past(A))
      /\ verifyFail = Cardinality((signed \ accepted) \cap Past(C))
  <2>1. (signed \cap Past(C)) \ accepted = (signed \ accepted) \cap Past(C)
    OBVIOUS
  <2> QED  BY <1>2, <2>1 DEF BenchInv, VerifyInv
<1>7. /\ verifyOk' = Cardinality(accepted \cap Past(A)')
      /\ verifyFail' = Cardinality((signed \ accepted) \cap Past(C)')
  <2>1. CASE /\ from = "barrier" /\ to = "addBad"
             /\ verifyOk' = verifyOk + good[i] /\ verifyFail' = verifyFail
    <3>1. Past(C)' = Past(C)
      BY <1>2, <1>4, <2>1
    <3>2. Cardinality(accepted \cap Past(A)') = Cardinality(accepted \cap Past(A)) + Cardinality(accepted \cap Chunk(i))
      BY <1>2, <1>3, <2>1, SharedGrows
    <3> QED  BY <1>3, <1>6, <2>1, <3>1, <3>2
  <2>2. CASE /\ from = "addBad" /\ to = "joined"
             /\ verifyFail' = verifyFail + bad[i] /\ verifyOk' = verifyOk
    <3>1. Past(A)' = Past(A)
      BY <1>2, <1>4, <2>2
    <3>2. Cardinality((signed \ accepted) \cap Past(C)')
            = Cardinality((signed \ accepted) \cap Past(C)) + Cardinality((signed \ accepted) \cap Chunk(i))
      BY <1>2, <1>3, <2>2, SharedGrows
    <3> QED  BY <1>3, <1>6, <2>2, <3>1, <3>2
  <2> QED  BY <1>1, <2>1, <2>2
<1>8. TypeOK'
  <2>1. verifyOk' \in 0 .. Tokens /\ verifyFail' \in 0 .. Tokens
    <3>1. /\ accepted \cap Past(A)' \in SUBSET TokenSet
          /\ (signed \ accepted) \cap Past(C)' \in SUBSET TokenSet
      BY <1>3
    <3> QED  BY <1>7, <3>1, Sizes
  <2> QED  BY <1>2, <1>4, <1>5, <2>1 DEF TypeOK, caseVars, signVars
<1>9. VerifyInv'
  <2>1. (signed \cap Past(C)') \ accepted = (signed \ accepted) \cap Past(C)'
    OBVIOUS
  <2>2. backend' = "cpu"
    BY <1>2 DEF BenchInv, VerifyInv, caseVars
  <2>3. \A j \in Team :
         /\ todo[j] \cap accepted = {}
         /\ good[j] = Cardinality(accepted \cap Chunk(j))
         /\ bad[j] = Cardinality((signed \cap (Chunk(j) \ todo[j])) \ accepted)
    BY <1>2 DEF BenchInv, VerifyInv
  <2> QED  BY <1>2, <1>4, <1>7, <2>1, <2>2, <2>3 DEF VerifyInv
<1>10. SignInv' /\ SignedTotals'
  BY <1>2 DEF BenchInv, SignInv, SignedTotals, signVars
<1> QED  BY <1>5, <1>8, <1>9, <1>10 DEF BenchInv

(* All threads have joined: their blocks, together all tokens, are done.   *)
LEMMA AllJoined ==
  ASSUME BenchInv, phase \in {"sign", "verify"}, Joined
  PROVE  /\ \A i \in Team : todo[i] = {}
         /\ \A P : "joined" \in P => Past(P) = TokenSet
<1>1. threads \in 1 .. MaxThreads
  BY DEF BenchInv, TypeOK
<1>2. \A t \in TokenSet : at[Owner(t)] = "joined"
  BY <1>1, Blocks DEF Joined
<1> QED  BY <1>2 DEF BenchInv, TeamInv, Joined, Past

LEMMA SignedStep == ASSUME BenchInv, Signed PROVE BenchInv'
<1>1. /\ TypeOK /\ threads' = threads /\ phase = "sign"
      /\ phase' = VerifyPhase /\ StartTeam /\ Joined
      /\ UNCHANGED <<caseVars, usesPipeline, sigLen, signVars, verifyVars, ok, fail,
                     signed, accepted>>
  BY DEF BenchInv, Signed, caseVars
<1>2. /\ \A i \in Team : todo[i] = {}
      /\ \A P : "joined" \in P => Past(P) = TokenSet
  BY <1>1, AllJoined
<1>3. /\ at' \in [Team -> {"loop"}]
      /\ todo' \in [Team -> SUBSET TokenSet] /\ \A i \in Team : todo'[i] = Chunk(i)
      /\ good' \in [Team -> {0}] /\ bad' \in [Team -> {0}]
      /\ Team' = Team /\ \A i \in Team : Chunk(i)' = Chunk(i)
      /\ \A P : "loop" \notin P => Past(P)' = {}
  BY <1>1, TeamStarts DEF Past, Owner
<1>4. \/ backend = "none" /\ phase' = "report"
      \/ backend = "cpu" /\ phase' = "verify"
      \/ backend = "gpu_raw" /\ phase' = "prepare"
      \/ backend = "gpu_full" /\ phase' = "verify_gpu"
  BY <1>1 DEF VerifyPhase, TypeOK, Backends
<1>5. /\ verifyOk = 0 /\ verifyFail = 0 /\ accepted = {}
  BY <1>1 DEF BenchInv, BeforeInv
<1>6. SignedTotals'
  <2>1. /\ signSuccess = Cardinality(signed \cap TokenSet)
        /\ signFail = Cardinality(TokenSet \ signed)
        /\ attempts = Cardinality(signed \cap TokenSet)
    BY <1>1, <1>2 DEF BenchInv, SignInv
  <2>2. signed \cap TokenSet = signed
    BY <1>1 DEF TypeOK
  <2> QED  BY <1>1, <2>1, <2>2 DEF SignedTotals, signVars
<1>7. LengthsWritten'
  <2>1. ASSUME Verifies, NEW t \in TokenSet
        PROVE  sigLen[t] = (IF t \in signed THEN "sig" ELSE "none")
    <3>1. Owner(t) \in Team /\ t \in Chunk(Owner(t)) \ todo[Owner(t)]
      BY <1>1, <1>2, Blocks DEF TypeOK
    <3> QED  BY <1>1, <2>1, <3>1 DEF BenchInv, SignInv
  <2> QED  BY <1>1, <2>1 DEF LengthsWritten, Verifies, caseVars
<1>8. TypeOK'
  <2>1. 0 \in 0 .. Tokens
    BY OnlineAssumption
  <2>2. /\ (at \in [Team -> {"loop", "barrier", "addBad", "addAttempts", "joined"}])'
        /\ (todo \in [Team -> SUBSET TokenSet])'
        /\ (good \in [Team -> 0 .. Tokens])' /\ (bad \in [Team -> 0 .. Tokens])'
    BY <1>3, <2>1
  <2> QED  BY <1>1, <1>4, <2>2 DEF TypeOK, caseVars, signVars, verifyVars
<1>9. TeamInv'
  BY <1>3 DEF TeamInv
<1>10. VerifyInv'
  <2>1. SUFFICES ASSUME phase' = "verify" PROVE VerifyInv'
    BY DEF VerifyInv
  <2>2. backend' = "cpu"
    BY <1>1, <1>4, <2>1 DEF caseVars
  <2>3. ASSUME NEW i \in Team
        PROVE  /\ good'[i] = 0 /\ bad'[i] = 0 /\ accepted' = {}
               /\ (signed \cap (Chunk(i) \ todo[i]))' = {}
    BY <1>1, <1>3, <1>5
  <2>4. Past({"addBad", "joined"})' = {} /\ Past({"joined"})' = {}
    BY <1>3
  <2> QED
    BY <1>1, <1>3, <1>5, <2>1, <2>2, <2>3, <2>4, FS_EmptySet DEF VerifyInv, verifyVars
<1>11. SignInv' /\ (phase = "done" => ok = OkTotal /\ fail = FailTotal)'
  BY <1>4 DEF SignInv
<1>12. VerifiedTotals'
  BY <1>1, <1>4 DEF VerifiedTotals, Verifies, caseVars
<1>13. BeforeInv'
  BY <1>1, <1>4, <1>5 DEF BeforeInv, caseVars, verifyVars
<1>14. (accepted \subseteq signed)'
  BY <1>1, <1>5
<1> QED  BY <1>6, <1>7, <1>8, <1>9, <1>10, <1>11, <1>12, <1>13, <1>14 DEF BenchInv

(* What the steps after signing keep that change the phase and what the    *)
(* verification found, but neither a team nor what was signed.             *)
LEMMA LaterKeep ==
  ASSUME BenchInv, phase \notin {"choose", "pipeline", "sign"},
         phase' \in {"verify_raw", "report", "done", "exited"},
         UNCHANGED <<caseVars, usesPipeline, teamVars, sigLen, signVars, signed>>
  PROVE  /\ TeamInv' /\ SignInv' /\ VerifyInv' /\ LengthsWritten' /\ SignedTotals'
         /\ (/\ threads \in 1 .. MaxThreads /\ backend \in Backends
             /\ pipelineMode \in BOOLEAN /\ usesPipeline \in BOOLEAN
             /\ at \in [Team -> {"loop", "barrier", "addBad", "addAttempts", "joined"}]
             /\ todo \in [Team -> SUBSET TokenSet]
             /\ good \in [Team -> 0 .. Tokens] /\ bad \in [Team -> 0 .. Tokens]
             /\ sigLen \in [TokenSet -> {"unset", "none", "sig"}]
             /\ signSuccess \in 0 .. Tokens /\ signFail \in 0 .. Tokens /\ attempts \in 0 .. Tokens
             /\ signed \subseteq TokenSet)'
<1>1. LengthsWritten' /\ SignedTotals'
  BY DEF BenchInv, LengthsWritten, SignedTotals, Verifies, caseVars, signVars
<1>2. Team' = Team
  BY DEF Team, caseVars
<1> QED
  BY <1>1, <1>2 DEF BenchInv, TypeOK, TeamInv, SignInv, VerifyInv, caseVars, teamVars, signVars

(* The signatures there are to verify.                                     *)
LEMMA Verifiable ==
  ASSUME BenchInv, Verifies, phase \notin {"choose", "pipeline", "sign"}
  PROVE  {t \in TokenSet : sigLen[t] # "none"} = signed
BY DEF BenchInv, LengthsWritten, TypeOK

(* Signatures found valid and the rest of them are all signatures.         *)
LEMMA Split ==
  ASSUME NEW S \in SUBSET TokenSet, NEW U \in SUBSET S, NEW V \in SUBSET U
  PROVE  Cardinality(S \ U) + Cardinality(U \ V) = Cardinality(S \ V)
<1>1. /\ S \ U \in SUBSET TokenSet /\ U \ V \in SUBSET TokenSet
      /\ (S \ U) \cap (U \ V) = {} /\ S \ V = (S \ U) \cup (U \ V)
  OBVIOUS
<1> QED  BY <1>1, PlusBlock

(* The steps that verify on the GPU, end a verification or report.         *)
LEMMA VerifiedStep == ASSUME BenchInv, Verified PROVE BenchInv'
<1>1. /\ phase = "verify" /\ Joined /\ phase' = "report" /\ backend = "cpu" /\ TypeOK
      /\ UNCHANGED <<caseVars, usesPipeline, teamVars, sigLen, signVars, verifyVars,
                     ok, fail, signed, accepted>>
  BY DEF BenchInv, VerifyInv, Verified
<1>2. Past({"addBad", "joined"}) = TokenSet /\ Past({"joined"}) = TokenSet
  BY <1>1, AllJoined
<1>3. verifyOk = Cardinality(accepted) /\ verifyFail = Cardinality(signed \ accepted)
  <2>1. accepted \cap TokenSet = accepted /\ signed \cap TokenSet = signed
    BY <1>1 DEF TypeOK
  <2> QED  BY <1>1, <1>2, <2>1 DEF BenchInv, VerifyInv
<1>4. VerifiedTotals'
  BY <1>1, <1>3 DEF VerifiedTotals, verifyVars, caseVars
<1>5. /\ BeforeInv' /\ (accepted \subseteq signed)'
      /\ (phase = "done" => ok = OkTotal /\ fail = FailTotal)'
  BY <1>1 DEF BenchInv, BeforeInv
<1>6. TypeOK'
  BY <1>1, LaterKeep DEF TypeOK, verifyVars
<1> QED  BY <1>1, <1>4, <1>5, <1>6, LaterKeep DEF BenchInv

LEMMA PrepareStep == ASSUME BenchInv, Prepare PROVE BenchInv'
<1>1. phase = "prepare" /\ backend = "gpu_raw" /\ Verifies /\ TypeOK
  BY DEF BenchInv, BeforeInv, Prepare, Verifies
<1>2. PICK decoded \in SUBSET signed :
        /\ packed' = decoded
        /\ verifyFail' = verifyFail + Cardinality(signed \ decoded)
        /\ phase' = IF decoded = {} THEN "report" ELSE "verify_raw"
        /\ UNCHANGED <<caseVars, usesPipeline, teamVars, sigLen, signVars, verifyOk,
                       ok, fail, signed, accepted>>
  BY <1>1, Verifiable DEF Prepare
<1>3. verifyOk = 0 /\ verifyFail = 0 /\ accepted = {} /\ signed \subseteq TokenSet
  BY <1>1 DEF BenchInv, BeforeInv, TypeOK
<1>4. verifyFail' = Cardinality(signed \ decoded) /\ verifyFail' \in 0 .. Tokens
  <2>1. signed \ decoded \in SUBSET TokenSet
    BY <1>3
  <2> QED  BY <1>2, <1>3, <2>1, Sizes
<1>5. TypeOK'
  BY <1>1, <1>2, <1>3, <1>4, LaterKeep DEF TypeOK
<1>6. BeforeInv' /\ (accepted \subseteq signed)'
  BY <1>1, <1>2, <1>3, <1>4 DEF BeforeInv, caseVars
<1>7. VerifiedTotals'
  <2>1. CASE decoded = {}
    <3>1. signed \ decoded = signed \ accepted
      BY <1>3, <2>1
    <3> QED  BY <1>1, <1>2, <1>3, <1>4, <3>1, FS_EmptySet DEF VerifiedTotals, caseVars
  <2>2. CASE decoded # {}
    BY <1>2, <2>2 DEF VerifiedTotals
  <2> QED  BY <2>1, <2>2
<1>8. (phase = "done" => ok = OkTotal /\ fail = FailTotal)'
  BY <1>2
<1> QED  BY <1>1, <1>2, <1>5, <1>6, <1>7, <1>8, LaterKeep DEF BenchInv

LEMMA VerifyRawStep == ASSUME BenchInv, VerifyRaw PROVE BenchInv'
<1>1. /\ phase = "verify_raw" /\ backend = "gpu_raw" /\ TypeOK
      /\ packed \subseteq signed /\ signed \subseteq TokenSet
      /\ verifyFail = Cardinality(signed \ packed)
  BY DEF BenchInv, BeforeInv, VerifyRaw, TypeOK
<1>2. PICK valid \in SUBSET packed :
        /\ verifyOk' = Cardinality(valid)
        /\ verifyFail' = verifyFail + Cardinality(packed \ valid)
        /\ accepted' = valid
        /\ phase' = "report"
        /\ UNCHANGED <<caseVars, usesPipeline, teamVars, sigLen, signVars, packed,
                       ok, fail, signed>>
  BY DEF VerifyRaw
<1>3. verifyFail' = Cardinality(signed \ valid)
  BY <1>1, <1>2, Split
<1>4. verifyOk' \in 0 .. Tokens /\ verifyFail' \in 0 .. Tokens
  <2>1. valid \in SUBSET TokenSet /\ signed \ valid \in SUBSET TokenSet
    BY <1>1, <1>2
  <2> QED  BY <1>2, <1>3, <2>1, Sizes
<1>5. TypeOK'
  BY <1>1, <1>2, <1>4, LaterKeep DEF TypeOK
<1>6. /\ BeforeInv' /\ (accepted \subseteq signed)' /\ VerifiedTotals'
      /\ (phase = "done" => ok = OkTotal /\ fail = FailTotal)'
  BY <1>1, <1>2, <1>3 DEF BeforeInv, VerifiedTotals, caseVars
<1> QED  BY <1>1, <1>2, <1>5, <1>6, LaterKeep DEF BenchInv

LEMMA VerifyFullStep == ASSUME BenchInv, VerifyFull PROVE BenchInv'
<1>1. phase = "verify_gpu" /\ backend = "gpu_full" /\ Verifies /\ TypeOK /\ signed \subseteq TokenSet
  BY DEF BenchInv, BeforeInv, VerifyFull, Verifies, TypeOK
<1>2. PICK valid \in SUBSET signed :
        /\ verifyOk' = Cardinality(valid)
        /\ verifyFail' = Cardinality(TokenSet \ valid)
        /\ accepted' = valid
        /\ phase' = "report"
        /\ UNCHANGED <<caseVars, usesPipeline, teamVars, sigLen, signVars, packed,
                       ok, fail, signed>>
  BY <1>1, Verifiable DEF VerifyFull
<1>3. verifyOk' \in 0 .. Tokens /\ verifyFail' \in 0 .. Tokens
  <2>1. valid \in SUBSET TokenSet /\ TokenSet \ valid \in SUBSET TokenSet
    BY <1>1, <1>2
  <2> QED  BY <1>2, <2>1, Sizes
<1>4. TypeOK'
  BY <1>1, <1>2, <1>3, LaterKeep DEF TypeOK
<1>5. /\ BeforeInv' /\ (accepted \subseteq signed)' /\ VerifiedTotals'
      /\ (phase = "done" => ok = OkTotal /\ fail = FailTotal)'
  BY <1>1, <1>2 DEF BeforeInv, VerifiedTotals, caseVars
<1> QED  BY <1>1, <1>2, <1>4, <1>5, LaterKeep DEF BenchInv

LEMMA ReportStep == ASSUME BenchInv, Report PROVE BenchInv'
<1>1. /\ phase = "report" /\ phase' = "done" /\ TypeOK
      /\ ok' = OkTotal /\ fail' = FailTotal
      /\ UNCHANGED <<caseVars, usesPipeline, teamVars, sigLen, signVars, verifyVars,
                     signed, accepted>>
  BY DEF BenchInv, Report
<1>2. OkTotal' = OkTotal /\ FailTotal' = FailTotal
  BY <1>1 DEF OkTotal, FailTotal, caseVars, signVars, verifyVars
<1>3. ok' \in 0 .. Tokens /\ fail' \in 0 .. 2 * Tokens
  BY <1>1, OnlineAssumption DEF OkTotal, FailTotal, TypeOK
<1>4. TypeOK'
  BY <1>1, <1>3, LaterKeep DEF TypeOK, verifyVars
<1>5. /\ BeforeInv' /\ (accepted \subseteq signed)' /\ VerifiedTotals'
  BY <1>1 DEF BenchInv, BeforeInv, VerifiedTotals, Verifies, caseVars, verifyVars
<1> QED  BY <1>1, <1>2, <1>4, <1>5, LaterKeep DEF BenchInv

LEMMA GpuVerifyFailsStep == ASSUME BenchInv, GpuVerifyFails PROVE BenchInv'
<1>1. /\ phase \in {"verify_raw", "verify_gpu"} /\ phase' = "exited" /\ TypeOK
      /\ UNCHANGED <<caseVars, usesPipeline, teamVars, sigLen, signVars, verifyVars,
                     ok, fail, signed, accepted>>
  BY DEF BenchInv, GpuVerifyFails
<1>2. TypeOK'
  BY <1>1, LaterKeep DEF TypeOK, verifyVars
<1>3. /\ BeforeInv' /\ (accepted \subseteq signed)' /\ VerifiedTotals'
      /\ (phase = "done" => ok = OkTotal /\ fail = FailTotal)'
  BY <1>1 DEF BenchInv, BeforeInv, VerifiedTotals
<1> QED  BY <1>1, <1>2, <1>3, LaterKeep DEF BenchInv

LEMMA StutterStep == ASSUME BenchInv, UNCHANGED vars PROVE BenchInv'
<1> USE DEF vars, caseVars, teamVars, signVars, verifyVars
<1>1. TypeOK'
  BY DEF BenchInv, TypeOK, Team
<1>2. TeamInv' /\ SignInv' /\ VerifyInv'
  <2>1. /\ Team' = Team /\ Verifies' = Verifies
        /\ \A P : Past(P)' = Past(P)
        /\ \A i : Chunk(i)' = Chunk(i)
    BY DEF Team, Chunk, Owner, Past, Verifies
  <2>2. TeamInv'
    BY <2>1 DEF BenchInv, TeamInv
  <2>3. SignInv'
    BY <2>1 DEF BenchInv, SignInv
  <2>4. VerifyInv'
    BY <2>1 DEF BenchInv, VerifyInv
  <2> QED  BY <2>2, <2>3, <2>4
<1>3. BeforeInv' /\ LengthsWritten' /\ SignedTotals' /\ VerifiedTotals' /\ (accepted \subseteq signed)'
  BY DEF BenchInv, BeforeInv, LengthsWritten, SignedTotals, VerifiedTotals, Verifies
<1>4. (phase = "done" => ok = OkTotal /\ fail = FailTotal)'
  BY DEF BenchInv, OkTotal, FailTotal
<1> QED  BY <1>1, <1>2, <1>3, <1>4 DEF BenchInv

-----------------------------------------------------------------------------

(* run_online_cpu_mt with its verification keeps the inductive invariant,  *)
(* for every number of tokens and threads.                                 *)
THEOREM BenchInvHolds == Spec => []BenchInv
<1>1. BenchInv /\ [Next]_vars => BenchInv'
  <2> SUFFICES ASSUME BenchInv, [Next]_vars PROVE BenchInv'
    OBVIOUS
  <2>1. CASE \E i \in Team : TeamStep(i)
    <3>1. PICK i \in Team : TeamStep(i)
      BY <2>1
    <3> QED
      BY <3>1, SignNextStep, VerifyNextStep, LoopDoneStep, SignAddsStep, VerifyAddsStep DEF TeamStep
  <2>2. CASE Choose
    BY <2>2, ChooseStep
  <2>3. CASE Signed
    BY <2>3, SignedStep
  <2>4. CASE Verified
    BY <2>4, VerifiedStep
  <2>5. CASE Prepare
    BY <2>5, PrepareStep
  <2>6. CASE VerifyRaw
    BY <2>6, VerifyRawStep
  <2>7. CASE VerifyFull
    BY <2>7, VerifyFullStep
  <2>8. CASE GpuVerifyFails
    BY <2>8, GpuVerifyFailsStep
  <2>9. CASE Report
    BY <2>9, ReportStep
  <2>10. CASE UNCHANGED vars
    BY <2>10, StutterStep
  <2> QED
    BY <2>1, <2>2, <2>3, <2>4, <2>5, <2>6, <2>7, <2>8, <2>9, <2>10 DEF Next, Ended
<1> QED  BY <1>1, InitBench, PTL DEF Spec

(* The counts of run_online_cpu_mt are numbers of tokens, at most twice    *)
(* that many failures.                                                     *)
THEOREM TypeCorrect == Spec => []TypeOK
<1>1. BenchInv => TypeOK
  BY DEF BenchInv
<1> QED  BY <1>1, BenchInvHolds, PTL

(* The threads of the team lose no count and count nothing twice; only     *)
(* run_verify_batch_gpu_full counts a failed signing again.                *)
THEOREM ExactCounts == Spec => []CountsExact
<1>1. BenchInv => CountsExact
  <2> SUFFICES ASSUME BenchInv, phase = "done"
               PROVE  LET passed == IF Verifies THEN accepted ELSE signed IN
                      /\ ok = Cardinality(passed)
                      /\ fail = Cardinality(TokenSet \ passed)
                                + (IF backend = "gpu_full" THEN Cardinality(TokenSet \ signed) ELSE 0)
                      /\ attempts = Cardinality(signed)
    BY DEF CountsExact
  <2>1. /\ ok = OkTotal /\ fail = FailTotal /\ accepted \in SUBSET signed /\ signed \in SUBSET TokenSet
        /\ signSuccess = Cardinality(signed) /\ signFail = Cardinality(TokenSet \ signed)
        /\ attempts = Cardinality(signed)
    BY DEF BenchInv, TypeOK, SignedTotals
  <2>2. /\ Cardinality(TokenSet \ signed) \in Nat /\ Cardinality(TokenSet \ accepted) \in Nat
        /\ Cardinality(TokenSet \ signed) + Cardinality(signed \ accepted) = Cardinality(TokenSet \ accepted)
    <3>1. TokenSet \ signed \in SUBSET TokenSet /\ TokenSet \ accepted \in SUBSET TokenSet
      OBVIOUS
    <3>2. Cardinality(TokenSet \ signed) \in Nat /\ Cardinality(TokenSet \ accepted) \in Nat
      BY <3>1, Sizes
    <3>3. TokenSet \in SUBSET TokenSet
      OBVIOUS
    <3> QED  BY <2>1, <3>2, <3>3, Split
  <2>3. CASE ~Verifies
    BY <2>1, <2>2, <2>3 DEF Verifies, OkTotal, FailTotal
  <2>4. CASE Verifies
    <3>1. /\ ok = verifyOk /\ fail = signFail + verifyFail
          /\ verifyOk = Cardinality(accepted)
          /\ verifyFail = Cardinality((IF backend = "gpu_full" THEN TokenSet ELSE signed) \ accepted)
      BY <2>1, <2>4 DEF Verifies, OkTotal, FailTotal, BenchInv, VerifiedTotals
    <3>2. CASE backend = "gpu_full"
      BY <2>1, <2>2, <2>4, <3>1, <3>2
    <3>3. CASE backend # "gpu_full"
      BY <2>1, <2>2, <2>4, <3>1, <3>3
    <3> QED  BY <3>2, <3>3
  <2> QED  BY <2>3, <2>4
<1> QED  BY <1>1, BenchInvHolds, PTL

(* Verification reads no length of a signature that run_online_cpu_mt did  *)
(* not write: the region's end is waited for.                              *)
THEOREM LengthsKnown == Spec => []LengthsWritten
<1>1. BenchInv => LengthsWritten
  BY DEF BenchInv
<1> QED  BY <1>1, BenchInvHolds, PTL

(* No token of the bank is signed with twice, by one thread or by two.     *)
THEOREM NoTokenTwice == Spec => []SignedOnce
<1>1. BenchInv => SignedOnce
  <2> SUFFICES ASSUME BenchInv, phase = "sign" PROVE SignedOnce
    BY DEF SignedOnce
  <2>1. \A i, j \in Team : i # j => Chunk(i) \cap Chunk(j) = {}
    BY Blocks DEF BenchInv, TypeOK
  <2>2. \A i \in Team : todo[i] \subseteq Chunk(i) /\ todo[i] \cap signed = {}
    BY DEF BenchInv, TeamInv, SignInv
  <2> QED  BY <2>1, <2>2 DEF SignedOnce
<1> QED  BY <1>1, BenchInvHolds, PTL
=============================================================================
