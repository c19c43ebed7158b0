----------------------- MODULE RefillPipelineProofs -----------------------
(***************************************************************************)
(* Proofs about RefillPipeline, for every number of banks, every bank      *)
(* size, every threshold and every number of calls.                        *)
(***************************************************************************)
EXTENDS RefillPipeline, FiniteSetTheorems, SequenceTheorems, TLAPS

(* The ring has a place for every token, and banks are never of no size.   *)
LEMMA CapacityFacts ==
  /\ BankCount \in Nat /\ TokensPerBank \in Nat /\ TokensPerBank >= 1
  /\ Capacity \in Nat /\ Capacity >= 1
  /\ TokensPerBank <= Capacity
  /\ (BankCount - 1) * TokensPerBank = Capacity - TokensPerBank
  /\ 0 \in Bank /\ 0 \in Slot /\ 0 \in Index
  BY PipelineAssumption DEF Capacity, Bank, Slot, Index

(* Stepping forwards around the ring. *)
LEMMA AdvanceFacts ==
  ASSUME NEW s \in Slot, NEW n \in 0 .. Capacity
  PROVE  /\ SlotAdvance(s, n) \in Slot
         /\ SlotAdvance(s, n) = IF s + n < Capacity THEN s + n
                                                   ELSE s + n - Capacity
<1>. DEFINE x == s + n
<1>1. s \in 0 .. Capacity - 1
  BY DEF Slot
<1>2. x \in Int /\ x >= 0 /\ x <= 2 * Capacity - 1
  BY <1>1, CapacityFacts
<1>. HIDE DEF x
<1>3. /\ x % Capacity \in 0 .. Capacity - 1
      /\ x % Capacity = IF x < Capacity THEN x ELSE x - Capacity
  BY <1>2, CapacityFacts
<1>4. SlotAdvance(s, n) = x % Capacity
  BY DEF x, SlotAdvance
<1>. QED  BY <1>1, <1>3, <1>4, CapacityFacts DEF x, Slot

(* The distance from one slot forwards to another. *)
LEMMA DistanceFacts ==
  ASSUME NEW s \in Slot, NEW r \in Slot
  PROVE  (r - s) % Capacity = IF r >= s THEN r - s ELSE r - s + Capacity
<1>. DEFINE x == r - s
<1>1. x \in Int /\ x >= -(Capacity - 1) /\ x <= Capacity - 1
  BY CapacityFacts DEF Slot
<1>. HIDE DEF x
<1>2. x % Capacity = IF x >= 0 THEN x ELSE x + Capacity
  BY <1>1, CapacityFacts
<1>3. (r - s) % Capacity = x % Capacity
  BY DEF x
<1>. QED  BY <1>2, <1>3, CapacityFacts DEF x, Slot

(* Place k of the queue, as a slot; different places are different slots.  *)
LEMMA SlotFacts ==
  ASSUME TypeOK
  PROVE  /\ \A k \in 0 .. Capacity : SlotAt(k) \in Slot
         /\ \A k \in 0 .. Capacity :
              SlotAt(k) = IF head + k < Capacity THEN head + k
                                                 ELSE head + k - Capacity
         /\ \A k \in 0 .. Capacity - 1 : Queued(k) \in Ref
<1>1. head \in 0 .. Capacity - 1 /\ items \in [Slot -> Ref]
  BY DEF TypeOK, Slot
<1>2. ASSUME NEW k \in 0 .. Capacity
      PROVE  /\ SlotAt(k) \in Slot
             /\ SlotAt(k) = IF head + k < Capacity THEN head + k
                                                   ELSE head + k - Capacity
  <2>1. SlotAt(k) = SlotAdvance(head, k)
    BY DEF SlotAt, SlotAdvance
  <2>. QED  BY <1>1, <2>1, AdvanceFacts DEF Slot
<1>3. \A k \in 0 .. Capacity - 1 : Queued(k) \in Ref
  BY <1>1, <1>2, CapacityFacts DEF Queued
<1>. QED  BY <1>2, <1>3

(* Queueing a bank that fits appends its tokens in order.                  *)
LEMMA EnqueueFacts ==
  ASSUME TypeOK, tail = SlotAt(count), Fits,
         NEW b \in Bank, EnqueueBank(b)
  PROVE  /\ head' = head /\ count' = count + TokensPerBank
         /\ items' \in [Slot -> Ref]
         /\ tail' \in Slot /\ tail' = SlotAt(count + TokensPerBank)
         /\ \A k \in 0 .. count - 1 : Queued(k)' = Queued(k)
         /\ \A k \in count .. count + TokensPerBank - 1 :
              Queued(k)' = [bank_id |-> b, token_index |-> k - count]
<1>. DEFINE Dist(s) == (s - tail) % Capacity
<1>1. /\ head \in Slot /\ tail \in Slot /\ count \in 0 .. Capacity
      /\ items \in [Slot -> Ref]
  BY DEF TypeOK
<1>2. Pushed = TokensPerBank /\ count + TokensPerBank <= Capacity
  BY <1>1, CapacityFacts DEF Pushed, Fits
<1>3. items' = [s \in Slot |->
         IF Dist(s) < TokensPerBank
         THEN [bank_id |-> b, token_index |-> Dist(s)] ELSE items[s]]
  BY <1>2 DEF EnqueueBank
<1>4. ASSUME NEW s \in Slot
      PROVE  /\ Dist(s) = IF s >= tail THEN s - tail ELSE s - tail + Capacity
             /\ Dist(s) \in Nat
  <2>1. Dist(s) = IF s >= tail THEN s - tail ELSE s - tail + Capacity
    BY <1>1, DistanceFacts
  <2>. HIDE DEF Dist
  <2>. QED  BY <1>1, <2>1, CapacityFacts DEF Slot
<1>. HIDE DEF Dist
<1>5. items' \in [Slot -> Ref]
  BY <1>1, <1>3, <1>4, CapacityFacts DEF Ref, Index
<1>6. head' = head /\ count' = count + TokensPerBank
  BY <1>2 DEF EnqueueBank
<1>7. \A k \in 0 .. Capacity : SlotAt(k)' = SlotAt(k)
  BY <1>6 DEF SlotAt
<1>8. tail' \in Slot /\ tail' = SlotAt(count + TokensPerBank)
  <2>1. tail' = SlotAdvance(tail, TokensPerBank)
    BY <1>2 DEF EnqueueBank
  <2>2. tail' \in Slot /\ tail' = IF tail + TokensPerBank < Capacity
                                  THEN tail + TokensPerBank
                                  ELSE tail + TokensPerBank - Capacity
    <3>1. TokensPerBank \in 0 .. Capacity
      BY CapacityFacts
    <3>. QED  BY <1>1, <2>1, <3>1, AdvanceFacts
  <2>3. tail = IF head + count < Capacity THEN head + count
                                          ELSE head + count - Capacity
    BY <1>1, SlotFacts
  <2>. DEFINE n == count + TokensPerBank
  <2>4. n \in 0 .. Capacity
    BY <1>1, <1>2, CapacityFacts
  <2>. HIDE DEF n
  <2>5. SlotAt(n) = IF head + n < Capacity THEN head + n ELSE head + n - Capacity
    BY <2>4, SlotFacts
  <2>6. SlotAt(n) = tail'
    BY <1>1, <1>2, <2>2, <2>3, <2>4, <2>5, CapacityFacts DEF n, Slot
  <2>. QED  BY <2>2, <2>6 DEF n
<1>9. ASSUME NEW k \in 0 .. count - 1
      PROVE  Queued(k)' = Queued(k)
  <2>1. k \in 0 .. Capacity
    BY <1>1, CapacityFacts
  <2>2. /\ SlotAt(k) \in Slot
        /\ SlotAt(k) = IF head + k < Capacity THEN head + k
                                              ELSE head + k - Capacity
        /\ tail = IF head + count < Capacity THEN head + count
                                             ELSE head + count - Capacity
    BY <1>1, <2>1, SlotFacts
  <2>3. Dist(SlotAt(k)) = IF SlotAt(k) >= tail
                          THEN SlotAt(k) - tail ELSE SlotAt(k) - tail + Capacity
    BY <1>4, <2>2
  <2>4. Dist(SlotAt(k)) \in Nat /\ ~(Dist(SlotAt(k)) < TokensPerBank)
    BY <1>1, <1>2, <1>4, <2>2, <2>3, CapacityFacts DEF Slot
  <2>5. items'[SlotAt(k)] = items[SlotAt(k)]
    BY <1>3, <2>2, <2>4
  <2>. QED  BY <1>7, <2>1, <2>5 DEF Queued
<1>10. ASSUME NEW k \in count .. count + TokensPerBank - 1
       PROVE  Queued(k)' = [bank_id |-> b, token_index |-> k - count]
  <2>1. k \in 0 .. Capacity
    BY <1>1, <1>2, CapacityFacts
  <2>2. /\ SlotAt(k) \in Slot
        /\ SlotAt(k) = IF head + k < Capacity THEN head + k
                                              ELSE head + k - Capacity
        /\ tail = IF head + count < Capacity THEN head + count
                                             ELSE head + count - Capacity
    BY <1>1, <2>1, SlotFacts
  <2>3. Dist(SlotAt(k)) = IF SlotAt(k) >= tail
                          THEN SlotAt(k) - tail ELSE SlotAt(k) - tail + Capacity
    BY <1>4, <2>2
  <2>4. Dist(SlotAt(k)) = k - count /\ k - count < TokensPerBank
    BY <1>1, <1>2, <2>2, <2>3, CapacityFacts DEF Slot
  <2>5. items'[SlotAt(k)] = [bank_id |-> b, token_index |-> k - count]
    BY <1>3, <2>2, <2>4
  <2>. QED  BY <1>7, <2>1, <2>5 DEF Queued
<1>. QED  BY <1>5, <1>6, <1>8, <1>9, <1>10

(* Popping moves every queued token one place forward.                     *)
LEMMA PopFacts ==
  ASSUME TypeOK, tail = SlotAt(count), count > 0,
         head' = SlotAdvance(head, 1), count' = count - 1,
         items' = items, tail' = tail
  PROVE  /\ head' \in Slot /\ count' \in 0 .. Capacity
         /\ tail' = SlotAt(count)'
         /\ \A k \in 0 .. count' - 1 : Queued(k)' = Queued(k + 1)
<1>1. /\ head \in Slot /\ count \in 1 .. Capacity /\ 1 \in 0 .. Capacity
  BY CapacityFacts DEF TypeOK
<1>2. /\ head' \in Slot
      /\ head' = IF head + 1 < Capacity THEN head + 1 ELSE head + 1 - Capacity
  BY <1>1, AdvanceFacts
<1>3. count' \in 0 .. Capacity
  BY <1>1, CapacityFacts
<1>4. ASSUME NEW k \in 0 .. count'
      PROVE  (head' + k) % Capacity = SlotAt(k + 1)
  <2>1. k \in 0 .. Capacity /\ k + 1 \in 0 .. Capacity
    BY <1>1, CapacityFacts
  <2>2. SlotAdvance(head', k) = IF head' + k < Capacity THEN head' + k
                                                       ELSE head' + k - Capacity
    BY <1>2, <2>1, AdvanceFacts
  <2>. DEFINE m == k + 1
  <2>3. m \in 0 .. Capacity
    BY <2>1
  <2>. HIDE DEF m
  <2>4. SlotAt(m) = IF head + m < Capacity THEN head + m ELSE head + m - Capacity
    BY <2>3, SlotFacts
  <2>5. SlotAdvance(head', k) = SlotAt(m)
    BY <1>1, <1>2, <2>1, <2>2, <2>4, CapacityFacts DEF m, Slot
  <2>. QED  BY <2>5 DEF m, SlotAdvance
<1>5. tail' = SlotAt(count)'
  <2>1. (head' + count') % Capacity = SlotAt(count' + 1)
    BY <1>3, <1>4
  <2>2. count' + 1 = count
    BY <1>1
  <2>. QED  BY <2>1, <2>2 DEF SlotAt
<1>6. ASSUME NEW k \in 0 .. count' - 1
      PROVE  Queued(k)' = Queued(k + 1)
  <2>1. k \in 0 .. count'
    BY <1>3
  <2>. QED  BY <1>4, <2>1 DEF Queued, SlotAt
<1>. QED  BY <1>2, <1>3, <1>5, <1>6

(* The ring has room for a bank none of whose tokens is left: the queued   *)
(* tokens are all different, and there are enough of other banks for them  *)
(* only.                                                                   *)
LEMMA RoomForEmptyBank ==
  ASSUME TypeOK, QueueMatchesBanks, NEW b \in Bank, remaining[b] = 0
  PROVE  Fits
<1>. DEFINE Places == 0 .. count - 1
            Others == (Bank \ {b}) \X Index
            f == [k \in Places |->
                   <<Queued(k).bank_id, Queued(k).token_index>>]
<1>1. count \in 0 .. Capacity /\ remaining \in [Bank -> 0 .. TokensPerBank]
  BY DEF TypeOK
<1>2. \A k \in Places : Queued(k) \in Ref
  BY <1>1, SlotFacts, CapacityFacts
<1>3. f \in [Places -> Others]
  <2>. SUFFICES ASSUME NEW k \in Places
                PROVE  Queued(k).bank_id # b
    BY <1>2 DEF Ref
  <2>1. Queued(k).token_index >= TokensPerBank - remaining[Queued(k).bank_id]
    BY DEF QueueMatchesBanks
  <2>2. Queued(k).token_index \in 0 .. TokensPerBank - 1
    BY <1>2 DEF Ref, Index
  <2>. QED  BY <2>1, <2>2, CapacityFacts
<1>4. \A j, k \in Places : j # k => f[j] # f[k]
  <2>. SUFFICES ASSUME NEW j \in Places, NEW k \in Places, j < k,
                       Queued(j).bank_id = Queued(k).bank_id
                PROVE  Queued(j).token_index # Queued(k).token_index
    BY <1>1
  <2>1. Queued(j).token_index < Queued(k).token_index
    BY DEF QueueMatchesBanks
  <2>2. Queued(j).token_index \in Int /\ Queued(k).token_index \in Int
    BY <1>2, CapacityFacts DEF Ref, Index
  <2>. QED  BY <2>1, <2>2
<1>5. IsFiniteSet(Others)
      /\ Cardinality(Others) = (BankCount - 1) * TokensPerBank
  <2>1. IsFiniteSet(Bank) /\ Cardinality(Bank) = BankCount
    BY FS_Interval, CapacityFacts, PipelineAssumption DEF Bank
  <2>2. IsFiniteSet(Bank \ {b}) /\ Cardinality(Bank \ {b}) = BankCount - 1
    BY <2>1, FS_RemoveElement
  <2>3. IsFiniteSet(Index) /\ Cardinality(Index) = TokensPerBank
    BY FS_Interval, CapacityFacts DEF Index
  <2>. QED  BY <2>2, <2>3, FS_Product
<1>6. IsFiniteSet(Places) /\ Cardinality(Places) = count
  <2>. DEFINE n == count - 1
  <2>1. n \in Int /\ 0 \in Int /\ n + 1 = count
        /\ (IF 0 > n THEN 0 ELSE n - 0 + 1) = count
    BY <1>1, CapacityFacts
  <2>. HIDE DEF n
  <2>2. IsFiniteSet(0 .. n) /\ Cardinality(0 .. n) = count
    BY <2>1, FS_Interval
  <2>. QED  BY <2>2 DEF n
<1>7. ~(Cardinality(Others) < Cardinality(Places))
  <2>. HIDE DEF Places, Others, f
  <2>. QED  BY <1>3, <1>4, <1>5, <1>6, FS_PigeonHole
<1>. QED  BY <1>1, <1>5, <1>6, <1>7, CapacityFacts DEF Fits

-----------------------------------------------------------------------------
(* The inductive invariant *)

LEMMA InitIInv == Init => IInv
<1>. SUFFICES ASSUME Init PROVE IInv
  OBVIOUS
<1>1. TypeOK
  <2>1. \A s \in Slot : s % TokensPerBank \in Index
    BY CapacityFacts DEF Slot, Index
  <2>2. TokensPerBank \in Slot
    BY PipelineAssumption, CapacityFacts DEF Slot, Capacity
  <2>3. items \in [Slot -> Ref] /\ view \in Ref
    BY <2>1, CapacityFacts DEF Init, Ref
  <2>4. available \in [Bank -> BOOLEAN]
    BY DEF Init
  <2>5. /\ head \in Slot /\ tail \in Slot /\ count \in 0 .. Capacity
        /\ remaining \in [Bank -> 0 .. TokensPerBank]
        /\ content \in [Bank -> Nat \cup {Torn}]
        /\ targ \in [Thread -> [bank : Bank, seed : Nat]]
    BY <2>2, CapacityFacts DEF Init
  <2>6. lastSigned \in (Nat \cup {Torn}) \X (Index \cup {-1})
    BY DEF Init
  <2>7. tpc \in [Thread -> {"unborn", "new", "generating", "generated",
                          "flagged", "cleared", "exited"}]
    BY DEF Init
  <2>8. /\ nextSeed \in Nat /\ wSeed \in Nat
        /\ wBank \in Bank /\ calls \in 0 .. MaxCalls
    BY CapacityFacts, PipelineAssumption DEF Init
  <2>9. /\ inFlight \in BOOLEAN /\ done \in BOOLEAN /\ started \in BOOLEAN
        /\ result = 0 /\ ret = 0 /\ pc = "caller"
        /\ wThread = NoThread /\ handles \in SUBSET Thread
    BY DEF Init
  <2>. QED  BY <2>3, <2>4, <2>5, <2>6, <2>7, <2>8, <2>9 DEF TypeOK
<1>2. QueueMatchesBanks
  <2>1. \A k \in 0 .. count - 1 : Queued(k) = [bank_id |-> 0, token_index |-> k]
    <3>. SUFFICES ASSUME NEW k \in 0 .. TokensPerBank - 1
                  PROVE  Queued(k) = [bank_id |-> 0, token_index |-> k]
      BY DEF Init
    <3>1. SlotAt(k) = k /\ k \in Slot
      BY <1>1, SlotFacts, CapacityFacts DEF Init, Slot
    <3>2. k % TokensPerBank = k
      BY CapacityFacts
    <3>. QED  BY <3>1, <3>2 DEF Init, Queued
  <2>2. tail = SlotAt(count)
    <3>1. TokensPerBank < Capacity /\ TokensPerBank \in 0 .. Capacity
      BY PipelineAssumption, CapacityFacts DEF Capacity
    <3>. QED  BY <1>1, <3>1, SlotFacts DEF Init
  <2>3. \A b \in Bank : remaining[b] = IF b = 0 THEN TokensPerBank ELSE 0
    BY DEF Init
  <2>4. count = TokensPerBank
    BY DEF Init
  <2>5. \A k \in 0 .. count - 1 :
          Queued(k).token_index = k /\ Queued(k).bank_id = 0
    BY <2>1
  <2>6. \A k \in 0 .. count - 1 :
          Queued(k).token_index >= TokensPerBank - remaining[Queued(k).bank_id]
    BY <2>3, <2>4, <2>5, CapacityFacts
  <2>7. ASSUME NEW b \in Bank,
               NEW i \in TokensPerBank - remaining[b] .. TokensPerBank - 1
        PROVE  \E k \in 0 .. count - 1 :
                 Queued(k) = [bank_id |-> b, token_index |-> i]
    <3>1. b = 0 /\ i \in 0 .. count - 1
      BY <2>3, <2>4, CapacityFacts DEF Bank
    <3>. QED  BY <2>1, <3>1
  <2>. QED  BY <2>2, <2>5, <2>6, <2>7 DEF QueueMatchesBanks
<1>3. WorkerInv
  BY DEF Init, WorkerInv, BusyThread
<1>4. CallerInv
  BY DEF Init, CallerInv, InAcquire
<1>5. TokensInOrder
  <2>1. \A k \in 0 .. count - 1 : TokenOf(Queued(k)) = <<0, k>>
    <3>. SUFFICES ASSUME NEW k \in 0 .. TokensPerBank - 1
                  PROVE  Queued(k) = [bank_id |-> 0, token_index |-> k]
      BY CapacityFacts DEF Init, TokenOf
    <3>1. SlotAt(k) = k /\ k \in Slot
      BY <1>1, SlotFacts, CapacityFacts DEF Init, Slot
    <3>2. k % TokensPerBank = k
      BY CapacityFacts
    <3>. QED  BY <3>1, <3>2 DEF Init, Queued
  <2>2. LastToken = <<0, -1>> /\ SeedLimit = 1
    BY DEF Init, LastToken, SeedLimit
  <2>3. count = TokensPerBank /\ pc = "caller"
    BY DEF Init
  <2>. QED  BY <2>1, <2>2, <2>3, CapacityFacts DEF TokensInOrder, Later
<1>6. NoQueueError /\ WaitHasRefill
  BY DEF Init, NoQueueError, WaitHasRefill, EnqueueErrorIdle, EnqueueErrorWait,
         EmptyError
<1>. QED  BY <1>1, <1>2, <1>3, <1>4, <1>5, <1>6 DEF IInv

(* A queued token is of a bank that has tokens left. *)
LEMMA QueuedBank ==
  ASSUME TypeOK, QueueMatchesBanks, NEW k \in 0 .. count - 1
  PROVE  /\ Queued(k) \in Ref
         /\ remaining[Queued(k).bank_id] \in 1 .. TokensPerBank
<1>1. Queued(k) \in Ref
  BY SlotFacts, CapacityFacts DEF TypeOK
<1>2. Queued(k).token_index \in 0 .. TokensPerBank - 1 /\ Queued(k).bank_id \in Bank
  BY <1>1 DEF Ref, Index
<1>3. remaining[Queued(k).bank_id] \in 0 .. TokensPerBank
  BY <1>2 DEF TypeOK
<1>4. Queued(k).token_index >= TokensPerBank - remaining[Queued(k).bank_id]
  BY DEF QueueMatchesBanks
<1>. QED  BY <1>1, <1>2, <1>3, <1>4, CapacityFacts

(* Steps that leave the queue and the counters alone. *)
LEMMA SameQueue ==
  ASSUME QueueMatchesBanks, UNCHANGED <<queueVars, remaining>>
  PROVE  QueueMatchesBanks'
<1>1. \A k : SlotAt(k)' = SlotAt(k) /\ Queued(k)' = Queued(k)
  BY DEF queueVars, SlotAt, Queued
<1>2. UNCHANGED <<tail, count, remaining>>
  BY DEF queueVars
<1>. QED  BY <1>1, <1>2 DEF QueueMatchesBanks

(* Steps that leave the tokens in use alone. *)
LEMMA SameTokens ==
  ASSUME TokensInOrder, UNCHANGED <<queueVars, lastSigned>>,
         SeedLimit' = SeedLimit, LastToken' = LastToken,
         pc' = "sign" => pc = "sign",
         \A k \in 0 .. count - 1 :
           content'[Queued(k).bank_id] = content[Queued(k).bank_id]
  PROVE  TokensInOrder'
<1>1. \A k : Queued(k)' = Queued(k)
  BY DEF queueVars, SlotAt, Queued
<1>2. count' = count
  BY DEF queueVars
<1>3. \A k \in 0 .. count - 1 : TokenOf(Queued(k))' = TokenOf(Queued(k))
  BY <1>1 DEF TokenOf
<1>. QED  BY <1>2, <1>3 DEF TokensInOrder

(* The bank of a started refill has no token in the queue.                 *)
LEMMA RefillBankNotQueued ==
  ASSUME TypeOK, QueueMatchesBanks, WorkerInv, started
  PROVE  \A k \in 0 .. count - 1 : Queued(k).bank_id # wBank
  BY QueuedBank, CapacityFacts DEF WorkerInv

LEMMA ThreadBeginStep ==
  ASSUME IInv, NEW t \in Thread, ThreadBegin(t)
  PROVE  IInv'
<1>. USE DEF IInv
<1>1. BusyThread(t) /\ started /\ wThread = t /\ inFlight
  BY DEF ThreadBegin, BusyThread, WorkerInv
<1>2. TypeOK'
  BY DEF TypeOK, ThreadBegin, Torn, queueVars, bankVars, workerVars, callerVars
<1>3. QueueMatchesBanks'
  BY SameQueue DEF ThreadBegin, bankVars
<1>4. WorkerInv'
  <2>1. \A u \in Thread : /\ BusyThread(u)' <=> BusyThread(u)
                          /\ tpc'[u] = "generating" =>
                               u = t \/ tpc[u] = "generating"
    BY DEF ThreadBegin, TypeOK, BusyThread
  <2>2. tpc'[t] = "generating" /\ targ' = [targ EXCEPT ![t] = [bank |-> wBank, seed |-> wSeed]]
    BY DEF ThreadBegin, TypeOK
  <2>3. UNCHANGED <<workerVars, handles, remaining, nextSeed>>
    BY DEF ThreadBegin, bankVars
  <2>. QED  BY <1>1, <2>1, <2>2, <2>3 DEF WorkerInv, workerVars, TypeOK
<1>5. CallerInv'
  BY DEF CallerInv, InAcquire, ThreadBegin, queueVars, workerVars, callerVars
<1>6. TokensInOrder'
  <2>1. content' = [content EXCEPT ![wBank] = Torn]
    BY DEF ThreadBegin
  <2>2. \A k \in 0 .. count - 1 :
          content'[Queued(k).bank_id] = content[Queued(k).bank_id]
    BY <1>1, <2>1, RefillBankNotQueued, QueuedBank DEF Ref, TypeOK
  <2>3. UNCHANGED <<queueVars, workerVars, pc, view, lastSigned, nextSeed>>
    BY DEF ThreadBegin, callerVars
  <2>4. LastToken' = LastToken
    <3>1. pc = "sign" => content'[view.bank_id] = content[view.bank_id]
      BY <1>1, <2>1 DEF CallerInv, TypeOK, Ref
    <3>. QED  BY <2>3, <3>1 DEF LastToken, TokenOf
  <2>5. SeedLimit' = SeedLimit
    BY <2>3 DEF SeedLimit, workerVars
  <2>. QED  BY <2>2, <2>3, <2>4, <2>5, SameTokens
<1>7. NoQueueError' /\ WaitHasRefill'
  BY DEF NoQueueError, WaitHasRefill, ThreadBegin, callerVars, queueVars, workerVars
<1>. QED  BY <1>2, <1>3, <1>4, <1>5, <1>6, <1>7

LEMMA ThreadGeneratedStep ==
  ASSUME IInv, NEW t \in Thread, NEW status \in {0, GpuFailure},
         ThreadGenerated(t, status)
  PROVE  IInv'
<1>. USE DEF IInv
<1>1. /\ BusyThread(t) /\ started /\ wThread = t /\ inFlight
      /\ targ[t] = [bank |-> wBank, seed |-> wSeed]
  BY DEF ThreadGenerated, BusyThread, WorkerInv
<1>2. content' = [content EXCEPT ![wBank] = IF status = 0 THEN wSeed ELSE Torn]
  BY <1>1 DEF ThreadGenerated
<1>3. UNCHANGED <<queueVars, bankVars, nextSeed, inFlight, done, started, wBank,
                  wSeed, wThread, targ, handles, pc, callerVars>>
  BY DEF ThreadGenerated
<1>4. tpc' = [tpc EXCEPT ![t] = "generated"] /\ result' = status
  BY DEF ThreadGenerated
<1>5. TypeOK'
  BY <1>2, <1>3, <1>4 DEF TypeOK, Torn, queueVars, bankVars, callerVars
<1>6. QueueMatchesBanks'
  BY <1>3, SameQueue DEF bankVars
<1>7. WorkerInv'
  <2>1. \A u \in Thread : /\ BusyThread(u)' <=> BusyThread(u)
                          /\ tpc'[u] = "generating" => tpc[u] = "generating"
    BY <1>1, <1>4 DEF TypeOK, BusyThread
  <2>2. result' = 0 => content'[wBank] = wSeed
    BY <1>2, <1>4 DEF TypeOK, GpuFailure
  <2>. QED  BY <1>1, <1>3, <2>1, <2>2 DEF WorkerInv, bankVars, TypeOK
<1>8. CallerInv'
  BY <1>3 DEF CallerInv, InAcquire, queueVars, callerVars
<1>9. TokensInOrder'
  <2>1. \A k \in 0 .. count - 1 :
          content'[Queued(k).bank_id] = content[Queued(k).bank_id]
    BY <1>1, <1>2, RefillBankNotQueued, QueuedBank DEF Ref, TypeOK
  <2>2. LastToken' = LastToken
    <3>1. pc = "sign" => content'[view.bank_id] = content[view.bank_id]
      BY <1>1, <1>2 DEF CallerInv, TypeOK, Ref
    <3>. QED  BY <1>3, <3>1 DEF LastToken, TokenOf, callerVars
  <2>3. SeedLimit' = SeedLimit
    BY <1>3 DEF SeedLimit
  <2>. QED  BY <1>3, <2>1, <2>2, <2>3, SameTokens DEF callerVars
<1>10. NoQueueError' /\ WaitHasRefill'
  BY <1>3 DEF NoQueueError, WaitHasRefill, callerVars, queueVars
<1>. QED  BY <1>5, <1>6, <1>7, <1>8, <1>9, <1>10

(* The two stores the worker ends with, and its exit. *)
LEMMA ThreadEndStep ==
  ASSUME IInv, NEW t \in Thread,
         ThreadStoreDone(t) \/ ThreadClearInFlight(t) \/ ThreadExit(t)
  PROVE  IInv'
<1>. USE DEF IInv
<1>1. UNCHANGED <<queueVars, bankVars, nextSeed, started, wBank, wSeed, result,
                  wThread, targ, handles, content, pc, callerVars>>
  BY DEF ThreadStoreDone, ThreadClearInFlight, ThreadExit, workerVars
<1>2. TypeOK'
  <2>1. /\ tpc' \in [Thread -> {"unborn", "new", "generating", "generated",
                                "flagged", "cleared", "exited"}]
        /\ done' \in BOOLEAN /\ inFlight' \in BOOLEAN
    BY DEF ThreadStoreDone, ThreadClearInFlight, ThreadExit, workerVars, TypeOK
  <2>. QED  BY <1>1, <2>1 DEF TypeOK, queueVars, bankVars, callerVars
<1>3. QueueMatchesBanks'
  BY <1>1, SameQueue DEF bankVars
<1>4. WorkerInv'
  <2>1. CASE ThreadStoreDone(t)
    <3>1. \A u \in Thread : /\ BusyThread(u)' <=> BusyThread(u)
                            /\ tpc'[u] = "generating" => tpc[u] = "generating"
      BY <2>1 DEF ThreadStoreDone, TypeOK, BusyThread
    <3>2. BusyThread(t) /\ tpc[t] = "generated" /\ inFlight' = inFlight
      BY <2>1 DEF ThreadStoreDone, BusyThread
    <3>3. tpc' = [tpc EXCEPT ![t] = "flagged"]
      BY <2>1 DEF ThreadStoreDone
    <3>. QED  BY <1>1, <3>1, <3>2, <3>3 DEF WorkerInv, bankVars, TypeOK
  <2>2. CASE ThreadClearInFlight(t)
    <3>1. \A u \in Thread :
             /\ BusyThread(u)' <=> BusyThread(u) /\ u # t
             /\ tpc'[u] = "generating" => tpc[u] = "generating"
      BY <2>2 DEF ThreadClearInFlight, TypeOK, BusyThread
    <3>2. BusyThread(t) /\ tpc[t] = "flagged" /\ inFlight' = FALSE
      BY <2>2 DEF ThreadClearInFlight, BusyThread
    <3>3. tpc' = [tpc EXCEPT ![t] = "cleared"]
      BY <2>2 DEF ThreadClearInFlight
    <3>4. \A u \in Thread : ~BusyThread(u)'
      BY <3>1, <3>2 DEF WorkerInv
    <3>. QED  BY <1>1, <3>1, <3>2, <3>3, <3>4 DEF WorkerInv, bankVars, TypeOK
  <2>3. CASE ThreadExit(t)
    <3>1. \A u \in Thread : /\ BusyThread(u)' <=> BusyThread(u)
                            /\ tpc'[u] = "generating" => tpc[u] = "generating"
      BY <2>3 DEF ThreadExit, TypeOK, BusyThread
    <3>2. tpc[t] = "cleared" /\ inFlight' = inFlight
      BY <2>3 DEF ThreadExit, workerVars
    <3>3. tpc' = [tpc EXCEPT ![t] = "exited"]
      BY <2>3 DEF ThreadExit
    <3>. QED  BY <1>1, <3>1, <3>2, <3>3 DEF WorkerInv, bankVars, TypeOK
  <2>. QED  BY <2>1, <2>2, <2>3
<1>5. CallerInv'
  <2>1. done' /\ pc # "freed" => started
    BY DEF CallerInv, WorkerInv, BusyThread, ThreadStoreDone,
           ThreadClearInFlight, ThreadExit, workerVars
  <2>2. done => done'
    BY DEF ThreadStoreDone, ThreadClearInFlight, ThreadExit, workerVars
  <2>. QED  BY <1>1, <2>1, <2>2 DEF CallerInv, InAcquire, queueVars, callerVars
<1>6. TokensInOrder'
  BY <1>1, SameTokens DEF LastToken, SeedLimit, TokenOf, callerVars
<1>7. NoQueueError' /\ WaitHasRefill'
  BY <1>1 DEF NoQueueError, WaitHasRefill, callerVars, queueVars
<1>. QED  BY <1>2, <1>3, <1>4, <1>5, <1>6, <1>7

(* Consumer steps that only move on: nothing but pc and calls changes.     *)
LEMMA ConsumerMovesStep ==
  ASSUME IInv,
         CallAcquire \/ LoadDone \/ SkipRefill \/ WaitSeesDone \/ CallDestroy
  PROVE  IInv'
<1>. USE DEF IInv
<1>1. UNCHANGED <<queueVars, bankVars, nextSeed, workerVars, threadVars, content,
                  ret, view, lastSigned>>
  BY DEF CallAcquire, LoadDone, SkipRefill, WaitSeesDone, CallDestroy, callerVars
<1>2. /\ pc # "sign" /\ pc' # "sign"
      /\ pc' \in {"finish", "collect", "decide", "wait", "collectWaiting", "destroy"}
  BY DEF CallAcquire, LoadDone, SkipRefill, WaitSeesDone, CallDestroy
<1>3. calls' \in 0 .. MaxCalls /\ (InAcquire' => calls' \in Thread)
  <2>1. calls \in 0 .. MaxCalls
    BY DEF TypeOK
  <2>2. CASE CallAcquire
    BY <2>1, <2>2, PipelineAssumption DEF CallAcquire, Thread
  <2>3. CASE LoadDone \/ SkipRefill \/ WaitSeesDone \/ CallDestroy
    <3>1. calls' = calls /\ (InAcquire' => InAcquire)
      BY <2>3 DEF LoadDone, SkipRefill, WaitSeesDone, CallDestroy, callerVars,
                  InAcquire
    <3>. QED  BY <2>1, <3>1 DEF CallerInv
  <2>. QED  BY <2>2, <2>3
<1>4. TypeOK'
  BY <1>1, <1>2, <1>3 DEF TypeOK, queueVars, bankVars, workerVars, threadVars
<1>5. QueueMatchesBanks'
  BY <1>1, SameQueue DEF bankVars
<1>6. WorkerInv'
  BY <1>1 DEF WorkerInv, BusyThread, workerVars, threadVars, bankVars
<1>7. CallerInv'
  <2>1. pc' \in {"collect", "collectWaiting"} => done
    BY DEF CallAcquire, LoadDone, SkipRefill, WaitSeesDone, CallDestroy
  <2>2. pc # "freed"
    BY DEF CallAcquire, LoadDone, SkipRefill, WaitSeesDone, CallDestroy
  <2>. QED  BY <1>1, <1>2, <1>3, <2>1, <2>2 DEF CallerInv, workerVars
<1>8. TokensInOrder'
  BY <1>1, <1>2, SameTokens DEF LastToken, SeedLimit, TokenOf, workerVars
<1>9. NoQueueError'
  BY <1>1 DEF NoQueueError
<1>10. WaitHasRefill'
  <2>. SUFFICES ASSUME pc' = "wait", count = 0, Threshold >= 0
                PROVE  started
    BY <1>1 DEF WaitHasRefill, queueVars, workerVars
  <2>1. SkipRefill
    BY DEF CallAcquire, LoadDone, SkipRefill, WaitSeesDone, CallDestroy
  <2>2. remaining[0] = 0
    <3>. SUFFICES ASSUME remaining[0] # 0 PROVE FALSE
      OBVIOUS
    <3>1. remaining[0] \in 1 .. TokensPerBank
      BY CapacityFacts DEF TypeOK
    <3>2. TokensPerBank - 1 \in TokensPerBank - remaining[0] .. TokensPerBank - 1
      BY <3>1, CapacityFacts
    <3>3. \E k \in 0 .. count - 1 :
            Queued(k) = [bank_id |-> 0, token_index |-> TokensPerBank - 1]
      BY <3>2, CapacityFacts DEF QueueMatchesBanks
    <3>. QED  BY <3>3
  <2>3. inFlight
    BY <2>1, <2>2, CapacityFacts, PipelineAssumption
    DEF SkipRefill, NeedsRefill, IsEmptyBank, TypeOK
  <2>. QED  BY <2>3 DEF WorkerInv
<1>. QED  BY <1>4, <1>5, <1>6, <1>7, <1>8, <1>9, <1>10

(* The worker whose exit was awaited leaves no busy thread behind. *)
LEMMA JoinFacts ==
  ASSUME TypeOK, WorkerInv, JoinWorker
  PROVE  /\ \A t \in Thread : ~BusyThread(t)
         /\ ~inFlight /\ started' = FALSE
         /\ wThread' \in Thread \cup {NoThread} /\ handles' \in SUBSET Thread
<1>1. \A t \in Thread : ~BusyThread(t)
  BY DEF JoinWorker, CanJoin, WorkerInv, BusyThread
<1>2. ~inFlight
  BY <1>1 DEF WorkerInv
<1>3. started' = FALSE
      /\ wThread' \in Thread \cup {NoThread} /\ handles' \in SUBSET Thread
  BY DEF JoinWorker, TypeOK
<1>. QED  BY <1>1, <1>2, <1>3

LEMMA CollectFailedStep ==
  ASSUME IInv, CollectFailed
  PROVE  IInv'
<1>. USE DEF IInv
<1>1. /\ started /\ pc # "sign" /\ pc' = "caller" /\ ret' = result /\ done' = FALSE
      /\ UNCHANGED <<queueVars, bankVars, nextSeed, inFlight, wBank, wSeed,
                     result, tpc, targ, content, calls, view, lastSigned>>
  BY DEF CollectFailed, CallerInv, Return, DoneAfterCollect, bankVars
<1>2. /\ \A t \in Thread : ~BusyThread(t)
      /\ ~inFlight /\ started' = FALSE
      /\ wThread' \in Thread \cup {NoThread} /\ handles' \in SUBSET Thread
  BY JoinFacts DEF CollectFailed
<1>3. TypeOK'
  BY <1>1, <1>2 DEF TypeOK, queueVars, bankVars
<1>4. QueueMatchesBanks'
  BY <1>1, SameQueue DEF bankVars
<1>5. WorkerInv'
  BY <1>1, <1>2 DEF WorkerInv, BusyThread
<1>6. CallerInv'
  BY <1>1, <1>2 DEF CallerInv, InAcquire
<1>7. TokensInOrder'
  <2>1. \A k : Queued(k)' = Queued(k) /\ TokenOf(Queued(k))' = TokenOf(Queued(k))
    BY <1>1 DEF queueVars, Queued, SlotAt, TokenOf
  <2>2. LastToken' = LastToken /\ count' = count
    BY <1>1 DEF LastToken, queueVars
  <2>3. SeedLimit' \in Int /\ SeedLimit \in Int /\ SeedLimit' > SeedLimit
    BY <1>1, <1>2 DEF SeedLimit, WorkerInv, TypeOK
  <2>4. LastToken[1] \in Int
    BY <1>1 DEF LastToken, TypeOK, Torn
  <2>5. \A k \in 0 .. count - 1 : TokenOf(Queued(k))[1] \in Int
    BY QueuedBank DEF TokenOf, TypeOK, Torn, Ref
  <2>6. /\ LastToken[1] < SeedLimit'
        /\ \A k \in 0 .. count - 1 : TokenOf(Queued(k))[1] < SeedLimit'
    BY <2>3, <2>4, <2>5 DEF TokensInOrder
  <2>. QED  BY <1>1, <2>1, <2>2, <2>6 DEF TokensInOrder
<1>8. NoQueueError'
  BY <1>1 DEF NoQueueError, TypeOK, GpuFailure, EnqueueErrorIdle,
              EnqueueErrorWait, EmptyError
<1>9. WaitHasRefill'
  BY <1>1 DEF WaitHasRefill
<1>. QED  BY <1>3, <1>4, <1>5, <1>6, <1>7, <1>8, <1>9

(* Queueing a filled bank keeps the ring and the counters in step. *)
LEMMA EnqueueKeepsQueue ==
  ASSUME TypeOK, QueueMatchesBanks, Fits, NEW b \in Bank, remaining[b] = 0,
         EnqueueBank(b), remaining' = [remaining EXCEPT ![b] = TokensPerBank]
  PROVE  QueueMatchesBanks'
<1>1. /\ head' = head /\ count' = count + TokensPerBank
      /\ tail' = SlotAt(count + TokensPerBank)
      /\ \A k \in 0 .. count - 1 : Queued(k)' = Queued(k)
      /\ \A k \in count .. count + TokensPerBank - 1 :
           Queued(k)' = [bank_id |-> b, token_index |-> k - count]
  BY EnqueueFacts DEF QueueMatchesBanks
<1>2. count \in Nat /\ remaining \in [Bank -> 0 .. TokensPerBank]
  BY CapacityFacts DEF TypeOK
<1>3. tail' = SlotAt(count)'
  BY <1>1 DEF SlotAt
<1>4. \A k \in 0 .. count - 1 : /\ Queued(k) \in Ref
                                /\ Queued(k).bank_id # b
  BY QueuedBank, CapacityFacts
<1>5. \A k \in 0 .. count' - 1 : k \in 0 .. count - 1
                              \/ k \in count .. count + TokensPerBank - 1
  BY <1>1, <1>2, CapacityFacts
<1>6. ASSUME NEW k \in 0 .. count' - 1
      PROVE  (Queued(k).token_index
                >= TokensPerBank - remaining[Queued(k).bank_id])'
  <2>1. CASE k \in 0 .. count - 1
    <3>1. Queued(k).token_index >= TokensPerBank - remaining[Queued(k).bank_id]
      BY <2>1 DEF QueueMatchesBanks
    <3>2. remaining'[Queued(k).bank_id] = remaining[Queued(k).bank_id]
      BY <1>2, <1>4, <2>1 DEF Ref
    <3>. QED  BY <1>1, <2>1, <3>1, <3>2
  <2>2. CASE k \in count .. count + TokensPerBank - 1
    <3>1. remaining'[b] = TokensPerBank
      BY <1>2
    <3>2. Queued(k)'.token_index = k - count /\ Queued(k)'.bank_id = b
      BY <1>1, <2>2
    <3>. QED  BY <1>2, <2>2, <3>1, <3>2, CapacityFacts
  <2>. QED  BY <1>5, <2>1, <2>2
<1>7. ASSUME NEW k \in 0 .. count' - 1, NEW m \in 0 .. count' - 1, k < m,
             Queued(k)'.bank_id = Queued(m)'.bank_id
      PROVE  Queued(k)'.token_index < Queued(m)'.token_index
  <2>1. CASE m \in 0 .. count - 1
    <3>1. k \in 0 .. count - 1
      BY <1>2, <1>5, <1>7, <2>1, CapacityFacts
    <3>. QED  BY <1>1, <1>7, <2>1, <3>1 DEF QueueMatchesBanks
  <2>2. CASE m \in count .. count + TokensPerBank - 1
    <3>1. Queued(m)'.token_index = m - count /\ Queued(m)'.bank_id = b
      BY <1>1, <2>2
    <3>2. k \in count .. count + TokensPerBank - 1
      BY <1>1, <1>4, <1>5, <1>7, <3>1
    <3>3. Queued(k)'.token_index = k - count
      BY <1>1, <3>2
    <3>. QED  BY <1>2, <1>7, <2>2, <3>1, <3>2, <3>3, CapacityFacts
  <2>. QED  BY <1>5, <2>1, <2>2
<1>8. ASSUME NEW c \in Bank,
             NEW i \in TokensPerBank - remaining'[c] .. TokensPerBank - 1
      PROVE  \E k \in 0 .. count' - 1 :
               Queued(k)' = [bank_id |-> c, token_index |-> i]
  <2>1. CASE c = b
    <3>1. i \in 0 .. TokensPerBank - 1
      BY <1>2, <2>1, CapacityFacts
    <3>2. /\ count + i \in count .. count + TokensPerBank - 1
          /\ count + i \in 0 .. count' - 1 /\ (count + i) - count = i
      BY <1>1, <1>2, <3>1, CapacityFacts
    <3>3. PICK k \in 0 .. count' - 1 : k = count + i
      BY <3>2
    <3>4. k \in count .. count + TokensPerBank - 1 /\ k - count = i
      BY <3>2, <3>3
    <3>5. Queued(k)' = [bank_id |-> c, token_index |-> i]
      BY <1>1, <2>1, <3>4
    <3>. QED  BY <3>5
  <2>2. CASE c # b
    <3>1. remaining'[c] = remaining[c]
      BY <1>2, <2>2
    <3>2. PICK k \in 0 .. count - 1 :
            Queued(k) = [bank_id |-> c, token_index |-> i]
      BY <3>1 DEF QueueMatchesBanks
    <3>3. k \in 0 .. count' - 1
      BY <1>1, <1>2, CapacityFacts
    <3>. QED  BY <1>1, <3>2, <3>3
  <2>. QED  BY <2>1, <2>2
<1>. QED  BY <1>3, <1>6, <1>7, <1>8 DEF QueueMatchesBanks

(* A successful refill is collected: its tokens come after all others.     *)
LEMMA CollectFilledStep ==
  ASSUME IInv, CollectOnEntry \/ CollectWaiting
  PROVE  IInv'
<1>. USE DEF IInv
<1>1. /\ JoinWorker /\ done' = FALSE /\ result = 0 /\ EnqueueBank(wBank)
      /\ pc \in {"collect", "collectWaiting"} /\ pc # "sign" /\ started
      /\ UNCHANGED <<nextSeed, inFlight, wBank, wSeed, result, tpc, targ,
                     content, calls, view, lastSigned>>
  BY DEF CollectOnEntry, CollectWaiting, CollectFilled, DoneAfterCollect,
         RefillSucceeded, CallerInv
<1>2. wBank \in Bank /\ remaining[wBank] = 0
  BY <1>1 DEF TypeOK, WorkerInv
<1>3. Fits
  BY <1>2, RoomForEmptyBank
<1>4. /\ remaining' = [remaining EXCEPT ![wBank] = TokensPerBank]
      /\ available' = [available EXCEPT ![wBank] = FALSE]
      /\ pc' \in {"decide", "pop"} /\ ret' = ret
  BY <1>3 DEF CollectOnEntry, CollectWaiting, CollectFilled, Restocked
<1>5. /\ \A t \in Thread : ~BusyThread(t)
      /\ ~inFlight /\ started' = FALSE
      /\ wThread' \in Thread \cup {NoThread} /\ handles' \in SUBSET Thread
  BY <1>1, JoinFacts
<1>6. /\ head' = head /\ count' = count + TokensPerBank
      /\ items' \in [Slot -> Ref] /\ tail' \in Slot
      /\ \A k \in 0 .. count - 1 : Queued(k)' = Queued(k)
      /\ \A k \in count .. count + TokensPerBank - 1 :
           Queued(k)' = [bank_id |-> wBank, token_index |-> k - count]
  BY <1>1, <1>2, <1>3, EnqueueFacts DEF QueueMatchesBanks
<1>7. count \in Nat /\ count' \in 1 .. Capacity
  BY <1>3, <1>6, CapacityFacts DEF TypeOK, Fits
<1>8. TypeOK'
  <2>1. remaining' \in [Bank -> 0 .. TokensPerBank] /\ available' \in [Bank -> BOOLEAN]
    BY <1>2, <1>4, CapacityFacts DEF TypeOK
  <2>2. /\ head' \in Slot /\ tail' \in Slot /\ count' \in 0 .. Capacity
        /\ items' \in [Slot -> Ref]
    BY <1>6, <1>7, CapacityFacts DEF TypeOK
  <2>3. /\ pc' \in {"decide", "pop"} /\ ret' = ret
        /\ done' = FALSE /\ started' = FALSE
    BY <1>1, <1>4, <1>5
  <2>. QED  BY <1>1, <1>5, <2>1, <2>2, <2>3 DEF TypeOK
<1>9. QueueMatchesBanks'
  BY <1>1, <1>2, <1>3, <1>4, EnqueueKeepsQueue
<1>10. WorkerInv'
  BY <1>1, <1>5 DEF WorkerInv, BusyThread
<1>11. CallerInv'
  <2>1. calls \in Thread
    BY <1>1 DEF CallerInv, InAcquire
  <2>. QED  BY <1>1, <1>4, <1>5, <1>7, <2>1 DEF CallerInv, InAcquire
<1>12. TokensInOrder'
  <2>1. content[wBank] = wSeed
    <3>1. tpc[wThread] = "exited"
      BY <1>1 DEF JoinWorker, CanJoin
    <3>. QED  BY <1>1, <3>1 DEF WorkerInv
  <2>2. /\ SeedLimit = wSeed /\ SeedLimit' = nextSeed /\ wSeed < nextSeed
        /\ wSeed \in Nat /\ nextSeed \in Nat
    BY <1>1, <1>5 DEF SeedLimit, WorkerInv, TypeOK
  <2>3. LastToken' = LastToken /\ LastToken = lastSigned /\ pc' # "sign"
    BY <1>1, <1>4 DEF LastToken
  <2>4. LastToken[1] \in Int /\ LastToken[1] < wSeed
    BY <2>2, <2>3 DEF TokensInOrder, TypeOK, Torn
  <2>5. \A k \in 0 .. count - 1 :
          /\ TokenOf(Queued(k))' = TokenOf(Queued(k))
          /\ TokenOf(Queued(k))[1] \in Int
          /\ TokenOf(Queued(k))[1] < wSeed
          /\ Later(TokenOf(Queued(k)), LastToken)
    <3>. SUFFICES ASSUME NEW k \in 0 .. count - 1
                  PROVE  /\ TokenOf(Queued(k))' = TokenOf(Queued(k))
                         /\ TokenOf(Queued(k))[1] \in Int
      BY <2>2 DEF TokensInOrder
    <3>1. Queued(k)' = Queued(k) /\ Queued(k) \in Ref
      BY <1>6, QueuedBank
    <3>2. content[Queued(k).bank_id] \in Int
      BY <3>1 DEF TypeOK, Torn, Ref
    <3>. QED  BY <1>1, <3>1, <3>2 DEF TokenOf
  <2>6. \A k \in count .. count + TokensPerBank - 1 :
          TokenOf(Queued(k))' = <<wSeed, k - count>>
    BY <1>1, <1>6, <2>1 DEF TokenOf
  <2>7. \A k \in 0 .. count' - 1 : k \in 0 .. count - 1
                               \/ k \in count .. count + TokensPerBank - 1
    BY <1>6, <1>7, CapacityFacts
  <2>8. ASSUME NEW k \in 0 .. count' - 1
        PROVE  /\ TokenOf(Queued(k))'[1] < SeedLimit'
               /\ Later(TokenOf(Queued(k))', LastToken')
    <3>1. CASE k \in 0 .. count - 1
      BY <2>2, <2>3, <2>5, <3>1
    <3>2. CASE k \in count .. count + TokensPerBank - 1
      BY <2>2, <2>3, <2>4, <2>6, <3>2 DEF Later
    <3>. QED  BY <2>7, <3>1, <3>2
  <2>9. ASSUME NEW k \in 0 .. count' - 1, NEW m \in 0 .. count' - 1, k < m
        PROVE  Later(TokenOf(Queued(m))', TokenOf(Queued(k))')
    <3>1. CASE m \in 0 .. count - 1
      <4>1. k \in 0 .. count - 1
        BY <1>7, <2>7, <2>9, <3>1
      <4>. QED  BY <2>5, <2>9, <3>1, <4>1 DEF TokensInOrder
    <3>2. CASE m \in count .. count + TokensPerBank - 1 /\ k \in 0 .. count - 1
      BY <2>2, <2>5, <2>6, <3>2 DEF Later
    <3>3. CASE /\ m \in count .. count + TokensPerBank - 1
               /\ k \in count .. count + TokensPerBank - 1
      BY <1>7, <2>6, <2>9, <3>3 DEF Later
    <3>. QED  BY <2>7, <3>1, <3>2, <3>3
  <2>. QED  BY <2>2, <2>3, <2>4, <2>8, <2>9 DEF TokensInOrder, Later
<1>13. NoQueueError'
  BY <1>4 DEF NoQueueError
<1>14. WaitHasRefill'
  BY <1>4 DEF WaitHasRefill
<1>. QED  BY <1>8, <1>9, <1>10, <1>11, <1>12, <1>13, <1>14

(* A refill is started, or its thread cannot be created.                   *)
LEMMA StartStep ==
  ASSUME IInv, NEW b \in Bank, StartRefill(b) \/ StartFails(b)
  PROVE  IInv'
<1>. USE DEF IInv
<1>1. /\ pc = "decide" /\ ~inFlight /\ remaining[b] = 0
      /\ available' = [available EXCEPT ![b] = FALSE]
      /\ wBank' = b /\ wSeed' = nextSeed /\ nextSeed' = nextSeed + 1
      /\ result' = 0 /\ done' = FALSE
      /\ UNCHANGED <<queueVars, remaining, targ, content, calls, view, lastSigned>>
  <2>1. ChooseBank(b) /\ ~inFlight
    BY DEF StartRefill, StartFails, ChooseBank, NeedsRefill
  <2>2. PrepareWorker(b)
    BY <2>1 DEF StartRefill, StartFails, WorkerBusy
  <2>. QED  BY <2>1, <2>2 DEF ChooseBank, PrepareWorker, FirstEmpty, IsEmptyBank
<1>2. calls \in Thread
  BY <1>1 DEF CallerInv, InAcquire
<1>3. \A t \in Thread : ~BusyThread(t)
  BY <1>1 DEF WorkerInv
<1>4. \/ /\ inFlight' = TRUE /\ started' = TRUE /\ wThread' = calls
         /\ tpc' = [tpc EXCEPT ![calls] = "new"]
         /\ handles' = handles \cup {calls}
         /\ pc' = "wait" /\ ret' = ret
      \/ /\ inFlight' = FALSE /\ started' = FALSE /\ wThread' = NoThread
         /\ UNCHANGED <<tpc, handles>>
         /\ pc' = "caller" /\ ret' = StartError
  BY <1>1 DEF StartRefill, StartFails, Return, WorkerBusy, InFlightAtStart
<1>5. TypeOK'
  <2>1. /\ inFlight' \in BOOLEAN /\ started' \in BOOLEAN /\ done' \in BOOLEAN
        /\ wThread' \in Thread \cup {NoThread} /\ handles' \in SUBSET Thread
        /\ tpc' \in [Thread -> {"unborn", "new", "generating", "generated",
                                "flagged", "cleared", "exited"}]
        /\ pc' \in {"wait", "caller"} /\ ret' \in {ret, StartError}
    BY <1>1, <1>2, <1>4 DEF TypeOK
  <2>2. available' \in [Bank -> BOOLEAN]
    BY <1>1 DEF TypeOK
  <2>. QED  BY <1>1, <2>1, <2>2 DEF TypeOK, queueVars
<1>6. QueueMatchesBanks'
  BY <1>1, SameQueue
<1>7. WorkerInv'
  <2>1. nextSeed' = wSeed' + 1 /\ remaining'[wBank'] = 0
    BY <1>1 DEF TypeOK
  <2>2. CASE started' = TRUE
    <3>1. /\ inFlight' /\ wThread' = calls /\ calls \in handles'
          /\ tpc' = [tpc EXCEPT ![calls] = "new"]
      BY <1>4, <2>2
    <3>2. /\ tpc'[calls] = "new"
          /\ \A t \in Thread : t # calls => ~BusyThread(t)' /\ tpc'[t] = tpc[t]
      BY <1>2, <1>3, <3>1 DEF TypeOK, BusyThread
    <3>3. \A t \in Thread : tpc'[t] # "generating"
      BY <1>3, <3>2 DEF BusyThread
    <3>4. BusyThread(wThread)'
      BY <3>1, <3>2 DEF BusyThread
    <3>. QED  BY <1>2, <2>1, <2>2, <3>1, <3>2, <3>3, <3>4 DEF WorkerInv
  <2>3. CASE started' = FALSE
    <3>1. inFlight' = FALSE /\ tpc' = tpc
      BY <1>4, <2>3
    <3>2. \A t \in Thread : ~BusyThread(t)' /\ tpc'[t] # "generating"
      BY <1>3, <3>1 DEF BusyThread
    <3>. QED  BY <2>1, <2>3, <3>1, <3>2 DEF WorkerInv
  <2>. QED  BY <1>4, <2>2, <2>3
<1>8. CallerInv'
  BY <1>1, <1>2, <1>4 DEF CallerInv, InAcquire
<1>9. TokensInOrder'
  <2>1. \A k : Queued(k)' = Queued(k) /\ TokenOf(Queued(k))' = TokenOf(Queued(k))
    BY <1>1 DEF queueVars, Queued, SlotAt, TokenOf
  <2>2. LastToken' = LastToken /\ count' = count /\ pc' # "sign"
    BY <1>1, <1>4 DEF LastToken, queueVars
  <2>3. SeedLimit' \in Int /\ SeedLimit \in Int /\ SeedLimit' >= SeedLimit
    BY <1>1, <1>4 DEF SeedLimit, WorkerInv, TypeOK
  <2>4. LastToken[1] \in Int
    BY <1>1 DEF LastToken, TypeOK, Torn
  <2>5. \A k \in 0 .. count - 1 : TokenOf(Queued(k))[1] \in Int
    BY QueuedBank DEF TokenOf, TypeOK, Torn, Ref
  <2>6. /\ LastToken[1] < SeedLimit'
        /\ \A k \in 0 .. count - 1 : TokenOf(Queued(k))[1] < SeedLimit'
    BY <2>3, <2>4, <2>5 DEF TokensInOrder
  <2>. QED  BY <2>1, <2>2, <2>6 DEF TokensInOrder
<1>10. NoQueueError'
  BY <1>4 DEF NoQueueError, StartError, EnqueueErrorIdle, EnqueueErrorWait,
              EmptyError
<1>11. WaitHasRefill'
  BY <1>4 DEF WaitHasRefill
<1>. QED  BY <1>5, <1>6, <1>7, <1>8, <1>9, <1>10, <1>11

(* Popping keeps the ring and the counters in step: the popped token is    *)
(* the first left of its bank.                                             *)
LEMMA PopKeepsQueue ==
  ASSUME TypeOK, QueueMatchesBanks, count > 0,
         head' = SlotAdvance(head, 1), count' = count - 1,
         items' = items, tail' = tail,
         remaining' = [remaining EXCEPT ![Queued(0).bank_id] = @ - 1]
  PROVE  QueueMatchesBanks'
<1>. DEFINE ref == Queued(0)
<1>1. /\ count \in Nat /\ count' \in Nat
      /\ remaining \in [Bank -> 0 .. TokensPerBank]
  BY CapacityFacts DEF TypeOK
<1>2. /\ tail' = SlotAt(count)'
      /\ \A k \in 0 .. count' - 1 : Queued(k)' = Queued(k + 1)
  BY PopFacts DEF QueueMatchesBanks
<1>3. /\ ref \in Ref /\ ref.bank_id \in Bank
      /\ remaining[ref.bank_id] \in 1 .. TokensPerBank
      /\ ref.token_index >= TokensPerBank - remaining[ref.bank_id]
      /\ ref.token_index \in 0 .. TokensPerBank - 1
  BY <1>1, QueuedBank DEF QueueMatchesBanks, Ref, Index
<1>4. \A k \in 0 .. count' - 1 : k + 1 \in 0 .. count - 1 /\ 0 < k + 1
  BY <1>1
<1>5. remaining' = [remaining EXCEPT ![ref.bank_id] = remaining[ref.bank_id] - 1]
  OBVIOUS
<1>. HIDE DEF ref
<1>6. ASSUME NEW k \in 0 .. count' - 1
      PROVE  (Queued(k).token_index
                >= TokensPerBank - remaining[Queued(k).bank_id])'
  <2>1. PICK m \in 0 .. count - 1 : m = k + 1 /\ 0 < m
    BY <1>4
  <2>2. Queued(k)' = Queued(m) /\ Queued(m) \in Ref
    BY <1>2, <2>1, QueuedBank
  <2>3. /\ Queued(m).token_index >= TokensPerBank - remaining[Queued(m).bank_id]
        /\ Queued(m).bank_id = ref.bank_id => ref.token_index < Queued(m).token_index
    BY <1>1, <2>1 DEF QueueMatchesBanks, ref
  <2>4. Queued(m).token_index \in 0 .. TokensPerBank - 1
        /\ Queued(m).bank_id \in Bank
    BY <2>2 DEF Ref, Index
  <2>5. remaining'[Queued(m).bank_id] =
          IF Queued(m).bank_id = ref.bank_id THEN remaining[ref.bank_id] - 1
                                             ELSE remaining[Queued(m).bank_id]
    BY <1>1, <1>5, <2>4
  <2>6. Queued(m).token_index >= TokensPerBank - remaining'[Queued(m).bank_id]
    <3>1. CASE Queued(m).bank_id = ref.bank_id
      BY <1>3, <2>3, <2>4, <2>5, <3>1, CapacityFacts
    <3>2. CASE Queued(m).bank_id # ref.bank_id
      BY <2>3, <2>5, <3>2
    <3>. QED  BY <3>1, <3>2
  <2>. QED  BY <2>2, <2>6
<1>7. ASSUME NEW k \in 0 .. count' - 1, NEW m \in 0 .. count' - 1, k < m,
             Queued(k)'.bank_id = Queued(m)'.bank_id
      PROVE  Queued(k)'.token_index < Queued(m)'.token_index
  <2>1. PICK j \in 0 .. count - 1 : j = k + 1
    BY <1>4
  <2>2. PICK n \in 0 .. count - 1 : n = m + 1
    BY <1>4
  <2>3. j < n /\ Queued(k)' = Queued(j) /\ Queued(m)' = Queued(n)
    BY <1>2, <1>7, <2>1, <2>2
  <2>. QED  BY <1>7, <2>3 DEF QueueMatchesBanks
<1>8. ASSUME NEW c \in Bank,
             NEW i \in TokensPerBank - remaining'[c] .. TokensPerBank - 1
      PROVE  \E k \in 0 .. count' - 1 :
               Queued(k)' = [bank_id |-> c, token_index |-> i]
  <2>1. remaining'[c] = IF c = ref.bank_id THEN remaining[c] - 1 ELSE remaining[c]
    BY <1>1, <1>5
  <2>2. i \in TokensPerBank - remaining[c] .. TokensPerBank - 1
    BY <1>1, <2>1, CapacityFacts
  <2>3. PICK m \in 0 .. count - 1 :
          Queued(m) = [bank_id |-> c, token_index |-> i]
    BY <2>2 DEF QueueMatchesBanks
  <2>4. m # 0
    <3>. SUFFICES ASSUME m = 0 PROVE FALSE
      OBVIOUS
    <3>1. ref.bank_id = c /\ ref.token_index = i
      BY <2>3 DEF ref
    <3>2. i > TokensPerBank - remaining[c]
      BY <1>1, <2>1, <3>1, CapacityFacts
    <3>3. TokensPerBank - remaining[c] \in TokensPerBank - remaining[c] .. TokensPerBank - 1
      BY <1>3, <3>1, CapacityFacts
    <3>4. PICK n \in 0 .. count - 1 : Queued(n) =
            [bank_id |-> c, token_index |-> TokensPerBank - remaining[c]]
      BY <3>3 DEF QueueMatchesBanks
    <3>5. CASE n = 0
      BY <1>1, <3>1, <3>2, <3>4, <3>5, CapacityFacts DEF ref
    <3>6. CASE n # 0
      <4>1. 0 < n /\ 0 \in 0 .. count - 1
        BY <1>1, <3>6
      <4>2. ref.token_index < Queued(n).token_index
        BY <3>1, <3>4, <4>1 DEF QueueMatchesBanks, ref
      <4>. QED  BY <1>1, <3>1, <3>2, <3>4, <4>2, CapacityFacts
    <3>. QED  BY <3>5, <3>6
  <2>5. PICK k \in 0 .. count' - 1 : k + 1 = m
    <3>1. m - 1 \in 0 .. count' - 1 /\ (m - 1) + 1 = m
      BY <1>1, <2>4
    <3>. QED  BY <3>1
  <2>. QED  BY <1>2, <2>3, <2>5
<1>. QED  BY <1>2, <1>6, <1>7, <1>8 DEF QueueMatchesBanks

LEMMA PopTokenStep ==
  ASSUME IInv, PopToken
  PROVE  IInv'
<1>. USE DEF IInv
<1>1. /\ count > 0 /\ pc \in {"pop", "wait"}
      /\ UNCHANGED <<nextSeed, workerVars, threadVars, content, calls, lastSigned>>
  BY DEF PopToken, CallerInv
<1>2. count \in Nat /\ ~(count <= 0) /\ 0 \in 0 .. count - 1
  BY <1>1, CapacityFacts DEF TypeOK
<1>. DEFINE ref == Queued(0)
<1>3. /\ head' = SlotAdvance(head, 1) /\ count' = count - 1
      /\ items' = items /\ tail' = tail
      /\ remaining' = [remaining EXCEPT ![ref.bank_id] = @ - 1]
      /\ view' = ref /\ ret' = 0 /\ pc' = "sign"
  BY <1>2 DEF PopToken
<1>4. available' = [available EXCEPT ![ref.bank_id] =
                      @ \/ remaining[ref.bank_id] = 1]
  BY <1>2 DEF PopToken
<1>5. /\ ref \in Ref /\ ref.bank_id \in Bank
      /\ remaining[ref.bank_id] \in 1 .. TokensPerBank
      /\ started => ref.bank_id # wBank
  BY <1>2, QueuedBank, RefillBankNotQueued DEF Ref
<1>6. /\ head' \in Slot /\ count' \in 0 .. Capacity
      /\ \A k \in 0 .. count' - 1 : Queued(k)' = Queued(k + 1)
  BY <1>1, <1>3, PopFacts DEF QueueMatchesBanks
<1>7. QueueMatchesBanks'
  BY <1>1, <1>3, PopKeepsQueue
<1>8. /\ remaining' = [remaining EXCEPT ![ref.bank_id] = remaining[ref.bank_id] - 1]
      /\ remaining' \in [Bank -> 0 .. TokensPerBank]
  <2>. HIDE DEF ref
  <2>. QED  BY <1>3, <1>5, CapacityFacts DEF TypeOK
<1>9. TypeOK'
  <2>1. available' \in [Bank -> BOOLEAN]
    <3>. HIDE DEF ref
    <3>. QED  BY <1>4, Zenon DEF TypeOK
  <2>2. /\ items' \in [Slot -> Ref] /\ tail' \in Slot /\ view' \in Ref
        /\ pc' = "sign" /\ ret' = 0
    BY <1>3, <1>5 DEF TypeOK
  <2>. QED  BY <1>1, <1>6, <1>8, <2>1, <2>2 DEF TypeOK, workerVars, threadVars
<1>. HIDE DEF ref
<1>10. WorkerInv'
  <2>1. started => remaining'[wBank] = 0
    BY <1>5, <1>8 DEF WorkerInv, TypeOK
  <2>. QED  BY <1>1, <2>1 DEF WorkerInv, BusyThread, workerVars, threadVars
<1>11. CallerInv'
  BY <1>1, <1>3, <1>5 DEF CallerInv, InAcquire, workerVars
<1>12. TokensInOrder'
  <2>1. LastToken' = TokenOf(ref) /\ lastSigned' = LastToken /\ SeedLimit' = SeedLimit
    BY <1>1, <1>3 DEF LastToken, SeedLimit, TokenOf, workerVars
  <2>2. /\ TokenOf(ref)[1] < SeedLimit
        /\ Later(TokenOf(ref), LastToken)
    BY <1>2 DEF TokensInOrder, ref
  <2>3. \A k \in 0 .. count' - 1 :
          /\ k + 1 \in 0 .. count - 1
          /\ 0 < k + 1
          /\ TokenOf(Queued(k))' = TokenOf(Queued(k + 1))
    BY <1>1, <1>2, <1>3, <1>6 DEF TokenOf
  <2>4. ASSUME NEW k \in 0 .. count' - 1
        PROVE  (TokenOf(Queued(k))[1] < SeedLimit
                /\ Later(TokenOf(Queued(k)), LastToken))'
    <3>1. PICK m \in 0 .. count - 1 : m = k + 1 /\ 0 < m
      BY <2>3
    <3>2. TokenOf(Queued(k))' = TokenOf(Queued(m))
      BY <2>3, <3>1
    <3>3. /\ TokenOf(Queued(m))[1] < SeedLimit
          /\ Later(TokenOf(Queued(m)), TokenOf(ref))
      BY <1>2, <3>1 DEF TokensInOrder, ref
    <3>. QED  BY <2>1, <3>2, <3>3
  <2>5. ASSUME NEW k \in 0 .. count' - 1, NEW m \in 0 .. count' - 1, k < m
        PROVE  Later(TokenOf(Queued(m)), TokenOf(Queued(k)))'
    <3>1. PICK j \in 0 .. count - 1 : j = k + 1
      BY <2>3
    <3>2. PICK n \in 0 .. count - 1 : n = m + 1
      BY <2>3
    <3>3. /\ TokenOf(Queued(k))' = TokenOf(Queued(j))
          /\ TokenOf(Queued(m))' = TokenOf(Queued(n))
          /\ j < n
      BY <2>3, <2>5, <3>1, <3>2
    <3>4. Later(TokenOf(Queued(n)), TokenOf(Queued(j)))
      BY <3>3 DEF TokensInOrder
    <3>. QED  BY <3>3, <3>4
  <2>6. LastToken'[1] < SeedLimit' /\ Later(LastToken', lastSigned')
    BY <2>1, <2>2
  <2>. QED  BY <2>4, <2>5, <2>6 DEF TokensInOrder
<1>13. NoQueueError'
  BY <1>3 DEF NoQueueError, EnqueueErrorIdle, EnqueueErrorWait, EmptyError
<1>14. WaitHasRefill'
  BY <1>3 DEF WaitHasRefill
<1>. QED  BY <1>7, <1>9, <1>10, <1>11, <1>12, <1>13, <1>14

LEMMA SignTokenStep ==
  ASSUME IInv, SignToken
  PROVE  IInv'
<1>. USE DEF IInv
<1>1. /\ pc = "sign" /\ pc' = "caller" /\ lastSigned' = TokenOf(view)
      /\ UNCHANGED <<queueVars, bankVars, nextSeed, workerVars, threadVars,
                     content, calls, ret, view>>
  BY DEF SignToken
<1>2. TypeOK'
  <2>1. TokenOf(view) \in (Nat \cup {Torn}) \X (Index \cup {-1})
    BY DEF TokenOf, TypeOK, Ref
  <2>. QED  BY <1>1, <2>1 DEF TypeOK, queueVars, bankVars, workerVars, threadVars
<1>3. QueueMatchesBanks'
  BY <1>1, SameQueue DEF bankVars
<1>4. WorkerInv'
  BY <1>1 DEF WorkerInv, BusyThread, workerVars, threadVars, bankVars
<1>5. CallerInv'
  BY <1>1 DEF CallerInv, InAcquire, workerVars
<1>6. TokensInOrder'
  <2>1. LastToken' = LastToken /\ SeedLimit' = SeedLimit /\ count' = count
    BY <1>1 DEF LastToken, SeedLimit, workerVars, queueVars
  <2>2. \A k : TokenOf(Queued(k))' = TokenOf(Queued(k))
    BY <1>1 DEF queueVars, Queued, SlotAt, TokenOf
  <2>. QED  BY <1>1, <2>1, <2>2 DEF TokensInOrder
<1>7. NoQueueError' /\ WaitHasRefill'
  BY <1>1 DEF NoQueueError, WaitHasRefill
<1>. QED  BY <1>2, <1>3, <1>4, <1>5, <1>6, <1>7

LEMMA DestroyStep ==
  ASSUME IInv, Destroy
  PROVE  IInv'
<1>. USE DEF IInv
<1>1. /\ pc = "destroy" /\ pc' = "freed" /\ JoinWorker
      /\ UNCHANGED <<queueVars, bankVars, nextSeed, inFlight, done, wBank, wSeed,
                     result, tpc, targ, content, calls, ret, view, lastSigned>>
  BY DEF Destroy, callerVars
<1>2. /\ \A t \in Thread : ~BusyThread(t)
      /\ ~inFlight /\ started' = FALSE
      /\ wThread' \in Thread \cup {NoThread} /\ handles' \in SUBSET Thread
  BY <1>1, JoinFacts
<1>3. TypeOK'
  BY <1>1, <1>2 DEF TypeOK, queueVars, bankVars
<1>4. QueueMatchesBanks'
  BY <1>1, SameQueue DEF bankVars
<1>5. WorkerInv'
  BY <1>1, <1>2 DEF WorkerInv, BusyThread
<1>6. CallerInv'
  BY <1>1, <1>2 DEF CallerInv, InAcquire
<1>7. TokensInOrder'
  <2>1. \A k : Queued(k)' = Queued(k) /\ TokenOf(Queued(k))' = TokenOf(Queued(k))
    BY <1>1 DEF queueVars, Queued, SlotAt, TokenOf
  <2>2. LastToken' = LastToken /\ count' = count /\ pc' # "sign"
    BY <1>1 DEF LastToken, queueVars
  <2>3. SeedLimit' \in Int /\ SeedLimit \in Int /\ SeedLimit' >= SeedLimit
    BY <1>1, <1>2 DEF SeedLimit, WorkerInv, TypeOK
  <2>4. LastToken[1] \in Int
    BY <1>1 DEF LastToken, TypeOK, Torn
  <2>5. \A k \in 0 .. count - 1 : TokenOf(Queued(k))[1] \in Int
    BY QueuedBank DEF TokenOf, TypeOK, Torn, Ref
  <2>6. /\ LastToken[1] < SeedLimit'
        /\ \A k \in 0 .. count - 1 : TokenOf(Queued(k))[1] < SeedLimit'
    BY <2>3, <2>4, <2>5 DEF TokensInOrder
  <2>. QED  BY <2>1, <2>2, <2>6 DEF TokensInOrder
<1>8. NoQueueError' /\ WaitHasRefill'
  BY <1>1 DEF NoQueueError, WaitHasRefill
<1>. QED  BY <1>3, <1>4, <1>5, <1>6, <1>7, <1>8

LEMMA StutterStep ==
  ASSUME IInv, UNCHANGED vars
  PROVE  IInv'
<1>. USE DEF IInv
<1>1. UNCHANGED <<queueVars, bankVars, nextSeed, workerVars, threadVars, content,
                  pc, callerVars>>
  BY DEF vars
<1>2. TypeOK'
  BY <1>1 DEF TypeOK, queueVars, bankVars, workerVars, threadVars, callerVars
<1>3. QueueMatchesBanks'
  BY <1>1, SameQueue DEF bankVars
<1>4. WorkerInv' /\ CallerInv'
  BY <1>1 DEF WorkerInv, CallerInv, BusyThread, InAcquire, queueVars, bankVars,
              workerVars, threadVars, callerVars
<1>5. TokensInOrder'
  BY <1>1, SameTokens DEF LastToken, SeedLimit, TokenOf, workerVars, callerVars
<1>6. NoQueueError' /\ WaitHasRefill'
  BY <1>1 DEF NoQueueError, WaitHasRefill, queueVars, workerVars, callerVars
<1>. QED  BY <1>2, <1>3, <1>4, <1>5, <1>6

LEMMA NextIInv == IInv /\ [Next]_vars => IInv'
<1>. SUFFICES ASSUME IInv, [Next]_vars PROVE IInv'
  OBVIOUS
<1>1. CASE CallAcquire \/ LoadDone \/ SkipRefill \/ WaitSeesDone \/ CallDestroy
  BY <1>1, ConsumerMovesStep
<1>2. CASE CollectFailed
  BY <1>2, CollectFailedStep
<1>3. CASE CollectOnEntry \/ CollectWaiting
  BY <1>3, CollectFilledStep
<1>4. CASE \E b \in Bank : StartRefill(b) \/ StartFails(b)
  BY <1>4, StartStep
<1>5. CASE PopToken
  BY <1>5, PopTokenStep
<1>6. CASE SignToken
  BY <1>6, SignTokenStep
<1>7. CASE Destroy
  BY <1>7, DestroyStep
<1>8. CASE \E t \in Thread : ThreadStep(t)
  <2>1. PICK t \in Thread : ThreadStep(t)
    BY <1>8
  <2>. QED  BY <2>1, ThreadBeginStep, ThreadGeneratedStep, ThreadEndStep
            DEF ThreadStep
<1>9. CASE Finished \/ UNCHANGED vars
  BY <1>9, StutterStep DEF Finished
<1>. QED  BY <1>1, <1>2, <1>3, <1>4, <1>5, <1>6, <1>7, <1>8, <1>9
          DEF Next, Consumer, AcquireStep

(* IInv is an invariant of the pipeline.                                   *)
THEOREM IInvHolds == Spec => []IInv
  BY InitIInv, NextIInv, PTL DEF Spec

-----------------------------------------------------------------------------
(* What a user of the pipeline may rely on, for any number of banks, any   *)
(* bank size, any threshold and any number of calls.                       *)

(* Every variable keeps its type: in particular no counter of              *)
(* bank_remaining drops below zero or exceeds tokens_per_bank, and the     *)
(* ring indices stay inside the ring.                                      *)
THEOREM TypeCorrect == Spec => []TypeOK
<1>1. IInv => TypeOK
  BY DEF IInv
<1>. QED  BY <1>1, IInvHolds, PTL

(* The ring and the counters of soko_falcon_refill_pipeline_acquire always *)
(* agree on which tokens are left.                                         *)
THEOREM QueueMatches == Spec => []QueueMatchesBanks
<1>1. IInv => QueueMatchesBanks
  BY DEF IInv
<1>. QED  BY <1>1, IInvHolds, PTL

(* The queue errors -212, -214 and -215 are unreachable.                   *)
THEOREM QueueErrorFree == Spec => []NoQueueError
<1>1. IInv => NoQueueError
  BY DEF IInv
<1>. QED  BY <1>1, IInvHolds, PTL

(* An acquire never waits on an empty queue without a refill to wait for.  *)
THEOREM WaitingHasRefill == Spec => []WaitHasRefill
<1>1. IInv => WaitHasRefill
  BY DEF IInv
<1>. QED  BY <1>1, IInvHolds, PTL

(* The worker structure, reused without a lock for every refill, serves    *)
(* one running thread at a time, although in_flight is tested before the   *)
(* earlier thread is joined.                                               *)
THEOREM OneBusy == Spec => []OneBusyThread
<1>1. IInv => OneBusyThread
  BY DEF IInv, WorkerInv, OneBusyThread
<1>. QED  BY <1>1, IInvHolds, PTL

(* A thread that can still touch the worker structure is the one           *)
(* soko_join_refill_worker waits for.                                      *)
THEOREM JoinReaches == Spec => []JoinReachesBusyThread
<1>1. IInv => JoinReachesBusyThread
  BY DEF IInv, WorkerInv, JoinReachesBusyThread
<1>. QED  BY <1>1, IInvHolds, PTL

(* The GPU never writes a bank with a queued token or one the caller is    *)
(* still signing with.                                                     *)
THEOREM LiveBanksAvoided == Spec => []RefillAvoidsLiveBanks
<1>1. ASSUME IInv PROVE RefillAvoidsLiveBanks
  <2>. SUFFICES ASSUME NEW t \in Thread, MayWrite(t)
                PROVE  /\ remaining[TargetOf(t)] = 0
                       /\ pc = "sign" => view.bank_id # TargetOf(t)
    BY DEF RefillAvoidsLiveBanks
  <2>1. started /\ TargetOf(t) = wBank
    BY <1>1 DEF IInv, WorkerInv, BusyThread, MayWrite, TargetOf
  <2>. QED  BY <1>1, <2>1 DEF IInv, WorkerInv, CallerInv
<1>. QED  BY <1>1, IInvHolds, PTL

(* After destroy no thread touches the freed pipeline, not even one whose  *)
(* handle a later refill overwrote.                                        *)
THEOREM FreedUntouched == Spec => []NoUseAfterFree
<1>1. ASSUME IInv PROVE NoUseAfterFree
  <2>. SUFFICES ASSUME pc = "freed", NEW t \in Thread
                PROVE  tpc[t] \in {"unborn", "cleared", "exited"}
    BY DEF NoUseAfterFree
  <2>1. ~started
    BY <1>1 DEF IInv, CallerInv
  <2>2. ~BusyThread(t)
    BY <1>1, <2>1 DEF IInv, WorkerInv
  <2>. QED  BY <1>1, <2>2 DEF IInv, TypeOK, BusyThread
<1>. QED  BY <1>1, IInvHolds, PTL

(* No token is used twice, and none whose bank was being overwritten:      *)
(* every signing uses a whole token later than all those used before.      *)
THEOREM SignedInOrder == Spec => TokensSignedInOrder
<1>1. IInv /\ [Next]_vars
        => [pc = "sign" /\ pc' = "caller" => Later(lastSigned', lastSigned)]_vars
  <2>. SUFFICES ASSUME IInv, Next, pc = "sign", pc' = "caller"
                PROVE  Later(lastSigned', lastSigned)
    OBVIOUS
  <2>1. Later(LastToken, lastSigned) /\ LastToken = TokenOf(view)
    BY DEF IInv, TokensInOrder, LastToken
  <2>2. CASE SignToken
    BY <2>1, <2>2 DEF SignToken
  <2>3. CASE Consumer /\ ~SignToken
    BY <2>3 DEF Consumer, AcquireStep, CallAcquire, LoadDone, CollectFailed,
         CollectOnEntry, CollectWaiting, CollectFilled, SkipRefill, StartRefill,
         StartFails, ChooseBank, WaitSeesDone, PopToken, CallDestroy, Destroy
  <2>4. CASE \E t \in Thread : ThreadStep(t)
    BY <2>4 DEF ThreadStep, ThreadBegin, ThreadGenerated, ThreadStoreDone,
         ThreadClearInFlight, ThreadExit
  <2>5. CASE Finished
    BY <2>5 DEF Finished
  <2>. QED  BY <2>2, <2>3, <2>4, <2>5 DEF Next
<1>. QED  BY <1>1, IInvHolds, PTL DEF Spec, TokensSignedInOrder

-----------------------------------------------------------------------------
(***************************************************************************)
(* The refill pipeline implements the token service.  Every step of the    *)
(* pipeline is a step of the service or leaves the service's state alone;  *)
(* the inductive invariant is what makes the banks' reuse invisible.       *)
(***************************************************************************)

(* Steps that change neither the queue nor the content of a bank that has  *)
(* a token in it leave the pool alone.                                     *)
LEMMA SamePool ==
  ASSUME UNCHANGED queueVars,
         \A k \in 0 .. count - 1 :
           content'[Queued(k).bank_id] = content[Queued(k).bank_id],
         count \in Nat
  PROVE  QueuedTokens' = QueuedTokens
<1>1. count' = count /\ \A k : Queued(k)' = Queued(k)
  BY DEF queueVars, Queued, SlotAt
<1>2. ASSUME NEW k \in 1 .. count
      PROVE  TokenOf(Queued(k - 1))' = TokenOf(Queued(k - 1))
  <2>1. k - 1 \in 0 .. count - 1
    OBVIOUS
  <2>2. content'[Queued(k - 1).bank_id] = content[Queued(k - 1).bank_id]
    BY <2>1
  <2>. QED  BY <1>1, <2>2 DEF TokenOf
<1>. QED  BY <1>1, <1>2 DEF QueuedTokens

(* When a function on 1 .. c + n is the concatenation of two others.       *)
LEMMA ConcatenationIs ==
  ASSUME NEW S, NEW c \in Nat, NEW n \in Nat, NEW f \in [1 .. c -> S],
         NEW g \in [1 .. n -> S], NEW h \in [1 .. c + n -> S],
         \A k \in 1 .. c : h[k] = f[k],
         \A k \in c + 1 .. c + n : h[k] = g[k - c]
  PROVE  h = f \o g
<1>1. /\ f \in Seq(S) /\ Len(f) = c
      /\ g \in Seq(S) /\ Len(g) = n
  OBVIOUS
<1>2. c + n \in Nat
  OBVIOUS
<1>3. h \in Seq(S) /\ Len(h) = c + n
  BY <1>2
<1>4. /\ f \o g \in Seq(S) /\ Len(f \o g) = Len(f) + Len(g)
      /\ \A k \in 1 .. Len(f) + Len(g) :
           (f \o g)[k] = IF k <= Len(f) THEN f[k] ELSE g[k - Len(f)]
  BY <1>1, ConcatProperties
<1>5. ASSUME NEW k \in 1 .. c + n PROVE h[k] = (f \o g)[k]
  <2>1. (f \o g)[k] = IF k <= c THEN f[k] ELSE g[k - c]
    BY <1>1, <1>4
  <2>2. CASE k <= c
    <3>1. k \in 1 .. c
      BY <2>2
    <3>. QED  BY <2>1, <2>2, <3>1
  <2>3. CASE k > c
    <3>1. k \in c + 1 .. c + n /\ ~(k <= c)
      BY <2>3
    <3>. QED  BY <2>1, <3>1
  <2>. QED  BY <2>2, <2>3
<1>. QED  BY <1>1, <1>3, <1>4, <1>5, SeqEqual

LEMMA InitRefines == Init => Service!Init
<1>. SUFFICES ASSUME Init PROVE Service!Init
  OBVIOUS
<1>1. IInv
  BY InitIInv
<1>2. /\ LastToken = <<0, -1>> /\ SeedLimit - 1 = 0
      /\ count = TokensPerBank /\ count \in Nat
  BY CapacityFacts DEF Init, LastToken, SeedLimit
<1>3. ASSUME NEW k \in 1 .. TokensPerBank
      PROVE  TokenOf(Queued(k - 1)) = <<0, k - 1>>
  <2>1. PICK j \in 0 .. TokensPerBank - 1 : j = k - 1
    BY CapacityFacts
  <2>2. SlotAt(j) = j /\ j \in Slot
    BY <1>1, <2>1, SlotFacts, CapacityFacts DEF Init, Slot, IInv
  <2>3. j % TokensPerBank = j
    BY CapacityFacts
  <2>4. Queued(j) = [bank_id |-> 0, token_index |-> j]
    BY <2>2, <2>3 DEF Init, Queued
  <2>. QED  BY <2>1, <2>4, CapacityFacts DEF Init, TokenOf
<1>4. QueuedTokens = Service!Batch(0)
  BY <1>2, <1>3 DEF QueuedTokens, Service!Batch
<1>. QED  BY <1>2, <1>4 DEF Service!Init

(* Only the bank of the refill in flight changes while a thread runs.      *)
LEMMA ThreadRefines ==
  ASSUME IInv, NEW t \in Thread, ThreadStep(t)
  PROVE  UNCHANGED Service!vars
<1>. USE DEF IInv
<1>1. UNCHANGED <<queueVars, started, wSeed, nextSeed, pc, view, lastSigned>>
  BY DEF ThreadStep, ThreadBegin, ThreadGenerated, ThreadStoreDone,
         ThreadClearInFlight, ThreadExit, workerVars, callerVars
<1>2. \/ content' = content
      \/ started /\ \E v : content' = [content EXCEPT ![wBank] = v]
  <2>1. CASE ThreadBegin(t)
    BY <2>1 DEF ThreadBegin, BusyThread, WorkerInv
  <2>2. CASE \E status \in {0, GpuFailure} : ThreadGenerated(t, status)
    <3>1. started /\ targ[t].bank = wBank
      BY <2>2 DEF ThreadGenerated, BusyThread, WorkerInv
    <3>. QED  BY <2>2, <3>1 DEF ThreadGenerated
  <2>3. CASE ThreadStoreDone(t) \/ ThreadClearInFlight(t) \/ ThreadExit(t)
    BY <2>3 DEF ThreadStoreDone, ThreadClearInFlight, ThreadExit
  <2>. QED  BY <2>1, <2>2, <2>3 DEF ThreadStep
<1>3. count \in Nat
  BY CapacityFacts DEF TypeOK
<1>4. QueuedTokens' = QueuedTokens
  <2>1. \A k \in 0 .. count - 1 :
          content'[Queued(k).bank_id] = content[Queued(k).bank_id]
    BY <1>2, RefillBankNotQueued, QueuedBank DEF Ref, TypeOK
  <2>. QED  BY <1>1, <1>3, <2>1, SamePool
<1>5. LastToken' = LastToken
  <2>1. pc = "sign" => content'[view.bank_id] = content[view.bank_id]
    BY <1>2 DEF CallerInv, TypeOK, Ref
  <2>. QED  BY <1>1, <2>1 DEF LastToken, TokenOf
<1>. QED  BY <1>1, <1>4, <1>5 DEF Service!vars, SeedLimit

(* Steps that leave the queue and the banks' content alone, and may use up *)
(* the seed of a refill that is not collected.                             *)
LEMMA QuietRefines ==
  ASSUME IInv, UNCHANGED <<queueVars, content>>, LastToken' = LastToken,
         SeedLimit' \in Nat, SeedLimit' >= SeedLimit
  PROVE  [Service!Next]_Service!vars
<1>1. count \in Nat /\ SeedLimit \in Nat
  BY CapacityFacts DEF IInv, TypeOK, SeedLimit
<1>2. QueuedTokens' = QueuedTokens
  BY <1>1, SamePool
<1>3. PICK a, b \in Nat : a = SeedLimit /\ b = SeedLimit'
  BY <1>1
<1>4. CASE b = a
  BY <1>2, <1>3, <1>4 DEF Service!vars
<1>5. CASE b > a
  <2>1. b - 1 \in Nat /\ b - 1 > a - 1
    BY <1>5
  <2>. QED  BY <1>2, <1>3, <2>1 DEF Service!GiveUp, Service!Next
<1>. QED  BY <1>3, <1>4, <1>5

(* A successful refill joins the pool as one batch of its seed.            *)
LEMMA FilledRefines ==
  ASSUME IInv, CollectOnEntry \/ CollectWaiting
  PROVE  Service!Replenish
<1>. USE DEF IInv
<1>1. /\ JoinWorker /\ result = 0 /\ EnqueueBank(wBank) /\ pc # "sign" /\ started
      /\ UNCHANGED <<nextSeed, wSeed, content, view, lastSigned>>
  BY DEF CollectOnEntry, CollectWaiting, CollectFilled, RefillSucceeded, CallerInv
<1>2. wBank \in Bank /\ remaining[wBank] = 0
  BY <1>1 DEF TypeOK, WorkerInv
<1>3. Fits
  BY <1>2, RoomForEmptyBank
<1>4. pc' \in {"decide", "pop"} /\ started' = FALSE
  BY <1>1, <1>3, JoinFacts DEF CollectOnEntry, CollectWaiting, CollectFilled
<1>5. /\ count' = count + TokensPerBank
      /\ \A k \in 0 .. count - 1 : Queued(k)' = Queued(k)
      /\ \A k \in count .. count + TokensPerBank - 1 :
           Queued(k)' = [bank_id |-> wBank, token_index |-> k - count]
  BY <1>1, <1>2, <1>3, EnqueueFacts DEF QueueMatchesBanks
<1>6. tpc[wThread] = "exited" /\ content[wBank] = wSeed
  BY <1>1 DEF JoinWorker, CanJoin, WorkerInv
<1>7. PICK c, n, s \in Nat : c = count /\ n = TokensPerBank /\ s = wSeed
  BY CapacityFacts DEF TypeOK
<1>8. /\ SeedLimit - 1 = s - 1 /\ SeedLimit' - 1 = s /\ LastToken' = LastToken
  BY <1>1, <1>4, <1>7 DEF SeedLimit, LastToken, WorkerInv
<1>. DEFINE old == QueuedTokens
            new == QueuedTokens'
            batch == Service!Batch(s)
<1>9. /\ old = [k \in 1 .. c |-> TokenOf(Queued(k - 1))]
      /\ new = [k \in 1 .. c + n |-> TokenOf(Queued(k - 1))']
      /\ batch = [k \in 1 .. n |-> <<s, k - 1>>]
  BY <1>5, <1>7 DEF QueuedTokens, Service!Batch
<1>10. ASSUME NEW k \in 1 .. c PROVE new[k] = old[k]
  <2>1. k - 1 \in 0 .. c - 1 /\ k \in 1 .. c + n
    OBVIOUS
  <2>2. Queued(k - 1)' = Queued(k - 1)
    BY <1>5, <1>7, <2>1
  <2>3. TokenOf(Queued(k - 1))' = TokenOf(Queued(k - 1))
    BY <1>1, <2>2 DEF TokenOf
  <2>. QED  BY <1>9, <2>1, <2>3
<1>11. ASSUME NEW k \in c + 1 .. c + n PROVE new[k] = batch[k - c]
  <2>1. /\ k - 1 \in c .. c + n - 1 /\ k \in 1 .. c + n
        /\ k - c \in 1 .. n /\ (k - 1) - c = (k - c) - 1
    OBVIOUS
  <2>2. Queued(k - 1)' = [bank_id |-> wBank, token_index |-> (k - 1) - c]
    BY <1>5, <1>7, <2>1
  <2>3. TokenOf(Queued(k - 1))' = <<s, (k - 1) - c>>
    BY <1>1, <1>6, <1>7, <2>2 DEF TokenOf
  <2>. QED  BY <1>9, <2>1, <2>3
<1>12. new = old \o batch
  <2>1. old \in [1 .. c -> Int \X Int]
    <3>1. ASSUME NEW k \in 1 .. c PROVE TokenOf(Queued(k - 1)) \in Int \X Int
      <4>1. k - 1 \in 0 .. count - 1
        BY <1>7
      <4>2. Queued(k - 1) \in Ref
        BY <4>1, QueuedBank
      <4>. QED  BY <4>2 DEF TokenOf, Ref, Index, TypeOK, Torn
    <3>. QED  BY <1>9, <3>1
  <2>2. batch \in [1 .. n -> Int \X Int]
    BY <1>9
  <2>3. new \in [1 .. c + n -> Int \X Int]
    <3>1. ASSUME NEW k \in 1 .. c + n PROVE new[k] \in Int \X Int
      <4>1. CASE k \in 1 .. c
        BY <1>10, <2>1, <4>1
      <4>2. CASE k \in c + 1 .. c + n
        <5>1. k - c \in 1 .. n
          BY <4>2
        <5>. QED  BY <1>11, <2>2, <4>2, <5>1
      <4>. QED  BY <4>1, <4>2
    <3>. QED  BY <1>9, <3>1
  <2>. HIDE DEF old, new, batch
  <2>0. PICK S : S = Int \X Int
    OBVIOUS
  <2>4. PICK f \in [1 .. c -> S], g \in [1 .. n -> S],
             h \in [1 .. c + n -> S] : f = old /\ g = batch /\ h = new
    BY <2>0, <2>1, <2>2, <2>3
  <2>5. /\ \A k \in 1 .. c : h[k] = f[k]
        /\ \A k \in c + 1 .. c + n : h[k] = g[k - c]
    BY <1>10, <1>11, <2>4
  <2>6. h = f \o g
    BY <2>5, ConcatenationIs
  <2>. QED  BY <2>4, <2>6
<1>. QED  BY <1>8, <1>12 DEF Service!Replenish

(* When a function on 1 .. n - 1 is the tail of another.                   *)
LEMMA TailIs ==
  ASSUME NEW S, NEW n \in Nat, n >= 1, NEW f \in [1 .. n -> S],
         NEW h \in [1 .. n - 1 -> S],
         \A k \in 1 .. n - 1 : h[k] = f[k + 1]
  PROVE  f # <<>> /\ Head(f) = f[1] /\ h = Tail(f)
<1>1. f \in Seq(S) /\ Len(f) = n
  OBVIOUS
<1>2. f # <<>> /\ Head(f) = f[1]
  BY <1>1
<1>3. n - 1 \in Nat
  OBVIOUS
<1>4. h \in Seq(S) /\ Len(h) = n - 1
  BY <1>3
<1>5. /\ Tail(f) \in Seq(S) /\ Len(Tail(f)) = n - 1
      /\ \A k \in 1 .. n - 1 : Tail(f)[k] = f[k + 1]
  BY <1>1, <1>2, HeadTailProperties
<1>. QED  BY <1>2, <1>4, <1>5, SeqEqual

(* A popped token leaves the pool from the front.                          *)
LEMMA PopRefines ==
  ASSUME IInv, PopToken
  PROVE  Service!Take
<1>. USE DEF IInv
<1>1. count > 0 /\ UNCHANGED <<started, wSeed, nextSeed, content>>
  BY DEF PopToken, CallerInv, workerVars
<1>2. PICK n \in Nat : n = count /\ n >= 1
  BY <1>1, CapacityFacts DEF TypeOK
<1>3. /\ head' = SlotAdvance(head, 1) /\ count' = count - 1
      /\ items' = items /\ tail' = tail /\ view' = Queued(0) /\ pc' = "sign"
  <2>1. ~(count <= 0)
    BY <1>2
  <2>. QED  BY <2>1 DEF PopToken
<1>4. \A k \in 0 .. n - 2 : Queued(k)' = Queued(k + 1)
  <2>1. \A k \in 0 .. count' - 1 : Queued(k)' = Queued(k + 1)
    BY <1>1, <1>3, PopFacts DEF QueueMatchesBanks
  <2>. QED  BY <1>2, <1>3, <2>1
<1>5. PICK S : S = Int \X Int
  OBVIOUS
<1>6. PICK f \in [1 .. n -> S] : f = QueuedTokens
  <2>1. ASSUME NEW k \in 1 .. n PROVE TokenOf(Queued(k - 1)) \in Int \X Int
    <3>1. k - 1 \in 0 .. count - 1
      BY <1>2
    <3>2. Queued(k - 1) \in Ref
      BY <3>1, QueuedBank
    <3>. QED  BY <3>2 DEF TokenOf, Ref, Index, TypeOK, Torn
  <2>. QED  BY <1>2, <1>5, <2>1 DEF QueuedTokens
<1>7. \A k \in 1 .. n : f[k] = TokenOf(Queued(k - 1))
  BY <1>2, <1>6 DEF QueuedTokens
<1>8. ASSUME NEW k \in 1 .. n - 1
      PROVE  TokenOf(Queued(k - 1))' = f[k + 1]
  <2>1. k - 1 \in 0 .. n - 2 /\ (k - 1) + 1 = k /\ k + 1 \in 1 .. n /\ (k + 1) - 1 = k
    OBVIOUS
  <2>2. Queued(k - 1)' = Queued(k)
    BY <1>4, <2>1
  <2>3. TokenOf(Queued(k - 1))' = TokenOf(Queued(k))
    BY <1>1, <2>2 DEF TokenOf
  <2>4. f[k + 1] = TokenOf(Queued(k))
    BY <1>7, <2>1
  <2>. QED  BY <2>3, <2>4
<1>9. PICK h \in [1 .. n - 1 -> S] :
        h = QueuedTokens' /\ \A k \in 1 .. n - 1 : h[k] = f[k + 1]
  <2>1. QueuedTokens' = [k \in 1 .. n - 1 |-> TokenOf(Queued(k - 1))']
    BY <1>2, <1>3 DEF QueuedTokens
  <2>2. \A k \in 1 .. n - 1 : k + 1 \in 1 .. n
    OBVIOUS
  <2>3. \A k \in 1 .. n - 1 : f[k + 1] \in S
    BY <2>2
  <2>. QED  BY <1>8, <2>1, <2>3
<1>10. f # <<>> /\ Head(f) = f[1] /\ h = Tail(f)
  BY <1>2, <1>9, TailIs
<1>11. LastToken' = f[1]
  <2>1. f[1] = TokenOf(Queued(0))
    BY <1>2, <1>7
  <2>. QED  BY <1>1, <1>3, <2>1 DEF LastToken, TokenOf
<1>12. SeedLimit' = SeedLimit
  BY <1>1 DEF SeedLimit
<1>. QED  BY <1>6, <1>9, <1>10, <1>11, <1>12 DEF Service!Take

LEMMA NextRefines == IInv /\ [Next]_vars => [Service!Next]_Service!vars
<1>. SUFFICES ASSUME IInv, [Next]_vars PROVE [Service!Next]_Service!vars
  OBVIOUS
<1>0. /\ nextSeed \in Nat /\ wSeed \in Nat /\ nextSeed = wSeed + 1
      /\ SeedLimit \in Nat
  BY DEF IInv, WorkerInv, TypeOK, SeedLimit
<1>1. CASE \/ CallAcquire \/ LoadDone \/ SkipRefill \/ WaitSeesDone
           \/ CallDestroy \/ SignToken
  <2>1. /\ UNCHANGED <<queueVars, content, workerVars, nextSeed>>
        /\ LastToken' = LastToken
    BY <1>1 DEF CallAcquire, LoadDone, SkipRefill, WaitSeesDone, CallDestroy,
                SignToken, callerVars, LastToken, TokenOf
  <2>2. SeedLimit' = SeedLimit
    BY <2>1 DEF SeedLimit, workerVars
  <2>. QED  BY <1>0, <2>1, <2>2, QuietRefines
<1>2. CASE CollectFailed \/ Destroy
  <2>1. /\ UNCHANGED <<queueVars, content, wSeed, nextSeed, lastSigned>>
        /\ started' = FALSE /\ pc # "sign" /\ pc' # "sign"
    BY <1>2 DEF CollectFailed, Destroy, JoinWorker, Return, callerVars
  <2>2. LastToken' = LastToken /\ SeedLimit' \in Nat /\ SeedLimit' >= SeedLimit
    BY <1>0, <2>1 DEF LastToken, SeedLimit
  <2>. QED  BY <2>1, <2>2, QuietRefines
<1>3. CASE CollectOnEntry \/ CollectWaiting
  BY <1>3, FilledRefines DEF Service!Next
<1>4. CASE \E b \in Bank : StartRefill(b) \/ StartFails(b)
  <2>1. /\ UNCHANGED <<queueVars, content, lastSigned>>
        /\ wSeed' = nextSeed /\ nextSeed' = nextSeed + 1
        /\ pc # "sign" /\ pc' # "sign"
    BY <1>4 DEF StartRefill, StartFails, ChooseBank, NeedsRefill, WorkerBusy,
                PrepareWorker, Return
  <2>2. LastToken' = LastToken /\ SeedLimit' \in Nat /\ SeedLimit' >= SeedLimit
    BY <1>0, <2>1 DEF LastToken, SeedLimit
  <2>. QED  BY <2>1, <2>2, QuietRefines
<1>5. CASE PopToken
  BY <1>5, PopRefines DEF Service!Next
<1>6. CASE \E t \in Thread : ThreadStep(t)
  BY <1>6, ThreadRefines
<1>7. CASE Finished \/ UNCHANGED vars
  <2>1. UNCHANGED <<queueVars, content, workerVars, nextSeed, pc, view, lastSigned>>
    BY <1>7 DEF Finished, vars, callerVars
  <2>2. LastToken' = LastToken /\ SeedLimit' = SeedLimit
    BY <2>1 DEF LastToken, TokenOf, SeedLimit, workerVars
  <2>. QED  BY <1>0, <2>1, <2>2, QuietRefines
<1>. QED  BY <1>1, <1>2, <1>3, <1>4, <1>5, <1>6, <1>7
          DEF Next, Consumer, AcquireStep

(* Seen from the caller, the pipeline is the token service: first in,      *)
(* first out, each token once, and no token changes while it waits.        *)
THEOREM Refinement == Spec => ImplementsTokenService
  BY InitRefines, NextRefines, IInvHolds, PTL
  DEF Spec, ImplementsTokenService, Service!Spec

-----------------------------------------------------------------------------
(* What a pipeline inherits from the service it implements.                *)

LEMMA BatchFacts ==
  ASSUME TokensPerBank \in Nat, NEW s \in Nat
  PROVE  /\ Service!Batch(s) \in Seq(Service!Token)
         /\ Len(Service!Batch(s)) = TokensPerBank
         /\ \A i \in 1 .. TokensPerBank : Service!Batch(s)[i] = <<s, i - 1>>
<1>1. \A i \in 1 .. TokensPerBank : <<s, i - 1>> \in Service!Token
  BY DEF Service!Token
<1>2. Service!Batch(s) \in [1 .. TokensPerBank -> Service!Token]
  BY <1>1 DEF Service!Batch
<1>3. Service!Batch(s) \in Seq(Service!Token)
  BY <1>2
<1>4. DOMAIN Service!Batch(s) = 1 .. TokensPerBank
  BY DEF Service!Batch
<1>. QED  BY <1>3, <1>4 DEF Service!Batch

(* The pool q with the batch of seed s after its tokens. *)
IsExtended(r, q, s) ==
  /\ r \in Seq(Service!Token)
  /\ Len(r) = Len(q) + TokensPerBank
  /\ \A i \in 1 .. Len(q) : r[i] = q[i]
  /\ \A i \in Len(q) + 1 .. Len(q) + TokensPerBank : r[i] = <<s, i - Len(q) - 1>>

(* A batch that joins the pool leaves the tokens before it in place.       *)
LEMMA AppendFacts ==
  ASSUME TokensPerBank \in Nat, NEW s \in Nat, NEW q \in Seq(Service!Token),
         NEW r, r = q \o Service!Batch(s)
  PROVE  IsExtended(r, q, s)
<1>1. /\ Service!Batch(s) \in Seq(Service!Token) /\ Len(Service!Batch(s)) = TokensPerBank
      /\ \A i \in 1 .. TokensPerBank : Service!Batch(s)[i] = <<s, i - 1>>
  BY BatchFacts
<1>2. PICK L \in Nat : L = Len(q)
  OBVIOUS
<1>3. PICK b \in Seq(Service!Token) : b = Service!Batch(s)
  BY <1>1
<1>4. /\ r \in Seq(Service!Token) /\ Len(r) = L + TokensPerBank
      /\ \A i \in 1 .. L + TokensPerBank : r[i] = IF i <= L THEN q[i] ELSE b[i - L]
  <2>1. r = q \o b /\ Len(b) = TokensPerBank
    BY <1>1, <1>3
  <2>2. /\ q \o b \in Seq(Service!Token)
        /\ Len(q \o b) = Len(q) + Len(b)
        /\ \A i \in 1 .. Len(q) + Len(b) :
             (q \o b)[i] = IF i <= Len(q) THEN q[i] ELSE b[i - Len(q)]
    BY ConcatProperties
  <2>. QED  BY <1>2, <2>1, <2>2
<1>5. ASSUME NEW i \in 1 .. L PROVE r[i] = q[i]
  <2>1. i \in 1 .. L + TokensPerBank /\ i <= L
    OBVIOUS
  <2>. QED  BY <1>4, <2>1
<1>6. ASSUME NEW i \in L + 1 .. L + TokensPerBank PROVE r[i] = <<s, i - L - 1>>
  <2>1. i \in 1 .. L + TokensPerBank /\ ~(i <= L)
    OBVIOUS
  <2>2. r[i] = b[i - L]
    BY <1>4, <2>1
  <2>3. i - L \in 1 .. TokensPerBank
    OBVIOUS
  <2>. QED  BY <1>1, <1>3, <2>2, <2>3
<1>. QED  BY <1>2, <1>4, <1>5, <1>6 DEF IsExtended

LEMMA InitService ==
  TokensPerBank \in Nat /\ Service!Init => Service!TypeOK /\ Service!PoolInOrder
<1>. SUFFICES ASSUME TokensPerBank \in Nat, Service!Init
              PROVE  Service!TypeOK /\ Service!PoolInOrder
  OBVIOUS
<1>1. /\ QueuedTokens \in Seq(Service!Token) /\ Len(QueuedTokens) = TokensPerBank
      /\ \A i \in 1 .. TokensPerBank : QueuedTokens[i] = <<0, i - 1>>
      /\ LastToken = <<0, -1>> /\ (SeedLimit - 1) = 0
  BY BatchFacts DEF Service!Init
<1>2. Service!TypeOK
  BY <1>1 DEF Service!TypeOK
<1>3. Service!PoolInOrder
  <2>1. ASSUME NEW j \in 1 .. Len(QueuedTokens), NEW k \in 1 .. Len(QueuedTokens), j < k
        PROVE  Service!Later(QueuedTokens[k], QueuedTokens[j])
    BY <1>1, <2>1 DEF Service!Later
  <2>2. ASSUME NEW k \in 1 .. Len(QueuedTokens)
        PROVE  /\ Service!Later(QueuedTokens[k], LastToken)
               /\ QueuedTokens[k][1] <= (SeedLimit - 1)
    BY <1>1, <2>2 DEF Service!Later
  <2>. QED  BY <1>1, <2>1, <2>2 DEF Service!PoolInOrder
<1>. QED  BY <1>2, <1>3

LEMMA ReplenishStep ==
  ASSUME TokensPerBank \in Nat, Service!TypeOK, Service!PoolInOrder, Service!Replenish
  PROVE  Service!TypeOK' /\ Service!PoolInOrder'
<1>0. PICK s \in Nat : s = (SeedLimit - 1) + 1
  BY DEF Service!TypeOK
<1>9. PICK L \in Nat : L = Len(QueuedTokens)
  BY DEF Service!TypeOK
<1>1. /\ QueuedTokens \in Seq(Service!Token) /\ L = Len(QueuedTokens)
      /\ s = (SeedLimit - 1) + 1 /\ (SeedLimit - 1)' = s
      /\ QueuedTokens' = QueuedTokens \o Service!Batch(s) /\ LastToken' = LastToken
  BY <1>0, <1>9 DEF Service!TypeOK, Service!Replenish
<1>3. /\ QueuedTokens' \in Seq(Service!Token) /\ Len(QueuedTokens') = L + TokensPerBank
      /\ \A i \in 1 .. L : QueuedTokens'[i] = QueuedTokens[i]
      /\ \A i \in L + 1 .. L + TokensPerBank : QueuedTokens'[i] = <<s, i - L - 1>>
  <2>1. IsExtended(QueuedTokens', QueuedTokens, s)
    BY <1>1, AppendFacts
  <2>. QED  BY <1>1, <2>1 DEF IsExtended
<1>4. Service!TypeOK'
  BY <1>1, <1>3 DEF Service!TypeOK
<1>5. \A i \in 1 .. L : QueuedTokens[i][1] \in Nat /\ QueuedTokens[i][1] <= (SeedLimit - 1)
  BY <1>1 DEF Service!PoolInOrder, Service!Token
<1>6. LastToken[1] \in Nat /\ LastToken[1] <= (SeedLimit - 1)
  BY DEF Service!TypeOK, Service!PoolInOrder
<1>7. Service!PoolInOrder'
  <2>1. ASSUME NEW j \in 1 .. Len(QueuedTokens'), NEW k \in 1 .. Len(QueuedTokens'), j < k
        PROVE  Service!Later(QueuedTokens'[k], QueuedTokens'[j])
    <3>1. CASE k <= L
      <4>1. /\ j \in 1 .. L /\ k \in 1 .. L
            /\ QueuedTokens'[k] = QueuedTokens[k] /\ QueuedTokens'[j] = QueuedTokens[j]
        BY <1>3, <2>1, <3>1
      <4>. QED  BY <1>1, <2>1, <4>1 DEF Service!PoolInOrder
    <3>2. CASE k > L /\ j <= L
      <4>1. /\ j \in 1 .. L
            /\ QueuedTokens'[k] = <<s, k - L - 1>> /\ QueuedTokens'[j] = QueuedTokens[j]
        <5>1. j \in 1 .. L /\ k \in L + 1 .. L + TokensPerBank
          BY <1>3, <2>1, <3>2
        <5>. QED  BY <1>3, <5>1
      <4>2. QueuedTokens[j][1] \in Nat /\ QueuedTokens[j][1] <= (SeedLimit - 1)
        BY <1>5, <4>1
      <4>3. s > QueuedTokens[j][1]
        BY <1>0, <4>2, SMTT(20) DEF Service!TypeOK
      <4>4. QueuedTokens'[k][1] = s
        BY <4>1
      <4>. QED  BY <4>1, <4>3, <4>4 DEF Service!Later
    <3>3. CASE k > L /\ j > L
      <4>1. QueuedTokens'[k] = <<s, k - L - 1>> /\ QueuedTokens'[j] = <<s, j - L - 1>>
        BY <1>3, <2>1, <3>3
      <4>. QED  BY <1>3, <2>1, <3>3, <4>1 DEF Service!Later
    <3>. QED  BY <1>1, <1>3, <2>1, <3>1, <3>2, <3>3, SMTT(20)
  <2>2. ASSUME NEW k \in 1 .. Len(QueuedTokens')
        PROVE  /\ Service!Later(QueuedTokens'[k], LastToken')
               /\ QueuedTokens'[k][1] <= (SeedLimit - 1)'
    <3>1. CASE k <= L
      <4>1. k \in 1 .. L /\ QueuedTokens'[k] = QueuedTokens[k]
        BY <1>1, <1>3, <3>1
      <4>2. /\ Service!Later(QueuedTokens[k], LastToken)
            /\ QueuedTokens[k][1] \in Nat /\ QueuedTokens[k][1] <= (SeedLimit - 1)
        BY <1>1, <1>5, <4>1 DEF Service!PoolInOrder
      <4>. QED  BY <1>1, <4>1, <4>2 DEF Service!TypeOK
    <3>2. CASE k > L
      <4>1. QueuedTokens'[k] = <<s, k - L - 1>>
        <5>1. k \in L + 1 .. L + TokensPerBank
          BY <1>3, <2>2, <3>2
        <5>. QED  BY <1>3, <5>1
      <4>. QED  BY <1>1, <1>6, <4>1, SMTT(20) DEF Service!Later, Service!TypeOK
    <3>. QED  BY <1>1, <1>3, <3>1, <3>2
  <2>3. LastToken'[1] <= (SeedLimit - 1)'
    BY <1>1, <1>6 DEF Service!TypeOK
  <2>. QED  BY <2>1, <2>2, <2>3 DEF Service!PoolInOrder
<1>. QED  BY <1>4, <1>7

LEMMA GiveUpStep ==
  ASSUME Service!TypeOK, Service!PoolInOrder, Service!GiveUp
  PROVE  Service!TypeOK' /\ Service!PoolInOrder'
<1>1. /\ (SeedLimit - 1)' \in Nat /\ (SeedLimit - 1)' > (SeedLimit - 1) /\ (SeedLimit - 1) \in Nat
      /\ QueuedTokens' = QueuedTokens /\ LastToken' = LastToken /\ QueuedTokens \in Seq(Service!Token)
  BY DEF Service!GiveUp, Service!TypeOK
<1>2. Service!TypeOK'
  BY <1>1 DEF Service!TypeOK
<1>3. \A k \in 1 .. Len(QueuedTokens) : QueuedTokens[k][1] \in Nat /\ QueuedTokens[k][1] <= (SeedLimit - 1)
  BY <1>1 DEF Service!PoolInOrder, Service!Token
<1>4. LastToken[1] \in Nat /\ LastToken[1] <= (SeedLimit - 1)
  BY DEF Service!TypeOK, Service!PoolInOrder
<1>5. \A k \in 1 .. Len(QueuedTokens) : QueuedTokens[k][1] <= (SeedLimit - 1)'
  BY <1>1, <1>3
<1>6. Service!PoolInOrder'
  BY <1>1, <1>4, <1>5 DEF Service!PoolInOrder
<1>. QED  BY <1>2, <1>6

LEMMA TakeStep ==
  ASSUME Service!TypeOK, Service!PoolInOrder, Service!Take
  PROVE  Service!TypeOK' /\ Service!PoolInOrder' /\ Service!Later(LastToken', LastToken)
<1>. DEFINE L == Len(QueuedTokens)
<1>1. /\ QueuedTokens \in Seq(Service!Token) /\ QueuedTokens # <<>> /\ (SeedLimit - 1)' = (SeedLimit - 1)
      /\ LastToken' = Head(QueuedTokens) /\ QueuedTokens' = Tail(QueuedTokens)
  BY DEF Service!Take, Service!TypeOK
<1>2. /\ L \in Nat /\ L >= 1 /\ LastToken' = QueuedTokens[1] /\ LastToken' \in Service!Token
      /\ QueuedTokens' \in Seq(Service!Token) /\ Len(QueuedTokens') = L - 1
      /\ \A k \in 1 .. L - 1 : QueuedTokens'[k] = QueuedTokens[k + 1]
  BY <1>1
<1>3. Service!TypeOK'
  BY <1>1, <1>2 DEF Service!TypeOK, Service!Token
<1>4. \A k \in 1 .. L - 1 : k + 1 \in 1 .. L /\ 1 < k + 1
  BY <1>2
<1>5. 1 \in 1 .. L
  BY <1>2
<1>6. Service!PoolInOrder'
  <2>1. ASSUME NEW j \in 1 .. Len(QueuedTokens'), NEW k \in 1 .. Len(QueuedTokens'), j < k
        PROVE  Service!Later(QueuedTokens'[k], QueuedTokens'[j])
    <3>1. /\ QueuedTokens'[k] = QueuedTokens[k + 1] /\ QueuedTokens'[j] = QueuedTokens[j + 1]
          /\ k + 1 \in 1 .. L /\ j + 1 \in 1 .. L /\ j + 1 < k + 1
      BY <1>2, <2>1
    <3>. QED  BY <3>1 DEF Service!PoolInOrder
  <2>2. ASSUME NEW k \in 1 .. Len(QueuedTokens')
        PROVE  /\ Service!Later(QueuedTokens'[k], LastToken')
               /\ QueuedTokens'[k][1] <= (SeedLimit - 1)'
    <3>1. QueuedTokens'[k] = QueuedTokens[k + 1] /\ k + 1 \in 1 .. L /\ 1 < k + 1
      BY <1>2, <2>2
    <3>. QED  BY <1>1, <1>2, <1>5, <3>1 DEF Service!PoolInOrder
  <2>3. LastToken'[1] <= (SeedLimit - 1)'
    BY <1>1, <1>2, <1>5 DEF Service!PoolInOrder
  <2>. QED  BY <2>1, <2>2, <2>3 DEF Service!PoolInOrder
<1>7. Service!Later(LastToken', LastToken)
  BY <1>2, <1>5 DEF Service!PoolInOrder
<1>. QED  BY <1>3, <1>6, <1>7

LEMMA NextService ==
  TokensPerBank \in Nat /\ Service!TypeOK /\ Service!PoolInOrder /\ [Service!Next]_Service!vars
    => Service!TypeOK' /\ Service!PoolInOrder'
<1>. SUFFICES ASSUME TokensPerBank \in Nat, Service!TypeOK, Service!PoolInOrder, [Service!Next]_Service!vars
              PROVE  Service!TypeOK' /\ Service!PoolInOrder'
  OBVIOUS
<1>1. CASE UNCHANGED Service!vars
  BY <1>1 DEF Service!vars, Service!TypeOK, Service!PoolInOrder
<1>. QED  BY <1>1, ReplenishStep, GiveUpStep, TakeStep DEF Service!Next

(* The pool stays in order: a batch that joins it is of a seed later than  *)
(* all those before, so no token in it was ever handed out.                *)
THEOREM ServiceInOrder ==
  Service!Spec => [](Service!TypeOK /\ Service!PoolInOrder)
<1>0. TokensPerBank \in Nat
  BY CapacityFacts
<1>1. Service!Init => Service!TypeOK /\ Service!PoolInOrder
  BY <1>0, InitService
<1>2. Service!TypeOK /\ Service!PoolInOrder /\ [Service!Next]_Service!vars
        => (Service!TypeOK /\ Service!PoolInOrder)'
  BY <1>0, NextService
<1>. QED  BY <1>1, <1>2, PTL DEF Service!Spec

(* Every token acquire hands out is later than the one before it, so that  *)
(* none is handed out twice, whatever the threads do to the banks in the   *)
(* meantime (soko_falcon_pipeline.c).                                      *)
THEOREM ServiceNeverTwice == Spec => Service!NeverTwice
<1>1. Service!TypeOK /\ Service!PoolInOrder /\ [Service!Next]_Service!vars
        => [Len(QueuedTokens') < Len(QueuedTokens)
              => Service!Later(LastToken', LastToken)]_Service!vars
  <2>. SUFFICES ASSUME Service!TypeOK, Service!PoolInOrder, Service!Next,
                       Len(QueuedTokens') < Len(QueuedTokens)
                PROVE  Service!Later(LastToken', LastToken)
    OBVIOUS
  <2>1. CASE Service!Replenish
    <3>1. /\ (SeedLimit - 1) + 1 \in Nat /\ QueuedTokens \in Seq(Service!Token)
          /\ QueuedTokens' = QueuedTokens \o Service!Batch((SeedLimit - 1) + 1)
      BY <2>1 DEF Service!Replenish, Service!TypeOK
    <3>2. Service!Batch((SeedLimit - 1) + 1) \in Seq(Service!Token)
      BY <3>1, BatchFacts, CapacityFacts
    <3>. QED  BY <3>1, <3>2
  <2>2. CASE Service!GiveUp
    BY <2>2 DEF Service!GiveUp, Service!TypeOK
  <2>3. CASE Service!Take
    BY <2>3, TakeStep
  <2>. QED  BY <2>1, <2>2, <2>3 DEF Service!Next
<1>. QED  BY <1>1, Refinement, ServiceInOrder, PTL
          DEF ImplementsTokenService, Service!Spec, Service!NeverTwice

=============================================================================
