---------------------------- MODULE TokenService ----------------------------
(***************************************************************************)
(* What the refill pipeline promises its caller, with no threads, banks or *)
(* ring: a first-in first-out pool of one-time tokens.  A token is a seed  *)
(* and a place in the batch the seed generates.  The pool grows by whole   *)
(* batches, each of a seed never used before, and tokens leave it from the *)
(* front, one at a time and for good.  In the pool a token never changes.  *)
(***************************************************************************)
EXTENDS Integers, Sequences

CONSTANT BatchSize   \* tokens of one batch, a natural number

VARIABLES
  pool,    \* the tokens that can be handed out, in order
  last,    \* the token handed out last
  high     \* the last seed that was used for a batch or given up

Token    == Nat \X (0 .. BatchSize - 1)
Batch(s) == [i \in 1 .. BatchSize |-> <<s, i - 1>>]

Init ==
  /\ pool = Batch(0)
  /\ last = <<0, -1>>
  /\ high = 0

(* A refill succeeds. *)
Replenish ==
  /\ high' = high + 1
  /\ pool' = pool \o Batch(high')
  /\ UNCHANGED last

(* Refills fail, or their batches are never delivered: the seeds are lost. *)
GiveUp ==
  /\ high' \in Nat
  /\ high' > high
  /\ UNCHANGED <<pool, last>>

Take ==
  /\ pool # <<>>
  /\ last' = Head(pool)
  /\ pool' = Tail(pool)
  /\ UNCHANGED high

vars == <<pool, last, high>>
Next == Replenish \/ GiveUp \/ Take
Spec == Init /\ [][Next]_vars

Later(new, old) ==
  \/ new[1] > old[1]
  \/ new[1] = old[1] /\ new[2] > old[2]

TypeOK ==
  /\ pool \in Seq(Token)
  /\ last \in Nat \X (-1 .. BatchSize - 1)
  /\ high \in Nat

(* Tokens in the pool are in order, after every token handed out and under *)
(* no seed that is still to come.                                          *)
PoolInOrder ==
  /\ \A j, k \in 1 .. Len(pool) : j < k => Later(pool[k], pool[j])
  /\ \A k \in 1 .. Len(pool) : Later(pool[k], last) /\ pool[k][1] <= high
  /\ last[1] <= high

(* No token is handed out twice: each is later than all those before it.   *)
NeverTwice == [][Len(pool') < Len(pool) => Later(last', last)]_vars

=============================================================================
