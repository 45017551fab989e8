------------------------------ MODULE TxSender ------------------------------
(***************************************************************************)
(* How services/blockchain.ts gets transactions on the chain: the checks   *)
(* and the fee read of each write, the nonce its NonceManager reserves     *)
(* (ethers v6, external), the broadcast, the wait for the receipt.  One    *)
(* key; each process has a manager of its own.  The node keeps what it was *)
(* sent in its pool and mines the account's nonces without a gap.          *)
(***************************************************************************)
EXTENDS FiniteSets, Naturals

CONSTANTS
  Procs,         \* server processes that send with the minter's key
  Calls,         \* writes that may be under way, per process
  Unread,        \* the manager has not read the account's count
  Rejected,      \* that read failed; the manager keeps the rejected promise
  MaxNonce       \* bound on the transactions

VARIABLES
  mined,         \* the account's nonce: how many were mined
  pool,          \* sent, not mined: [nonce, proc, call]
  base,          \* process -> the count it read once, Unread or Rejected
  delta,         \* process -> how many it reserved since
  at,            \* where each call of each process is
  nonce,         \* the nonce a call reserved, as an offset to base
  lost           \* a reserved nonce was never used (since the start)

vars == <<mined, pool, base, delta, at, nonce, lost>>

Places == {"idle", "checked", "reserved", "sent"}

Init ==
  /\ mined = 0 /\ pool = {}
  /\ base = [p \in Procs |-> Unread] /\ delta = [p \in Procs |-> 0]
  /\ at = [p \in Procs |-> [c \in Calls |-> "idle"]]
  /\ nonce = [p \in Procs |-> [c \in Calls |-> 0]]
  /\ lost = FALSE

Moves(p, c, place) == at' = [at EXCEPT ![p][c] = place]

\* assertSufficientBalance and buildTxOverrides; for an award also the gas
\* estimate.  What fails here has reserved nothing.
Checks(p, c) ==
  /\ at[p][c] = "idle"
  /\ Moves(p, c, "checked")
  /\ UNCHANGED <<mined, pool, base, delta, nonce, lost>>

CheckFails(p, c) ==
  /\ at[p][c] = "checked"
  /\ Moves(p, c, "idle")
  /\ UNCHANGED <<mined, pool, base, delta, nonce, lost>>

WrongReserve(p, c) ==
  /\ at[p][c] = "checked" /\ mined + Cardinality(pool) + delta[p] < MaxNonce
  /\ nonce' = [nonce EXCEPT ![p][c] = delta[p]]
  /\ Moves(p, c, "reserved")
  /\ UNCHANGED <<mined, pool, base, delta, lost>>

\* sendTransaction: the offset is taken and counted before anything is
\* awaited, populateTransaction and the count itself included.
Reserve(p, c) ==
  /\ at[p][c] = "checked" /\ mined + Cardinality(pool) + delta[p] < MaxNonce
  /\ nonce' = [nonce EXCEPT ![p][c] = delta[p]]
  /\ delta' = [delta EXCEPT ![p] = @ + 1]
  /\ Moves(p, c, "reserved")
  /\ UNCHANGED <<mined, pool, base, lost>>

\* The pending count: mined, and what follows without a gap in the pool.
Pending ==
  CHOOSE n \in mined .. MaxNonce :
    /\ \A m \in mined .. n - 1 : \E tx \in pool : tx.nonce = m
    /\ \A tx \in pool : tx.nonce # n

ReadCount(p) ==
  /\ base[p] = Unread
  /\ \E c \in Calls : at[p][c] = "reserved"
  /\ \/ base' = [base EXCEPT ![p] = Pending]
     \/ base' = [base EXCEPT ![p] = Rejected]
  /\ UNCHANGED <<mined, pool, delta, at, nonce, lost>>

NonceOf(p, c) == base[p] + nonce[p][c]

Taken(n) == n < mined \/ \E tx \in pool : tx.nonce = n

Broadcast(p, c) ==
  /\ at[p][c] = "reserved" /\ base[p] \notin {Unread, Rejected}
  /\ ~Taken(NonceOf(p, c)) /\ NonceOf(p, c) < MaxNonce
  /\ pool' = pool \union {[nonce |-> NonceOf(p, c), proc |-> p, call |-> c]}
  /\ Moves(p, c, "sent")
  /\ UNCHANGED <<mined, base, delta, nonce, lost>>

Forget(p, c) ==
  /\ at' = [at EXCEPT ![p][c] = "idle"]
  /\ nonce' = [nonce EXCEPT ![p][c] = 0]

\* The gas estimate of the other writes, which reverts for what the contract
\* refuses, the read of the count, the node's refusal of a nonce that is
\* taken, a broadcast that reaches no node: the reserved nonce is lost.
SendFails(p, c) ==
  /\ at[p][c] = "reserved"
  /\ Forget(p, c)
  /\ lost' = TRUE
  /\ UNCHANGED <<mined, pool, base, delta>>

\* The call waits for the receipt of its own transaction; one that was sent
\* before a restart has nobody waiting.
Awaited(tx) == at[tx.proc][tx.call] = "sent" /\ NonceOf(tx.proc, tx.call) = tx.nonce

\* tx.wait() ends with the receipt.
Mine(tx) ==
  /\ tx \in pool /\ tx.nonce = mined
  /\ mined' = mined + 1
  /\ pool' = pool \ {tx}
  /\ IF Awaited(tx) THEN Forget(tx.proc, tx.call) ELSE UNCHANGED <<at, nonce>>
  /\ UNCHANGED <<base, delta, lost>>

\* What was sent stays in the pool.
Restart(p) ==
  /\ base' = [base EXCEPT ![p] = Unread] /\ delta' = [delta EXCEPT ![p] = 0]
  /\ at' = [at EXCEPT ![p] = [c \in Calls |-> "idle"]]
  /\ nonce' = [nonce EXCEPT ![p] = [c \in Calls |-> 0]]
  /\ lost' = (lost \/ \E c \in Calls : at[p][c] = "reserved")
  /\ UNCHANGED <<mined, pool>>

Write(p, c) ==
  Checks(p, c) \/ CheckFails(p, c) \/ Reserve(p, c) \/ Broadcast(p, c) \/ SendFails(p, c)

Next ==
  \/ \E p \in Procs, c \in Calls : Write(p, c)
  \/ \E p \in Procs : ReadCount(p) \/ Restart(p)
  \/ \E tx \in pool : Mine(tx)

Spec == Init /\ [][Next]_vars

\* The chain mines what it can; a process takes its next step.
FairSpec ==
  /\ Spec
  /\ WF_vars(\E tx \in pool : Mine(tx))
  /\ \A p \in Procs : WF_vars(ReadCount(p))
  /\ \A p \in Procs, c \in Calls :
       WF_vars(CheckFails(p, c) \/ Reserve(p, c) \/ Broadcast(p, c) \/ SendFails(p, c))

-----------------------------------------------------------------------------
(* Properties.                                                             *)

\* Types.
TypeOK ==
  /\ mined \in 0 .. MaxNonce
  /\ pool \subseteq [nonce : 0 .. MaxNonce - 1, proc : Procs, call : Calls]
  /\ base \in [Procs -> (0 .. MaxNonce) \union {Unread, Rejected}]
  /\ delta \in [Procs -> 0 .. 2 * MaxNonce]
  /\ at \in [Procs -> [Calls -> Places]]
  /\ nonce \in [Procs -> [Calls -> 0 .. 2 * MaxNonce]]
  /\ lost \in BOOLEAN

ReservedBy(p) == {c \in Calls : at[p][c] = "reserved"}

\* The transactions of one process get along however their calls overlap,
\* and after a restart with some still in the pool: a reserved nonce is
\* free, no two are the same, and none waits behind a nonce that nobody
\* uses, unless a reserved nonce was lost before.
NoncesFit ==
  lost \/ \A p \in Procs :
    base[p] \notin {Unread, Rejected} =>
      /\ \A c \in ReservedBy(p) : ~Taken(NonceOf(p, c))
      /\ Cardinality({NonceOf(p, c) : c \in ReservedBy(p)}) = Cardinality(ReservedBy(p))
      /\ \A tx \in pool : \A n \in mined .. tx.nonce :
           Taken(n) \/ \E c \in ReservedBy(p) : NonceOf(p, c) = n

\* "mempool dedup on the chain side ensures the tx is mined exactly once.
\* NonceManager continues to work": what was sent is mined.
SentIsMined ==
  \A p \in Procs, c \in Calls : at[p][c] = "sent" ~> at[p][c] # "sent"
=============================================================================
