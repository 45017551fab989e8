---------------------------- MODULE MinterFunds -----------------------------
(***************************************************************************)
(* The minter's ETH: what services/blockchain.ts makes sure of before a    *)
(* write and offers as a fee, services/balance-monitor.ts, which warns     *)
(* when the balance is low, and what routes/status.ts and the dashboard's  *)
(* system status make of it.  Amounts are multiples of one transaction's   *)
(* gas; the interval of the monitor is the unit of time.                   *)
(***************************************************************************)
EXTENDS FiniteSets, Integers

CONSTANTS
  Writes,        \* writes that may be under way at a time
  Floor,         \* MIN_BALANCE_WEI
  FeeCap,        \* MAX_FEE_PER_GAS_WEI
  TipCap,        \* MAX_PRIORITY_FEE_PER_GAS_WEI
  MaxFee,        \* bound on what the node says of fees
  MaxBalance,    \* bound on the balance
  Cooldown       \* WARN_COOLDOWN_MS, in intervals of the monitor

VARIABLES
  balance,
  base, tip,     \* what the chain asks at present
  at,            \* where each write is
  offer,         \* the fees it offers: [maxFee, tip]
  warned,        \* how long ago the monitor warned, Cooldown for longer or never
  polled,        \* the monitor's last poll found the balance low
  status         \* the dashboard: [balance, price], or NoStatus

funds == <<balance, base, tip>>
monitor == <<warned, polled>>
vars == <<funds, at, offer, monitor, status>>

WarnBalance == Floor * 5

NoOffer == [maxFee |-> 0, tip |-> 0]
NoStatus == [balance |-> 0, price |-> 0]

Least(x, y) == IF x < y THEN x ELSE y
Most(x, y) == IF x > y THEN x ELSE y

Init ==
  /\ balance \in 0 .. MaxBalance /\ base = 1 /\ tip = 0
  /\ at = [w \in Writes |-> "idle"] /\ offer = [w \in Writes |-> NoOffer]
  /\ warned = Cooldown /\ polled = FALSE
  /\ status = NoStatus

-----------------------------------------------------------------------------
(* A write.                                                                *)

\* assertSufficientBalance; otherwise INSUFFICIENT_FUNDS.
Allow(w) ==
  /\ at[w] = "idle" /\ balance >= Floor
  /\ at' = [at EXCEPT ![w] = "allowed"]
  /\ UNCHANGED <<funds, offer, monitor, status>>

WrongOverrides(x_base, x_tip) ==
  LET priority == Least(x_tip, TipCap) IN [maxFee |-> x_base * 2 + priority, tip |-> priority]

\* buildTxOverrides: twice the base fee, within the caps, not below the tip.
Overrides(x_base, x_tip) ==
  LET priority == Least(x_tip, TipCap)
  IN [maxFee |-> Most(Least(x_base * 2 + priority, FeeCap), priority), tip |-> priority]

Price(w) ==
  /\ at[w] = "allowed"
  /\ at' = [at EXCEPT ![w] = "priced"]
  /\ offer' = [offer EXCEPT ![w] = Overrides(base, tip)]
  /\ UNCHANGED <<funds, monitor, status>>

\* The node takes no transaction the account could not pay.
Send(w) ==
  /\ at[w] = "priced" /\ offer[w].maxFee <= balance
  /\ at' = [at EXCEPT ![w] = "sent"]
  /\ UNCHANGED <<funds, offer, monitor, status>>

Forget(w) ==
  /\ at' = [at EXCEPT ![w] = "idle"] /\ offer' = [offer EXCEPT ![w] = NoOffer]

Fails(w) ==
  /\ at[w] \in {"allowed", "priced"}
  /\ Forget(w)
  /\ UNCHANGED <<funds, monitor, status>>

\* What a transaction pays; it waits in the mempool while the base fee is
\* above its ceiling.
Cost(w) == Least(offer[w].maxFee, base + offer[w].tip)

Mine(w) ==
  /\ at[w] = "sent" /\ offer[w].maxFee >= base /\ Cost(w) <= balance
  /\ balance' = balance - Cost(w)
  /\ Forget(w)
  /\ UNCHANGED <<base, tip, monitor, status>>

-----------------------------------------------------------------------------
(* The surroundings, the monitor and the dashboard.                        *)

Market ==
  /\ base' \in 1 .. MaxFee /\ tip' \in 0 .. MaxFee
  /\ UNCHANGED <<balance, at, offer, monitor, status>>

Refill ==
  /\ balance' \in balance + 1 .. MaxBalance
  /\ UNCHANGED <<base, tip, at, offer, monitor, status>>

\* checkBalanceAndWarn, once per interval and when the process starts; a
\* poll that fails says nothing.
Poll ==
  /\ polled' = (balance < WarnBalance)
  /\ LET since == Least(warned + 1, Cooldown)
     IN warned' = IF balance < WarnBalance /\ since >= Cooldown THEN 0 ELSE since
  /\ UNCHANGED <<funds, at, offer, status>>

PollFails ==
  /\ polled' = FALSE /\ warned' = Least(warned + 1, Cooldown)
  /\ UNCHANGED <<funds, at, offer, status>>

\* GET /status, asked by fetchStatus: the balance first, then the price.
ReadBalance ==
  /\ status' = [balance |-> balance, price |-> 0]
  /\ UNCHANGED <<funds, at, offer, monitor>>

ReadPrice ==
  /\ status # NoStatus /\ status.price = 0
  /\ status' = [status EXCEPT !.price = base + tip]
  /\ UNCHANGED <<funds, at, offer, monitor>>

\* The panel of the dashboard.
Shown == status.price > 0

Usable == Most(status.balance - Floor, 0)
ClaimsRemaining == Usable \div status.price

Next ==
  \/ \E w \in Writes : Allow(w) \/ Price(w) \/ Send(w) \/ Fails(w) \/ Mine(w)
  \/ Market \/ Refill \/ Poll \/ PollFails \/ ReadBalance \/ ReadPrice

Spec == Init /\ [][Next]_vars

-----------------------------------------------------------------------------
(* Properties.                                                             *)

\* Types.
TypeOK ==
  /\ balance \in 0 .. MaxBalance /\ base \in 1 .. MaxFee /\ tip \in 0 .. MaxFee
  /\ at \in [Writes -> {"idle", "allowed", "priced", "sent"}]
  /\ offer \in [Writes -> [maxFee : Nat, tip : 0 .. MaxFee]]
  /\ warned \in 0 .. Cooldown /\ polled \in BOOLEAN
  /\ status \in [balance : 0 .. MaxBalance, price : Nat]

UnderWay == {w \in Writes : at[w] # "idle"}

\* The floor is checked before the fee is known and long before it is paid,
\* by all writes at once: what those that slipped through together can take
\* from the floor is the fee cap for each of them, whatever the fee market
\* does ("a Base mainnet fee spike ... burn the minter wallet inside a
\* handful of transactions").
FloorHolds ==
  UnderWay # {} =>
    balance + (Cardinality(Writes) - Cardinality(UnderWay)) * Most(FeeCap, TipCap) >= Floor

\* "cap warnings at one per WARN_COOLDOWN_MS": a low balance that is polled
\* was warned about within the cooldown.
LowIsWarned == polled => warned < Cooldown

\* The dashboard promises no claim the floor would refuse.
PromiseIsKept == Shown /\ ClaimsRemaining > 0 => status.balance > Floor
=============================================================================
