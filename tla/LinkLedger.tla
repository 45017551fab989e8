----------------------------- MODULE LinkLedger -----------------------------
(***************************************************************************)
(* What the claim flow promises: a claim link pays one wallet, once.       *)
(***************************************************************************)
CONSTANTS
  Links,        \* claim links
  Wallets       \* wallets that can be paid

VARIABLE paid   \* the pairs <<link, wallet>> paid so far

Init == paid = {}

Pay(link, wallet) ==
  /\ \A w \in Wallets : <<link, w>> \notin paid
  /\ paid' = paid \union {<<link, wallet>>}

Next == \E link \in Links, wallet \in Wallets : Pay(link, wallet)

Spec == Init /\ [][Next]_paid
==============================================================================
