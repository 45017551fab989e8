----------------------------- MODULE EventCache -----------------------------
(***************************************************************************)
(* What the event store promises its readers: the cached history is what   *)
(* the contract logged up to one block, all of it and nothing twice, and   *)
(* while the server process lives that block only moves forward.  A        *)
(* restart may go back to an older block, never to a history with a hole.  *)
(***************************************************************************)
EXTENDS Integers

CONSTANT EventBlocks    \* the blocks in which the contract logs an event

VARIABLES
  head,                 \* the height of the chain
  upto,                 \* the block up to which the history is known
  events,               \* the blocks whose events the history holds
  starts                \* how often the server process was restarted

vars == <<head, upto, events, starts>>

History(n) == {b \in EventBlocks : b <= n}

Init == head = 0 /\ upto = 0 /\ events = History(0) /\ starts = 0

Grow == head' = head + 1 /\ UNCHANGED <<upto, events, starts>>

Advance ==
  /\ upto' \in upto + 1 .. head
  /\ events' = History(upto')
  /\ UNCHANGED <<head, starts>>

Restart ==
  /\ upto' \in 0 .. head
  /\ events' = History(upto')
  /\ starts' = starts + 1
  /\ UNCHANGED head

Next == Grow \/ Advance \/ Restart

Spec == Init /\ [][Next]_vars
=============================================================================
