--------------------------- MODULE NonceRegister ----------------------------
(***************************************************************************)
(* What the nonce store promises its callers: a set of consumed links that *)
(* all server processes see as one.  A link enters the set in one step and *)
(* only if it was not in it, and leaves it only when it is given back.     *)
(***************************************************************************)
CONSTANT Links          \* the `${surveyId}:${nonce}` keys

VARIABLE used           \* the consumed ones

Init == used = {}

Consume(link) == link \notin used /\ used' = used \union {link}

GiveBack(link) == link \in used /\ used' = used \ {link}

Next == \E link \in Links : Consume(link) \/ GiveBack(link)

Spec == Init /\ [][Next]_used
==============================================================================
