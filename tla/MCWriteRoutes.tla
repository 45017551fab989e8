---------------------------- MODULE MCWriteRoutes ----------------------------
(***************************************************************************)
(* Instances of WriteRoutes for TLC.  All links are for survey 1; requests *)
(* differ only in their parameters, which Init chooses, so they, and the   *)
(* wallets and links, may be permuted.                                     *)
(***************************************************************************)
EXTENDS WriteRoutes, TLC

SurveyOne == [l \in Links |-> 1]

Permuted == Permutations(Requests) \union Permutations(Wallets) \union Permutations(Links)
==============================================================================
