---------------------------- MODULE MCNonceStore -----------------------------
(***************************************************************************)
(* NonceStore for TLC; processes and links are interchangeable.            *)
(***************************************************************************)
EXTENDS NonceStore, TLC

Interchangeable == Permutations(Procs) \union Permutations(Links)
==============================================================================
