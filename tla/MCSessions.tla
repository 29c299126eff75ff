----------------------------- MODULE MCSessions -----------------------------
(***************************************************************************)
(* Sessions of one account: three tokens, two requests at a time.          *)
(***************************************************************************)
EXTENDS Sessions, TLC

CONSTANTS t1, t2, t3, r1, r2
MCTokens == {t1, t2, t3}
MCRequests == {r1, r2}
Interchangeable == Permutations(MCTokens) \cup Permutations(MCRequests)
=============================================================================
