---------------------------- MODULE MCCeilingRace ----------------------------
(***************************************************************************)
(* Five commitments against a ceiling of one and a roof of two.            *)
(***************************************************************************)
EXTENDS CeilingRace, TLC

CONSTANTS a, b, c, d, e, r1, r2

MCIds == {a, b, c, d, e}
MCRequests == {r1, r2}
Interchangeable == Permutations(MCIds) \cup Permutations(MCRequests)
=============================================================================
