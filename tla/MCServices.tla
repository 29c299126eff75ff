----------------------------- MODULE MCServices -----------------------------
(***************************************************************************)
(* The six parts on small instances: a ceiling of two that is the roof as  *)
(* well; three addresses, one try a code, two resends an hour; two         *)
(* failures within two ticks lock an account; two accounts that trade two  *)
(* devices, one device each; weeks of two days, over three days.           *)
(***************************************************************************)
EXTENDS Services, TLC

Interchangeable == Permutations(Requests)
=============================================================================
