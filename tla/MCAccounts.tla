------------------------------ MODULE MCAccounts -----------------------------
(* A few accounts and processes for model checking Accounts. *)
EXTENDS Accounts

\* The underdog wins more.
SmallGain(w, l) == IF w > l THEN 1 ELSE IF w = l THEN 2 ELSE 3
=============================================================================
