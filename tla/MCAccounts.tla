----------------------------- MODULE MCAccounts -----------------------------
(* Values of the constants of Accounts for TLC.                            *)
EXTENDS Accounts, TLC

CONSTANTS t1, t2, e1, e2

MCStandingEmail == [t \in Standing |-> e1]
Symmetric == Permutations(Requests)
=============================================================================
