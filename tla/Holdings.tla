------------------------------ MODULE Holdings ------------------------------
(***************************************************************************)
(* Sums of per-account amounts.                                            *)
(*                                                                         *)
(* The contracts keep amounts in mappings and never store most of the sums *)
(* their correctness is about (the tokens of all accounts, the rooted      *)
(* tokens delegated to one account).  A sum is written here as a number of *)
(* token units: the unit k of account a is the pair <<a, k>>, so no        *)
(* recursion is needed and facts about sums follow from facts about the    *)
(* cardinality of finite sets.                                             *)
(***************************************************************************)
EXTENDS Integers, FiniteSets

\* The units that the accounts of S hold when account a holds f[a] of them.
Units(f, S) == UNION { {a} \X (1 .. f[a]) : a \in S }

\* The sum of f[a] over the accounts a of S.
Total(f, S) == Cardinality(Units(f, S))

\* f with n units more in account a.
Credit(f, a, n) == [f EXCEPT ![a] = @ + n]

\* f with n units less in account a.
Debit(f, a, n) == [f EXCEPT ![a] = @ - n]
=============================================================================
