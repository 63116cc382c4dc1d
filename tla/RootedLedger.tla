---------------------------- MODULE RootedLedger ----------------------------
(***************************************************************************)
(* What MarketplaceToken promises its holders, said without balances that  *)
(* contain their own rooted part, allowances, delegates or votes: every    *)
(* account has a liquid and a rooted pocket.  Tokens enter an account only *)
(* through the liquid pocket, leave it only from there, and no token is    *)
(* made or lost.                                                           *)
(***************************************************************************)
EXTENDS Holdings

CONSTANTS Accounts, Supplies

VARIABLES liquid, rooted

pockets == <<liquid, rooted>>

\* Everything starts in one liquid pocket.
Init ==
  \E n \in Supplies, first \in Accounts :
    /\ liquid = [a \in Accounts |-> IF a = first THEN n ELSE 0]
    /\ rooted = [a \in Accounts |-> 0]

Send(from, to, n) ==
  /\ n <= liquid[from]
  /\ liquid' = Credit(Debit(liquid, from, n), to, n)
  /\ UNCHANGED rooted

Bind(a, n) ==
  /\ n <= liquid[a]
  /\ rooted' = Credit(rooted, a, n)
  /\ liquid' = Debit(liquid, a, n)

Unbind(a, n) ==
  /\ n <= rooted[a]
  /\ rooted' = Debit(rooted, a, n)
  /\ liquid' = Credit(liquid, a, n)

Next ==
  \E a, b \in Accounts :
    \/ \E n \in 0 .. liquid[a] : Send(a, b, n) \/ Bind(a, n)
    \/ \E n \in 0 .. rooted[a] : Unbind(a, n)

Spec == Init /\ [][Next]_pockets
=============================================================================
