----------------------------- MODULE RewardLedger -----------------------------
(***************************************************************************)
(* What MarketplaceDAO and its reward token promise on top of the pockets  *)
(* of RootedLedger, said without clock, rooted periods, votes, minted      *)
(* supply or the checks of the calls: points are made by claims, each what *)
(* a claim makes at that moment, and by votes, and are given up for tokens *)
(* of the reserve, which pays for nothing else, pays who gives them up,    *)
(* and pays what they are worth at that moment.  What the treasury         *)
(* prebinds for an account never is liquid there.                          *)
(***************************************************************************)
EXTENDS RootedLedger

CONSTANTS
  Reserve,   \* the account that pays for points
  Treasury,  \* the account that prebinds
  Whole,     \* the points that rate tokens are paid for
  Grants     \* the points that votes make

VARIABLES
  points,     \* the reward tokens of each account
  perPeriod,  \* what one claim makes
  rate        \* what Whole points are worth

terms == <<perPeriod, rate>>
purse == <<pockets, points, terms>>

RewardInit ==
  /\ Init
  /\ points = [a \in Accounts |-> 0]
  /\ perPeriod = 0 /\ rate = 0

Pay(a, b, n) ==
  /\ Send(a, b, n)
  /\ UNCHANGED <<points, terms>>

Keep(a, n) ==
  /\ Bind(a, n) \/ Unbind(a, n)
  /\ UNCHANGED <<points, terms>>

\* From the treasury's liquid pocket to the account's rooted one, in one step.
Prebind(a, n) ==
  /\ n <= liquid[Treasury]
  /\ rooted' = Credit(rooted, a, n)
  /\ liquid' = Debit(liquid, Treasury, n)
  /\ UNCHANGED <<points, terms>>

Claim(a) ==
  /\ points' = Credit(points, a, perPeriod)
  /\ UNCHANGED <<pockets, terms>>

\* A vote makes points for an account.
Grant(a, n) ==
  /\ points' = Credit(points, a, n)
  /\ UNCHANGED <<pockets, terms>>

Redeem(a, n) ==
  /\ n <= points[a]
  /\ points' = Debit(points, a, n)
  /\ Send(Reserve, a, (n * rate) \div Whole)
  /\ UNCHANGED terms

Hand(a, b, n) ==
  /\ n <= points[a]
  /\ points' = Credit(Debit(points, a, n), b, n)
  /\ UNCHANGED <<pockets, terms>>

\* A vote changes what claims make or what points are worth.
ChangeTerms ==
  /\ perPeriod' \in Nat /\ rate' \in Nat
  /\ UNCHANGED <<pockets, points>>

\* Nobody but who redeems sends tokens from the reserve.
RewardNext ==
  \/ \E a \in Accounts : \E n \in 1 .. points[a] :
       Redeem(a, n) \/ \E b \in Accounts : Hand(a, b, n)
  \/ \E a \in Accounts : Claim(a) \/ \E n \in Grants : Grant(a, n)
  \/ \E n \in 1 .. liquid[Treasury] : \E a \in Accounts : Prebind(a, n)
  \/ \E a \in Accounts : \E n \in 1 .. liquid[a] + rooted[a] : Keep(a, n)
  \/ \E a \in Accounts \ {Reserve} : \E n \in 1 .. liquid[a] :
       \E b \in Accounts : Pay(a, b, n)
  \/ ChangeTerms

RewardSpec == RewardInit /\ [][RewardNext]_purse
=============================================================================
