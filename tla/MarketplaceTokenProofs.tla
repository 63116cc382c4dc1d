----------------------- MODULE MarketplaceTokenProofs -----------------------
(***************************************************************************)
(* The invariants of MarketplaceToken, proved for every set of accounts,   *)
(* every supply and every checkpoint width.                                *)
(***************************************************************************)
EXTENDS MarketplaceToken, FiniteSetTheorems, TLAPS

-----------------------------------------------------------------------------
(* Sums: how Total changes when an account is credited or debited, and how   *)
(* it depends on the accounts summed.  All rests on SplitTotal, which takes  *)
(* one account out of a sum.                                                 *)

\* A sum over finitely many accounts is a natural number, of a finite set of units.
LEMMA UnitsFinite ==
  ASSUME NEW S, IsFiniteSet(S), NEW f, \A a \in S : f[a] \in Nat
  PROVE  IsFiniteSet(Units(f, S)) /\ Total(f, S) \in Nat
<1> DEFINE Slot(a) == {a} \X (1 .. f[a])
           Slots == { Slot(a) : a \in S }
           slotOf == [a \in S |-> Slot(a)]
<1>1. IsFiniteSet(Slots)
  <2>1. slotOf \in [S -> Slots] /\ \A s \in Slots : \E a \in S : slotOf[a] = s
    OBVIOUS
  <2> HIDE DEF slotOf, Slots
  <2>2. slotOf \in Surjection(S, Slots)
    BY <2>1 DEF Surjection
  <2> QED BY <2>2, FS_Surjection
<1>2. ASSUME NEW a \in S PROVE IsFiniteSet(Slot(a))
  <2>1. IsFiniteSet({a}) BY FS_Singleton
  <2>2. IsFiniteSet(1 .. f[a]) BY FS_Interval
  <2> QED BY <2>1, <2>2, FS_Product
<1>3. IsFiniteSet(UNION Slots)
  BY <1>1, <1>2, FS_UNION
<1> QED BY <1>3, FS_CardinalityType DEF Units, Total

\* A sum looks at nothing but the amounts of the accounts it is over.
LEMMA FrameTotal ==
  ASSUME NEW S, NEW f, NEW g, \A a \in S : f[a] = g[a]
  PROVE  Total(f, S) = Total(g, S)
<1>1. Units(f, S) = Units(g, S) BY DEF Units
<1> QED BY <1>1 DEF Total

\* Taking the accounts of T out of a sum takes their own sum out of it.
LEMMA SubsetTotal ==
  ASSUME NEW S, IsFiniteSet(S), NEW T \in SUBSET S, NEW f, \A a \in S : f[a] \in Nat
  PROVE  Total(f, S) = Total(f, T) + Total(f, S \ T)
<1>1. IsFiniteSet(T) /\ IsFiniteSet(S \ T) BY FS_Subset
<1>2. IsFiniteSet(Units(f, T)) /\ IsFiniteSet(Units(f, S \ T)) BY <1>1, UnitsFinite
<1>3. Units(f, S) = Units(f, T) \cup Units(f, S \ T) BY DEF Units
<1>4. Units(f, T) \cap Units(f, S \ T) = {} BY DEF Units
<1>5. Cardinality(Units(f, T) \cap Units(f, S \ T)) = 0 BY <1>4, FS_EmptySet
<1>6. Total(f, T) \in Nat /\ Total(f, S \ T) \in Nat BY <1>1, UnitsFinite
<1>7. Cardinality(Units(f, T) \cup Units(f, S \ T))
        = Cardinality(Units(f, T)) + Cardinality(Units(f, S \ T)) - 0
  BY <1>2, <1>5, FS_Union
<1>8. Total(f, S) = Total(f, T) + Total(f, S \ T) - 0
  BY <1>3, <1>7 DEF Total
<1> QED BY <1>6, <1>8

\* The sum over one account is its amount.
LEMMA SingleTotal ==
  ASSUME NEW a, NEW f, f[a] \in Nat
  PROVE  Total(f, {a}) = f[a]
<1>1. Units(f, {a}) = {a} \X (1 .. f[a]) BY DEF Units
<1>2. IsFiniteSet({a}) /\ Cardinality({a}) = 1 BY FS_Singleton
<1>3. IsFiniteSet(1 .. f[a]) /\ Cardinality(1 .. f[a]) = f[a] BY FS_Interval
<1>4. Cardinality({a} \X (1 .. f[a])) = Cardinality({a}) * Cardinality(1 .. f[a])
  BY <1>2, <1>3, FS_Product
<1>5. Cardinality({a}) * Cardinality(1 .. f[a]) = f[a]
  <2>1. 1 * f[a] = f[a] OBVIOUS
  <2> QED BY <2>1, <1>2, <1>3, Zenon
<1> QED BY <1>1, <1>4, <1>5 DEF Total

\* One account of a sum, apart from the others.
LEMMA SplitTotal ==
  ASSUME NEW S, IsFiniteSet(S), NEW a \in S, NEW f, \A b \in S : f[b] \in Nat
  PROVE  /\ Total(f, S) = Total(f, S \ {a}) + f[a]
         /\ Total(f, S \ {a}) \in Nat
         /\ IsFiniteSet(S \ {a})
<1>1. Total(f, S) = Total(f, {a}) + Total(f, S \ {a}) BY SubsetTotal
<1>2. Total(f, {a}) = f[a] BY SingleTotal
<1>3. IsFiniteSet(S \ {a}) BY FS_Subset
<1>4. Total(f, S \ {a}) \in Nat BY <1>3, UnitsFinite
<1> QED BY <1>1, <1>2, <1>3, <1>4

\* Changing one account's amount changes the sum by the same difference.
LEMMA UpdateTotal ==
  ASSUME NEW S, IsFiniteSet(S), NEW a \in S, NEW f, NEW g,
         \A b \in S : f[b] \in Nat, g[a] \in Nat,
         \A b \in S \ {a} : g[b] = f[b]
  PROVE  Total(g, S) = Total(f, S) + g[a] - f[a]
<1>1. Total(f, S) = Total(f, S \ {a}) + f[a] /\ Total(f, S \ {a}) \in Nat BY SplitTotal
<1>2. \A b \in S : g[b] \in Nat OBVIOUS
<1>3. Total(g, S) = Total(g, S \ {a}) + g[a] BY <1>2, SplitTotal
<1>4. Total(g, S \ {a}) = Total(f, S \ {a}) BY FrameTotal
<1> QED BY <1>1, <1>3, <1>4

\* One account changes its amount, enters or leaves the sum: its old contribution goes
\* and its new one comes.
LEMMA RecountTotal ==
  ASSUME NEW D, IsFiniteSet(D), NEW a \in D,
         NEW f \in [D -> Nat], NEW g \in [D -> Nat],
         NEW R \in SUBSET D, NEW Q \in SUBSET D,
         \A b \in D \ {a} : g[b] = f[b] /\ (b \in R <=> b \in Q)
  PROVE  Total(g, Q) = Total(f, R) - (IF a \in R THEN f[a] ELSE 0)
                                   + (IF a \in Q THEN g[a] ELSE 0)
<1> DEFINE rest == Total(f, R \ {a})
<1>0. IsFiniteSet(R) /\ IsFiniteSet(Q) /\ R \ {a} = Q \ {a} BY FS_Subset
<1>1. rest \in Nat /\ Total(f, R) = rest + (IF a \in R THEN f[a] ELSE 0)
  <2>1. CASE a \in R BY <1>0, <2>1, SplitTotal
  <2>2. CASE a \notin R
    <3>1. R \ {a} = R BY <2>2
    <3>2. Total(f, R) \in Nat BY <1>0, UnitsFinite
    <3> QED BY <2>2, <3>1, <3>2
  <2> QED BY <2>1, <2>2
<1>2. Total(g, R \ {a}) = rest BY FrameTotal
<1>3. Total(g, Q) = rest + (IF a \in Q THEN g[a] ELSE 0)
  <2>1. CASE a \in Q
    <3>1. Total(g, Q) = Total(g, Q \ {a}) + g[a] BY <1>0, <2>1, SplitTotal
    <3>2. Total(g, Q \ {a}) = rest BY <1>0, <1>2
    <3> QED BY <2>1, <3>1, <3>2
  <2>2. CASE a \notin Q
    <3>1. Q \ {a} = Q BY <2>2
    <3> QED BY <1>0, <1>1, <1>2, <2>2, <3>1
  <2> QED BY <2>1, <2>2
<1>4. (a \in R => f[a] \in Nat) /\ (a \in Q => g[a] \in Nat) OBVIOUS
<1> HIDE DEF rest
<1> QED BY <1>1, <1>3, <1>4

\* g is f after account x gave up m and account y gained k.
Shifted(f, g, S, x, m, y, k) ==
  \A a \in S : g[a] = f[a] - (IF a = x THEN m ELSE 0) + (IF a = y THEN k ELSE 0)

\* An account, or somebody outside the sum, gives up m, another one gains k.
LEMMA ShiftTotal ==
  ASSUME NEW S, IsFiniteSet(S), NEW f \in [S -> Nat], NEW g \in [S -> Nat],
         NEW x, NEW y, NEW m \in Nat, NEW k \in Nat, Shifted(f, g, S, x, m, y, k)
  PROVE  Total(g, S) = Total(f, S) - (IF x \in S THEN m ELSE 0) + (IF y \in S THEN k ELSE 0)
<1>0. \A a \in S : g[a] = f[a] - (IF a = x THEN m ELSE 0) + (IF a = y THEN k ELSE 0)
  BY DEF Shifted
<1> DEFINE h == [a \in S |-> IF a = x THEN g[a] ELSE f[a]]
<1>1. /\ \A a \in S : f[a] \in Nat /\ g[a] \in Nat /\ h[a] \in Nat
      /\ \A a \in S \ {x} : h[a] = f[a]
      /\ x \in S => h[x] = g[x]
      /\ \A a \in S \ {y} : g[a] = h[a]
  BY <1>0
<1> HIDE DEF h
<1>2. Total(h, S) = Total(f, S) + (IF x \in S THEN g[x] - f[x] ELSE 0)
  <2>1. CASE x \in S BY <1>1, <2>1, UpdateTotal
  <2>2. CASE x \notin S
    <3>1. Total(h, S) = Total(f, S) BY <1>1, <2>2, FrameTotal
    <3>2. Total(f, S) \in Nat BY <1>1, UnitsFinite
    <3> QED BY <2>2, <3>1, <3>2
  <2> QED BY <2>1, <2>2
<1>3. Total(g, S) = Total(h, S) + (IF y \in S THEN g[y] - h[y] ELSE 0)
  <2>1. CASE y \in S BY <1>1, <2>1, UpdateTotal
  <2>2. CASE y \notin S
    <3>1. Total(g, S) = Total(h, S) BY <1>1, <2>2, FrameTotal
    <3>2. Total(h, S) \in Nat BY <1>1, UnitsFinite
    <3> QED BY <2>2, <3>1, <3>2
  <2> QED BY <2>1, <2>2
<1>4. Total(f, S) \in Nat BY <1>1, UnitsFinite
<1>5. CASE x = y BY <1>0, <1>1, <1>2, <1>3, <1>4, <1>5
<1>6. CASE x # y
  <2>1. y \in S => h[y] = f[y] BY <1>1, <1>6
  <2> QED BY <1>0, <1>1, <1>2, <1>3, <1>4, <1>6, <2>1
<1> QED BY <1>5, <1>6

\* Moving n units from one account of a sum to another leaves the sum as it is.
LEMMA MoveTotal ==
  ASSUME NEW S, IsFiniteSet(S), NEW a \in S, NEW b \in S, NEW D, S \subseteq D,
         NEW f \in [D -> Nat], NEW n \in 0 .. f[a]
  PROVE  /\ Credit(Debit(f, a, n), b, n) \in [D -> Nat]
         /\ Total(Credit(Debit(f, a, n), b, n), S) = Total(f, S)
<1> DEFINE g == Debit(f, a, n)
           h == Credit(g, b, n)
<1>1. g \in [D -> Nat] /\ g[a] = f[a] - n /\ \A c \in S \ {a} : g[c] = f[c]
  BY DEF Debit
<1>2. h \in [D -> Nat] /\ h[b] = g[b] + n /\ \A c \in S \ {b} : h[c] = g[c]
  BY <1>1 DEF Credit
<1>3. Total(f, S) \in Nat BY UnitsFinite
<1> HIDE DEF g, h
<1>4. Total(g, S) = Total(f, S) + g[a] - f[a] BY <1>1, UpdateTotal
<1>5. Total(h, S) = Total(g, S) + h[b] - g[b] BY <1>1, <1>2, UpdateTotal
<1>6. g[a] \in Nat /\ g[b] \in Nat /\ f[a] \in Nat BY <1>1
<1>7. Total(h, S) = Total(f, S) BY <1>1, <1>2, <1>3, <1>4, <1>5, <1>6
<1> QED BY <1>2, <1>7 DEF g, h

\* A larger set of accounts holds at least as much.
LEMMA MonotoneTotal ==
  ASSUME NEW S, IsFiniteSet(S), NEW T \in SUBSET S, NEW f, \A a \in S : f[a] \in Nat
  PROVE  Total(f, T) <= Total(f, S)
<1>1. IsFiniteSet(T) /\ IsFiniteSet(S \ T) BY FS_Subset
<1>2. Total(f, T) \in Nat /\ Total(f, S \ T) \in Nat BY <1>1, UnitsFinite
<1> QED BY <1>2, SubsetTotal

\* If every account holds at most what it holds in g, the sum is at most g's.
LEMMA PointwiseTotal ==
  ASSUME NEW S, IsFiniteSet(S), NEW f, NEW g,
         \A a \in S : f[a] \in Nat /\ g[a] \in Nat /\ f[a] <= g[a]
  PROVE  Total(f, S) <= Total(g, S)
<1>1. Units(f, S) \subseteq Units(g, S) BY DEF Units
<1>2. IsFiniteSet(Units(g, S)) BY UnitsFinite
<1> QED BY <1>1, <1>2, FS_Subset DEF Total

\* If no account of S holds anything, neither does S.
LEMMA ZeroTotal ==
  ASSUME NEW S, NEW f, \A a \in S : f[a] = 0
  PROVE  Total(f, S) = 0
<1>1. Units(f, S) = {} BY DEF Units
<1> QED BY <1>1, FS_EmptySet DEF Total

-----------------------------------------------------------------------------
(* The token *)

\* The inductive invariant.  RootedWithinBalance needs the transfer guard alone; the votes
\* need SupplyConserved and RootedWithinBalance only to fit into their checkpoints.
TokenInv ==
  /\ TypeOK
  /\ supply <= MaxVotes
  /\ SupplyConserved
  /\ RootedWithinBalance
  /\ VotesFollowDelegation
  /\ TotalVotesCountRooted
  /\ VotesCountedOnce
  /\ SinceTracksRooting

\* A deployment starts with the whole supply in one balance, nothing rooted and no votes.
LEMMA InitTokensInv ==
  ASSUME InitTokens, governance \in Accounts \cup {Zero}, owner \in Accounts \cup {Zero}
  PROVE  TokenInv
<1> USE TokenAssumption DEF TokenAssumption
<1>1. TypeOK BY DEF InitTokens, TypeOK, InitializeAccepts
<1>2. supply \in Nat /\ supply <= MaxVotes BY DEF InitTokens, InitializeAccepts
<1>3. SupplyConserved
  <2> DEFINE nothing == [a \in Accounts |-> 0]
  <2>1. Total(nothing, Accounts) = 0 BY ZeroTotal
  <2>2. /\ \A a \in Accounts : nothing[a] \in Nat
        /\ nothing[Deployer] = 0
        /\ balance[Deployer] = supply
        /\ \A a \in Accounts \ {Deployer} : balance[a] = nothing[a]
    BY DEF InitTokens
  <2> HIDE DEF nothing
  <2>3. Total(balance, Accounts) = Total(nothing, Accounts) + balance[Deployer] - nothing[Deployer]
    BY <1>2, <2>2, UpdateTotal
  <2> QED BY <1>2, <2>1, <2>2, <2>3 DEF SupplyConserved
<1>4. RootedWithinBalance BY <1>2 DEF InitTokens, RootedWithinBalance
<1>5. VotesFollowDelegation
  <2> SUFFICES ASSUME NEW d \in Accounts
               PROVE  votes[d] = Total(soulboundBalances, Represented(d))
    BY DEF VotesFollowDelegation
  <2>1. \A a \in Represented(d) : soulboundBalances[a] = 0 BY DEF InitTokens, Represented
  <2> QED BY <2>1, ZeroTotal DEF InitTokens
<1>6. TotalVotesCountRooted
  <2>1. \A a \in Accounts : soulboundBalances[a] = 0 BY DEF InitTokens
  <2> QED BY <2>1, ZeroTotal DEF InitTokens, TotalVotesCountRooted
<1>7. SinceTracksRooting BY DEF InitTokens, SinceTracksRooting
<1>8. VotesCountedOnce
  <2>1. /\ \A a \in Accounts : votes[a] = 0
        /\ \A a \in Represented(Zero) : soulboundBalances[a] = 0
    BY DEF InitTokens, Represented
  <2>2. Total(votes, Accounts) = 0 /\ Total(soulboundBalances, Represented(Zero)) = 0
    BY <2>1, ZeroTotal
  <2> QED BY <2>2 DEF InitTokens, VotesCountedOnce
<1> QED BY <1>1, <1>2, <1>3, <1>4, <1>5, <1>6, <1>7, <1>8 DEF TokenInv

\* A deployment starts out sound.
LEMMA InitTokenInv == Init => TokenInv
BY InitTokensInv, TokenAssumption DEF Init, TokenAssumption

\* A transfer moves liquid tokens only: every balance still covers what was rooted.
LEMMA UpdateKeepsBalances ==
  ASSUME TokenInv, NEW from \in Accounts, NEW to \in Accounts, NEW n \in Nat,
         Update(from, to, n), supply' = supply
  PROVE  /\ balance' \in [Accounts -> Nat] /\ SupplyConserved'
         /\ \A a \in Accounts : soulboundBalances[a] <= balance'[a]
<1> USE TokenAssumption DEF TokenAssumption, TokenInv, TypeOK
<1>1. /\ soulboundBalances[from] <= balance[from]
      /\ n \in 0 .. balance[from]
      /\ n <= balance[from] - soulboundBalances[from]
  BY DEF Update, CanSpend, liquidBalanceOf, RootedWithinBalance
<1>2. balance' = Credit(Debit(balance, from, n), to, n) BY DEF Update, Moved
<1>3. balance' \in [Accounts -> Nat] /\ Total(balance', Accounts) = Total(balance, Accounts)
  BY <1>1, <1>2, MoveTotal
<1>4. \A a \in Accounts : balance'[a] >= IF a = from THEN balance[a] - n ELSE balance[a]
  BY <1>1, <1>2 DEF Credit, Debit
<1>5. \A a \in Accounts : soulboundBalances[a] <= balance'[a]
  BY <1>1, <1>3, <1>4 DEF RootedWithinBalance
<1> QED BY <1>3, <1>5 DEF SupplyConserved

\* Moving votes the way one account's rooted tokens or delegate change keeps every
\* delegate's votes equal to the rooted tokens it represents.
LEMMA VotesRecounted ==
  ASSUME TypeOK, VotesFollowDelegation, VotesCountedOnce, NEW a \in Accounts,
         soulboundBalances' \in [Accounts -> Nat],
         delegatee' \in [Accounts -> Accounts \cup {Zero}],
         \A b \in Accounts \ {a} : /\ soulboundBalances'[b] = soulboundBalances[b]
                                   /\ delegatee'[b] = delegatee[b],
         \A d \in Accounts :
           votes'[d] = votes[d] - (IF d = delegatee[a] THEN soulboundBalances[a] ELSE 0)
                                + (IF d = delegatee'[a] THEN soulboundBalances'[a] ELSE 0),
         votes' \in [Accounts -> Nat],
         totalVotes' = totalVotes + soulboundBalances'[a] - soulboundBalances[a]
  PROVE  VotesFollowDelegation' /\ VotesCountedOnce'
<1> USE TokenAssumption DEF TokenAssumption
<1>0. /\ soulboundBalances \in [Accounts -> Nat] /\ votes \in [Accounts -> Nat]
      /\ totalVotes \in Nat /\ soulboundBalances[a] \in Nat /\ soulboundBalances'[a] \in Nat
      /\ delegatee[a] \in Accounts \cup {Zero} /\ delegatee'[a] \in Accounts \cup {Zero}
  BY DEF TypeOK
<1>1. ASSUME NEW d
      PROVE  Total(soulboundBalances', Represented(d)')
               = Total(soulboundBalances, Represented(d))
                   - (IF d = delegatee[a] THEN soulboundBalances[a] ELSE 0)
                   + (IF d = delegatee'[a] THEN soulboundBalances'[a] ELSE 0)
  <2> DEFINE R == Represented(d)
             Q == Represented(d)'
  <2>1. R \in SUBSET Accounts /\ Q \in SUBSET Accounts BY DEF Represented
  <2>2. \A b \in Accounts \ {a} : b \in R <=> b \in Q BY DEF Represented
  <2>3. (a \in R <=> d = delegatee[a]) /\ (a \in Q <=> d = delegatee'[a])
    BY DEF Represented
  <2> HIDE DEF R, Q
  <2>4. Total(soulboundBalances', Q)
          = Total(soulboundBalances, R) - (IF a \in R THEN soulboundBalances[a] ELSE 0)
                                        + (IF a \in Q THEN soulboundBalances'[a] ELSE 0)
    BY <1>0, <2>1, <2>2, RecountTotal
  <2>5. Total(soulboundBalances', Q)
          = Total(soulboundBalances, R)
              - (IF d = delegatee[a] THEN soulboundBalances[a] ELSE 0)
              + (IF d = delegatee'[a] THEN soulboundBalances'[a] ELSE 0)
    BY <2>3, <2>4
  <2> QED BY <2>5 DEF R, Q
<1>2. VotesFollowDelegation'
  <2> SUFFICES ASSUME NEW d \in Accounts
               PROVE  votes'[d] = Total(soulboundBalances', Represented(d)')
    BY DEF VotesFollowDelegation
  <2>1. votes[d] = Total(soulboundBalances, Represented(d)) BY DEF VotesFollowDelegation
  <2> QED BY <1>0, <1>1, <2>1
<1>3. VotesCountedOnce'
  <2>1. Total(votes', Accounts)
          = Total(votes, Accounts)
              - (IF delegatee[a] \in Accounts THEN soulboundBalances[a] ELSE 0)
              + (IF delegatee'[a] \in Accounts THEN soulboundBalances'[a] ELSE 0)
    <3>1. Shifted(votes, votes', Accounts, delegatee[a], soulboundBalances[a],
                  delegatee'[a], soulboundBalances'[a])
      BY DEF Shifted
    <3> QED BY <1>0, <3>1, ShiftTotal
  <2>2. Total(soulboundBalances', Represented(Zero)')
          = Total(soulboundBalances, Represented(Zero))
              - (IF Zero = delegatee[a] THEN soulboundBalances[a] ELSE 0)
              + (IF Zero = delegatee'[a] THEN soulboundBalances'[a] ELSE 0)
    BY <1>1
  <2>3. Total(votes, Accounts) \in Nat /\ Total(soulboundBalances, Represented(Zero)) \in Nat
    <3>1. Represented(Zero) \subseteq Accounts BY DEF Represented
    <3>2. IsFiniteSet(Represented(Zero)) BY <3>1, FS_Subset
    <3> QED BY <1>0, <3>1, <3>2, UnitsFinite
  <2>4. Total(votes, Accounts) + Total(soulboundBalances, Represented(Zero)) = totalVotes
    BY DEF VotesCountedOnce
  <2>5. Total(votes', Accounts) + Total(soulboundBalances', Represented(Zero)') = totalVotes'
    BY <1>0, <2>1, <2>2, <2>3, <2>4
  <2> QED BY <2>5 DEF VotesCountedOnce
<1> QED BY <1>2, <1>3

\* What the rooting lemmas establish of the next state.
RootAccounting ==
  /\ soulboundBalances \in [Accounts -> Nat]
  /\ soulboundSince \in [Accounts -> Nat]
  /\ delegatee \in [Accounts -> Accounts \cup {Zero}]
  /\ votes \in [Accounts -> Nat]
  /\ totalVotes \in Nat
  /\ VotesFollowDelegation
  /\ TotalVotesCountRooted
  /\ VotesCountedOnce
  /\ SinceTracksRooting

\* The same, and the balances cover what is rooted.
RootParts == RootAccounting /\ RootedWithinBalance

\* Rooting liquid tokens, the account's first ones or more of them.
LEMMA RootKeepsAccounting ==
  ASSUME TokenInv, NEW a \in Accounts, NEW n \in Nat, n # 0, Root(a, n), now' = now
  PROVE  RootAccounting'
<1> USE TokenAssumption DEF TokenAssumption
<1>0. TypeOK /\ soulboundBalances[a] \in Nat BY DEF TokenInv, TypeOK
<1>1. /\ soulboundBalances' \in [Accounts -> Nat]
      /\ soulboundBalances'[a] = soulboundBalances[a] + n
      /\ \A b \in Accounts \ {a} : soulboundBalances'[b] = soulboundBalances[b]
  BY <1>0 DEF Root, Credit, TypeOK
<1>2. soulboundSince' \in [Accounts -> Nat] /\ SinceTracksRooting'
  BY <1>0, <1>1 DEF TokenInv, TypeOK, Root, SinceTracksRooting
<1>3. totalVotes' \in Nat /\ TotalVotesCountRooted'
  <2>1. Total(soulboundBalances', Accounts)
          = Total(soulboundBalances, Accounts) + soulboundBalances'[a] - soulboundBalances[a]
    <3>1. /\ \A b \in Accounts : soulboundBalances[b] \in Nat
          /\ soulboundBalances'[a] \in Nat
      BY <1>0, <1>1 DEF TypeOK
    <3> QED BY <1>1, <3>1, UpdateTotal
  <2> QED BY <1>0, <1>1, <2>1 DEF TokenInv, TypeOK, Root, TotalVotesCountRooted
<1>4. /\ delegatee' \in [Accounts -> Accounts \cup {Zero}]
      /\ votes' \in [Accounts -> Nat]
      /\ \A b \in Accounts \ {a} : delegatee'[b] = delegatee[b]
      /\ \A d \in Accounts :
           votes'[d] = votes[d] - (IF d = delegatee[a] THEN soulboundBalances[a] ELSE 0)
                                + (IF d = delegatee'[a] THEN soulboundBalances'[a] ELSE 0)
  <2>1. CASE delegatee[a] # Zero
    <3>1. delegatee' = delegatee /\ votes' = VotesMoved(Zero, delegatee[a], n)
      BY <2>1 DEF Root, MoveDelegateVotes
    <3> QED BY <1>0, <1>1, <3>1 DEF TypeOK, VotesMoved
  <2>2. CASE delegatee[a] = Zero
    <3>1. /\ delegatee' = [delegatee EXCEPT ![a] = a]
          /\ votes' = VotesMoved(Zero, a, soulboundBalances[a] + n)
      BY <2>2 DEF Root, MoveDelegateVotes
    <3> QED BY <1>0, <1>1, <2>2, <3>1 DEF TypeOK, VotesMoved
  <2> QED BY <2>1, <2>2
<1>5. VotesFollowDelegation' /\ VotesCountedOnce'
  <2>1. totalVotes' = totalVotes + soulboundBalances'[a] - soulboundBalances[a]
    BY <1>0, <1>1 DEF Root, TypeOK
  <2> QED BY <1>0, <1>1, <1>4, <2>1, VotesRecounted DEF TokenInv
<1> QED BY <1>1, <1>2, <1>3, <1>4, <1>5 DEF RootAccounting

\* Rooting what is liquid leaves every rooted part within its balance.
LEMMA RootKeepsInv ==
  ASSUME TokenInv, NEW a \in Accounts, NEW n \in Nat, n # 0, n <= liquidBalanceOf(a),
         Root(a, n), UNCHANGED <<balance, now>>
  PROVE  RootParts'
<1>1. RootAccounting' BY RootKeepsAccounting
<1>2. RootedWithinBalance'
  BY DEF TokenInv, TypeOK, Root, Credit, RootedWithinBalance, liquidBalanceOf
<1> QED BY <1>1, <1>2 DEF RootParts

\* Releasing rooted tokens takes their votes from the present delegate.
LEMMA ReleaseKeepsInv ==
  ASSUME TokenInv, NEW a \in Accounts, NEW n \in Nat, n # 0, n <= soulboundBalances[a],
         Release(a, n), UNCHANGED <<balance, now>>
  PROVE  RootParts'
<1> USE TokenAssumption DEF TokenAssumption
<1>0. TypeOK /\ soulboundBalances[a] \in Nat /\ balance[a] \in Nat BY DEF TokenInv, TypeOK
<1>1. /\ soulboundBalances' \in [Accounts -> Nat]
      /\ soulboundBalances'[a] = soulboundBalances[a] - n
      /\ \A b \in Accounts \ {a} : soulboundBalances'[b] = soulboundBalances[b]
  BY <1>0 DEF Release, Debit, TypeOK
<1>2. soulboundSince' \in [Accounts -> Nat] /\ SinceTracksRooting'
  <2>1. SinceTracksRooting BY DEF TokenInv
  <2>2. CASE soulboundBalances[a] = n
    BY <1>0, <1>1, <2>1, <2>2 DEF TypeOK, Release, SinceTracksRooting
  <2>3. CASE soulboundBalances[a] # n
    <3>1. soulboundSince' = soulboundSince /\ now' = now BY <2>3 DEF Release
    <3>2. soulboundBalances[a] # 0 /\ soulboundBalances'[a] # 0 BY <1>0, <1>1, <2>3
    <3> QED BY <1>0, <1>1, <2>1, <3>1, <3>2 DEF TypeOK, SinceTracksRooting
  <2> QED BY <2>2, <2>3
<1>3. totalVotes' \in Nat /\ TotalVotesCountRooted'
  <2>1. Total(soulboundBalances', Accounts)
          = Total(soulboundBalances, Accounts) + soulboundBalances'[a] - soulboundBalances[a]
    <3>1. /\ \A b \in Accounts : soulboundBalances[b] \in Nat
          /\ soulboundBalances'[a] \in Nat
      BY <1>0, <1>1 DEF TypeOK
    <3> QED BY <1>1, <3>1, UpdateTotal
  <2> QED BY <1>0, <1>1, <2>1 DEF TokenInv, TypeOK, Release, TotalVotesCountRooted
<1>4. RootedWithinBalance'
  BY <1>0, <1>1 DEF TokenInv, TypeOK, RootedWithinBalance
<1>5. /\ delegatee' = delegatee
      /\ votes' \in [Accounts -> Nat]
      /\ \A d \in Accounts :
           votes'[d] = votes[d] - (IF d = delegatee[a] THEN soulboundBalances[a] ELSE 0)
                                + (IF d = delegatee'[a] THEN soulboundBalances'[a] ELSE 0)
  <2>1. /\ delegatee' = delegatee
        /\ votes' = VotesMoved(delegatee[a], Zero, n)
        /\ delegatee[a] \in Accounts => n <= votes[delegatee[a]]
    BY DEF Release, MoveDelegateVotes, VotesMovable
  <2> QED BY <1>0, <1>1, <2>1 DEF TypeOK, VotesMoved
<1>6. VotesFollowDelegation' /\ VotesCountedOnce'
  <2>1. totalVotes' = totalVotes + soulboundBalances'[a] - soulboundBalances[a]
    BY <1>0, <1>1 DEF Release, TypeOK
  <2> QED BY <1>0, <1>1, <1>5, <2>1, VotesRecounted DEF TokenInv, TypeOK
<1> QED BY <1>0, <1>1, <1>2, <1>3, <1>4, <1>5, <1>6 DEF RootParts, RootAccounting, TypeOK

\* Delegating moves everything the account has rooted, to nobody included.
LEMMA DelegateKeepsInv ==
  ASSUME TokenInv, NEW a \in Accounts, NEW d \in Accounts \cup {Zero}, Delegate(a, d)
  PROVE  RootParts'
<1> USE TokenAssumption DEF TokenAssumption
<1>0. TypeOK /\ soulboundBalances[a] \in Nat BY DEF TokenInv, TypeOK
<1>1. /\ UNCHANGED <<balance, soulboundBalances, soulboundSince, totalVotes, now>>
      /\ delegatee' = [delegatee EXCEPT ![a] = d]
      /\ votes' = VotesMoved(delegatee[a], d, soulboundBalances[a])
      /\ delegatee[a] # d /\ delegatee[a] \in Accounts
           => soulboundBalances[a] <= votes[delegatee[a]]
  BY DEF Delegate, MoveDelegateVotes, VotesMovable, erc20Vars
<1>2. /\ delegatee' \in [Accounts -> Accounts \cup {Zero}]
      /\ votes' \in [Accounts -> Nat]
      /\ \A b \in Accounts \ {a} : delegatee'[b] = delegatee[b]
      /\ \A e \in Accounts :
           votes'[e] = votes[e] - (IF e = delegatee[a] THEN soulboundBalances[a] ELSE 0)
                                + (IF e = delegatee'[a] THEN soulboundBalances'[a] ELSE 0)
  BY <1>0, <1>1 DEF TypeOK, VotesMoved
<1>3. VotesFollowDelegation' /\ VotesCountedOnce'
  <2>1. totalVotes' = totalVotes + soulboundBalances'[a] - soulboundBalances[a]
    BY <1>0, <1>1 DEF TypeOK
  <2>2. /\ \A b \in Accounts : soulboundBalances'[b] = soulboundBalances[b]
        /\ soulboundBalances' \in [Accounts -> Nat]
    BY <1>0, <1>1 DEF TypeOK
  <2> QED BY <1>0, <1>2, <2>1, <2>2, VotesRecounted DEF TokenInv
<1>4. RootedWithinBalance' /\ TotalVotesCountRooted' /\ SinceTracksRooting'
  BY <1>1 DEF TokenInv, RootedWithinBalance, TotalVotesCountRooted, SinceTracksRooting
<1> QED BY <1>0, <1>1, <1>2, <1>3, <1>4 DEF RootParts, RootAccounting, TypeOK

\* A transfer keeps the invariant, whatever happens to the allowances.
LEMMA TransferKeepsTokenInv ==
  ASSUME TokenInv, NEW from \in Accounts, NEW to \in Accounts, NEW n \in Nat,
         Update(from, to, n), UNCHANGED <<supply, rootVars, accessVars, now>>,
         allowance' \in [Accounts -> [Accounts -> Nat]]
  PROVE  TokenInv'
<1>1. balance' \in [Accounts -> Nat] /\ SupplyConserved' /\ RootedWithinBalance'
  BY UpdateKeepsBalances DEF rootVars, RootedWithinBalance
<1>2. VotesFollowDelegation' /\ VotesCountedOnce'
  BY DEF TokenInv, VotesFollowDelegation, VotesCountedOnce, Represented, rootVars
<1>3. TypeOK' BY <1>1 DEF TokenInv, TypeOK, rootVars, accessVars
<1> QED
  BY <1>1, <1>2, <1>3 DEF TokenInv, TotalVotesCountRooted, SinceTracksRooting, rootVars

\* A rooting, release or delegation that establishes RootParts keeps the invariant.
LEMMA RootPartsKeepTokenInv ==
  ASSUME TokenInv, RootParts', UNCHANGED <<erc20Vars, accessVars, now>>
  PROVE  TokenInv'
BY DEF TokenInv, RootParts, RootAccounting, TypeOK, erc20Vars, accessVars, SupplyConserved

\* A step that touches neither balances nor rooted tokens keeps the invariant.
LEMMA OtherKeepsTokenInv ==
  ASSUME TokenInv, TypeOK', UNCHANGED <<supply, balance, rootVars>>, now' >= now
  PROVE  TokenInv'
<1>1. VotesFollowDelegation' /\ VotesCountedOnce'
  BY DEF TokenInv, VotesFollowDelegation, VotesCountedOnce, Represented, rootVars
<1>2. SinceTracksRooting' BY DEF TokenInv, TypeOK, SinceTracksRooting, rootVars
<1> QED
  BY <1>1, <1>2 DEF TokenInv, SupplyConserved, RootedWithinBalance,
                    TotalVotesCountRooted, rootVars

\* Every call of an account on its own behalf keeps the invariant.
LEMMA HolderStepKeepsInv ==
  ASSUME TokenInv, NEW sender \in Accounts, HolderStep(sender)
  PROVE  TokenInv'
<1> USE TokenAssumption DEF TokenAssumption
<1>0. TypeOK BY DEF TokenInv
<1>1. ASSUME NEW to \in Accounts, NEW n \in 0 .. supply, Transfer(sender, to, n)
      PROVE  TokenInv'
  <2>1. n \in Nat BY <1>0 DEF TypeOK
  <2>2. allowance' \in [Accounts -> [Accounts -> Nat]] BY <1>0, <1>1 DEF TypeOK, Transfer
  <2> QED BY <1>1, <2>1, <2>2, TransferKeepsTokenInv DEF Transfer
<1>2. ASSUME NEW spender \in Accounts, NEW n \in Approvals, Approve(sender, spender, n)
      PROVE  TokenInv'
  <2>1. TypeOK' BY <1>0, <1>2 DEF TypeOK, Approve, rootVars, accessVars
  <2> QED BY <1>0, <1>2, <2>1, OtherKeepsTokenInv DEF Approve, TypeOK
<1>3. ASSUME NEW from \in Accounts, NEW to \in Accounts, NEW n \in 0 .. supply,
             TransferFrom(sender, from, to, n)
      PROVE  TokenInv'
  <2>1. n \in Nat BY <1>0 DEF TypeOK
  <2>2. allowance' \in [Accounts -> [Accounts -> Nat]]
    BY <1>0, <1>3, <2>1 DEF TypeOK, TransferFrom
  <2> QED BY <1>3, <2>1, <2>2, TransferKeepsTokenInv DEF TransferFrom
<1>4. ASSUME NEW n \in 0 .. supply, Soulbound(sender, n)
      PROVE  TokenInv'
  <2>1. n \in Nat BY <1>0 DEF TypeOK
  <2>2. RootParts' BY <1>4, <2>1, RootKeepsInv DEF Soulbound, erc20Vars
  <2> QED BY <1>4, <2>2, RootPartsKeepTokenInv DEF Soulbound
<1>5. ASSUME NEW d \in Accounts \cup {Zero}, Delegate(sender, d)
      PROVE  TokenInv'
  <2>1. RootParts' BY <1>5, DelegateKeepsInv
  <2> QED BY <1>5, <2>1, RootPartsKeepTokenInv DEF Delegate
<1> QED BY <1>1, <1>2, <1>3, <1>4, <1>5 DEF HolderStep

\* Every call of the governance or the owner keeps the invariant.
LEMMA ControlStepKeepsInv ==
  ASSUME TokenInv, NEW sender \in Accounts, ControlStep(sender)
  PROVE  TokenInv'
<1> USE TokenAssumption DEF TokenAssumption
<1>0. TypeOK BY DEF TokenInv
<1>1. ASSUME NEW a \in Accounts, NEW n \in 0 .. supply, SoulboundFor(sender, a, n)
      PROVE  TokenInv'
  <2>1. n \in Nat BY <1>0 DEF TypeOK
  <2>2. RootParts' BY <1>1, <2>1, RootKeepsInv DEF SoulboundFor, erc20Vars
  <2> QED BY <1>1, <2>2, RootPartsKeepTokenInv DEF SoulboundFor
<1>2. ASSUME NEW a \in Accounts, NEW n \in 0 .. supply, Unsoulbound(sender, a, n)
      PROVE  TokenInv'
  <2>1. n \in Nat BY <1>0 DEF TypeOK
  <2>2. RootParts' BY <1>2, <2>1, ReleaseKeepsInv DEF Unsoulbound, erc20Vars
  <2> QED BY <1>2, <2>2, RootPartsKeepTokenInv DEF Unsoulbound
<1>3. ASSUME NEW dao \in Controllers, SetGovernance(sender, dao)
      PROVE  TokenInv'
  <2>1. TypeOK' BY <1>0, <1>3 DEF TypeOK, SetGovernance, erc20Vars, rootVars
  <2> QED BY <1>0, <1>3, <2>1, OtherKeepsTokenInv DEF SetGovernance, erc20Vars, TypeOK
<1>4. ASSUME NEW newOwner \in Controllers, TransferOwnership(sender, newOwner)
      PROVE  TokenInv'
  <2>1. TypeOK' BY <1>0, <1>4 DEF TypeOK, TransferOwnership, erc20Vars, rootVars
  <2> QED BY <1>0, <1>4, <2>1, OtherKeepsTokenInv DEF TransferOwnership, erc20Vars, TypeOK
<1>5. ASSUME RenounceOwnership(sender)
      PROVE  TokenInv'
  <2>1. TypeOK' BY <1>0, <1>5 DEF TypeOK, RenounceOwnership, erc20Vars, rootVars
  <2> QED BY <1>0, <1>5, <2>1, OtherKeepsTokenInv DEF RenounceOwnership, erc20Vars, TypeOK
<1> QED BY <1>1, <1>2, <1>3, <1>4, <1>5 DEF ControlStep

\* Every step of the contract, and every step that leaves it alone, keeps the invariant.
LEMMA NextKeepsTokenInv == TokenInv /\ [Next]_tokenVars => TokenInv'
<1> SUFFICES ASSUME TokenInv, [Next]_tokenVars PROVE TokenInv' OBVIOUS
<1>0. TypeOK BY DEF TokenInv
<1>1. ASSUME NEW sender \in Accounts, HolderStep(sender) PROVE TokenInv'
  BY <1>1, HolderStepKeepsInv
<1>2. ASSUME NEW sender \in Accounts, ControlStep(sender) PROVE TokenInv'
  BY <1>2, ControlStepKeepsInv
<1>3. CASE Tick
  <2>1. TypeOK' BY <1>0, <1>3 DEF TypeOK, Tick, erc20Vars, rootVars, accessVars
  <2> QED BY <1>0, <1>3, <2>1, OtherKeepsTokenInv DEF Tick, TypeOK, erc20Vars
<1>4. CASE UNCHANGED tokenVars
  <2>1. TypeOK' BY <1>0, <1>4 DEF TypeOK, tokenVars, erc20Vars, rootVars, accessVars
  <2> QED BY <1>0, <1>4, <2>1, OtherKeepsTokenInv DEF tokenVars, TypeOK, erc20Vars
<1> QED BY <1>1, <1>2, <1>3, <1>4 DEF Next

-----------------------------------------------------------------------------
\* The votes of a delegate and the rooted tokens it does not represent share the total.
LEMMA VotesShareTotal ==
  ASSUME TokenInv, NEW a \in Accounts, NEW d \in Accounts
  PROVE  /\ votes[d] <= totalVotes
         /\ delegatee[a] = d => soulboundBalances[a] <= votes[d]
         /\ delegatee[a] # d => votes[d] + soulboundBalances[a] <= totalVotes
<1> USE TokenAssumption DEF TokenAssumption
<1> DEFINE R == Represented(d)
<1>1. /\ R \subseteq Accounts
      /\ \A b \in Accounts : soulboundBalances[b] \in Nat
      /\ votes[d] = Total(soulboundBalances, R)
      /\ totalVotes = Total(soulboundBalances, Accounts)
  BY DEF TokenInv, TypeOK, Represented, VotesFollowDelegation, TotalVotesCountRooted
<1>2. IsFiniteSet(R) BY <1>1, FS_Subset
<1>3. a \in R <=> delegatee[a] = d BY DEF Represented
<1> HIDE DEF R
<1>4. votes[d] <= totalVotes BY <1>1, MonotoneTotal
<1>5. votes[d] \in Nat /\ totalVotes \in Nat /\ soulboundBalances[a] \in Nat
  BY DEF TokenInv, TypeOK
<1>6. CASE delegatee[a] = d
  <2>1. a \in R /\ \A b \in R : soulboundBalances[b] \in Nat BY <1>1, <1>3, <1>6
  <2>2. /\ Total(soulboundBalances, R) = Total(soulboundBalances, R \ {a}) + soulboundBalances[a]
        /\ Total(soulboundBalances, R \ {a}) \in Nat
    BY <1>2, <2>1, SplitTotal
  <2> QED BY <1>1, <1>4, <1>5, <1>6, <2>2
<1>7. CASE delegatee[a] # d
  <2>1. R \in SUBSET (Accounts \ {a}) BY <1>1, <1>3, <1>7
  <2>2. /\ Total(soulboundBalances, Accounts)
             = Total(soulboundBalances, Accounts \ {a}) + soulboundBalances[a]
        /\ Total(soulboundBalances, Accounts \ {a}) \in Nat
        /\ IsFiniteSet(Accounts \ {a})
    BY <1>1, SplitTotal
  <2>3. Total(soulboundBalances, R) <= Total(soulboundBalances, Accounts \ {a})
    BY <1>1, <2>1, <2>2, MonotoneTotal
  <2> QED BY <1>1, <1>4, <1>5, <1>7, <2>2, <2>3
<1> QED BY <1>6, <1>7

\* Rooting what is liquid keeps the rooted total within the supply.
LEMMA RootingFits ==
  ASSUME TokenInv, NEW a \in Accounts, NEW n \in 0 .. liquidBalanceOf(a)
  PROVE  totalVotes + n <= MaxVotes
<1> USE TokenAssumption DEF TokenAssumption
<1> DEFINE more == Credit(soulboundBalances, a, n)
<1>1. /\ balance[a] \in Nat /\ soulboundBalances[a] \in Nat
      /\ n \in Nat /\ soulboundBalances[a] + n <= balance[a]
  BY DEF TokenInv, TypeOK, RootedWithinBalance, liquidBalanceOf
<1>2. /\ more[a] = soulboundBalances[a] + n
      /\ \A b \in Accounts \ {a} : more[b] = soulboundBalances[b]
      /\ \A b \in Accounts : soulboundBalances[b] \in Nat /\ balance[b] \in Nat
      /\ \A b \in Accounts : soulboundBalances[b] <= balance[b]
  BY <1>1 DEF TokenInv, TypeOK, Credit, RootedWithinBalance
<1> HIDE DEF more
<1>3. more[a] \in Nat BY <1>1, <1>2
<1>4. Total(more, Accounts)
        = Total(soulboundBalances, Accounts) + more[a] - soulboundBalances[a]
  BY <1>2, <1>3, UpdateTotal
<1>5. \A b \in Accounts : more[b] \in Nat /\ balance[b] \in Nat /\ more[b] <= balance[b]
  BY <1>1, <1>2
<1>6. Total(more, Accounts) <= Total(balance, Accounts) BY <1>5, PointwiseTotal
<1>7. /\ Total(soulboundBalances, Accounts) = totalVotes /\ totalVotes \in Nat
      /\ Total(balance, Accounts) = supply /\ supply \in Nat /\ supply <= MaxVotes
  BY DEF TokenInv, TypeOK, SupplyConserved, TotalVotesCountRooted
<1> QED BY <1>1, <1>2, <1>4, <1>6, <1>7

\* The voting arithmetic never stands in the way of a call that is otherwise allowed.
LEMMA TokenInvVotes == TokenInv => VotingNeverReverts
<1> SUFFICES ASSUME TokenInv, NEW a \in Accounts
             PROVE  /\ \A n \in 0 .. liquidBalanceOf(a) :
                         LET voter == IF delegatee[a] = Zero THEN a ELSE delegatee[a]
                             gained == IF delegatee[a] = Zero
                                       THEN soulboundBalances[a] + n ELSE n
                         IN  totalVotes + n <= MaxVotes /\ VotesMovable(Zero, voter, gained)
                    /\ soulboundBalances[a] <= totalVotes
                    /\ \A d \in Accounts \cup {Zero} :
                         VotesMovable(delegatee[a], d, soulboundBalances[a])
  BY DEF VotingNeverReverts
<1> USE TokenAssumption DEF TokenAssumption
<1>1. /\ votes \in [Accounts -> Nat] /\ totalVotes \in Nat
      /\ soulboundBalances[a] \in Nat /\ balance[a] \in Nat
      /\ soulboundBalances[a] <= balance[a]
      /\ delegatee[a] \in Accounts \cup {Zero}
  BY DEF TokenInv, TypeOK, RootedWithinBalance
<1>2. totalVotes <= MaxVotes
  <2>1. 0 \in 0 .. liquidBalanceOf(a) BY <1>1 DEF liquidBalanceOf
  <2> QED BY <1>1, <2>1, RootingFits
<1>3. soulboundBalances[a] <= totalVotes BY <1>1, VotesShareTotal
<1>4. ASSUME NEW d \in Accounts \cup {Zero}
      PROVE  VotesMovable(delegatee[a], d, soulboundBalances[a])
  <2>1. CASE d \in Accounts
    BY <1>1, <1>2, <2>1, VotesShareTotal DEF VotesMovable
  <2>2. CASE d = Zero
    BY <1>1, <1>2, <2>2, VotesShareTotal DEF VotesMovable
  <2> QED BY <2>1, <2>2
<1>5. ASSUME NEW n \in 0 .. liquidBalanceOf(a)
      PROVE  /\ totalVotes + n <= MaxVotes
             /\ delegatee[a] = Zero => VotesMovable(Zero, a, soulboundBalances[a] + n)
             /\ delegatee[a] # Zero => VotesMovable(Zero, delegatee[a], n)
  <2>1. totalVotes + n <= MaxVotes /\ n \in Nat
    BY <1>1, RootingFits DEF liquidBalanceOf
  <2>2. delegatee[a] = Zero => votes[a] + (soulboundBalances[a] + n) <= MaxVotes
    BY <1>1, <2>1, VotesShareTotal
  <2>3. delegatee[a] # Zero => votes[delegatee[a]] + n <= MaxVotes
    BY <1>1, <2>1, VotesShareTotal
  <2> QED BY <1>1, <2>1, <2>2, <2>3 DEF VotesMovable
<1> QED BY <1>3, <1>4, <1>5

\* The token's state has its types, and all named invariants, in every reachable state.
THEOREM TokenInvariant == Spec => []TokenInv
BY InitTokenInv, NextKeepsTokenInv, PTL DEF Spec

\* Every variable of the contract keeps its type.
THEOREM TokenTypeCorrect == Spec => []TypeOK
<1>1. TokenInv => TypeOK BY DEF TokenInv
<1> QED BY <1>1, TokenInvariant, PTL

\* No sequence of transfers, with or without allowances, makes or loses tokens.
THEOREM TokenSupplyConserved == Spec => []SupplyConserved
<1>1. TokenInv => SupplyConserved BY DEF TokenInv
<1> QED BY <1>1, TokenInvariant, PTL

\* The rooted part of an account is always part of its balance.
THEOREM TokenRootedWithinBalance == Spec => []RootedWithinBalance
<1>1. TokenInv => RootedWithinBalance BY DEF TokenInv
<1> QED BY <1>1, TokenInvariant, PTL

\* Every delegate's votes are the rooted tokens of the accounts it represents.
THEOREM TokenVotesFollowDelegation == Spec => []VotesFollowDelegation
<1>1. TokenInv => VotesFollowDelegation BY DEF TokenInv
<1> QED BY <1>1, TokenInvariant, PTL

\* Every rooted token votes through one delegate or through none.
THEOREM TokenVotesCountedOnce == Spec => []VotesCountedOnce
<1>1. TokenInv => VotesCountedOnce BY DEF TokenInv
<1> QED BY <1>1, TokenInvariant, PTL

\* What is liquid can be rooted and what is rooted can be released or delegated anew: the
\* checkpoint arithmetic reverts none of it.
THEOREM TokenVotingNeverReverts == Spec => []VotingNeverReverts
BY TokenInvVotes, TokenInvariant, PTL

-----------------------------------------------------------------------------
\* What ContinuousPeriod says of one step.
PeriodKept ==
  \A a \in Accounts : soulboundSince'[a] # soulboundSince[a] =>
    soulboundBalances[a] = 0 \/ soulboundBalances'[a] = 0

\* Only a rooting from nothing and a release of everything change the start of the period.
LEMMA NextKeepsPeriod == TokenInv /\ [Next]_tokenVars => [PeriodKept]_tokenVars
<1> SUFFICES ASSUME TokenInv, Next PROVE PeriodKept OBVIOUS
<1>1. ASSUME NEW a \in Accounts, NEW n \in 0 .. supply, n # 0, Root(a, n) PROVE PeriodKept
  <2>1. \/ soulboundSince' = soulboundSince
        \/ soulboundSince[a] = 0 /\ soulboundSince' = [soulboundSince EXCEPT ![a] = now]
    BY <1>1 DEF Root
  <2> QED BY <2>1 DEF PeriodKept, TokenInv, TypeOK, SinceTracksRooting
<1>2. ASSUME NEW a \in Accounts, NEW n \in 0 .. supply, Release(a, n) PROVE PeriodKept
  <2>1. \/ soulboundSince' = soulboundSince
        \/ /\ soulboundBalances[a] = n
           /\ soulboundSince' = [soulboundSince EXCEPT ![a] = 0]
           /\ soulboundBalances' = Debit(soulboundBalances, a, n)
    BY <1>2 DEF Release
  <2> QED BY <2>1 DEF PeriodKept, TokenInv, TypeOK, Debit
<1>3. soulboundSince' = soulboundSince => PeriodKept BY DEF PeriodKept
<1>4. ASSUME NEW sender \in Accounts, HolderStep(sender) PROVE PeriodKept
  BY <1>1, <1>3, <1>4
     DEF HolderStep, Transfer, Approve, TransferFrom, Soulbound, Delegate, rootVars
<1>5. ASSUME NEW sender \in Accounts, ControlStep(sender) PROVE PeriodKept
  BY <1>1, <1>2, <1>3, <1>5
     DEF ControlStep, SoulboundFor, Unsoulbound, SetGovernance, TransferOwnership,
         RenounceOwnership, rootVars
<1>6. CASE Tick BY <1>3, <1>6 DEF Tick, rootVars
<1> QED BY <1>4, <1>5, <1>6 DEF Next

\* No step restarts, shifts or cuts short the period of an account that keeps a rooting.
THEOREM TokenContinuousPeriod == Spec => ContinuousPeriod
<1>1. Spec => [][PeriodKept]_tokenVars BY NextKeepsPeriod, TokenInvariant, PTL DEF Spec
<1> QED BY <1>1 DEF ContinuousPeriod, PeriodKept

-----------------------------------------------------------------------------
\* A transfer is a step between two liquid pockets.
LEMMA UpdateIsSend ==
  ASSUME TokenInv, NEW from \in Accounts, NEW to \in Accounts, NEW n \in Nat,
         Update(from, to, n), UNCHANGED soulboundBalances
  PROVE  Ledger!Send(from, to, n)
BY DEF TokenInv, TypeOK, Update, CanSpend, Moved, liquidBalanceOf, Credit, Debit, Ledger!Send,
       Ledger!Credit, Ledger!Debit

\* Rooting is a step from the liquid to the rooted pocket of one account.
LEMMA RootIsBind ==
  ASSUME TokenInv, NEW a \in Accounts, NEW n \in Nat, n <= liquidBalanceOf(a), Root(a, n),
         UNCHANGED balance
  PROVE  Ledger!Bind(a, n)
<1>1. /\ balance' = balance /\ balance \in [Accounts -> Nat]
      /\ soulboundBalances \in [Accounts -> Nat]
      /\ soulboundBalances' = [soulboundBalances EXCEPT ![a] = @ + n]
  BY DEF TokenInv, TypeOK, Root, Credit
<1>2. \A b \in Accounts :
        balance'[b] - soulboundBalances'[b]
          = balance[b] - soulboundBalances[b] - (IF b = a THEN n ELSE 0)
  BY <1>1
<1>3. [b \in Accounts |-> balance'[b] - soulboundBalances'[b]]
        = [[b \in Accounts |-> balance[b] - soulboundBalances[b]] EXCEPT ![a] = @ - n]
  BY <1>1, <1>2
<1> QED BY <1>1, <1>3
  DEF liquidBalanceOf, Ledger!Bind, Ledger!Credit, Ledger!Debit

\* Releasing is a step back.
LEMMA ReleaseIsUnbind ==
  ASSUME TokenInv, NEW a \in Accounts, NEW n \in Nat, n <= soulboundBalances[a], Release(a, n),
         UNCHANGED balance
  PROVE  Ledger!Unbind(a, n)
<1>1. /\ balance' = balance /\ balance \in [Accounts -> Nat]
      /\ soulboundBalances \in [Accounts -> Nat]
      /\ soulboundBalances' = [soulboundBalances EXCEPT ![a] = @ - n]
  BY DEF TokenInv, TypeOK, Release, Debit
<1>2. \A b \in Accounts :
        balance'[b] - soulboundBalances'[b]
          = balance[b] - soulboundBalances[b] + (IF b = a THEN n ELSE 0)
  BY <1>1
<1>3. [b \in Accounts |-> balance'[b] - soulboundBalances'[b]]
        = [[b \in Accounts |-> balance[b] - soulboundBalances[b]] EXCEPT ![a] = @ + n]
  BY <1>1, <1>2
<1> QED BY <1>1, <1>3
  DEF liquidBalanceOf, Ledger!Unbind, Ledger!Credit, Ledger!Debit

\* A step of the two-pocket ledger under the refinement mapping, or a stutter.
LedgerStep == [Ledger!Next]_(Ledger!pockets)

\* A send, bind or unbind within the account's pockets is a step of the ledger.
LEMMA PocketStep ==
  ASSUME NEW a \in Accounts, NEW b \in Accounts, NEW n \in Nat,
         \/ n <= liquidBalanceOf(a) /\ (Ledger!Send(a, b, n) \/ Ledger!Bind(a, n))
         \/ n <= soulboundBalances[a] /\ Ledger!Unbind(a, n),
         TypeOK
  PROVE  LedgerStep
<1>1. n <= liquidBalanceOf(a) => n \in 0 .. [c \in Accounts |-> liquidBalanceOf(c)][a]
  BY DEF TypeOK, liquidBalanceOf
<1>2. n <= soulboundBalances[a] => n \in 0 .. soulboundBalances[a]
  BY DEF TypeOK
<1> QED BY <1>1, <1>2 DEF LedgerStep, Ledger!Next

\* Every step of the contract is a step of the two-pocket ledger or leaves both alone.
LEMMA TokenStepIsLedgerStep == TokenInv /\ [Next]_tokenVars => LedgerStep
<1> SUFFICES ASSUME TokenInv, [Next]_tokenVars PROVE LedgerStep OBVIOUS
<1>0. supply \in Nat BY DEF TokenInv, TypeOK
<1>1. ASSUME NEW from \in Accounts, NEW to \in Accounts, NEW n \in 0 .. supply,
             Update(from, to, n), UNCHANGED soulboundBalances
      PROVE  LedgerStep
  <2>1. n \in Nat /\ n <= liquidBalanceOf(from) BY <1>0, <1>1 DEF Update, CanSpend
  <2> QED BY <1>1, <2>1, UpdateIsSend, PocketStep DEF TokenInv
<1>2. ASSUME NEW a \in Accounts, NEW n \in 0 .. supply, n <= liquidBalanceOf(a), Root(a, n),
             UNCHANGED balance
      PROVE  LedgerStep
  <2>1. n \in Nat BY <1>0
  <2> QED BY <1>2, <2>1, RootIsBind, PocketStep DEF TokenInv
<1>3. ASSUME NEW a \in Accounts, NEW n \in 0 .. supply, n <= soulboundBalances[a],
             Release(a, n), UNCHANGED balance
      PROVE  LedgerStep
  <2>1. n \in Nat BY <1>0
  <2> QED BY <1>3, <2>1, ReleaseIsUnbind, PocketStep DEF TokenInv
<1>4. ASSUME UNCHANGED <<balance, soulboundBalances>> PROVE LedgerStep
  BY <1>4 DEF LedgerStep, Ledger!pockets, liquidBalanceOf
<1>5. ASSUME NEW sender \in Accounts, HolderStep(sender) PROVE LedgerStep
  BY <1>1, <1>2, <1>4, <1>5
     DEF HolderStep, Transfer, Approve, TransferFrom, Soulbound, Delegate, rootVars, erc20Vars
<1>6. ASSUME NEW sender \in Accounts, ControlStep(sender) PROVE LedgerStep
  BY <1>2, <1>3, <1>4, <1>6
     DEF ControlStep, SoulboundFor, Unsoulbound, SetGovernance, TransferOwnership,
         RenounceOwnership, rootVars, erc20Vars
<1>7. CASE Tick BY <1>4, <1>7 DEF Tick, rootVars, erc20Vars
<1>8. CASE UNCHANGED tokenVars BY <1>4, <1>8 DEF tokenVars, rootVars, erc20Vars
<1> QED BY <1>5, <1>6, <1>7, <1>8 DEF Next

\* A deployment starts as a ledger with the supply in one liquid pocket.
LEMMA InitIsLedgerInit == Init => Ledger!Init
<1> SUFFICES ASSUME Init PROVE Ledger!Init OBVIOUS
<1> USE TokenAssumption DEF TokenAssumption
<1>1. [a \in Accounts |-> liquidBalanceOf(a)]
        = [a \in Accounts |-> IF a = Deployer THEN supply ELSE 0]
  <2>1. supply \in Nat BY DEF Init, InitTokens
  <2> QED BY <2>1 DEF Init, InitTokens, liquidBalanceOf
<1>2. supply \in Supplies /\ soulboundBalances = [a \in Accounts |-> 0] BY DEF Init, InitTokens
<1> QED BY <1>1, <1>2 DEF Ledger!Init

\* The contract implements the two-pocket ledger: for no supply, set of accounts or
\* sequence of calls does a rooted token leave its account.
THEOREM TokenImplementsLedger == Spec => ImplementsLedger
<1>1. TokenInv /\ [Next]_tokenVars => LedgerStep BY TokenStepIsLedgerStep
<1>2. Spec => [][Ledger!Next]_(Ledger!pockets)
  BY <1>1, TokenInvariant, PTL DEF Spec, LedgerStep
<1> QED BY <1>2, InitIsLedgerInit, PTL DEF Spec, ImplementsLedger, Ledger!Spec
=============================================================================
