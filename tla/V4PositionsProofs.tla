-------------------------- MODULE V4PositionsProofs --------------------------
(***************************************************************************)
(* What V4Positions promises its users, proved for every number of tabs,   *)
(* positions and trades, every price and every amount.                     *)
(***************************************************************************)
EXTENDS V4Positions, SequenceTheorems, TLAPS

Position ==
  [pool : Pools, owner : Accounts \cup {Manager}, liquidity : Nat, fees : Nat, minter : Sessions]

States ==
  [phase : {"idle"}]
  \cup [phase : {"quoted", "allowed0", "allowed1"}, pool : Pools, budget : Nat \X Nat,
        liquidity : Nat, maximum : Nat \X Nat]
  \cup [phase : {"minted"}, pool : Pools, receipt : Seq(Log)]
  \cup [phase : {"own", "verified", "reduced"}, pool : Pools, id : Nat]
  \cup [phase : {"managing"}, pool : Pools, id : Nat, liquidity : Nat]

Minting == {"quoted", "allowed0", "allowed1"}
MintingStates ==
  [phase : Minting, pool : Pools, budget : Nat \X Nat, liquidity : Nat, maximum : Nat \X Nat]
Holding == {"own", "verified", "managing", "reduced"}

\* Position i is one that tab s minted in pool p.
Own(s, p, i, ps) == i \in 1 .. Len(ps) /\ ps[i].minter = s /\ ps[i].pool = p

\* What tab s in state q may rely on: its limits are within the budgets, the position it names
\* exists, and a receipt begins with the mint of the tab's own position, the one it is then told.
Sound(s, q, ps) ==
  /\ q.phase \in Minting => Within(q.maximum, q.budget)
  /\ q.phase = "minted" => /\ Len(q.receipt) > 0 /\ q.receipt[1].from = Zero
                           /\ Own(s, q.pool, q.receipt[1].id, ps)
  /\ q.phase \in Holding => q.id \in 1 .. Len(ps)
  /\ q.phase = "own" => Own(s, q.pool, q.id, ps)

SessionsInv == \A s \in Sessions : Sound(s, session[s], positions)

PositionsInv ==
  /\ PositionsTypeOK
  /\ NothingLeftInManager
  /\ SessionsInv

-----------------------------------------------------------------------------
(* Amounts *)

\* Rounding up what is not negative gives a natural number.
LEMMA UpNat ==
  ASSUME NEW a \in Nat, NEW b \in Nat \ {0}
  PROVE  Up(a, b) \in Nat
BY DEF Up

LEMMA Product == ASSUME NEW a \in Nat, NEW b \in Nat PROVE a * b \in Nat
OBVIOUS

\* A mint costs, and liquidity is worth, a natural number of each currency.
LEMMA CostNat ==
  ASSUME NEW l \in Nat, NEW r \in Nat \ {0}
  PROVE  Cost(l, r) \in Nat \X Nat /\ Worth(l, r) \in Nat \X Nat
<1> USE PositionsAssumption DEF PositionsAssumption
<1>1. l * Scale \in Nat /\ l * r \in Nat BY Product
<1>2. Up(l * Scale, r) \in Nat /\ Up(l * r, Scale) \in Nat BY <1>1, UpNat
<1>3. (l * Scale) \div r \in Nat /\ (l * r) \div Scale \in Nat BY <1>1
<1> QED BY <1>2, <1>3 DEF Cost, Worth

\* The two currencies of a pool differ, and only the first may be the native one.
LEMMA KeyDiffers ==
  ASSUME NEW p
  PROVE  /\ Key(p)[1] \in Currencies /\ Key(p)[2] \in Currencies /\ Key(p)[1] # Key(p)[2]
         /\ Key(p)[2] = "token"
         /\ Key(p)[1] = "native" <=> p \in NativePools
BY DEF Key, Currencies

\* What a withdrawal pays goes to the owner, and takes from nobody.
LEMMA PaidOutAdds ==
  ASSUME PositionsTypeOK, NEW p \in Position, p.owner \in Accounts, NEW l \in Nat
  PROVE  /\ PaidOut(p, l) \in [Accounts \cup {Manager} -> [Currencies -> Nat]]
         /\ \A a \in Accounts \cup {Manager}, c \in Currencies :
              PaidOut(p, l)[a][c] >= balance[a][c]
         /\ PaidOut(p, l)[Manager] = balance[Manager]
<1> USE PositionsAssumption, ManagerAssumption DEF PositionsAssumption
<1> DEFINE w == Worth(l, root[p.pool])
           paid == Withdrawn(p, l)
           gain == [c \in Currencies |-> IF \E i \in 1 .. 2 : c = Key(p.pool)[i]
                      THEN paid[CHOOSE i \in 1 .. 2 : c = Key(p.pool)[i]] ELSE 0]
<1>1. p.pool \in Pools /\ p.fees \in Nat /\ root[p.pool] \in Nat \ {0}
  BY DEF Position, PositionsTypeOK
<1>2. w \in Nat \X Nat BY <1>1, CostNat
<1>3. paid = <<w[1], w[2] + p.fees>> BY DEF Withdrawn
<1> HIDE DEF w, paid
<1>4. paid[1] \in Nat /\ paid[2] \in Nat BY <1>1, <1>2, <1>3
<1>5. \A k \in 1 .. 2 : (CHOOSE i \in 1 .. 2 : Key(p.pool)[k] = Key(p.pool)[i]) = k
  BY KeyDiffers
<1>6. \A k \in 1 .. 2 : gain[Key(p.pool)[k]] = paid[k] BY <1>5, KeyDiffers
<1>7. gain \in [Currencies -> Nat]
  <2> SUFFICES ASSUME NEW c \in Currencies PROVE gain[c] \in Nat OBVIOUS
  <2>1. CASE \E i \in 1 .. 2 : c = Key(p.pool)[i] BY <1>4, <1>6, <2>1
  <2>2. CASE ~ \E i \in 1 .. 2 : c = Key(p.pool)[i] BY <2>2
  <2> QED BY <2>1, <2>2
<1>8. PaidOut(p, l) = [balance EXCEPT ![p.owner] =
                         [c \in Currencies |-> balance[p.owner][c] + gain[c]]]
  <2> DEFINE credited ==
        [c \in Currencies |-> balance[p.owner][c] +
           (IF \E i \in 1 .. 2 : c = Key(p.pool)[i]
            THEN paid[CHOOSE i \in 1 .. 2 : c = Key(p.pool)[i]] ELSE 0)]
  <2>1. credited = [c \in Currencies |-> balance[p.owner][c] + gain[c]] OBVIOUS
  <2>2. PaidOut(p, l) = [balance EXCEPT ![p.owner] = credited]
    BY Zenon DEF PaidOut, paid
  <2> QED BY <2>1, <2>2
<1> HIDE DEF gain
<1>9. balance \in [Accounts \cup {Manager} -> [Currencies -> Nat]] BY DEF PositionsTypeOK
<1>10. PaidOut(p, l) \in [Accounts \cup {Manager} -> [Currencies -> Nat]]
  BY <1>7, <1>8, <1>9
<1>11. \A a \in Accounts \cup {Manager}, c \in Currencies :
         PaidOut(p, l)[a][c] = balance[a][c] + IF a = p.owner THEN gain[c] ELSE 0
  BY <1>7, <1>8, <1>9
<1>12. PaidOut(p, l)[Manager] = balance[Manager] BY <1>8, <1>9
<1>13. \A a \in Accounts \cup {Manager}, c \in Currencies :
         PaidOut(p, l)[a][c] >= balance[a][c]
  BY <1>7, <1>9, <1>11
<1> QED BY <1>10, <1>12, <1>13

-----------------------------------------------------------------------------
(* How a step changes what the tabs know *)

\* No position disappears, moves to another pool or forgets who minted it.
Lasts ==
  /\ positions' \in Seq(Position)
  /\ Len(positions') >= Len(positions)
  /\ \A i \in 1 .. Len(positions) :
       positions'[i].minter = positions[i].minter /\ positions'[i].pool = positions[i].pool

\* A state of a tab is still sound after others changed positions or added some.
LEMMA SoundKept ==
  ASSUME positions \in Seq(Position), Lasts, NEW s \in Sessions, NEW q \in States,
         Sound(s, q, positions)
  PROVE  Sound(s, q, positions')
<1>1. Len(positions) \in Nat /\ Len(positions') \in Nat /\ Len(positions') >= Len(positions)
  BY LenProperties DEF Lasts
<1>2. \A i \in 1 .. Len(positions) : i \in 1 .. Len(positions') BY <1>1
<1>3. \A p, i : Own(s, p, i, positions) => Own(s, p, i, positions') BY <1>2 DEF Own, Lasts
<1> QED BY <1>2, <1>3 DEF Sound

\* One tab moves on to a sound state.
LEMMA SessionMoves ==
  ASSUME PositionsInv, Lasts, NEW s \in Sessions, NEW q \in States, Become(s, q),
         Sound(s, q, positions')
  PROVE  session' \in [Sessions -> States] /\ SessionsInv'
<1>1. session \in [Sessions -> States] /\ positions \in Seq(Position)
  BY DEF PositionsInv, PositionsTypeOK, States, Position
<1>2. /\ session' \in [Sessions -> States] /\ session'[s] = q
      /\ \A t \in Sessions \ {s} : session'[t] = session[t]
  BY <1>1 DEF Become
<1>3. SessionsInv'
  <2> SUFFICES ASSUME NEW t \in Sessions PROVE Sound(t, session'[t], positions')
    BY DEF SessionsInv
  <2>1. CASE t = s BY <1>2, <2>1
  <2>2. CASE t # s
    <3>1. session[t] \in States /\ Sound(t, session[t], positions)
      BY <1>1 DEF PositionsInv, SessionsInv
    <3> QED BY <1>1, <1>2, <2>2, <3>1, SoundKept
  <2> QED BY <2>1, <2>2
<1> QED BY <1>2, <1>3

\* No tab moves.
LEMMA SessionsStay ==
  ASSUME PositionsInv, Lasts, UNCHANGED session
  PROVE  session' \in [Sessions -> States] /\ SessionsInv'
<1>1. session \in [Sessions -> States] /\ positions \in Seq(Position)
  BY DEF PositionsInv, PositionsTypeOK, States, Position
<1>2. ASSUME NEW t \in Sessions PROVE Sound(t, session'[t], positions')
  BY <1>1, SoundKept DEF PositionsInv, SessionsInv
<1> QED BY <1>1, <1>2 DEF SessionsInv

LEMMA PositionFacts ==
  ASSUME PositionsInv
  PROVE  /\ positions \in Seq(Position) /\ Len(positions) \in Nat
         /\ DOMAIN positions = 1 .. Len(positions)
         /\ \A i \in 1 .. Len(positions) :
              positions[i] \in Position /\ positions[i].liquidity \in Nat
<1>1. positions \in Seq(Position) BY DEF PositionsInv, PositionsTypeOK, Position
<1>2. Len(positions) \in Nat /\ DOMAIN positions = 1 .. Len(positions)
  BY <1>1, LenProperties
<1>3. \A i \in 1 .. Len(positions) : positions[i] \in Position BY <1>1, ElementOfSeq
<1>4. \A q \in Position : q.liquidity \in Nat BY DEF Position
<1> QED BY <1>1, <1>2, <1>3, <1>4

LEMMA NothingChanges ==
  ASSUME PositionsInv, UNCHANGED positions
  PROVE  Lasts
BY PositionFacts DEF Lasts

\* One position is replaced by one of the same pool and minter.
LEMMA OneChanges ==
  ASSUME PositionsInv, NEW i \in 1 .. Len(positions), NEW p \in Position,
         p.pool = positions[i].pool, p.minter = positions[i].minter,
         positions' = [positions EXCEPT ![i] = p]
  PROVE  Lasts
<1>1. /\ positions' \in Seq(Position) /\ Len(positions') = Len(positions)
      /\ \A j \in 1 .. Len(positions) : positions'[j] = IF j = i THEN p ELSE positions[j]
  BY PositionFacts, ExceptSeq
<1> QED BY <1>1, PositionFacts DEF Lasts

-----------------------------------------------------------------------------
(* The steps *)

LEMMA InitPositionsInv == Init => PositionsInv
<1> SUFFICES ASSUME Init PROVE PositionsInv OBVIOUS
<1> USE PositionsAssumption, ManagerAssumption DEF PositionsAssumption
<1>1. session \in [Sessions -> [phase : {"idle"}]] BY DEF Init, Idle
<1>2. positions = <<>> /\ \A s \in Sessions : session[s].phase = "idle" BY <1>1 DEF Init
<1>3. positions \in Seq([pool : Pools, owner : Accounts \cup {Manager},
                         liquidity : Nat, fees : Nat, minter : Sessions])
  BY <1>2, EmptySeq
<1>4. PositionsTypeOK BY <1>1, <1>3 DEF Init, PositionsTypeOK
<1>5. NothingLeftInManager BY DEF Init, NothingLeftInManager
<1>6. SessionsInv BY <1>2 DEF SessionsInv, Sound, Minting, Holding
<1> QED BY <1>4, <1>5, <1>6 DEF PositionsInv

\* A tab moves on and neither money nor positions do.
LEMMA OnlySessionMoves ==
  ASSUME PositionsInv, NEW s \in Sessions, NEW q \in States, Become(s, q),
         UNCHANGED <<root, balance, positions, trades>>,
         allowance' \in [Accounts -> [Currencies -> Nat]],
         permit' \in [Accounts -> [Currencies -> Nat]],
         Sound(s, q, positions)
  PROVE  PositionsInv'
<1>1. Lasts BY NothingChanges
<1>2. session' \in [Sessions -> States] /\ SessionsInv' BY <1>1, SessionMoves
<1>3. PositionsTypeOK' BY <1>2 DEF PositionsInv, PositionsTypeOK, States
<1> QED BY <1>2, <1>3 DEF PositionsInv, NothingLeftInManager

\* What the invariant says of a tab and of a price.
LEMMA TabFacts ==
  ASSUME PositionsInv, NEW s \in Sessions
  PROVE  session[s] \in States /\ Sound(s, session[s], positions)
BY DEF PositionsInv, PositionsTypeOK, SessionsInv, States

LEMMA RootFacts ==
  ASSUME PositionsInv, NEW p \in Pools
  PROVE  root[p] \in Nat \ {0}
BY PositionsAssumption DEF PositionsInv, PositionsTypeOK, PositionsAssumption

LEMMA Quotient ==
  ASSUME NEW a \in Nat, NEW b \in Nat \ {0}
  PROVE  a \div b \in Nat
OBVIOUS

\* The most liquidity that two amounts pay for is an integer.
LEMMA LiquidityInt ==
  ASSUME NEW a \in Nat \X Nat, NEW r \in Nat \ {0}
  PROVE  Liquidity(a, r) \in Nat
<1> USE PositionsAssumption DEF PositionsAssumption
<1>1. a[1] * r \in Nat /\ a[2] * Scale \in Nat BY Product
<1>2. (a[1] * r) \div Scale \in Nat /\ (a[2] * Scale) \div r \in Nat BY <1>1
<1> QED BY <1>2 DEF Liquidity

\* A quote is within the budgets it was made for.
LEMMA QuoteKeeps ==
  ASSUME PositionsInv, NEW s \in Sessions, Quote(s)
  PROVE  PositionsInv'
<1> USE PositionsAssumption DEF PositionsAssumption
<1>1. PICK p \in Pools, b \in Budgets, bps \in SlippageBps :
        \E q \in quoteFullRange(p, b, bps) : Become(s, q)
  BY DEF Quote
<1>2. PICK q \in quoteFullRange(p, b, bps) : Become(s, q) BY <1>1
<1> DEFINE scaled == <<(b[1] * 10000) \div (10000 + bps), (b[2] * 10000) \div (10000 + bps)>>
           l == Liquidity(scaled, root[p])
<1>3. /\ q = [phase |-> "quoted", pool |-> p, budget |-> b, liquidity |-> l,
              maximum |-> WithSlippage(l, root[p], bps)]
      /\ Within(q.maximum, b)
      /\ q.maximum \in (0 .. MaxAmount) \X (0 .. MaxAmount)
  BY <1>2 DEF quoteFullRange
<1>4. b \in Nat \X Nat /\ root[p] \in Nat \ {0} /\ bps \in Nat
  <2>1. \A n \in 1 .. 1000 : n \in Nat OBVIOUS
  <2> QED BY <2>1, RootFacts
<1>5. scaled \in Nat \X Nat
  <2>1. b[1] * 10000 \in Nat /\ b[2] * 10000 \in Nat /\ 10000 + bps \in Nat \ {0} BY <1>4
  <2> QED BY <2>1, Quotient
<1> HIDE DEF scaled
<1>6. l \in Nat BY <1>4, <1>5, LiquidityInt
<1> HIDE DEF l
<1>7. q \in States BY <1>3, <1>4, <1>6 DEF States
<1>8. Sound(s, q, positions) BY <1>3 DEF Sound, Minting, Holding
<1> QED BY <1>2, <1>7, <1>8, OnlySessionMoves
        DEF Quote, PositionsInv, PositionsTypeOK

\* Limits that the caller chose are its budgets.
LEMMA AskKeeps ==
  ASSUME PositionsInv, NEW s \in Sessions, Ask(s)
  PROVE  PositionsInv'
<1> USE PositionsAssumption DEF PositionsAssumption
<1>1. PICK r \in Requests :
        Become(s, [phase |-> "quoted", pool |-> r.pool, budget |-> r.maximum,
                   liquidity |-> r.liquidity, maximum |-> r.maximum])
  BY DEF Ask
<1> DEFINE q == [phase |-> "quoted", pool |-> r.pool, budget |-> r.maximum,
                 liquidity |-> r.liquidity, maximum |-> r.maximum]
<1>2. r.pool \in Pools /\ r.liquidity \in Nat /\ r.maximum \in Nat \X Nat OBVIOUS
<1>3. q \in States BY <1>2 DEF States
<1>4. Sound(s, q, positions) BY <1>2 DEF Sound, Minting, Holding, Within
<1>5. Become(s, q) BY <1>1
<1> HIDE DEF q
<1> QED BY <1>3, <1>4, <1>5, OnlySessionMoves DEF Ask, PositionsInv, PositionsTypeOK

\* Approvals come and go while a mint is prepared.
LEMMA StillMinting ==
  ASSUME NEW q \in States, q.phase \in Minting, NEW phase \in Minting
  PROVE  LET next == [q EXCEPT !.phase = phase]
         IN  /\ next \in States /\ next.phase = phase
             /\ next.maximum = q.maximum /\ next.budget = q.budget
<1>1. q \in MintingStates BY DEF States, Minting, MintingStates
<1>2. [q EXCEPT !.phase = phase] \in MintingStates BY <1>1 DEF MintingStates
<1>3. MintingStates \subseteq States BY DEF MintingStates, Minting, States
<1> QED BY <1>1, <1>2, <1>3 DEF MintingStates

\* The two transactions of an approval.
LEMMA AllowKeeps ==
  ASSUME PositionsInv, NEW s \in Sessions, Allow(s)
  PROVE  PositionsInv'
<1> USE PositionsAssumption DEF PositionsAssumption
<1>0. session[s] \in States /\ Sound(s, session[s], positions) /\ Now(s) = "quoted"
  BY TabFacts DEF Allow
<1>1. PICK i \in 1 .. 2 :
        /\ allowance' = [allowance EXCEPT ![Signer[s]][Key(session[s].pool)[i]]
                           = session[s].maximum[i]]
        /\ Become(s, [session[s] EXCEPT !.phase = IF i = 1 THEN "allowed0" ELSE "allowed1"])
  BY DEF Allow
<1> DEFINE q == [session[s] EXCEPT !.phase = IF i = 1 THEN "allowed0" ELSE "allowed1"]
<1>2. session[s].maximum \in Nat \X Nat BY <1>0 DEF States, Now
<1>3. session[s].maximum[i] \in Nat BY <1>2
<1>4. allowance' \in [Accounts -> [Currencies -> Nat]]
  BY <1>1, <1>3, KeyDiffers DEF PositionsInv, PositionsTypeOK
<1>5. q \in States /\ q.phase \in {"allowed0", "allowed1"}
      /\ q.maximum = session[s].maximum /\ q.budget = session[s].budget
  <2> DEFINE phase == IF i = 1 THEN "allowed0" ELSE "allowed1"
  <2>1. phase \in {"allowed0", "allowed1"} /\ q = [session[s] EXCEPT !.phase = phase] OBVIOUS
  <2>2. session[s].phase \in Minting /\ phase \in Minting BY <1>0, <2>1 DEF Minting, Now
  <2> HIDE DEF phase, q
  <2> QED BY <1>0, <2>1, <2>2, StillMinting
<1>6. Become(s, q) BY <1>1
<1> HIDE DEF q
<1>7. Sound(s, q, positions) BY <1>0, <1>5 DEF Sound, Minting, Holding, Now
<1> QED BY <1>4, <1>5, <1>6, <1>7, OnlySessionMoves
        DEF Allow, PositionsInv, PositionsTypeOK

LEMMA PermitKeeps ==
  ASSUME PositionsInv, NEW s \in Sessions, Permit(s)
  PROVE  PositionsInv'
<1> USE PositionsAssumption DEF PositionsAssumption
<1>0. session[s] \in States /\ Sound(s, session[s], positions)
      /\ Now(s) \in {"allowed0", "allowed1"}
  BY TabFacts DEF Permit
<1> DEFINE i == IF Now(s) = "allowed0" THEN 1 ELSE 2
           q == [session[s] EXCEPT !.phase = "quoted"]
<1>2. session[s].maximum \in Nat \X Nat BY <1>0 DEF States, Now
<1>3. i \in 1 .. 2 /\ session[s].maximum[i] \in Nat BY <1>2
<1>4. permit' \in [Accounts -> [Currencies -> Nat]]
  <2>1. permit' = [permit EXCEPT ![Signer[s]][Key(session[s].pool)[i]]
                     = session[s].maximum[i]]
    BY DEF Permit
  <2>2. Key(session[s].pool)[i] \in Currencies BY <1>3, KeyDiffers
  <2> HIDE DEF i
  <2> QED BY <1>3, <2>1, <2>2 DEF PositionsInv, PositionsTypeOK
<1>5. q \in States /\ q.phase = "quoted"
      /\ q.maximum = session[s].maximum /\ q.budget = session[s].budget
  <2> DEFINE phase == "quoted"
  <2>1. phase = "quoted" /\ q = [session[s] EXCEPT !.phase = phase] OBVIOUS
  <2>2. session[s].phase \in Minting /\ phase \in Minting BY <1>0 DEF Minting, Now
  <2> HIDE DEF phase, q
  <2> QED BY <1>0, <2>1, <2>2, StillMinting
<1>6. Become(s, q) BY DEF Permit
<1> HIDE DEF q
<1>7. Sound(s, q, positions) BY <1>0, <1>5 DEF Sound, Minting, Holding, Now
<1> QED BY <1>4, <1>5, <1>6, <1>7, OnlySessionMoves
        DEF Permit, PositionsInv, PositionsTypeOK

\* The first event from the zero address is all that decoding looks at.
LEMMA FirstDecoded ==
  ASSUME NEW receipt \in Seq(Log), Len(receipt) > 0, receipt[1].from = Zero
  PROVE  decodeMintedTokenId(receipt) = {receipt[1].id} \ {NoId}
<1>1. DOMAIN receipt = 1 .. Len(receipt) /\ Len(receipt) \in Nat BY LenProperties
<1>2. 1 \in FromZero(receipt) /\ \A j \in FromZero(receipt) : j \in Nat /\ 1 <= j
  BY <1>1 DEF FromZero
<1>3. {k \in FromZero(receipt) : \A j \in FromZero(receipt) : k <= j} = {1} BY <1>2
<1> QED BY <1>3 DEF decodeMintedTokenId

\* A receipt is decoded into the position that its transaction minted.
LEMMA DecodeKeeps ==
  ASSUME PositionsInv, NEW s \in Sessions, Decode(s)
  PROVE  PositionsInv'
<1>0. session[s] \in States /\ Sound(s, session[s], positions) /\ session[s].phase = "minted"
  BY TabFacts DEF Decode, Now
<1>1. PICK id \in decodeMintedTokenId(session[s].receipt) :
        Become(s, [phase |-> "own", pool |-> session[s].pool, id |-> id])
  BY DEF Decode
<1> DEFINE q == [phase |-> "own", pool |-> session[s].pool, id |-> id]
<1>2. session[s].receipt \in Seq(Log) /\ session[s].pool \in Pools BY <1>0 DEF States
<1>3. /\ Len(session[s].receipt) > 0 /\ session[s].receipt[1].from = Zero
      /\ Own(s, session[s].pool, session[s].receipt[1].id, positions)
  BY <1>0 DEF Sound
<1>4. id = session[s].receipt[1].id BY <1>1, <1>2, <1>3, FirstDecoded
<1>5. Own(s, session[s].pool, id, positions) /\ id \in 1 .. Len(positions)
  BY <1>3, <1>4 DEF Own
<1>6. q \in States BY <1>2, <1>5, PositionFacts DEF States
<1>7. Sound(s, q, positions) BY <1>5 DEF Sound, Minting, Holding
<1>8. Become(s, q) BY <1>1
<1> HIDE DEF q
<1> QED BY <1>6, <1>7, <1>8, OnlySessionMoves DEF Decode, PositionsInv, PositionsTypeOK

\* What is verified or read is what the position is at that moment.
LEMMA LookKeeps ==
  ASSUME PositionsInv, NEW s \in Sessions, Verify(s) \/ ReadLiquidity(s) \/ Leave(s)
  PROVE  PositionsInv'
<1>0. session[s] \in States /\ Sound(s, session[s], positions)
      /\ DOMAIN positions = 1 .. Len(positions) /\ Len(positions) \in Nat
      /\ \A i \in 1 .. Len(positions) : positions[i] \in Position
  BY TabFacts, PositionFacts
<1>1. PICK q \in States : Become(s, q) /\ Sound(s, q, positions)
  <2>1. CASE Verify(s)
    <3>1. PICK i \in 1 .. Len(positions) :
            Become(s, [phase |-> "verified", pool |-> positions[i].pool, id |-> i])
      BY <1>0, <2>1 DEF Verify
    <3> DEFINE q == [phase |-> "verified", pool |-> positions[i].pool, id |-> i]
    <3>2. q \in States BY <1>0 DEF States, Position
    <3>3. Sound(s, q, positions) BY DEF Sound, Minting, Holding
    <3>4. Become(s, q) BY <3>1
    <3> HIDE DEF q
    <3> QED BY <3>2, <3>3, <3>4
  <2>2. CASE ReadLiquidity(s)
    <3> DEFINE i == session[s].id
               q == [phase |-> "managing", pool |-> session[s].pool, id |-> i,
                     liquidity |-> positions[i].liquidity]
    <3>0. Now(s) \in {"own", "verified", "reduced"} /\ Become(s, q)
      BY <2>2 DEF ReadLiquidity
    <3>1. i \in 1 .. Len(positions) /\ i \in Nat /\ session[s].pool \in Pools
      BY <1>0, <3>0 DEF States, Sound, Holding, Now
    <3>2. positions[i].liquidity \in Nat BY <1>0, <3>1 DEF Position
    <3> HIDE DEF i
    <3>3. q \in States BY <3>1, <3>2 DEF States
    <3>4. Sound(s, q, positions) BY <3>1, <3>2 DEF Sound, Minting, Holding
    <3> HIDE DEF q
    <3> QED BY <3>0, <3>3, <3>4
  <2>3. CASE Leave(s)
    <3>1. Idle \in States BY DEF States, Idle
    <3>2. Sound(s, Idle, positions) BY DEF Sound, Minting, Holding, Idle
    <3>3. Become(s, Idle) BY <2>3 DEF Leave
    <3> QED BY <3>1, <3>2, <3>3
  <2> QED BY <2>1, <2>2, <2>3
<1>2. UNCHANGED <<root, balance, allowance, permit, positions, trades>>
  BY DEF Verify, ReadLiquidity, Leave
<1> QED BY <1>1, <1>2, OnlySessionMoves DEF PositionsInv, PositionsTypeOK

-----------------------------------------------------------------------------
(* A mint *)

\* What a quoted tab has to pay, and that it is allowed to.
LEMMA MintFacts ==
  ASSUME PositionsInv, NEW s \in Sessions, Mint(s)
  PROVE  LET q == session[s]
             cost == Cost(q.liquidity, root[q.pool])
         IN  /\ q.pool \in Pools /\ q.liquidity \in Nat /\ q.maximum \in Nat \X Nat
             /\ cost \in Nat \X Nat
             /\ cost[1] <= q.maximum[1] /\ cost[2] <= q.maximum[2]
             /\ q.maximum[1] <= q.budget[1] /\ q.maximum[2] <= q.budget[2]
<1>1. session[s] \in States /\ Sound(s, session[s], positions) /\ session[s].phase = "quoted"
  BY TabFacts DEF Mint, Now
<1>2. /\ session[s].pool \in Pools /\ session[s].liquidity \in Nat
      /\ session[s].maximum \in Nat \X Nat
  BY <1>1 DEF States
<1>3. Within(session[s].maximum, session[s].budget) BY <1>1 DEF Sound, Minting
<1>4. Cost(session[s].liquidity, root[session[s].pool]) \in Nat \X Nat
  BY <1>2, RootFacts, CostNat
<1>5. Within(Cost(session[s].liquidity, root[session[s].pool]), session[s].maximum)
  BY DEF Mint
<1> QED BY <1>2, <1>3, <1>4, <1>5 DEF Within

\* A mint takes its cost from the signer, and the manager keeps nothing of the value.
LEMMA MintPays ==
  ASSUME PositionsInv, NEW s \in Sessions, Mint(s)
  PROVE  LET q == session[s]
             cost == Cost(q.liquidity, root[q.pool])
         IN  /\ balance' \in [Accounts \cup {Manager} -> [Currencies -> Nat]]
             /\ \A c \in Currencies : balance'[Manager][c] = 0
             /\ \A a \in Accounts \ {Signer[s]}, c \in Currencies :
                  balance'[a][c] = balance[a][c]
             /\ \A c \in Currencies :
                  balance'[Signer[s]][c] = balance[Signer[s]][c]
                    - (IF c = Key(q.pool)[1] THEN cost[1] ELSE 0)
                    - (IF c = Key(q.pool)[2] THEN cost[2] ELSE 0)
<1> USE PositionsAssumption, ManagerAssumption DEF PositionsAssumption
<1> DEFINE q == session[s]
           account == Signer[s]
           cost == Cost(q.liquidity, root[q.pool])
           k1 == Key(q.pool)[1]
           k2 == Key(q.pool)[2]
<1>1. /\ q.maximum \in Nat \X Nat /\ cost \in Nat \X Nat
      /\ cost[1] <= q.maximum[1] /\ cost[2] <= q.maximum[2]
  BY MintFacts
<1>2. /\ balance' = Paid(q, account, cost)
      /\ Native(q) => q.maximum[1] <= balance[account]["native"]
      /\ \A i \in ThroughPermit(q) : cost[i] <= balance[account][Key(q.pool)[i]]
  BY DEF Mint
<1>3. account \in Accounts /\ account # Manager OBVIOUS
<1>4. /\ balance \in [Accounts \cup {Manager} -> [Currencies -> Nat]]
      /\ \A c \in Currencies : balance[Manager][c] = 0
  BY DEF PositionsInv, PositionsTypeOK, NothingLeftInManager
<1>5. k1 \in Currencies /\ k2 \in Currencies /\ k1 # k2 /\ k2 = "token"
      /\ (k1 = "native" <=> q.pool \in NativePools)
  BY KeyDiffers
<1>6. \A i \in ThroughPermit(q) : i \in 1 .. 2 BY DEF ThroughPermit
<1>7. cost[1] \in Nat /\ cost[2] \in Nat /\ q.maximum[1] \in Nat BY <1>1
<1>8. cost[2] <= balance[account][k2] BY <1>2 DEF ThroughPermit
<1> DEFINE token == [balance EXCEPT ![account][k2] = @ - cost[2]]
<1> HIDE DEF q, cost, account, k1, k2
<1>9. /\ token \in [Accounts \cup {Manager} -> [Currencies -> Nat]]
      /\ \A a \in Accounts \cup {Manager}, c \in Currencies :
           token[a][c] = balance[a][c] - IF a = account /\ c = k2 THEN cost[2] ELSE 0
  BY <1>3, <1>4, <1>5, <1>7, <1>8
<1>10. CASE Native(q)
  <2> DEFINE sent == [token EXCEPT ![account]["native"] = @ - q.maximum[1],
                                   ![Manager]["native"] = @ + q.maximum[1] - cost[1]]
  <2>1. balance' = Swept(sent, account) BY <1>2, <1>10, Zenon DEF Paid, k2
  <2>2. k1 = "native" /\ "native" \in Currencies BY <1>5, <1>10 DEF Native
  <2>3. q.maximum[1] <= balance[account]["native"] BY <1>2, <1>10
  <2> HIDE DEF token
  <2>4. /\ sent \in [Accounts \cup {Manager} -> [Currencies -> Nat]]
        /\ \A a \in Accounts \cup {Manager}, c \in Currencies :
             sent[a][c] = token[a][c]
               - (IF a = account /\ c = k1 THEN q.maximum[1] ELSE 0)
               + (IF a = Manager /\ c = k1 THEN q.maximum[1] - cost[1] ELSE 0)
    <3>1. token[account][k1] = balance[account][k1] BY <1>3, <1>4, <1>5, <1>9
    <3>2. token[account][k1] - q.maximum[1] \in Nat BY <1>3, <1>7, <1>9, <2>2, <2>3, <3>1
    <3>3. /\ token[Manager][k1] \in Nat /\ q.maximum[1] - cost[1] \in Nat
          /\ token[Manager][k1] + q.maximum[1] - cost[1] \in Nat
      BY <1>1, <1>3, <1>5, <1>7, <1>9
    <3>4. sent = [token EXCEPT ![account][k1] = @ - q.maximum[1],
                               ![Manager][k1] = @ + q.maximum[1] - cost[1]]
      BY <2>2
    <3> HIDE DEF sent
    <3>5. sent \in [Accounts \cup {Manager} -> [Currencies -> Nat]]
      BY <1>3, <1>5, <1>9, <3>2, <3>3, <3>4
    <3>6. ASSUME NEW a \in Accounts \cup {Manager}, NEW c \in Currencies
          PROVE  sent[a][c] = token[a][c]
                   - (IF a = account /\ c = k1 THEN q.maximum[1] ELSE 0)
                   + (IF a = Manager /\ c = k1 THEN q.maximum[1] - cost[1] ELSE 0)
      <4>1. token[a][c] \in Nat BY <1>9
      <4>2. CASE a = account BY <1>3, <1>5, <1>7, <1>9, <3>4, <4>1, <4>2
      <4>3. CASE a = Manager BY <1>3, <1>5, <1>7, <1>9, <3>4, <4>1, <4>3
      <4>4. CASE a # account /\ a # Manager BY <1>9, <3>4, <4>1, <4>4
      <4> QED BY <4>2, <4>3, <4>4
    <3> QED BY <3>5, <3>6
  <2> HIDE DEF sent
  <2>5. /\ balance' \in [Accounts \cup {Manager} -> [Currencies -> Nat]]
        /\ \A a \in Accounts \cup {Manager}, c \in Currencies :
             balance'[a][c] = IF c # k1 \/ a \notin {account, Manager} THEN sent[a][c]
                              ELSE IF a = Manager THEN 0 ELSE sent[a][c] + sent[Manager][c]
    <3>1. balance' = [sent EXCEPT ![account][k1] = @ + sent[Manager][k1], ![Manager][k1] = 0]
      BY <2>1, <2>2 DEF Swept
    <3>2. sent[account][k1] + sent[Manager][k1] \in Nat BY <1>3, <1>5, <2>4
    <3>3. balance' \in [Accounts \cup {Manager} -> [Currencies -> Nat]]
      BY <1>3, <1>5, <2>4, <3>1, <3>2
    <3>4. ASSUME NEW a \in Accounts \cup {Manager}, NEW c \in Currencies
          PROVE  balance'[a][c] = IF c # k1 \/ a \notin {account, Manager} THEN sent[a][c]
                              ELSE IF a = Manager THEN 0 ELSE sent[a][c] + sent[Manager][c]
      <4>1. CASE a = account BY <1>3, <1>5, <2>4, <3>1, <4>1
      <4>2. CASE a = Manager BY <1>3, <1>5, <2>4, <3>1, <4>2
      <4>3. CASE a # account /\ a # Manager BY <2>4, <3>1, <4>3
      <4> QED BY <4>1, <4>2, <4>3
    <3> QED BY <3>3, <3>4
  <2>6. \A c \in Currencies : balance'[Manager][c] = 0
    BY <1>3, <1>4, <1>9, <2>4, <2>5
  <2>7. \A a \in Accounts \ {account}, c \in Currencies : balance'[a][c] = balance[a][c]
    BY <1>3, <1>4, <1>9, <2>4, <2>5
  <2>8. ASSUME NEW c \in Currencies
        PROVE  balance'[account][c] = balance[account][c]
                 - (IF c = k1 THEN cost[1] ELSE 0) - (IF c = k2 THEN cost[2] ELSE 0)
    <3>1. balance[account][c] \in Nat /\ balance[Manager][c] = 0 BY <1>3, <1>4
    <3>2. token[account][c] = balance[account][c] - IF c = k2 THEN cost[2] ELSE 0
      BY <1>3, <1>9
    <3>3. token[Manager][c] = 0 BY <1>3, <1>7, <1>9, <3>1
    <3>4. sent[account][c] = token[account][c] - IF c = k1 THEN q.maximum[1] ELSE 0
      BY <1>3, <1>7, <1>9, <2>4
    <3>5. sent[Manager][c] = IF c = k1 THEN q.maximum[1] - cost[1] ELSE 0
      BY <1>3, <1>7, <2>4, <3>3
    <3>6. balance'[account][c] = IF c # k1 THEN sent[account][c]
                                 ELSE sent[account][c] + sent[Manager][c]
      BY <1>3, <2>5
    <3> QED BY <1>5, <1>7, <3>1, <3>2, <3>4, <3>5, <3>6
  <2> QED BY <2>5, <2>6, <2>7, <2>8 DEF q, cost, account, k1, k2
<1>11. CASE ~ Native(q)
  <2>1. balance' = [token EXCEPT ![account][k1] = @ - cost[1]]
    BY <1>2, <1>11, Zenon DEF Paid, k1, k2
  <2>2. cost[1] <= balance[account][k1] BY <1>2, <1>11 DEF ThroughPermit, k1
  <2> HIDE DEF token
  <2>3. token[account][k1] = balance[account][k1] BY <1>3, <1>4, <1>5, <1>9
  <2>4. /\ balance' \in [Accounts \cup {Manager} -> [Currencies -> Nat]]
        /\ \A a \in Accounts \cup {Manager}, c \in Currencies :
             balance'[a][c] = token[a][c] - IF a = account /\ c = k1 THEN cost[1] ELSE 0
    BY <1>3, <1>5, <1>7, <1>9, <2>1, <2>2, <2>3
  <2>5. \A a \in (Accounts \cup {Manager}) \ {account}, c \in Currencies :
          balance'[a][c] = balance[a][c]
    BY <1>4, <1>9, <2>4
  <2>6. ASSUME NEW c \in Currencies
        PROVE  balance'[account][c] = balance[account][c]
                 - (IF c = k1 THEN cost[1] ELSE 0) - (IF c = k2 THEN cost[2] ELSE 0)
    <3>1. balance[account][c] \in Nat BY <1>3, <1>4
    <3>2. token[account][c] = balance[account][c] - IF c = k2 THEN cost[2] ELSE 0
      BY <1>3, <1>9
    <3>3. balance'[account][c] = token[account][c] - IF c = k1 THEN cost[1] ELSE 0
      BY <1>3, <2>4
    <3> QED BY <1>5, <1>7, <3>1, <3>2, <3>3
  <2> QED BY <1>3, <1>4, <2>4, <2>5, <2>6 DEF q, cost, account, k1, k2
<1> QED BY <1>10, <1>11

\* What is left of an allowance after a mint it covered.
LEMMA LessNat ==
  ASSUME NEW granted \in [Currencies -> Nat], NEW q, NEW cost \in Nat \X Nat,
         \A i \in ThroughPermit(q) : cost[i] <= granted[Key(q.pool)[i]]
  PROVE  Less(granted, q, cost) \in [Currencies -> Nat]
<1> SUFFICES ASSUME NEW c \in Currencies PROVE Less(granted, q, cost)[c] \in Nat
  BY DEF Less
<1>1. CASE \E i \in ThroughPermit(q) : c = Key(q.pool)[i]
  <2> DEFINE k == CHOOSE i \in ThroughPermit(q) : c = Key(q.pool)[i]
  <2>1. k \in ThroughPermit(q) /\ c = Key(q.pool)[k] BY <1>1
  <2>2. Less(granted, q, cost)[c] = granted[c] - cost[k] BY <1>1 DEF Less
  <2> HIDE DEF k
  <2>3. cost[k] \in Nat /\ cost[k] <= granted[c] BY <2>1 DEF ThroughPermit
  <2> QED BY <2>2, <2>3
<1>2. CASE ~ \E i \in ThroughPermit(q) : c = Key(q.pool)[i] BY <1>2 DEF Less
<1> QED BY <1>1, <1>2

\* The logs of a mint begin with that of the NFT, whatever a foreign pool logs.
LEMMA LogsBeginWithMint ==
  ASSUME NEW q, NEW account \in Accounts, NEW id \in Nat, NEW foreign \in Seq(Log)
  PROVE  LET receipt == Logs(q, account, id, foreign)
         IN  receipt \in Seq(Log) /\ Len(receipt) > 0 /\ receipt[1] = [from |-> Zero, id |-> id]
<1> DEFINE nft == <<[from |-> Zero, id |-> id]>>
           payment == [from |-> account, id |-> NoId]
           payments == IF Native(q) THEN <<payment>> ELSE <<payment, payment>>
<1>1. nft \in Seq(Log) /\ payments \in Seq(Log)
  <2>1. [from |-> Zero, id |-> id] \in Log /\ payment \in Log BY DEF Log, NoId
  <2> HIDE DEF payment
  <2> QED BY <2>1
<1>2. Len(nft) = 1 /\ nft[1] = [from |-> Zero, id |-> id] OBVIOUS
<1>3. Logs(q, account, id, foreign) = (nft \o foreign) \o payments BY DEF Logs
<1> HIDE DEF nft, payments
<1>4. /\ nft \o foreign \in Seq(Log) /\ Len(nft \o foreign) > 0
      /\ (nft \o foreign)[1] = nft[1]
  BY <1>1, <1>2, LenProperties, ConcatProperties
<1>5. /\ (nft \o foreign) \o payments \in Seq(Log) /\ Len((nft \o foreign) \o payments) > 0
      /\ ((nft \o foreign) \o payments)[1] = (nft \o foreign)[1]
  BY <1>1, <1>4, LenProperties, ConcatProperties
<1> QED BY <1>2, <1>3, <1>4, <1>5

\* The id of a mint is that of a position of the tab's own.
LEMMA MintKeeps ==
  ASSUME PositionsInv, NEW s \in Sessions, Mint(s)
  PROVE  PositionsInv'
<1> USE PositionsAssumption, ManagerAssumption DEF PositionsAssumption
<1> DEFINE q == session[s]
           cost == Cost(q.liquidity, root[q.pool])
           account == Signer[s]
<1>0. PICK recipient \in Accounts :
        positions' = Append(positions, [pool |-> q.pool, owner |-> recipient, minter |-> s,
                                        liquidity |-> q.liquidity, fees |-> 0])
  BY DEF Mint
<1>1. q.pool \in Pools /\ q.liquidity \in Nat /\ cost \in Nat \X Nat BY MintFacts
<1>2. account \in Accounts OBVIOUS
<1> DEFINE p == [pool |-> q.pool, owner |-> recipient, minter |-> s,
                 liquidity |-> q.liquidity, fees |-> 0]
           id == Len(positions) + 1
<1>3. p \in Position /\ p.minter = s /\ p.pool = q.pool BY <1>1 DEF Position
<1>4. positions' = Append(positions, p) /\ UNCHANGED <<root, trades>> BY <1>0 DEF Mint
<1> HIDE DEF p
<1>5. /\ positions' \in Seq(Position) /\ Len(positions') = id /\ positions'[id] = p
      /\ \A i \in 1 .. Len(positions) : positions'[i] = positions[i]
  BY <1>3, <1>4, PositionFacts, AppendProperties
<1>6. Lasts BY <1>5, PositionFacts DEF Lasts
<1>7. PICK foreign \in Seq(Log) :
        Become(s, [phase |-> "minted", pool |-> q.pool,
                   receipt |-> Logs(q, account, Len(positions) + 1, foreign)])
  <2>1. PICK foreign \in IF Native(q) THEN {<<>>} ELSE ForeignLogs :
          Become(s, [phase |-> "minted", pool |-> q.pool,
                     receipt |-> Logs(q, account, Len(positions) + 1, foreign)])
    BY DEF Mint
  <2>2. <<>> \in Seq(Log) /\ ForeignLogs \subseteq Seq(Log) BY LogsAssumption
  <2> QED BY <2>1, <2>2
<1> DEFINE receipt == Logs(q, account, id, foreign)
           told == [phase |-> "minted", pool |-> q.pool, receipt |-> receipt]
<1>8. id \in Nat /\ id \in 1 .. id BY PositionFacts
<1>9. receipt \in Seq(Log) /\ Len(receipt) > 0 /\ receipt[1] = [from |-> Zero, id |-> id]
  BY <1>2, <1>8, LogsBeginWithMint
<1> HIDE DEF receipt, id
<1>10. session' \in [Sessions -> States] /\ SessionsInv'
  <2>1. Become(s, told) BY <1>7 DEF receipt, id
  <2>2. told \in States BY <1>1, <1>9 DEF States
  <2>3. Own(s, q.pool, id, positions') BY <1>3, <1>5, <1>8 DEF Own
  <2>4. Sound(s, told, positions') BY <1>9, <2>3 DEF Sound, Minting, Holding
  <2> HIDE DEF told
  <2> QED BY <1>6, <2>1, <2>2, <2>4, SessionMoves
<1>11. /\ balance' \in [Accounts \cup {Manager} -> [Currencies -> Nat]]
       /\ \A c \in Currencies : balance'[Manager][c] = 0
  BY MintPays
<1>12. /\ allowance \in [Accounts -> [Currencies -> Nat]]
       /\ permit \in [Accounts -> [Currencies -> Nat]]
  BY DEF PositionsInv, PositionsTypeOK
<1>13. /\ allowance' = [allowance EXCEPT ![account] = Less(allowance[account], q, cost)]
       /\ permit' = [permit EXCEPT ![account] = Less(permit[account], q, cost)]
       /\ \A i \in ThroughPermit(q) : /\ cost[i] <= allowance[account][Key(q.pool)[i]]
                                      /\ cost[i] <= permit[account][Key(q.pool)[i]]
  BY DEF Mint
<1> HIDE DEF q, cost, account
<1>14. /\ Less(allowance[account], q, cost) \in [Currencies -> Nat]
       /\ Less(permit[account], q, cost) \in [Currencies -> Nat]
  <2>1. allowance[account] \in [Currencies -> Nat] /\ permit[account] \in [Currencies -> Nat]
    BY <1>2, <1>12
  <2> QED BY <1>1, <1>13, <2>1, LessNat
<1>15. /\ allowance' \in [Accounts -> [Currencies -> Nat]]
       /\ permit' \in [Accounts -> [Currencies -> Nat]]
  BY <1>2, <1>12, <1>13, <1>14
<1>16. PositionsTypeOK'
  BY <1>4, <1>5, <1>10, <1>11, <1>15 DEF PositionsInv, PositionsTypeOK, States, Position
<1> QED BY <1>10, <1>11, <1>16 DEF PositionsInv, NothingLeftInManager

-----------------------------------------------------------------------------
(* The other steps *)

\* The position that a tab reduces or burns.
LEMMA HeldFacts ==
  ASSUME PositionsInv, NEW s \in Sessions, Now(s) \in Holding
  PROVE  /\ session[s].id \in 1 .. Len(positions)
         /\ positions[session[s].id] \in Position
         /\ positions[session[s].id].liquidity \in Nat
<1>1. Sound(s, session[s], positions) BY TabFacts
<1> QED BY <1>1, PositionFacts DEF Sound, Now

\* What the steps make of a position.
LEMMA Lowered ==
  ASSUME NEW p \in Position, NEW l \in Nat, l <= p.liquidity
  PROVE  LET left == [p EXCEPT !.liquidity = @ - l, !.fees = 0]
         IN  left \in Position /\ left.pool = p.pool /\ left.minter = p.minter
<1>1. p.liquidity - l \in Nat BY DEF Position
<1> QED BY <1>1 DEF Position

LEMMA Emptied ==
  ASSUME NEW p \in Position
  PROVE  LET left == [p EXCEPT !.liquidity = 0, !.fees = 0, !.owner = Manager]
         IN  left \in Position /\ left.pool = p.pool /\ left.minter = p.minter
BY DEF Position

LEMMA Earned ==
  ASSUME NEW p \in Position
  PROVE  LET more == [p EXCEPT !.fees = @ + 1]
         IN  more \in Position /\ more.pool = p.pool /\ more.minter = p.minter
BY DEF Position

LEMMA GivenAway ==
  ASSUME NEW p \in Position, NEW a \in Accounts
  PROVE  LET given == [p EXCEPT !.owner = a]
         IN  given \in Position /\ given.pool = p.pool /\ given.minter = p.minter
BY DEF Position

\* A withdrawal, from a position that is burnt or not, pays its owner and takes from nobody.
LEMMA WithdrawalKeeps ==
  ASSUME PositionsInv, NEW s \in Sessions, NEW i \in 1 .. Len(positions), NEW l \in Nat,
         positions[i].owner \in Accounts, balance' = PaidOut(positions[i], l),
         NEW left \in Position, left.pool = positions[i].pool,
         left.minter = positions[i].minter, positions' = [positions EXCEPT ![i] = left],
         NEW q \in States, Become(s, q), q.phase \in {"idle", "reduced"},
         q.phase = "reduced" => q.id = i,
         UNCHANGED <<root, allowance, permit, trades>>
  PROVE  /\ PositionsInv'
         /\ \A a \in Accounts, c \in Currencies : balance'[a][c] >= balance[a][c]
<1>1. Lasts BY OneChanges
<1>2. i \in 1 .. Len(positions')
  BY <1>1, PositionFacts, LenProperties DEF Lasts
<1>3. Sound(s, q, positions') BY <1>2 DEF Sound, Minting, Holding
<1>4. session' \in [Sessions -> States] /\ SessionsInv' BY <1>1, <1>3, SessionMoves
<1>5. /\ balance' \in [Accounts \cup {Manager} -> [Currencies -> Nat]]
      /\ \A a \in Accounts \cup {Manager}, c \in Currencies : balance'[a][c] >= balance[a][c]
      /\ balance'[Manager] = balance[Manager]
  <2>1. PositionsTypeOK /\ positions[i] \in Position
    BY PositionFacts DEF PositionsInv
  <2> QED BY <2>1, PaidOutAdds
<1>6. PositionsTypeOK'
  BY <1>1, <1>4, <1>5 DEF PositionsInv, PositionsTypeOK, States, Position, Lasts
<1> QED BY <1>4, <1>5, <1>6 DEF PositionsInv, NothingLeftInManager

LEMMA DecreaseKeeps ==
  ASSUME PositionsInv, NEW s \in Sessions, Decrease(s)
  PROVE  /\ PositionsInv'
         /\ \A a \in Accounts, c \in Currencies : balance'[a][c] >= balance[a][c]
<1>0. Signer[s] \in Accounts /\ Shares \subseteq 0 .. 2
  BY PositionsAssumption DEF PositionsAssumption
<1> DEFINE i == session[s].id
           p == positions[i]
<1>1. PICK l \in {(session[s].liquidity * n) \div 2 : n \in Shares} :
        /\ l <= p.liquidity
        /\ balance' = PaidOut(p, l)
        /\ positions' = [positions EXCEPT ![i] = [p EXCEPT !.liquidity = @ - l, !.fees = 0]]
        /\ Become(s, [phase |-> "reduced", pool |-> p.pool, id |-> i])
  BY DEF Decrease
<1>2. /\ session[s].phase = "managing" /\ p.owner = Signer[s]
      /\ UNCHANGED <<root, allowance, permit, trades>>
  BY DEF Decrease, Now
<1>3. i \in 1 .. Len(positions) /\ p \in Position BY <1>2, HeldFacts DEF Holding, Now
<1>4. l \in Nat
  <2>1. PICK n \in Shares : l = (session[s].liquidity * n) \div 2 OBVIOUS
  <2>2. n \in Nat BY <1>0
  <2>3. session[s].liquidity \in Nat BY <1>2, TabFacts DEF States
  <2>4. session[s].liquidity * n \in Nat BY <2>2, <2>3, Product
  <2> QED BY <2>1, <2>4, Quotient
<1> HIDE DEF i
<1> DEFINE left == [p EXCEPT !.liquidity = @ - l, !.fees = 0]
           q == [phase |-> "reduced", pool |-> p.pool, id |-> i]
<1>5. left \in Position /\ left.pool = p.pool /\ left.minter = p.minter
  BY <1>1, <1>3, <1>4, Lowered
<1>6. q \in States BY <1>3, PositionFacts DEF States, Position
<1>7. positions' = [positions EXCEPT ![i] = left] /\ Become(s, q) BY <1>1
<1>8. q.phase = "reduced" /\ q.id = i OBVIOUS
<1> HIDE DEF left, q
<1> QED BY <1>0, <1>1, <1>2, <1>3, <1>4, <1>5, <1>6, <1>7, <1>8, WithdrawalKeeps

LEMMA BurnKeeps ==
  ASSUME PositionsInv, NEW s \in Sessions, Burn(s)
  PROVE  /\ PositionsInv'
         /\ \A a \in Accounts, c \in Currencies : balance'[a][c] >= balance[a][c]
<1>0. Signer[s] \in Accounts BY PositionsAssumption DEF PositionsAssumption
<1> DEFINE i == session[s].id
           p == positions[i]
           left == [p EXCEPT !.liquidity = 0, !.fees = 0, !.owner = Manager]
<1>1. /\ Now(s) \in Holding /\ p.owner = Signer[s]
      /\ balance' = PaidOut(p, p.liquidity) /\ positions' = [positions EXCEPT ![i] = left]
      /\ Become(s, Idle) /\ UNCHANGED <<root, allowance, permit, trades>>
  BY DEF Burn, Holding
<1>2. i \in 1 .. Len(positions) /\ p \in Position /\ p.liquidity \in Nat
  BY <1>1, HeldFacts
<1>3. left \in Position /\ left.pool = p.pool /\ left.minter = p.minter BY <1>2, Emptied
<1>4. Idle \in States /\ Idle.phase = "idle" BY DEF States, Idle
<1> DEFINE l == p.liquidity
<1>5. l \in Nat /\ balance' = PaidOut(p, l) BY <1>1, <1>2
<1> HIDE DEF left, l, i
<1> QED BY <1>0, <1>1, <1>2, <1>3, <1>4, <1>5, WithdrawalKeeps

\* A position given away, and the trades of others, leave every position where it is.
LEMMA OthersKeep ==
  ASSUME PositionsInv, Give \/ Trade
  PROVE  PositionsInv' /\ UNCHANGED balance
<1>0. Manager \notin Accounts /\ MaxTrades \in Nat
  BY PositionsAssumption, ManagerAssumption DEF PositionsAssumption
<1> DEFINE Same(j) == /\ positions'[j].pool = positions[j].pool
                      /\ positions'[j].minter = positions[j].minter
<1>1. /\ positions' \in Seq(Position) /\ Len(positions') = Len(positions)
      /\ \A j \in 1 .. Len(positions) : Same(j)
  <2>1. CASE Give
    <3>1. PICK i \in DOMAIN positions, a \in Accounts :
            positions' = [positions EXCEPT ![i] = [positions[i] EXCEPT !.owner = a]]
      BY <2>1, Zenon DEF Give
    <3> DEFINE p == [positions[i] EXCEPT !.owner = a]
    <3>2. p \in Position /\ p.pool = positions[i].pool /\ p.minter = positions[i].minter
      BY PositionFacts, GivenAway
    <3>3. positions' = [positions EXCEPT ![i] = p] BY <3>1
    <3> HIDE DEF p
    <3>4. /\ positions' \in Seq(Position) /\ Len(positions') = Len(positions)
          /\ \A j \in 1 .. Len(positions) : positions'[j] = IF j = i THEN p ELSE positions[j]
      BY <3>2, <3>3, PositionFacts, ExceptSeq
    <3> QED BY <3>2, <3>4
  <2>2. CASE Trade
    <3>1. PICK p \in Pools :
            positions' = [i \in DOMAIN positions |->
              IF positions[i].pool = p /\ positions[i].liquidity > 0
              THEN [positions[i] EXCEPT !.fees = @ + 1] ELSE positions[i]]
      BY <2>2 DEF Trade
    <3>2. ASSUME NEW i \in 1 .. Len(positions)
          PROVE  positions'[i] \in Position /\ Same(i)
      <4>1. positions[i] \in Position BY PositionFacts
      <4> DEFINE more == [positions[i] EXCEPT !.fees = @ + 1]
      <4>2. /\ more \in Position
            /\ more.pool = positions[i].pool /\ more.minter = positions[i].minter
        BY <4>1, Earned
      <4> QED BY <3>1, <4>1, <4>2, PositionFacts
    <3>3. positions' = [i \in 1 .. Len(positions) |-> positions'[i]]
      BY <3>1, PositionFacts
    <3>4. positions' \in [1 .. Len(positions) -> Position] BY <3>2, <3>3
    <3>5. positions' \in Seq(Position) BY <3>4, PositionFacts
    <3>6. Len(positions') = Len(positions) BY <3>4, <3>5, PositionFacts, LenProperties
    <3> QED BY <3>2, <3>5, <3>6
  <2> QED BY <2>1, <2>2
<1>2. /\ UNCHANGED <<balance, allowance, permit, session>>
      /\ trades' \in 0 .. MaxTrades /\ root' \in [Pools -> Roots]
  <2>1. root \in [Pools -> Roots] /\ trades \in 0 .. MaxTrades
    BY DEF PositionsInv, PositionsTypeOK
  <2>2. CASE Give BY <2>1, <2>2 DEF Give
  <2>3. CASE Trade
    <3>1. trades' = trades + 1 /\ trades < MaxTrades BY <2>3 DEF Trade
    <3>2. PICK p \in Pools, r \in Roots : root' = [root EXCEPT ![p] = r] BY <2>3 DEF Trade
    <3>3. UNCHANGED <<balance, allowance, permit, session>> BY <2>3 DEF Trade
    <3> QED BY <1>0, <2>1, <3>1, <3>2, <3>3
  <2> QED BY <2>2, <2>3
<1>3. Lasts BY <1>1, PositionFacts DEF Lasts
<1>4. session' \in [Sessions -> States] /\ SessionsInv'
  BY <1>2, <1>3, SessionsStay
<1>5. PositionsTypeOK'
  BY <1>1, <1>2, <1>4 DEF PositionsInv, PositionsTypeOK, States, Position
<1> QED BY <1>1, <1>2, <1>4, <1>5 DEF PositionsInv, NothingLeftInManager

LEMMA NextKeepsPositionsInv == PositionsInv /\ [Next]_vars => PositionsInv'
<1> SUFFICES ASSUME PositionsInv, [Next]_vars PROVE PositionsInv' OBVIOUS
<1>1. CASE UNCHANGED vars
  <2>1. UNCHANGED <<root, balance, allowance, permit, positions, session, trades>>
    BY <1>1 DEF vars
  <2>2. session' \in [Sessions -> States] /\ SessionsInv'
    BY <2>1, NothingChanges, SessionsStay
  <2> QED BY <2>1, <2>2 DEF PositionsInv, PositionsTypeOK, NothingLeftInManager
<1>2. ASSUME NEW s \in Sessions, SessionStep(s) PROVE PositionsInv'
  BY <1>2, QuoteKeeps, AskKeeps, AllowKeeps, PermitKeeps, MintKeeps, DecodeKeeps, LookKeeps,
     DecreaseKeeps, BurnKeeps
     DEF SessionStep
<1> QED BY <1>1, <1>2, OthersKeep DEF Next

\* Every reachable state satisfies the invariant.
THEOREM PositionsInvariant == Spec => []PositionsInv
BY InitPositionsInv, NextKeepsPositionsInv, PTL DEF Spec

\* PositionsTypeOK holds in every reachable state.
THEOREM PositionsTypeCorrect == Spec => []PositionsTypeOK
<1>1. PositionsInv => PositionsTypeOK BY DEF PositionsInv
<1> QED BY <1>1, PositionsInvariant, PTL

\* No mint leaves native currency in the manager for the next caller to sweep.
THEOREM ManagerKeepsNothing == Spec => []NothingLeftInManager
<1>1. PositionsInv => NothingLeftInManager BY DEF PositionsInv
<1> QED BY <1>1, PositionsInvariant, PTL

\* However mints and their confirmations interleave, and whatever foreign pools log, every tab is
\* told the id of a position it minted itself.
THEOREM EveryMintIsOwn == Spec => []MintedIdIsOwn
<1>1. PositionsInv => MintedIdIsOwn
  BY DEF PositionsInv, SessionsInv, Sound, Own, MintedIdIsOwn, Now
<1> QED BY <1>1, PositionsInvariant, PTL

-----------------------------------------------------------------------------
(* What a step may do to an account's money *)

\* What MintWithinBudget says of one step.
MintBudgeted ==
  \A a \in Accounts :
    (\E c \in Currencies : Spent(a, c) > 0) =>
      \E s \in Sessions :
        /\ Signer[s] = a /\ Now(s) = "quoted" /\ session'[s].phase = "minted"
        /\ \A i \in 1 .. 2 : Spent(a, Key(session[s].pool)[i]) <= session[s].budget[i]

\* Only a mint takes anything from an account.
LEMMA NothingSpent ==
  ASSUME PositionsInv, \A a \in Accounts, c \in Currencies : balance'[a][c] >= balance[a][c],
         balance' \in [Accounts \cup {Manager} -> [Currencies -> Nat]]
  PROVE  MintBudgeted
<1>1. balance \in [Accounts \cup {Manager} -> [Currencies -> Nat]]
  BY DEF PositionsInv, PositionsTypeOK
<1>2. \A a \in Accounts, c \in Currencies : ~ Spent(a, c) > 0 BY <1>1 DEF Spent
<1> QED BY <1>2 DEF MintBudgeted

LEMMA MintIsBudgeted ==
  ASSUME PositionsInv, NEW s \in Sessions, Mint(s)
  PROVE  MintBudgeted
<1> USE PositionsAssumption, ManagerAssumption DEF PositionsAssumption
<1> DEFINE q == session[s]
           cost == Cost(q.liquidity, root[q.pool])
<1>1. balance \in [Accounts \cup {Manager} -> [Currencies -> Nat]]
  BY DEF PositionsInv, PositionsTypeOK
<1>2. /\ \A a \in Accounts \ {Signer[s]}, c \in Currencies : balance'[a][c] = balance[a][c]
      /\ \A c \in Currencies :
           balance'[Signer[s]][c] = balance[Signer[s]][c]
             - (IF c = Key(q.pool)[1] THEN cost[1] ELSE 0)
             - (IF c = Key(q.pool)[2] THEN cost[2] ELSE 0)
  BY MintPays
<1>3. /\ q.maximum \in Nat \X Nat /\ cost \in Nat \X Nat
      /\ cost[1] <= q.maximum[1] /\ cost[2] <= q.maximum[2]
      /\ q.maximum[1] <= q.budget[1] /\ q.maximum[2] <= q.budget[2]
  BY MintFacts
<1>4. q.budget \in Nat \X Nat
  <2>1. q \in States /\ q.phase = "quoted" BY TabFacts DEF Mint, Now
  <2> QED BY <2>1 DEF States
<1>5. Now(s) = "quoted" /\ session'[s].phase = "minted"
  BY DEF Mint, Become, PositionsInv, PositionsTypeOK
<1> HIDE DEF q, cost
<1>6. \A a \in Accounts : (\E c \in Currencies : Spent(a, c) > 0) => a = Signer[s]
  BY <1>1, <1>2 DEF Spent
<1>7. ASSUME NEW i \in 1 .. 2
      PROVE  Spent(Signer[s], Key(q.pool)[i]) <= q.budget[i]
  <2>1. balance[Signer[s]][Key(q.pool)[i]] \in Nat BY <1>1, KeyDiffers
  <2>2. balance'[Signer[s]][Key(q.pool)[i]] = balance[Signer[s]][Key(q.pool)[i]] - cost[i]
    BY <1>2, <1>3, <2>1, KeyDiffers
  <2>3. cost[i] \in Nat /\ q.maximum[i] \in Nat /\ q.budget[i] \in Nat
        /\ cost[i] <= q.maximum[i] /\ q.maximum[i] <= q.budget[i]
    BY <1>3, <1>4
  <2> QED BY <2>1, <2>2, <2>3 DEF Spent
<1> QED BY <1>5, <1>6, <1>7 DEF MintBudgeted, q

LEMMA NextIsBudgeted == PositionsInv /\ [Next]_vars => [MintBudgeted]_vars
<1> SUFFICES ASSUME PositionsInv, Next PROVE MintBudgeted OBVIOUS
<1>1. PositionsInv' BY NextKeepsPositionsInv
<1>2. balance' \in [Accounts \cup {Manager} -> [Currencies -> Nat]]
  BY <1>1 DEF PositionsInv, PositionsTypeOK
<1>3. balance \in [Accounts \cup {Manager} -> [Currencies -> Nat]]
  BY DEF PositionsInv, PositionsTypeOK
<1>4. UNCHANGED balance => MintBudgeted BY <1>2, <1>3, NothingSpent
<1>5. ASSUME NEW s \in Sessions, SessionStep(s) PROVE MintBudgeted
  BY <1>2, <1>4, <1>5, MintIsBudgeted, DecreaseKeeps, BurnKeeps, NothingSpent
     DEF SessionStep, Quote, Ask, Allow, Permit, Decode, Verify, ReadLiquidity, Leave
<1> QED BY <1>4, <1>5, OthersKeep DEF Next

\* No account pays more for a position than the budgets it was quoted for.
THEOREM EveryMintIsWithinBudget == Spec => MintWithinBudget
<1>1. Spec => [][MintBudgeted]_vars BY NextIsBudgeted, PositionsInvariant, PTL DEF Spec
<1> QED BY <1>1 DEF MintWithinBudget, MintBudgeted

=============================================================================
