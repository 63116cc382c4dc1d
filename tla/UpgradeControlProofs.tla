------------------------ MODULE UpgradeControlProofs ------------------------
(***************************************************************************)
(* Proofs of the properties of UpgradeControl, for any number of contracts,*)
(* implementations and proposals.                                          *)
(***************************************************************************)
EXTENDS UpgradeControl, TLAPS

\* A frozen contract is not enabled: without it a proposal composed before the freeze could
\* still upgrade, and nothing would be for good.
FrozenIsClosed ==
  \A c \in Contracts : upgradesPermanentlyDisabled[c] => ~upgradesEnabled[c]

UpgradeInv ==
  UpgradeTypeOK /\ FrozenIsClosed /\ ComposedCallsStayValid /\ UpgradesAreVoted

\* What a step of one proposal may do to another: nothing.
OthersUntouched(p) == \A q \in Proposals \ {p} : proposal'[q] = proposal[q]

LEMMA KindCases ==
  ASSUME NEW input \in Kinds
  PROVE  \/ input.kind = "enable-upgrades"
         \/ input.kind = "freeze-upgrades"
         \/ input.kind = "upgrade" /\ input.address \in Addresses
                                   /\ input = [kind |-> "upgrade", address |-> input.address]
BY DEF Kinds

\* Contracts obey each other alone: a transaction of anybody else reverts on either route.
LEMMA NobodyElseReaches ==
  ASSUME NEW a \in Accounts, NEW c \in Contracts, NEW input \in Kinds, NEW route \in Routes,
         CallByAccount(a, c, input, route)
  PROVE  UNCHANGED upgradeVars
<1>1. a # Timelock /\ a # Dao
  BY UpgradeAssumption DEF UpgradeAssumption
<1>2. ~Reaches(a, c, route)
  BY <1>1 DEF Reaches, MayControl
<1>3. ~Succeeds(a, c, route, input, FALSE)
  BY <1>2 DEF Succeeds
<1> QED BY <1>3 DEF CallByAccount, upgradeVars

\* The client's route is one on which the target listens to the timelock.
LEMMA RouteReaches ==
  ASSUME NEW c \in Contracts
  PROVE  Route(c) \in Routes /\ Reaches(Timelock, c, Route(c))
BY DEF Route, Routes, Reaches, MayControl

LEMMA UpgradeInitInv == UpgradeInit => UpgradeInv
<1> SUFFICES ASSUME UpgradeInit PROVE UpgradeInv
  OBVIOUS
<1>1. UpgradeTypeOK
  BY UpgradeAssumption DEF UpgradeInit, UpgradeTypeOK
<1>2. FrozenIsClosed
  BY DEF UpgradeInit, FrozenIsClosed
<1>3. ComposedCallsStayValid
  BY DEF UpgradeInit, ComposedCallsStayValid, NoProposal
<1>4. UpgradesAreVoted
  BY DEF UpgradeInit, UpgradesAreVoted
<1> QED BY <1>1, <1>2, <1>3, <1>4 DEF UpgradeInv

\* A step that changes no flag and does not undo an executed proposal keeps the votes' record.
LEMMA RecordKept ==
  ASSUME UpgradesAreVoted, UNCHANGED flagVars,
         \A q \in Proposals : proposal[q].stage = "executed" => proposal'[q] = proposal[q]
  PROVE  UpgradesAreVoted'
<1> SUFFICES ASSUME NEW c \in Contracts
             PROVE  LET Passed == {p \in Proposals :
                                     proposal'[p].stage = "executed" /\ proposal'[p].target = c}
                    IN /\ implementation'[c] # Original =>
                            \E p \in Passed :
                              proposal'[p].input = [kind |-> "upgrade", address |-> implementation'[c]]
                       /\ upgradesEnabled'[c] =>
                            \E p \in Passed :
                              proposal'[p].enableFirst \/ proposal'[p].input.kind = "enable-upgrades"
                       /\ upgradesPermanentlyDisabled'[c] =>
                            \E p \in Passed : proposal'[p].input.kind = "freeze-upgrades"
  BY DEF UpgradesAreVoted
<1>1. /\ implementation' = implementation
      /\ upgradesEnabled' = upgradesEnabled
      /\ upgradesPermanentlyDisabled' = upgradesPermanentlyDisabled
  BY DEF flagVars
<1> QED BY <1>1 DEF UpgradesAreVoted

LEMMA VotedWitness ==
  ASSUME UpgradesAreVoted, NEW c \in Contracts
  PROVE  /\ upgradesEnabled[c] =>
              \E q \in Proposals :
                /\ proposal[q].stage = "executed" /\ proposal[q].target = c
                /\ proposal[q].enableFirst \/ proposal[q].input.kind = "enable-upgrades"
         /\ upgradesPermanentlyDisabled[c] =>
              \E q \in Proposals :
                /\ proposal[q].stage = "executed" /\ proposal[q].target = c
                /\ proposal[q].input.kind = "freeze-upgrades"
<1> DEFINE Passed == {q \in Proposals : proposal[q].stage = "executed" /\ proposal[q].target = c}
<1>1. /\ upgradesEnabled[c] =>
           \E q \in Passed : proposal[q].enableFirst \/ proposal[q].input.kind = "enable-upgrades"
      /\ upgradesPermanentlyDisabled[c] =>
           \E q \in Passed : proposal[q].input.kind = "freeze-upgrades"
  BY Zenon DEF UpgradesAreVoted
<1> QED BY <1>1

LEMMA CheckFrozenKeepsInv ==
  ASSUME UpgradeInv, NEW p \in Proposals, NEW c \in Contracts, NEW input \in Kinds,
         CheckFrozen(p, c, input)
  PROVE  UpgradeInv'
<1> DEFINE Draft == [stage |-> "checked", target |-> c, input |-> input]
<1>0. UpgradeTypeOK /\ FrozenIsClosed /\ ComposedCallsStayValid /\ UpgradesAreVoted
  BY DEF UpgradeInv
<1>1. /\ UNCHANGED flagVars
      /\ proposal' = [proposal EXCEPT ![p] = Draft]
      /\ proposal[p].stage = "none"
  BY DEF CheckFrozen, NoProposal
<1>2. Draft \in Drafts
  BY DEF Drafts
<1>3. proposal'[p].stage = "checked" /\ OthersUntouched(p)
  BY <1>0, <1>1 DEF UpgradeTypeOK, OthersUntouched
<1>4. UpgradeTypeOK'
  BY <1>0, <1>1, <1>2 DEF UpgradeTypeOK, flagVars
<1>5. FrozenIsClosed'
  BY <1>0, <1>1 DEF FrozenIsClosed, flagVars
<1>6. ComposedCallsStayValid'
  BY <1>0, <1>1, <1>3 DEF ComposedCallsStayValid, OthersUntouched, flagVars, Succeeds, CanEnable,
     CanFreeze, CanUpgrade
<1>7. UpgradesAreVoted'
  BY <1>0, <1>1, <1>3, RecordKept DEF OthersUntouched
<1> QED BY <1>4, <1>5, <1>6, <1>7 DEF UpgradeInv

LEMMA ComposeKeepsInv ==
  ASSUME UpgradeInv, NEW p \in Proposals, Compose(p)
  PROVE  UpgradeInv'
<1> DEFINE c == proposal[p].target
           input == proposal[p].input
           Ready == [stage |-> "composed", target |-> c, input |-> input,
                     enableFirst |-> AddsEnable(c, input), route |-> Route(c), byClient |-> TRUE]
<1>0. UpgradeTypeOK /\ FrozenIsClosed /\ ComposedCallsStayValid /\ UpgradesAreVoted
  BY DEF UpgradeInv
<1>1. /\ UNCHANGED flagVars
      /\ proposal' = [proposal EXCEPT ![p] = Ready]
      /\ proposal[p].stage = "checked"
      /\ input.kind = "upgrade" => input.address \in Implementations
  BY DEF Compose
<1>2. c \in Contracts /\ input \in Kinds
  BY <1>0, <1>1 DEF UpgradeTypeOK, Drafts, Composed, NoProposal
<1>3. AddsEnable(c, input) \in BOOLEAN
  BY DEF AddsEnable
<1>4. Ready \in Composed
  <2>1. Route(c) \in Routes BY <1>2, RouteReaches
  <2> QED BY <1>2, <1>3, <2>1 DEF Composed
<1>5. proposal'[p] = Ready /\ OthersUntouched(p)
  BY <1>0, <1>1 DEF UpgradeTypeOK, OthersUntouched
<1>6. UpgradeTypeOK'
  BY <1>0, <1>1, <1>4 DEF UpgradeTypeOK, flagVars
<1>7. FrozenIsClosed'
  BY <1>0, <1>1 DEF FrozenIsClosed, flagVars
<1>8. upgradesPermanentlyDisabled[c] \/ Succeeds(Timelock, c, Route(c), input, AddsEnable(c, input))
  BY <1>0, <1>1, <1>2, RouteReaches
     DEF Succeeds, AddsEnable, CanEnable, CanFreeze, CanUpgrade, UpgradeTypeOK
<1>9. ComposedCallsStayValid'
  <2> SUFFICES ASSUME NEW q \in Proposals, proposal'[q].stage \in {"composed", "proposed"},
                      proposal'[q].byClient
               PROVE  \/ upgradesPermanentlyDisabled'[proposal'[q].target]
                      \/ Succeeds(Timelock, proposal[q].target, proposal[q].route,
                                  proposal[q].input, proposal[q].enableFirst)'
    BY DEF ComposedCallsStayValid
  <2>1. CASE q = p
    BY <2>1, <1>1, <1>5, <1>8 DEF flagVars, Succeeds, CanEnable, CanFreeze, CanUpgrade
  <2>2. CASE q # p
    BY <2>2, <1>0, <1>1, <1>5 DEF flagVars, Succeeds, CanEnable, CanFreeze, CanUpgrade,
       OthersUntouched, ComposedCallsStayValid
  <2> QED BY <2>1, <2>2
<1>10. UpgradesAreVoted'
  BY <1>0, <1>1, <1>5, RecordKept DEF OthersUntouched
<1> QED BY <1>6, <1>7, <1>9, <1>10 DEF UpgradeInv

LEMMA ProposeUpgradeKeepsInv ==
  ASSUME UpgradeInv, NEW p \in Proposals, ProposeUpgrade(p)
  PROVE  UpgradeInv'
<1>0. UpgradeTypeOK /\ FrozenIsClosed /\ ComposedCallsStayValid /\ UpgradesAreVoted
  BY DEF UpgradeInv
<1>1. /\ UNCHANGED flagVars
      /\ proposal' = [proposal EXCEPT ![p].stage = "proposed"]
      /\ proposal[p].stage = "composed"
  BY DEF ProposeUpgrade
<1>2. proposal[p] \in Composed
  BY <1>0, <1>1 DEF UpgradeTypeOK, Drafts, Composed, NoProposal
<1>3. [proposal[p] EXCEPT !.stage = "proposed"] \in Composed
  BY <1>2 DEF Composed
<1>4. proposal'[p] = [proposal[p] EXCEPT !.stage = "proposed"] /\ OthersUntouched(p)
  BY <1>0, <1>1 DEF UpgradeTypeOK, OthersUntouched
<1>5. /\ proposal'[p].stage = "proposed"
      /\ proposal'[p].target = proposal[p].target
      /\ proposal'[p].input = proposal[p].input
      /\ proposal'[p].enableFirst = proposal[p].enableFirst
      /\ proposal'[p].route = proposal[p].route
      /\ proposal'[p].byClient = proposal[p].byClient
  BY <1>2, <1>4 DEF Composed
<1>6. UpgradeTypeOK'
  BY <1>0, <1>1, <1>3 DEF UpgradeTypeOK, flagVars
<1>7. FrozenIsClosed'
  BY <1>0, <1>1 DEF FrozenIsClosed, flagVars
<1>8. ComposedCallsStayValid'
  <2> SUFFICES ASSUME NEW q \in Proposals, proposal'[q].stage \in {"composed", "proposed"},
                      proposal'[q].byClient
               PROVE  \/ upgradesPermanentlyDisabled'[proposal'[q].target]
                      \/ Succeeds(Timelock, proposal[q].target, proposal[q].route,
                                  proposal[q].input, proposal[q].enableFirst)'
    BY DEF ComposedCallsStayValid
  <2>1. /\ proposal[q].stage \in {"composed", "proposed"}
        /\ proposal'[q].target = proposal[q].target
        /\ proposal'[q].input = proposal[q].input
        /\ proposal'[q].enableFirst = proposal[q].enableFirst
        /\ proposal'[q].route = proposal[q].route
        /\ proposal'[q].byClient = proposal[q].byClient
    BY <1>1, <1>4, <1>5 DEF OthersUntouched
  <2> QED BY <2>1, <1>0, <1>1 DEF ComposedCallsStayValid, flagVars, Succeeds, CanEnable, CanFreeze,
             CanUpgrade
<1>9. UpgradesAreVoted'
  BY <1>0, <1>1, <1>4, RecordKept DEF OthersUntouched
<1> QED BY <1>6, <1>7, <1>8, <1>9 DEF UpgradeInv

LEMMA ProposeByHandKeepsInv ==
  ASSUME UpgradeInv, NEW p \in Proposals, NEW c \in Contracts, NEW input \in Kinds,
         NEW enableFirst \in BOOLEAN, NEW route \in Routes,
         ProposeByHand(p, c, input, enableFirst, route)
  PROVE  UpgradeInv'
<1> DEFINE Hand == [stage |-> "proposed", target |-> c, input |-> input,
                    enableFirst |-> enableFirst, route |-> route, byClient |-> FALSE]
<1>0. UpgradeTypeOK /\ FrozenIsClosed /\ ComposedCallsStayValid /\ UpgradesAreVoted
  BY DEF UpgradeInv
<1>1. /\ UNCHANGED flagVars
      /\ proposal' = [proposal EXCEPT ![p] = Hand]
      /\ proposal[p].stage = "none"
  BY DEF ProposeByHand, NoProposal
<1>2. Hand \in Composed
  BY DEF Composed
<1>3. proposal'[p] = Hand /\ OthersUntouched(p)
  BY <1>0, <1>1 DEF UpgradeTypeOK, OthersUntouched
<1>4. UpgradeTypeOK'
  BY <1>0, <1>1, <1>2 DEF UpgradeTypeOK, flagVars
<1>5. FrozenIsClosed'
  BY <1>0, <1>1 DEF FrozenIsClosed, flagVars
<1>6. ~proposal'[p].byClient
  BY <1>3
<1>7. ComposedCallsStayValid'
  BY <1>0, <1>1, <1>3, <1>6 DEF ComposedCallsStayValid, OthersUntouched, flagVars, Succeeds,
     CanEnable, CanFreeze, CanUpgrade
<1>8. UpgradesAreVoted'
  BY <1>0, <1>1, <1>3, RecordKept DEF OthersUntouched
<1> QED BY <1>4, <1>5, <1>7, <1>8 DEF UpgradeInv

\* What the execution of a proposal does to the flags, contract by contract.
LEMMA ExecuteUpgradeEffect ==
  ASSUME UpgradeInv, NEW p \in Proposals, ExecuteUpgrade(p)
  PROVE  LET c == proposal[p].target
             input == proposal[p].input
             first == proposal[p].enableFirst
             route == proposal[p].route
         IN  /\ c \in Contracts /\ input \in Kinds /\ first \in BOOLEAN
             /\ proposal[p] \in Composed
             /\ Succeeds(Timelock, c, route, input, first)
             /\ upgradesEnabled' \in [Contracts -> BOOLEAN]
             /\ upgradesPermanentlyDisabled' \in [Contracts -> BOOLEAN]
             /\ implementation' \in [Contracts -> Implementations]
             /\ upgradesEnabled'[c] <=> /\ input.kind # "freeze-upgrades"
                                        /\ \/ first
                                           \/ input.kind = "enable-upgrades"
                                           \/ upgradesEnabled[c]
             /\ upgradesPermanentlyDisabled'[c] <=>
                  (input.kind = "freeze-upgrades" \/ upgradesPermanentlyDisabled[c])
             /\ implementation'[c] =
                  IF input.kind = "upgrade" THEN input.address ELSE implementation[c]
             /\ \A d \in Contracts \ {c} :
                  /\ upgradesEnabled'[d] = upgradesEnabled[d]
                  /\ upgradesPermanentlyDisabled'[d] = upgradesPermanentlyDisabled[d]
                  /\ implementation'[d] = implementation[d]
<1> DEFINE c == proposal[p].target
           input == proposal[p].input
           first == proposal[p].enableFirst
           route == proposal[p].route
<1>1. UpgradeTypeOK
  BY DEF UpgradeInv
<1>2. /\ proposal[p].stage = "proposed"
      /\ Succeeds(Timelock, c, route, input, first) /\ Effect(c, input, first)
  BY DEF ExecuteUpgrade
<1>3. proposal[p] \in Composed
  BY <1>1, <1>2 DEF UpgradeTypeOK, Drafts, Composed, NoProposal
<1>4. c \in Contracts /\ input \in Kinds /\ first \in BOOLEAN
  BY <1>3 DEF Composed
<1>5. input.kind = "upgrade" => input.address \in Implementations
  BY <1>2 DEF Succeeds, CanUpgrade
<1>6. DEFINE open == input.kind # "freeze-upgrades"
                      /\ (first \/ input.kind = "enable-upgrades" \/ upgradesEnabled[c])
<1>7. upgradesEnabled' = [upgradesEnabled EXCEPT ![c] = open]
  BY <1>2 DEF Effect
<1>8. upgradesPermanentlyDisabled' =
        [upgradesPermanentlyDisabled EXCEPT
           ![c] = input.kind = "freeze-upgrades" \/ upgradesPermanentlyDisabled[c]]
  BY <1>2 DEF Effect
<1>9. implementation' =
        [implementation EXCEPT
           ![c] = IF input.kind = "upgrade" THEN input.address ELSE implementation[c]]
  BY <1>2 DEF Effect
<1>10. open \in BOOLEAN
  OBVIOUS
<1>11. /\ upgradesEnabled' \in [Contracts -> BOOLEAN]
       /\ upgradesEnabled'[c] = open
       /\ \A d \in Contracts \ {c} : upgradesEnabled'[d] = upgradesEnabled[d]
  <2> HIDE DEF open
  <2> QED BY <1>1, <1>4, <1>7, <1>10 DEF UpgradeTypeOK
<1>12. /\ upgradesPermanentlyDisabled' \in [Contracts -> BOOLEAN]
       /\ upgradesPermanentlyDisabled'[c] <=>
            (input.kind = "freeze-upgrades" \/ upgradesPermanentlyDisabled[c])
       /\ \A d \in Contracts \ {c} :
            upgradesPermanentlyDisabled'[d] = upgradesPermanentlyDisabled[d]
  BY <1>1, <1>4, <1>8 DEF UpgradeTypeOK
<1>13. /\ implementation' \in [Contracts -> Implementations]
       /\ implementation'[c] =
            IF input.kind = "upgrade" THEN input.address ELSE implementation[c]
       /\ \A d \in Contracts \ {c} : implementation'[d] = implementation[d]
  BY <1>1, <1>4, <1>5, <1>9 DEF UpgradeTypeOK
<1> QED BY <1>2, <1>3, <1>4, <1>11, <1>12, <1>13

LEMMA ExecuteUpgradeKeepsInv ==
  ASSUME UpgradeInv, NEW p \in Proposals, ExecuteUpgrade(p)
  PROVE  UpgradeInv'
<1> DEFINE c == proposal[p].target
           input == proposal[p].input
           first == proposal[p].enableFirst
           route == proposal[p].route
<1>0. UpgradeTypeOK /\ FrozenIsClosed /\ ComposedCallsStayValid /\ UpgradesAreVoted
  BY DEF UpgradeInv
<1>1. /\ c \in Contracts /\ input \in Kinds /\ first \in BOOLEAN
      /\ proposal[p] \in Composed
      /\ Succeeds(Timelock, c, route, input, first)
      /\ upgradesEnabled' \in [Contracts -> BOOLEAN]
      /\ upgradesPermanentlyDisabled' \in [Contracts -> BOOLEAN]
      /\ implementation' \in [Contracts -> Implementations]
  BY ExecuteUpgradeEffect
<1>2. /\ upgradesEnabled'[c] <=> /\ input.kind # "freeze-upgrades"
                                 /\ first \/ input.kind = "enable-upgrades" \/ upgradesEnabled[c]
      /\ upgradesPermanentlyDisabled'[c] <=>
           (input.kind = "freeze-upgrades" \/ upgradesPermanentlyDisabled[c])
      /\ implementation'[c] = IF input.kind = "upgrade" THEN input.address ELSE implementation[c]
  BY ExecuteUpgradeEffect
<1>3. \A d \in Contracts \ {c} :
        /\ upgradesEnabled'[d] = upgradesEnabled[d]
        /\ upgradesPermanentlyDisabled'[d] = upgradesPermanentlyDisabled[d]
        /\ implementation'[d] = implementation[d]
  BY ExecuteUpgradeEffect
<1>4. /\ proposal' = [proposal EXCEPT ![p].stage = "executed"]
      /\ proposal[p].stage = "proposed"
  BY DEF ExecuteUpgrade
<1>5. [proposal[p] EXCEPT !.stage = "executed"] \in Composed
  BY <1>1 DEF Composed
<1>6. proposal'[p] = [proposal[p] EXCEPT !.stage = "executed"] /\ OthersUntouched(p)
  BY <1>0, <1>4 DEF UpgradeTypeOK, OthersUntouched
<1>7. /\ proposal'[p].stage = "executed"
      /\ proposal'[p].target = c
      /\ proposal'[p].input = input
      /\ proposal'[p].enableFirst = first
  BY <1>1, <1>6 DEF Composed
<1>8. UpgradeTypeOK'
  BY <1>0, <1>1, <1>4, <1>5 DEF UpgradeTypeOK
<1>9. FrozenIsClosed'
  <2> SUFFICES ASSUME NEW d \in Contracts, upgradesPermanentlyDisabled'[d]
               PROVE  ~upgradesEnabled'[d]
    BY DEF FrozenIsClosed
  <2>1. CASE d # c
    BY <2>1, <1>0, <1>3 DEF FrozenIsClosed
  <2>2. CASE d = c /\ input.kind = "freeze-upgrades"
    BY <2>2, <1>2
  <2>3. CASE d = c /\ input.kind # "freeze-upgrades"
    <3>1. upgradesPermanentlyDisabled[c] /\ ~upgradesEnabled[c]
      BY <2>3, <1>0, <1>1, <1>2 DEF FrozenIsClosed
    <3>2. ~first /\ input.kind # "enable-upgrades"
      BY <3>1, <1>1 DEF Succeeds, CanEnable
    <3> QED BY <2>3, <3>1, <3>2, <1>2
  <2> QED BY <2>1, <2>2, <2>3
<1>10. ComposedCallsStayValid'
  <2> SUFFICES ASSUME NEW q \in Proposals, proposal'[q].stage \in {"composed", "proposed"},
                      proposal'[q].byClient, ~upgradesPermanentlyDisabled'[proposal'[q].target]
               PROVE  Succeeds(Timelock, proposal[q].target, proposal[q].route,
                               proposal[q].input, proposal[q].enableFirst)'
    BY DEF ComposedCallsStayValid
  <2>1. q # p /\ proposal'[q] = proposal[q]
    BY <1>6, <1>7 DEF OthersUntouched
  <2> DEFINE d == proposal[q].target
             asked == proposal[q].input
             way == proposal[q].route
  <2>2. proposal[q] \in Composed
    BY <1>0, <2>1 DEF UpgradeTypeOK, Drafts, Composed, NoProposal
  <2>3. d \in Contracts
    BY <2>2 DEF Composed
  <2>4. upgradesPermanentlyDisabled[d] => upgradesPermanentlyDisabled'[d]
    BY <1>2, <1>3, <2>3
  <2>5. /\ Succeeds(Timelock, d, way, asked, proposal[q].enableFirst)
        /\ ~upgradesPermanentlyDisabled'[d]
    BY <1>0, <2>1, <2>4 DEF ComposedCallsStayValid
  <2>6. upgradesEnabled[d] => upgradesEnabled'[d]
    BY <1>2, <1>3, <2>3, <2>5
  <2> QED BY <2>1, <2>5, <2>6 DEF Succeeds, CanEnable, CanFreeze, CanUpgrade
<1>11. UpgradesAreVoted'
  <2> SUFFICES ASSUME NEW d \in Contracts
               PROVE  LET Passed == {q \in Proposals :
                                       proposal'[q].stage = "executed" /\ proposal'[q].target = d}
                      IN /\ implementation'[d] # Original =>
                              \E q \in Passed : proposal'[q].input =
                                [kind |-> "upgrade", address |-> implementation'[d]]
                         /\ upgradesEnabled'[d] =>
                              \E q \in Passed :
                                proposal'[q].enableFirst \/ proposal'[q].input.kind = "enable-upgrades"
                         /\ upgradesPermanentlyDisabled'[d] =>
                              \E q \in Passed : proposal'[q].input.kind = "freeze-upgrades"
    BY DEF UpgradesAreVoted
  <2>1. \A q \in Proposals : proposal[q].stage = "executed" => proposal'[q] = proposal[q]
    BY <1>4, <1>6 DEF OthersUntouched
  <2>2. CASE d # c
    BY <2>1, <2>2, <1>0, <1>3 DEF UpgradesAreVoted
  <2>3. CASE d = c
    <3>1. implementation'[c] # implementation[c] =>
            input = [kind |-> "upgrade", address |-> implementation'[c]]
      BY <1>1, <1>2, KindCases
    <3>2. (upgradesEnabled'[c] /\ ~upgradesEnabled[c]) =>
            (first \/ input.kind = "enable-upgrades")
      BY <1>2
    <3>3. (upgradesPermanentlyDisabled'[c] /\ ~upgradesPermanentlyDisabled[c]) =>
            input.kind = "freeze-upgrades"
      BY <1>2
    <3>4. implementation'[c] # Original =>
            \E q \in Proposals : /\ proposal'[q].stage = "executed" /\ proposal'[q].target = c
                                 /\ proposal'[q].input =
                                      [kind |-> "upgrade", address |-> implementation'[c]]
      BY <2>1, <3>1, <1>0, <1>1, <1>7 DEF UpgradesAreVoted
    <3>5. upgradesEnabled'[c] =>
            \E q \in Proposals : /\ proposal'[q].stage = "executed" /\ proposal'[q].target = c
                                 /\ \/ proposal'[q].enableFirst
                                    \/ proposal'[q].input.kind = "enable-upgrades"
      <4>1. CASE upgradesEnabled[c]
        <5>1. PICK q \in Proposals :
                /\ proposal[q].stage = "executed" /\ proposal[q].target = c
                /\ proposal[q].enableFirst \/ proposal[q].input.kind = "enable-upgrades"
          BY <4>1, <1>0, <1>1, VotedWitness
        <5> QED BY <5>1, <2>1
      <4>2. CASE ~upgradesEnabled[c]
        BY <4>2, <3>2, <1>7
      <4> QED BY <4>1, <4>2
    <3>6. upgradesPermanentlyDisabled'[c] =>
            \E q \in Proposals : /\ proposal'[q].stage = "executed" /\ proposal'[q].target = c
                                 /\ proposal'[q].input.kind = "freeze-upgrades"
      <4>1. CASE upgradesPermanentlyDisabled[c]
        <5>1. PICK q \in Proposals :
                /\ proposal[q].stage = "executed" /\ proposal[q].target = c
                /\ proposal[q].input.kind = "freeze-upgrades"
          BY <4>1, <1>0, <1>1, VotedWitness
        <5> QED BY <5>1, <2>1
      <4>2. CASE ~upgradesPermanentlyDisabled[c]
        BY <4>2, <3>3, <1>7
      <4> QED BY <4>1, <4>2
    <3> QED BY <2>3, <3>4, <3>5, <3>6
  <2> QED BY <2>2, <2>3
<1> QED BY <1>8, <1>9, <1>10, <1>11 DEF UpgradeInv

LEMMA UpgradeNextKeepsInv == UpgradeInv /\ [UpgradeNext]_upgradeVars => UpgradeInv'
<1> SUFFICES ASSUME UpgradeInv, [UpgradeNext]_upgradeVars PROVE UpgradeInv'
  OBVIOUS
<1>1. CASE UNCHANGED upgradeVars
  BY <1>1 DEF upgradeVars, flagVars, UpgradeInv, UpgradeTypeOK, FrozenIsClosed,
     ComposedCallsStayValid, UpgradesAreVoted, Succeeds, CanEnable, CanFreeze, CanUpgrade
<1>2. CASE UpgradeNext
  <2>1. CASE \E a \in Accounts, c \in Contracts, input \in Kinds, route \in Routes :
               CallByAccount(a, c, input, route)
    BY <2>1, <1>1, NobodyElseReaches
  <2>2. ASSUME NEW p \in Proposals, ProposalNext(p) PROVE UpgradeInv'
    BY <2>2, CheckFrozenKeepsInv, ComposeKeepsInv, ProposeUpgradeKeepsInv, ProposeByHandKeepsInv,
       ExecuteUpgradeKeepsInv DEF ProposalNext
  <2> QED BY <1>2, <2>1, <2>2 DEF UpgradeNext
<1> QED BY <1>1, <1>2

\* The inductive invariant holds in every behaviour.
THEOREM UpgradeInvariant == UpgradeSpec => []UpgradeInv
<1>1. UpgradeInit => UpgradeInv
  BY UpgradeInitInv
<1>2. UpgradeInv /\ [UpgradeNext]_upgradeVars => UpgradeInv'
  BY UpgradeNextKeepsInv
<1> QED BY <1>1, <1>2, PTL DEF UpgradeSpec

\* Every variable keeps its type: what a client has composed, or not, is always one of the
\* proposals that proposeUpgrade writes.
THEOREM UpgradeTypeCorrect == UpgradeSpec => []UpgradeTypeOK
<1>1. UpgradeInv => UpgradeTypeOK BY DEF UpgradeInv
<1> QED BY <1>1, UpgradeInvariant, PTL

\* Calls the client composed from earlier reads stay valid until their target is frozen.
THEOREM UpgradeCallsStayValid == UpgradeSpec => []ComposedCallsStayValid
<1>1. UpgradeInv => ComposedCallsStayValid
  BY DEF UpgradeInv
<1> QED BY <1>1, UpgradeInvariant, PTL

\* Whatever a proxy runs, and whether it is enabled or frozen, was voted for: neither a
\* stranger's call, direct or through the relay, nor a call that the timelock sends on the wrong
\* route changes anything, and no call meant for one contract changes another.
THEOREM UpgradesOnlyByVote == UpgradeSpec => []UpgradesAreVoted
<1>1. UpgradeInv => UpgradesAreVoted
  BY DEF UpgradeInv
<1> QED BY <1>1, UpgradeInvariant, PTL

\* A frozen contract stays as it is.
LEMMA FrozenStays ==
  ASSUME UpgradeInv, UpgradeNext, NEW c \in Contracts, upgradesPermanentlyDisabled[c]
  PROVE  /\ upgradesPermanentlyDisabled'[c]
         /\ upgradesEnabled'[c] = upgradesEnabled[c]
         /\ implementation'[c] = implementation[c]
<1>1. CASE UNCHANGED flagVars
  BY <1>1 DEF flagVars
<1>2. ASSUME NEW p \in Proposals, ExecuteUpgrade(p)
      PROVE  /\ upgradesPermanentlyDisabled'[c]
             /\ upgradesEnabled'[c] = upgradesEnabled[c]
             /\ implementation'[c] = implementation[c]
  <2>1. CASE c # proposal[p].target
    BY <1>2, <2>1, ExecuteUpgradeEffect
  <2>2. CASE c = proposal[p].target
    <3> DEFINE input == proposal[p].input
               first == proposal[p].enableFirst
    <3>1. /\ Succeeds(Timelock, c, proposal[p].route, input, first)
          /\ upgradesEnabled'[c] <=> /\ input.kind # "freeze-upgrades"
                                     /\ \/ first
                                        \/ input.kind = "enable-upgrades"
                                        \/ upgradesEnabled[c]
          /\ upgradesPermanentlyDisabled'[c] <=>
               (input.kind = "freeze-upgrades" \/ upgradesPermanentlyDisabled[c])
          /\ implementation'[c] =
               IF input.kind = "upgrade" THEN input.address ELSE implementation[c]
          /\ upgradesEnabled' \in [Contracts -> BOOLEAN]
      BY <1>2, <2>2, ExecuteUpgradeEffect
    <3>2. ~upgradesEnabled[c] /\ upgradesEnabled \in [Contracts -> BOOLEAN]
      BY DEF UpgradeInv, FrozenIsClosed, UpgradeTypeOK
    <3>3. ~first /\ input.kind # "enable-upgrades" /\ input.kind # "upgrade"
      BY <3>1, <3>2 DEF Succeeds, CanEnable, CanUpgrade
    <3>4. ~upgradesEnabled'[c]
      BY <3>1, <3>2, <3>3
    <3> QED BY <3>1, <3>2, <3>3, <3>4
  <2> QED BY <2>1, <2>2
<1>3. UNCHANGED flagVars \/ \E p \in Proposals : ExecuteUpgrade(p)
  <2>1. CASE \E p \in Proposals : ProposalNext(p)
    BY <2>1 DEF ProposalNext, CheckFrozen, Compose, ProposeUpgrade, ProposeByHand
  <2>2. CASE \E a \in Accounts, d \in Contracts, input \in Kinds, route \in Routes :
               CallByAccount(a, d, input, route)
    BY <2>2, NobodyElseReaches DEF upgradeVars
  <2> QED BY <2>1, <2>2 DEF UpgradeNext
<1> QED BY <1>1, <1>2, <1>3

\* Frozen is for good, for any number of proposals in any order.
THEOREM UpgradeFrozenForGood == UpgradeSpec => FrozenForGood
<1>1. UpgradeInv /\ [UpgradeNext]_upgradeVars =>
        [\A c \in Contracts :
           upgradesPermanentlyDisabled[c] =>
             /\ upgradesPermanentlyDisabled'[c]
             /\ upgradesEnabled'[c] = upgradesEnabled[c]
             /\ implementation'[c] = implementation[c]]_upgradeVars
  BY FrozenStays
<1> QED BY <1>1, UpgradeInvariant, PTL DEF UpgradeSpec, FrozenForGood
=============================================================================
