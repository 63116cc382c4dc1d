--------------------------- MODULE UpgradeControl ---------------------------
(***************************************************************************)
(* How the DAO upgrades and freezes the contracts of a marketplace: the    *)
(* flags that the token, the swap router, the DAO, the reward token and    *)
(* the timelock each keep, whom each lets change them, and the proposals   *)
(* about them, composed by proposeUpgrade of src/client/governance.ts from *)
(* what it reads on chain.                                                 *)
(*                                                                         *)
(* Token, router and reward token obey the DAO, the DAO and the timelock   *)
(* obey the timelock.  The timelock executes the calls of a proposal, each *)
(* either sent to its target or handed to the DAO's relay, which sends it  *)
(* on in the DAO's name.                                                   *)
(*                                                                         *)
(* Votes and delays are those of MarketplaceGovernor and left out here: a  *)
(* proposal may be executed at any later time, or never, and executed once.*)
(* New implementations keep the upgrade control, as those of the           *)
(* repository's tests do.                                                  *)
(***************************************************************************)
EXTENDS Naturals

CONSTANTS
  Contracts,       \* the proxies the DAO governs
  Timelock,        \* the one that controls itself
  Dao,             \* the one through which the timelock controls the rest
  Accounts,        \* who else may send a transaction
  Addresses,       \* the addresses a proposal may name as an implementation
  Implementations, \* those with code that answers proxiableUUID as UUPS implementations do
  Original,        \* the implementation every proxy starts with
  Proposals        \* proposal ids

ASSUME UpgradeAssumption ==
  /\ Timelock \in Contracts
  /\ Dao \in Contracts
  /\ Accounts \cap Contracts = {}
  /\ Original \in Implementations
  /\ Implementations \subseteq Addresses

VARIABLES
  upgradesEnabled,             \* upgradesEnabled of each contract
  upgradesPermanentlyDisabled, \* upgradesPermanentlyDisabled of each contract
  implementation,              \* the implementation each proxy runs
  proposal                     \* the proposals and what their authors know so far

flagVars == <<upgradesEnabled, upgradesPermanentlyDisabled, implementation>>
upgradeVars == <<flagVars, proposal>>

Kinds == [kind : {"enable-upgrades", "freeze-upgrades"}]
           \cup [kind : {"upgrade"}, address : Addresses]

\* How a call gets to its target.
Routes == {"direct", "relay"}

NoProposal == [stage |-> "none"]

\* A proposal is checked for a frozen target, composed, proposed and executed.  Its calls are the
\* one of its kind, after enableUpgrades when enableFirst holds.
Drafts == [stage : {"checked"}, target : Contracts, input : Kinds]
Composed ==
  [stage : {"composed", "proposed", "executed"}, target : Contracts, input : Kinds,
   enableFirst : BOOLEAN, route : Routes, byClient : BOOLEAN]

UpgradeTypeOK ==
  /\ upgradesEnabled \in [Contracts -> BOOLEAN]
  /\ upgradesPermanentlyDisabled \in [Contracts -> BOOLEAN]
  /\ implementation \in [Contracts -> Implementations]
  /\ proposal \in [Proposals -> {NoProposal} \cup Drafts \cup Composed]

(***************************************************************************)
(* The calls of one contract, as conditions on its flags and their effects *)
(***************************************************************************)

\* A wrong variant for the runs: the timelock listens to everybody.
MayControlOpenTimelock(c, sender) ==
  c = Timelock \/ sender = IF c = Dao THEN Timelock ELSE Dao

\* onlyGovernance, onlyDAO and the timelock's self-call check.
MayControl(c, sender) == sender = IF c \in {Dao, Timelock} THEN Timelock ELSE Dao

\* A call that the DAO relays comes from the DAO, which relays for the timelock alone.
Reaches(sender, c, route) ==
  IF route = "direct" THEN MayControl(c, sender) ELSE MayControl(Dao, sender) /\ MayControl(c, Dao)

\* A wrong variant for the runs: a frozen contract can be opened again.
CanEnableAgain(c) == TRUE

CanEnable(c) == ~upgradesPermanentlyDisabled[c]

\* Every contract but the timelock freezes only what is enabled.
CanFreeze(c, enabled) == c = Timelock \/ (enabled /\ ~upgradesPermanentlyDisabled[c])

\* _authorizeUpgrade, and upgradeToAndCall's own look at the implementation.
CanUpgrade(address, enabled) == enabled /\ address \in Implementations

\* Whether calls by sender succeed one after the other; else none has an effect.
Succeeds(sender, c, route, input, enableFirst) ==
  LET enabled == enableFirst \/ upgradesEnabled[c]
  IN  /\ Reaches(sender, c, route)
      /\ enableFirst => CanEnable(c)
      /\ input.kind = "enable-upgrades" => CanEnable(c)
      /\ input.kind = "freeze-upgrades" => CanFreeze(c, enabled)
      /\ input.kind = "upgrade" => CanUpgrade(input.address, enabled)

\* The flags and the implementation of c after these calls.
Effect(c, input, enableFirst) ==
  /\ upgradesEnabled' =
       [upgradesEnabled EXCEPT
          ![c] = /\ input.kind # "freeze-upgrades"
                 /\ enableFirst \/ input.kind = "enable-upgrades" \/ @]
  /\ upgradesPermanentlyDisabled' =
       [upgradesPermanentlyDisabled EXCEPT ![c] = input.kind = "freeze-upgrades" \/ @]
  /\ implementation' =
       [implementation EXCEPT ![c] = IF input.kind = "upgrade" THEN input.address ELSE @]

(***************************************************************************)
(* Proposals                                                               *)
(***************************************************************************)

\* proposeUpgrade reads upgradesPermanentlyDisabled first.
CheckFrozen(p, c, input) ==
  /\ proposal[p] = NoProposal
  /\ ~upgradesPermanentlyDisabled[c]
  /\ proposal' = [proposal EXCEPT ![p] = [stage |-> "checked", target |-> c, input |-> input]]
  /\ UNCHANGED flagVars

\* A wrong variant for the runs: a freeze does without the permission.
AddsEnableToUpgrades(c, input) == input.kind = "upgrade" /\ ~upgradesEnabled[c]

\* It then looks at the implementation, reads upgradesEnabled and adds enableUpgrades where it
\* is missing.
AddsEnable(c, input) == input.kind # "enable-upgrades" /\ ~upgradesEnabled[c]

\* A wrong variant for the runs: every call is relayed.
RelaysAll(c) == "relay"

\* DAO and timelock are called directly, the others through the DAO's relay.
Route(c) == IF c \in {Dao, Timelock} THEN "direct" ELSE "relay"

Compose(p) ==
  /\ proposal[p].stage = "checked"
  /\ proposal[p].input.kind = "upgrade" => proposal[p].input.address \in Implementations
  /\ proposal' =
       [proposal EXCEPT
          ![p] = [stage |-> "composed", target |-> @.target, input |-> @.input,
                  enableFirst |-> AddsEnable(@.target, @.input), route |-> Route(@.target),
                  byClient |-> TRUE]]
  /\ UNCHANGED flagVars

\* The transaction that proposes it, sent when the calls are composed.
ProposeUpgrade(p) ==
  /\ proposal[p].stage = "composed"
  /\ proposal' = [proposal EXCEPT ![p].stage = "proposed"]
  /\ UNCHANGED flagVars

\* Anybody with enough votes may propose such calls without the client, on either route.
ProposeByHand(p, c, input, enableFirst, route) ==
  /\ proposal[p] = NoProposal
  /\ proposal' =
       [proposal EXCEPT ![p] = [stage |-> "proposed", target |-> c, input |-> input,
                                enableFirst |-> enableFirst, route |-> route,
                                byClient |-> FALSE]]
  /\ UNCHANGED flagVars

\* A proposal that was won and waited is executed by the timelock, all of its calls or none.
ExecuteUpgrade(p) ==
  LET q == proposal[p]
  IN  /\ q.stage = "proposed"
      /\ Succeeds(Timelock, q.target, q.route, q.input, q.enableFirst)
      /\ Effect(q.target, q.input, q.enableFirst)
      /\ proposal' = [proposal EXCEPT ![p].stage = "executed"]

\* An account calls a contract, or the DAO's relay, itself; the transaction reverts or is mined.
CallByAccount(a, c, input, route) ==
  /\ IF Succeeds(a, c, route, input, FALSE)
     THEN Effect(c, input, FALSE)
     ELSE UNCHANGED flagVars
  /\ UNCHANGED proposal

UpgradeInit ==
  /\ upgradesEnabled = [c \in Contracts |-> FALSE]
  /\ upgradesPermanentlyDisabled = [c \in Contracts |-> FALSE]
  /\ implementation = [c \in Contracts |-> Original]
  /\ proposal = [p \in Proposals |-> NoProposal]

ProposalNext(p) ==
  \/ \E c \in Contracts, input \in Kinds : CheckFrozen(p, c, input)
  \/ Compose(p)
  \/ ProposeUpgrade(p)
  \/ \E c \in Contracts, input \in Kinds, enableFirst \in BOOLEAN, route \in Routes :
       ProposeByHand(p, c, input, enableFirst, route)
  \/ ExecuteUpgrade(p)

UpgradeNext ==
  \/ \E p \in Proposals : ProposalNext(p)
  \/ \E a \in Accounts, c \in Contracts, input \in Kinds, route \in Routes :
       CallByAccount(a, c, input, route)

UpgradeSpec == UpgradeInit /\ [][UpgradeNext]_upgradeVars

(***************************************************************************)
(* Properties                                                              *)
(***************************************************************************)

\* Frozen is for good: no proposal, whenever it was composed, enables or upgrades a frozen
\* contract or lifts the freeze.
FrozenForGood ==
  [][\A c \in Contracts :
       upgradesPermanentlyDisabled[c] =>
         /\ upgradesPermanentlyDisabled'[c]
         /\ upgradesEnabled'[c] = upgradesEnabled[c]
         /\ implementation'[c] = implementation[c]]_upgradeVars

\* A proposal that the client composed from earlier reads can still be executed, however the
\* flags changed meanwhile, unless its target was frozen: enableUpgrades is there where it is
\* needed, and every call takes the route on which its target listens.
ComposedCallsStayValid ==
  \A p \in Proposals :
    LET q == proposal[p]
    IN  (q.stage \in {"composed", "proposed"} /\ q.byClient) =>
          \/ upgradesPermanentlyDisabled[q.target]
          \/ Succeeds(Timelock, q.target, q.route, q.input, q.enableFirst)

\* What a proxy runs was voted for, whoever calls whatever on whichever route: it is the
\* original or some executed proposal about this very contract names it, and some executed
\* proposal enabled or froze what is enabled or frozen.
UpgradesAreVoted ==
  \A c \in Contracts :
    LET Passed == {p \in Proposals : proposal[p].stage = "executed" /\ proposal[p].target = c}
    IN  /\ implementation[c] # Original =>
             \E p \in Passed :
               proposal[p].input = [kind |-> "upgrade", address |-> implementation[c]]
        /\ upgradesEnabled[c] =>
             \E p \in Passed : proposal[p].enableFirst \/ proposal[p].input.kind = "enable-upgrades"
        /\ upgradesPermanentlyDisabled[c] =>
             \E p \in Passed : proposal[p].input.kind = "freeze-upgrades"
=============================================================================
