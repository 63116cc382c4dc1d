--------------------------- MODULE ProposalDecisions ---------------------------
(***************************************************************************)
(* What MarketplaceDAO promises of its proposals, said without clock,      *)
(* delegates, ballots, quorum or the timelock's operations: each of them   *)
(* is decided once, and a decision that was won has the effect of its own  *)
(* call, of nothing else, and once.  Nothing but such an effect changes    *)
(* what the DAO governs or takes rooted tokens from an account.            *)
(***************************************************************************)
EXTENDS Holdings

CONSTANTS Proposals, Call, Accounts, Settings

VARIABLES
  state,    \* how far each proposal is
  settings, \* what proposals set
  rooted    \* the rooted tokens of each account

governed  == <<settings, rooted>>
decisions == <<state, governed>>

States == {"unknown", "open", "canceled", "defeated", "succeeded", "queued", "executed"}

Init ==
  /\ state = [p \in Proposals |-> "unknown"]
  /\ rooted = [a \in Accounts |-> 0]

Become(p, from, to) ==
  /\ state[p] = from
  /\ state' = [state EXCEPT ![p] = to]

\* Time closes votes, several at once.
Close ==
  /\ state' \in [Proposals -> States]
  /\ \A p \in Proposals :
       state'[p] # state[p] => state[p] = "open" /\ state'[p] \in {"defeated", "succeeded"}
  /\ UNCHANGED governed

\* The proposal's own call, whole.
Effect(c) ==
  \/ /\ c.kind \in Settings
     /\ settings' = [settings EXCEPT ![c.kind] = c.amount]
     /\ UNCHANGED rooted
  \/ /\ c.kind = "unroot"
     /\ c.amount <= rooted[c.account]
     /\ rooted' = Debit(rooted, c.account, c.amount)
     /\ UNCHANGED settings

Decide(p) ==
  \/ /\ \/ Become(p, "unknown", "open")
        \/ Become(p, "open", "canceled")
        \/ Become(p, "succeeded", "queued")
     /\ UNCHANGED governed
  \/ Become(p, "queued", "executed") /\ Effect(Call[p])

\* Holders root, and that is all they do to what is governed.
Bind ==
  /\ rooted' \in [Accounts -> Nat]
  /\ \A a \in Accounts : rooted'[a] >= rooted[a]
  /\ UNCHANGED <<state, settings>>

Next == Close \/ (\E p \in Proposals : Decide(p)) \/ Bind

Spec == Init /\ [][Next]_decisions
=============================================================================
