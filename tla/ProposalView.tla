---------------------------- MODULE ProposalView ----------------------------
(***************************************************************************)
(* What listProposals of src/client/governance.ts shows of one proposal to *)
(* an account, while the proposal and the votes go on: the clock is read   *)
(* first, then the snapshot, and from the two the time at which the quorum *)
(* and the account's votes are looked up, each at a moment of its own.     *)
(* The other reads are displayed as they come and left out.                *)
(***************************************************************************)
EXTENDS MarketplaceGovernor

CONSTANTS
  Viewer,  \* the account that looks
  Viewed   \* the proposal it looks at

ASSUME ViewAssumption == Viewer \in Accounts /\ Viewed \in Proposals

Lookups == {"quorum", "votingPower"}

VARIABLES
  quorumBefore, \* the quorum as a past lookup at clock() - 1 answers it
  timestamp,    \* clock() as the page read it, 0 before
  before,       \* history: what lookups at timestamp - 1 answer
  read,         \* the snapshot as the page read it, 0 before
  answers       \* the lookups answered so far

pageVars == <<timestamp, before, read, answers>>
viewVars == <<governorVars, quorumBefore, pageVars>>

ViewTypeOK ==
  /\ GovernorTypeOK
  /\ quorumBefore \in Nat
  /\ timestamp \in Nat /\ read \in Nat
  /\ before \in [Lookups -> Nat]
  /\ DOMAIN answers \subseteq Lookups
  /\ \A l \in DOMAIN answers : answers[l] \in Nat

ViewInit ==
  /\ GovernorInit
  /\ quorumBefore = 0
  /\ timestamp = 0 /\ read = 0
  /\ before = [l \in Lookups |-> 0]
  /\ answers = <<>>

\* A page begins with a proposal that its log or the saved record names.
ReadClock ==
  /\ timestamp = 0 /\ Proposed(Viewed)
  /\ timestamp' = now
  /\ before' = [l \in Lookups |-> IF l = "quorum" THEN quorumBefore ELSE votesBefore[Viewer]]
  /\ UNCHANGED <<governorVars, quorumBefore, read, answers>>

ReadSnapshot ==
  /\ timestamp # 0 /\ read = 0
  /\ read' = snapshot[Viewed]
  /\ UNCHANGED <<governorVars, quorumBefore, timestamp, before, answers>>

\* Wrong variant: the time of the clock itself is looked up, which is not past yet.
timepointNow == IF read < timestamp THEN read ELSE timestamp

timepoint == IF read < timestamp THEN read ELSE timestamp - 1

\* Wrong variant: a snapshot in the second of the clock counts as polled.
projectedAfter == read > timestamp

quorumIsProjected == read >= timestamp

\* What a lookup at the timepoint answers.
AnswerTo(l) ==
  IF timepoint # read THEN before[l]
  ELSE IF l = "quorum" THEN quorum(Viewed)
  ELSE weight(Viewer, Viewed)

\* A lookup reverts unless its time is past, and answers what it was then.
Lookup(l) ==
  /\ read # 0 /\ l \notin DOMAIN answers
  /\ timepoint < now
  /\ answers' = [k \in DOMAIN answers \cup {l} |-> IF k = l THEN AnswerTo(l) ELSE answers[k]]
  /\ UNCHANGED <<governorVars, quorumBefore, timestamp, before, read>>

GovernorStep ==
  /\ GovernorNext
  /\ quorumBefore' = IF now' = now THEN quorumBefore
                     ELSE (totalVotes * settings["quorum"]) \div Denominator
  /\ UNCHANGED pageVars

ViewNext ==
  \/ GovernorStep
  \/ ReadClock
  \/ ReadSnapshot
  \/ \E l \in Lookups : Lookup(l)

ViewSpec == ViewInit /\ [][ViewNext]_viewVars

-----------------------------------------------------------------------------
(* Properties *)

\* Whenever the answers come, the page never asks for votes of a time that is not past, which
\* would fail the whole list.
LookupsNeverRevert == read # 0 => timepoint < now

\* What the page shows as decided is what the votes are counted with, then and for good: the
\* quorum and the account's weight of the snapshot, whichever second the reads fell into.
ShownPollIsFinal ==
  read # 0 /\ ~quorumIsProjected =>
    /\ "quorum" \in DOMAIN answers => answers["quorum"] = quorum(Viewed)
    /\ "votingPower" \in DOMAIN answers => answers["votingPower"] = weight(Viewer, Viewed)
=============================================================================
