--------------------------- MODULE VentureAccount ---------------------------
(***************************************************************************)
(* readAccount of src/client/venture.ts: the reads of one call are         *)
(* answered at moments of their own while the account roots, claims and is *)
(* released.  The date of the next claim is computed from two of the       *)
(* reads; the others are displayed as they come and left out.              *)
(***************************************************************************)
EXTENDS MarketplaceRewards

CONSTANT Viewer  \* the account the page is about

ASSUME ViewerAssumption == Viewer \in Accounts

Fields == {"since", "lastClaim"}

VARIABLES
  answers,   \* the reads answered so far, by field
  eligible   \* eligibleAt of the snapshot that readAccount returned, 0 before

accountVars == <<rewardsVars, answers, eligible>>

AccountTypeOK ==
  /\ RewardsTypeOK
  /\ DOMAIN answers \subseteq Fields
  /\ \A f \in DOMAIN answers : answers[f] \in Nat
  /\ eligible \in Nat

AccountInit == RewardsInit /\ answers = <<>> /\ eligible = 0

ReadNow(f) == IF f = "since" THEN soulboundSince[Viewer] ELSE lastClaimAt[Viewer]

\* One of the reads is answered.
Read(f) ==
  /\ eligible = 0 /\ f \notin DOMAIN answers
  /\ answers' = [g \in DOMAIN answers \cup {f} |-> IF g = f THEN ReadNow(f) ELSE answers[g]]
  /\ UNCHANGED <<rewardsVars, eligible>>

\* Wrong variant: with nothing rooted the period is counted from the latest block.
eligibleAtFromNow(since, lastClaim) ==
  (IF lastClaim > since THEN lastClaim ELSE IF since = 0 THEN now ELSE since) + ClaimPeriod

eligibleAt(since, lastClaim) ==
  (IF lastClaim > since THEN lastClaim ELSE since) + ClaimPeriod

\* All reads are answered and the page shows the snapshot from then on.
Return ==
  /\ DOMAIN answers = Fields
  /\ eligible' = eligibleAt(answers["since"], answers["lastClaim"])
  /\ answers' = <<>>
  /\ UNCHANGED rewardsVars

AccountNext ==
  \/ RewardsNext /\ UNCHANGED <<answers, eligible>>
  \/ \E f \in Fields : Read(f)
  \/ Return

AccountSpec == AccountInit /\ [][AccountNext]_accountVars

-----------------------------------------------------------------------------
(* Properties *)

\* However the reads are torn and however old they are, no claim succeeds before the date
\* that the page shows: it may be too early, never too late.
NoClaimBeforeShown ==
  [][lastClaimAt'[Viewer] # lastClaimAt[Viewer] => eligible <= now]_accountVars
=============================================================================
