----------------------------- MODULE Deployment -----------------------------
(***************************************************************************)
(* src/deployment/browser.ts and src/deployment/transactionUtils.ts: the   *)
(* deployment of a marketplace, one transaction per step, by a program     *)
(* that may be stopped between any two of its awaits and called again with *)
(* the journal of the transactions it reported.                            *)
(*                                                                         *)
(* A transaction is known by its place in txs, which stands for its hash   *)
(* and for the address of the contract it creates.  All transactions are   *)
(* those of one wallet, mined in the order of their nonces, so what is on  *)
(* chain follows from the mined ones.                                      *)
(***************************************************************************)
EXTENDS Naturals, Sequences, FiniteSets

CONSTANTS
  PoolWanted, \* whether poolTokensPerEth is given
  Options,    \* the names and supplies a run may be called with
  MaxStops,   \* bound: how often a run is stopped
  MaxDrops    \* bound: how often the network forgets what is not mined

ASSUME DeploymentAssumption ==
  PoolWanted \in BOOLEAN /\ MaxStops \in Nat /\ MaxDrops \in Nat

\* The steps in the order of the program.
Steps ==
  <<"forwarder", "token implementation", "token", "swap implementation", "swap",
    "reward implementation", "timelock implementation", "timelock", "DAO implementation", "DAO",
    "token governance", "swap governance", "proposer role", "canceller role",
    "admin renunciation", "token ownership", "swap ownership", "pool">>

Labels == {Steps[i] : i \in DOMAIN Steps}
Creations == {Steps[i] : i \in 1 .. 10}
\* The calls that read the chain before they are made.
Checked == {Steps[i] : i \in 11 .. 17}
LastStep == IF PoolWanted THEN 18 ELSE 17

\* The contracts a step's target and calldata name.
Names ==
  [l \in Labels |->
    CASE l = "forwarder" -> {}
      [] l \in {"token implementation", "swap implementation", "reward implementation",
                "DAO implementation"} -> {"forwarder"}
      [] l = "timelock implementation" -> {}
      [] l = "token" -> {"token implementation"}
      [] l = "swap" -> {"swap implementation"}
      [] l = "timelock" -> {"timelock implementation"}
      [] l = "DAO" -> {"DAO implementation", "token", "timelock", "reward implementation"}
      [] l \in {"token governance", "token ownership"} -> {"token", "DAO"}
      [] l \in {"swap governance", "swap ownership"} -> {"swap", "DAO"}
      [] l \in {"proposer role", "canceller role"} -> {"timelock", "DAO"}
      [] l = "admin renunciation" -> {"timelock"}
      [] l = "pool" -> {"token"}]

VARIABLES
  txs,      \* every transaction broadcast: its request, what became of it and its block
  journal,  \* the {label, hash} records that onSubmitted persisted
  phase,    \* "idle" when no run is active, or what the run does next in its step
  position, \* the step of the run
  current,  \* the transaction the step works on
  address,  \* the contracts of the run, 0 for not yet known
  options,  \* the options of the run
  given,    \* how many records of the journal the run was called with
  scanFrom, \* deploymentBlock
  manifest, \* the manifest last returned, <<>> for none
  stops,
  drops

runVars == <<phase, position, current, address, options, given, scanFrom>>
vars == <<txs, journal, runVars, manifest, stops, drops>>

NoAddress == [c \in Creations |-> 0]

Requests == [label : Labels, of : [Creations -> Nat], with : Options \cup {"-"}]

Transactions ==
  [request : Requests, status : {"pending", "mined", "reverted", "dropped"}, block : Nat]

DeployTypeOK ==
  /\ txs \in Seq(Transactions)
  /\ journal \in Seq([label : Labels, hash : DOMAIN txs])
  /\ phase \in {"idle", "check", "send", "record", "wait"}
  /\ position \in 0 .. LastStep + 1
  /\ current \in 0 .. Len(txs)
  /\ address \in [Creations -> 0 .. Len(txs)]
  /\ given \in 0 .. Len(journal)
  /\ options \in Options \cup {"-"}
  /\ scanFrom \in Nat
  /\ manifest \in {<<>>} \cup [contracts : [Creations -> 0 .. Len(txs)],
                               with : Options \cup {"-"}, block : Nat]
  /\ stops \in 0 .. MaxStops
  /\ drops \in 0 .. MaxDrops

(***************************************************************************)
(* Requests and the chain                                                  *)
(***************************************************************************)

Label == Steps[position]

\* The transaction of a step in a deployment of the given contracts: its target and calldata
\* name some of them, and only the token's initialization carries the options.
RequestOf(l, contracts, o) ==
  [label |-> l,
   of |-> [c \in Creations |-> IF c \in Names[l] THEN contracts[c] ELSE 0],
   with |-> IF l = "token" THEN o ELSE "-"]

Request(l) == RequestOf(l, address, options)

Mined(request) == \E i \in DOMAIN txs : txs[i].request = request /\ txs[i].status = "mined"

\* A wrong variant for the runs: reads of the pending state.
AlreadyAsked(l) ==
  \E i \in DOMAIN txs : txs[i].request = Request(l) /\ txs[i].status \in {"mined", "pending"}

\* A wrong variant for the runs: no read before a call.
NeverAsked(l) == FALSE

\* What the reads of governance(), owner() and hasRole() tell a step of the calls.
AlreadyDone(l) == Mined(Request(l))

\* Whether a mined call of the given name was made to the given contract.
Made(l, c, a) ==
  \E i \in DOMAIN txs :
    /\ txs[i].status = "mined"
    /\ txs[i].request.label = l
    /\ txs[i].request.of[c] = a

\* setGovernance and transferOwnership are the owner's, setGovernance and the pool's
\* initialization are accepted once, roles are the admin's to grant and renouncing one that is
\* not held does nothing.
Reverts(r) ==
  \/ r.label = "token governance"
     /\ \/ Made("token governance", "token", r.of["token"])
        \/ Made("token ownership", "token", r.of["token"])
  \/ r.label = "swap governance"
     /\ \/ Made("swap governance", "swap", r.of["swap"])
        \/ Made("swap ownership", "swap", r.of["swap"])
  \/ r.label = "token ownership" /\ Made("token ownership", "token", r.of["token"])
  \/ r.label = "swap ownership" /\ Made("swap ownership", "swap", r.of["swap"])
  \/ r.label \in {"proposer role", "canceller role"}
     /\ Made("admin renunciation", "timelock", r.of["timelock"])
  \/ r.label = "pool" /\ Made("pool", "token", r.of["token"])

Height == Cardinality({i \in DOMAIN txs : txs[i].status \in {"mined", "reverted"}})

Mine ==
  \E i \in DOMAIN txs :
    /\ txs[i].status = "pending"
    /\ \A j \in 1 .. i - 1 : txs[j].status # "pending"
    /\ txs' = [txs EXCEPT ![i].status = IF Reverts(txs[i].request) THEN "reverted" ELSE "mined",
                          ![i].block = Height + 1]
    /\ UNCHANGED <<journal, runVars, manifest, stops, drops>>

\* Pending transactions whose fee is too low are forgotten.
Drop ==
  /\ drops < MaxDrops
  /\ \E i \in DOMAIN txs : txs[i].status = "pending"
  /\ txs' = [i \in DOMAIN txs |->
               IF txs[i].status = "pending" THEN [txs[i] EXCEPT !.status = "dropped"] ELSE txs[i]]
  /\ drops' = drops + 1
  /\ UNCHANGED <<journal, runVars, manifest, stops>>

(***************************************************************************)
(* A run                                                                   *)
(***************************************************************************)

\* The run is over: its local state is gone.
End ==
  /\ phase' = "idle"
  /\ position' = 0
  /\ current' = 0
  /\ address' = NoAddress
  /\ options' = "-"
  /\ given' = 0
  /\ scanFrom' = 0

Begin ==
  /\ phase = "idle"
  /\ phase' = "check"
  /\ position' = 1
  /\ options' \in Options
  /\ given' = Len(journal)
  /\ UNCHANGED <<txs, journal, current, address, scanFrom, manifest, stops, drops>>

\* A wrong variant for the runs: a record that does not match triggers another transaction.
PreviousMatching(l) ==
  LET kept == {i \in 1 .. given :
                 journal[i].label = l /\ txs[journal[i].hash].request = Request(l)}
  IN  IF kept = {} THEN 0 ELSE journal[CHOOSE i \in kept : TRUE].hash

\* options.transactions.find: the record the run was given for the label, 0 for none.
Previous(l) ==
  IF \E i \in 1 .. given : journal[i].label = l
  THEN journal[CHOOSE i \in 1 .. given :
                 journal[i].label = l /\ \A j \in 1 .. i - 1 : journal[j].label # l].hash
  ELSE 0

\* The read that skips a step that is done already.
Check ==
  /\ phase = "check"
  /\ position \in 1 .. LastStep
  /\ IF Label \in Checked /\ AlreadyDone(Label)
     THEN position' = position + 1 /\ phase' = phase
     ELSE phase' = "send" /\ position' = position
  /\ UNCHANGED <<txs, journal, current, address, options, given, scanFrom, manifest, stops, drops>>

\* A wrong variant for the runs: a record is trusted by its label.
MatchesLabel(hash) == txs[hash].request.label = Label

Matches(hash) == txs[hash].request = Request(Label)

\* A transaction of the journal: the provider must find it and it must be this step's.
Reuse ==
  /\ phase = "send"
  /\ Previous(Label) # 0
  /\ IF txs[Previous(Label)].status # "dropped" /\ Matches(Previous(Label))
     THEN /\ phase' = "wait"
          /\ current' = Previous(Label)
          /\ UNCHANGED <<position, address, options, given, scanFrom>>
     ELSE End
  /\ UNCHANGED <<txs, journal, manifest, stops, drops>>

\* A new transaction: the wallet's gas estimate refuses one that would revert now.
Submit ==
  /\ phase = "send"
  /\ Previous(Label) = 0
  /\ IF Reverts(Request(Label))
     THEN End /\ txs' = txs
     ELSE /\ txs' = Append(txs, [request |-> Request(Label), status |-> "pending", block |-> 0])
          /\ phase' = "record"
          /\ current' = Len(txs')
          /\ UNCHANGED <<position, address, options, given, scanFrom>>
  /\ UNCHANGED <<journal, manifest, stops, drops>>

\* A wrong variant for the runs: the record is lost.
RecordLost ==
  /\ phase = "record"
  /\ phase' = "wait"
  /\ UNCHANGED <<txs, journal, position, current, address, options, given, scanFrom, manifest, stops, drops>>

\* onSubmitted
Record ==
  /\ phase = "record"
  /\ journal' = Append(journal, [label |-> Label, hash |-> current])
  /\ phase' = "wait"
  /\ UNCHANGED <<txs, position, current, address, options, given, scanFrom, manifest, stops, drops>>

\* A wrong variant for the runs: always the latest block.
LatestBlock == Height

\* The first block a client searches: that of a resumed forwarder, else the latest.
DeploymentBlock == IF Previous("forwarder") # 0 THEN txs[current].block ELSE Height

Confirm ==
  /\ phase = "wait"
  /\ txs[current].status = "mined"
  /\ address' = IF Label \in Creations THEN [address EXCEPT ![Label] = current] ELSE address
  /\ scanFrom' = IF Label = "forwarder" THEN DeploymentBlock ELSE scanFrom
  /\ phase' = "check"
  /\ position' = position + 1
  /\ current' = 0
  /\ UNCHANGED <<txs, journal, options, given, manifest, stops, drops>>

ConfirmFailed ==
  /\ phase = "wait"
  /\ txs[current].status = "reverted"
  /\ End
  /\ UNCHANGED <<txs, journal, manifest, stops, drops>>

Return ==
  /\ phase = "check"
  /\ position = LastStep + 1
  /\ manifest' = [contracts |-> address, with |-> options, block |-> scanFrom]
  /\ End
  /\ UNCHANGED <<txs, journal, stops, drops>>

\* The browser is closed, the connection or a callback fails.
Stop ==
  /\ phase # "idle"
  /\ stops < MaxStops
  /\ stops' = stops + 1
  /\ End
  /\ UNCHANGED <<txs, journal, manifest, drops>>

RunStep == Check \/ Reuse \/ Submit \/ Record \/ Confirm \/ ConfirmFailed \/ Return

DeployInit ==
  /\ txs = <<>>
  /\ journal = <<>>
  /\ phase = "idle"
  /\ position = 0
  /\ current = 0
  /\ address = NoAddress
  /\ options = "-"
  /\ given = 0
  /\ scanFrom = 0
  /\ manifest = <<>>
  /\ stops = 0
  /\ drops = 0

DeployNext == Begin \/ RunStep \/ Stop \/ Mine \/ Drop

DeploySpec == DeployInit /\ [][DeployNext]_vars

\* The caller calls again after a failed run, the program goes on and transactions are mined.
FairDeploySpec ==
  DeploySpec /\ WF_vars(Begin) /\ WF_vars(RunStep) /\ WF_vars(Mine)

(***************************************************************************)
(* Properties                                                              *)
(***************************************************************************)

\* However often the deployment is stopped and resumed, the journal keeps one transaction per
\* step (test/MarketplaceBrowserDeployment.ts asserts it for one stop).
OneRecordPerStep ==
  \A i, j \in DOMAIN journal : journal[i].label = journal[j].label => i = j

\* README.md:169-172: missing or mismatched transactions stop recovery rather than triggering
\* another deployment.  Whatever the options and whatever the network forgets, nobody pays for
\* more transactions than the steps of one deployment and one for each time it was stopped.
OneTransactionPerStep == OneRecordPerStep /\ Len(txs) <= LastStep + stops

\* Whether a call that puts contract a, which plays the part c, under DAO d is mined.
CallMade(l, c, a, d) ==
  \E i \in DOMAIN txs :
    /\ txs[i].status = "mined"
    /\ txs[i].request.label = l
    /\ txs[i].request.of[c] = a
    /\ txs[i].request.of["DAO"] = d

\* The deployer gives up the administration of a timelock only when a DAO that uses this timelock
\* can already schedule and cancel its operations: else nobody ever could.
TimelockNeverLocked ==
  \A i \in DOMAIN txs :
    (txs[i].status = "mined" /\ txs[i].request.label = "admin renunciation") =>
      \E d \in DOMAIN txs :
        /\ txs[d].status = "mined"
        /\ txs[d].request.label = "DAO"
        /\ txs[d].request.of["timelock"] = txs[i].request.of["timelock"]
        /\ \A role \in {"proposer role", "canceller role"} :
             CallMade(role, "timelock", txs[i].request.of["timelock"], d)

\* The token is handed over only to the DAO that it was told is its governance, and that DAO is
\* one of this very token: leftovers of a stopped run never get control of it, nor lose it.
TokenHandedToItsDAO ==
  \A i \in DOMAIN txs :
    (txs[i].status = "mined" /\ txs[i].request.label = "token ownership") =>
      LET t == txs[i].request.of["token"]
          d == txs[i].request.of["DAO"]
      IN  /\ txs[d].status = "mined"
          /\ txs[d].request.of["token"] = t
          /\ CallMade("token governance", "token", t, d)

\* A manifest is returned only of a deployment that is complete: everything it names is on chain,
\* built from one another, and handed over, and the token is the one the manifest describes.
ManifestTellsTheTruth ==
  manifest # <<>> =>
    LET Wanted(l) == RequestOf(l, manifest.contracts, manifest.with)
    IN  /\ \A l \in Creations :
             /\ txs[manifest.contracts[l]].status = "mined"
             /\ txs[manifest.contracts[l]].request = Wanted(l)
        /\ \A k \in 11 .. LastStep : Mined(Wanted(Steps[k]))

\* A client that searches from the manifest's block misses no event of its contracts.
SearchMissesNothing ==
  manifest # <<>> =>
    \A l \in {"token", "swap", "timelock", "DAO"} :
      manifest.block <= txs[manifest.contracts[l]].block

\* Once a deployment is complete, calling it again returns the same contracts.
SameContracts ==
  [][manifest # <<>> => manifest'.contracts = manifest.contracts]_vars

\* README.md:169 calls deployments with a journal resumable: called again with the options of the
\* first run, and with no transaction forgotten, a deployment is complete in the end, wherever it
\* was stopped.
EventuallyDeployed ==
  \A o \in Options : [](drops = 0 /\ options \in {o, "-"}) => <>(manifest # <<>>)
=============================================================================
