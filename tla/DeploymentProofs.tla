-------------------------- MODULE DeploymentProofs --------------------------
(***************************************************************************)
(* Proofs about Deployment, for any number of stops and forgotten          *)
(* transactions and any options: the journal keeps one record per step,    *)
(* a stop costs at most one transaction more, control is only ever handed  *)
(* to a DAO that can use it, and a manifest tells the truth, lets no       *)
(* search miss an event and stays the same.                                *)
(***************************************************************************)
EXTENDS Deployment, FiniteSetTheorems, TLAPS

(***************************************************************************)
(* The inductive invariant                                                 *)
(***************************************************************************)

\* Where a run is.
PlaceOK ==
  /\ phase = "idle" => position = 0
  /\ phase # "idle" => position \in 1 .. LastStep + 1
  /\ phase \in {"send", "record", "wait"} => position \in 1 .. LastStep

\* The transaction a run waits for is that of its step.
CurrentOK ==
  phase \in {"record", "wait"} =>
    current \in DOMAIN txs /\ txs[current].request = Request(Label)

\* What a run added to the journal belongs to the steps it has passed, or to its own once
\* recorded; nothing is recorded yet of a step that is about to be.
JournalOK ==
  /\ phase # "idle" =>
       \A i \in DOMAIN journal :
         i > given =>
           \E k \in 1 .. LastStep :
             journal[i].label = Steps[k] /\ (k < position \/ (k = position /\ phase = "wait"))
  /\ phase = "record" => \A i \in DOMAIN journal : journal[i].label # Label

\* The DAO that a run hands control to is on chain and built on the run's token and timelock.
IsDAOOf(d, t, l) ==
  /\ d \in DOMAIN txs
  /\ txs[d].status = "mined"
  /\ txs[d].request.label = "DAO"
  /\ txs[d].request.of["token"] = t
  /\ txs[d].request.of["timelock"] = l

ContractsOK ==
  (phase # "idle" /\ position > 10) =>
    IsDAOOf(address["DAO"], address["token"], address["timelock"])

\* The calls that a run has passed are mined.
CallsOK ==
  phase # "idle" =>
    /\ position > 11 => Mined(Request("token governance"))
    /\ position > 13 => Mined(Request("proposer role"))
    /\ position > 14 => Mined(Request("canceller role"))

\* Somebody can schedule and cancel the operations of this timelock.
Backed(l) ==
  \E d \in DOMAIN txs :
    /\ txs[d].status = "mined"
    /\ txs[d].request.label = "DAO"
    /\ txs[d].request.of["timelock"] = l
    /\ \A role \in {"proposer role", "canceller role"} : CallMade(role, "timelock", l, d)

\* This DAO governs this token and is built on it.
Handed(t, d) ==
  /\ d \in DOMAIN txs
  /\ txs[d].status = "mined"
  /\ txs[d].request.of["token"] = t
  /\ CallMade("token governance", "token", t, d)

\* Even before they are mined, the calls that give control away are safe to be mined.
SafeCall(r) ==
  /\ r.label = "admin renunciation" => Backed(r.of["timelock"])
  /\ r.label = "token ownership" => Handed(r.of["token"], r.of["DAO"])

GivenAwaySafely == \A i \in DOMAIN txs : SafeCall(txs[i].request)

DeployInv ==
  /\ DeployTypeOK
  /\ PlaceOK
  /\ CurrentOK
  /\ JournalOK
  /\ OneRecordPerStep
  /\ ContractsOK
  /\ CallsOK
  /\ GivenAwaySafely

(***************************************************************************)
(* The steps                                                               *)
(***************************************************************************)

\* The number of each step.
Number(l) ==
  CASE l = "forwarder" -> 1
    [] l = "token implementation" -> 2
    [] l = "token" -> 3
    [] l = "swap implementation" -> 4
    [] l = "swap" -> 5
    [] l = "reward implementation" -> 6
    [] l = "timelock implementation" -> 7
    [] l = "timelock" -> 8
    [] l = "DAO implementation" -> 9
    [] l = "DAO" -> 10
    [] l = "token governance" -> 11
    [] l = "swap governance" -> 12
    [] l = "proposer role" -> 13
    [] l = "canceller role" -> 14
    [] l = "admin renunciation" -> 15
    [] l = "token ownership" -> 16
    [] l = "swap ownership" -> 17
    [] l = "pool" -> 18

LEMMA StepNames ==
  /\ Steps[1] = "forwarder" /\ Steps[2] = "token implementation"
  /\ Steps[3] = "token" /\ Steps[4] = "swap implementation"
  /\ Steps[5] = "swap" /\ Steps[6] = "reward implementation"
  /\ Steps[7] = "timelock implementation" /\ Steps[8] = "timelock"
  /\ Steps[9] = "DAO implementation" /\ Steps[10] = "DAO"
  /\ Steps[11] = "token governance" /\ Steps[12] = "swap governance"
  /\ Steps[13] = "proposer role" /\ Steps[14] = "canceller role"
  /\ Steps[15] = "admin renunciation" /\ Steps[16] = "token ownership"
  /\ Steps[17] = "swap ownership" /\ Steps[18] = "pool"
BY DEF Steps

LEMMA StepNumbers == DOMAIN Steps = 1 .. 18 /\ \A k \in 1 .. 18 : Number(Steps[k]) = k
<1>1. DOMAIN Steps = 1 .. 18
  BY DEF Steps
<1>2. Number("forwarder") = 1
  BY DEF Number
<1>3. Number("token implementation") = 2
  BY DEF Number
<1>4. Number("token") = 3
  BY DEF Number
<1>5. Number("swap implementation") = 4
  BY DEF Number
<1>6. Number("swap") = 5
  BY DEF Number
<1>7. Number("reward implementation") = 6
  BY DEF Number
<1>8. Number("timelock implementation") = 7
  BY DEF Number
<1>9. Number("timelock") = 8
  BY DEF Number
<1>10. Number("DAO implementation") = 9
  BY DEF Number
<1>11. Number("DAO") = 10
  BY DEF Number
<1>12. Number("token governance") = 11
  BY DEF Number
<1>13. Number("swap governance") = 12
  BY DEF Number
<1>14. Number("proposer role") = 13
  BY DEF Number
<1>15. Number("canceller role") = 14
  BY DEF Number
<1>16. Number("admin renunciation") = 15
  BY DEF Number
<1>17. Number("token ownership") = 16
  BY DEF Number
<1>18. Number("swap ownership") = 17
  BY DEF Number
<1>19. Number("pool") = 18
  BY DEF Number
<1>20. ASSUME NEW k \in 1 .. 18 PROVE Number(Steps[k]) = k
  <2>1. CASE k = 1
    BY <2>1, <1>2, StepNames
  <2>2. CASE k = 2
    BY <2>2, <1>3, StepNames
  <2>3. CASE k = 3
    BY <2>3, <1>4, StepNames
  <2>4. CASE k = 4
    BY <2>4, <1>5, StepNames
  <2>5. CASE k = 5
    BY <2>5, <1>6, StepNames
  <2>6. CASE k = 6
    BY <2>6, <1>7, StepNames
  <2>7. CASE k = 7
    BY <2>7, <1>8, StepNames
  <2>8. CASE k = 8
    BY <2>8, <1>9, StepNames
  <2>9. CASE k = 9
    BY <2>9, <1>10, StepNames
  <2>10. CASE k = 10
    BY <2>10, <1>11, StepNames
  <2>11. CASE k = 11
    BY <2>11, <1>12, StepNames
  <2>12. CASE k = 12
    BY <2>12, <1>13, StepNames
  <2>13. CASE k = 13
    BY <2>13, <1>14, StepNames
  <2>14. CASE k = 14
    BY <2>14, <1>15, StepNames
  <2>15. CASE k = 15
    BY <2>15, <1>16, StepNames
  <2>16. CASE k = 16
    BY <2>16, <1>17, StepNames
  <2>17. CASE k = 17
    BY <2>17, <1>18, StepNames
  <2>18. CASE k = 18
    BY <2>18, <1>19, StepNames
  <2> QED BY <2>1, <2>2, <2>3, <2>4, <2>5, <2>6, <2>7, <2>8, <2>9,
             <2>10, <2>11, <2>12, <2>13, <2>14, <2>15, <2>16, <2>17, <2>18
<1> QED BY <1>1, <1>20

LEMMA StepsDiffer ==
  ASSUME NEW j \in 1 .. 18, NEW k \in 1 .. 18, Steps[j] = Steps[k]
  PROVE  j = k
BY StepNumbers

\* The kind of each step.
LEMMA StepKinds ==
  ASSUME NEW k \in 1 .. 18
  PROVE  /\ Steps[k] \in Labels
         /\ Steps[k] \in Creations <=> k <= 10
         /\ Steps[k] \in Checked <=> (k > 10 /\ k <= 17)
<1>1. Steps[k] \in Labels
  BY StepNumbers DEF Labels
<1>2. Steps[k] \in Creations <=> k <= 10
  BY StepsDiffer DEF Creations
<1>3. Steps[k] \in Checked <=> (k > 10 /\ k <= 17)
  BY StepsDiffer DEF Checked
<1> QED BY <1>1, <1>2, <1>3

LEMMA CreationFacts ==
  /\ Creations \subseteq Labels
  /\ "DAO" \in Creations /\ "token" \in Creations /\ "timelock" \in Creations
  /\ LastStep \in {17, 18}
<1>1. Steps[10] \in Creations /\ Steps[3] \in Creations /\ Steps[8] \in Creations
  BY StepKinds
<1>2. Creations \subseteq Labels
  BY StepNumbers DEF Creations, Labels
<1> QED BY <1>1, <1>2, StepNames DEF LastStep

\* The contracts that the calls name.
LEMMA NameFacts ==
  /\ "token" \in Names["DAO"] /\ "timelock" \in Names["DAO"]
  /\ Names["token governance"] = {"token", "DAO"}
  /\ Names["token ownership"] = {"token", "DAO"}
  /\ Names["proposer role"] = {"timelock", "DAO"}
  /\ Names["canceller role"] = {"timelock", "DAO"}
  /\ Names["admin renunciation"] = {"timelock"}
<1>1. /\ Steps[10] \in Labels /\ Steps[11] \in Labels /\ Steps[13] \in Labels
      /\ Steps[14] \in Labels /\ Steps[15] \in Labels /\ Steps[16] \in Labels
  BY StepKinds
<1>2. /\ "DAO" \in Labels /\ "token governance" \in Labels /\ "proposer role" \in Labels
      /\ "canceller role" \in Labels /\ "admin renunciation" \in Labels
      /\ "token ownership" \in Labels
  BY <1>1, StepNames
<1> QED BY <1>2 DEF Names

\* What a request of a call tells about the contracts it was made for.
LEMMA RequestFacts ==
  /\ \A l : Request(l).label = l
  /\ Request("DAO").of["token"] = address["token"]
  /\ Request("DAO").of["timelock"] = address["timelock"]
  /\ Request("token governance").of["token"] = address["token"]
  /\ Request("token governance").of["DAO"] = address["DAO"]
  /\ Request("token ownership").of["token"] = address["token"]
  /\ Request("token ownership").of["DAO"] = address["DAO"]
  /\ Request("proposer role").of["timelock"] = address["timelock"]
  /\ Request("proposer role").of["DAO"] = address["DAO"]
  /\ Request("canceller role").of["timelock"] = address["timelock"]
  /\ Request("canceller role").of["DAO"] = address["DAO"]
  /\ Request("admin renunciation").of["timelock"] = address["timelock"]
BY CreationFacts, NameFacts DEF Request, RequestOf

\* The chain only grows: a request stays what it is and a mined transaction stays mined.
Grown ==
  /\ DOMAIN txs \subseteq DOMAIN txs'
  /\ \A i \in DOMAIN txs :
       /\ txs'[i].request = txs[i].request
       /\ txs[i].status = "mined" => txs'[i].status = "mined"

LEMMA GrownKeeps ==
  ASSUME Grown
  PROVE  /\ \A r : Mined(r) => Mined(r)'
         /\ \A r : SafeCall(r) => SafeCall(r)'
         /\ \A d, t, l : IsDAOOf(d, t, l) => IsDAOOf(d, t, l)'
<1>1. \A l, c, a, d : CallMade(l, c, a, d) => CallMade(l, c, a, d)'
  BY DEF Grown, CallMade
<1>2. \A r : Mined(r) => Mined(r)'
  BY DEF Grown, Mined
<1>3. \A l : Backed(l) => Backed(l)'
  BY <1>1 DEF Grown, Backed
<1>4. \A t, d : Handed(t, d) => Handed(t, d)'
  BY <1>1 DEF Grown, Handed
<1>5. \A d, t, l : IsDAOOf(d, t, l) => IsDAOOf(d, t, l)'
  BY DEF Grown, IsDAOOf
<1>6. \A r : SafeCall(r) => SafeCall(r)'
  BY <1>3, <1>4 DEF SafeCall
<1> QED BY <1>2, <1>5, <1>6

LEMMA HeightType == ASSUME txs \in Seq(Transactions) PROVE Height \in Nat
<1> DEFINE Done == {i \in DOMAIN txs : txs[i].status \in {"mined", "reverted"}}
<1>1. DOMAIN txs = 1 .. Len(txs) /\ Len(txs) \in Nat
  OBVIOUS
<1>2. IsFiniteSet(1 .. Len(txs))
  BY <1>1, FS_Interval
<1>3. IsFiniteSet(Done)
  BY <1>1, <1>2, FS_Subset
<1> QED BY <1>3, FS_CardinalityType DEF Height

LEMMA TxFacts ==
  ASSUME DeployTypeOK
  PROVE  /\ DOMAIN txs = 1 .. Len(txs) /\ Len(txs) \in Nat
         /\ \A i \in DOMAIN txs : txs[i] \in Transactions
         /\ DOMAIN journal = 1 .. Len(journal) /\ Len(journal) \in Nat
         /\ \A i \in DOMAIN journal :
              /\ journal[i] = [label |-> journal[i].label, hash |-> journal[i].hash]
              /\ journal[i].label \in Labels /\ journal[i].hash \in DOMAIN txs
<1> DEFINE R == [label : Labels, hash : DOMAIN txs]
<1>1. txs \in Seq(Transactions) /\ journal \in Seq(R)
  BY DEF DeployTypeOK
<1>2. DOMAIN txs = 1 .. Len(txs) /\ Len(txs) \in Nat
  BY <1>1
<1>3. \A i \in DOMAIN txs : txs[i] \in Transactions
  BY <1>1
<1>4. /\ DOMAIN journal = 1 .. Len(journal) /\ Len(journal) \in Nat
      /\ \A i \in DOMAIN journal : journal[i] \in R
  <2> HIDE DEF R
  <2> QED BY <1>1
<1> QED BY <1>2, <1>3, <1>4

\* The records of a longer chain.
LEMMA JournalTyped ==
  ASSUME DeployTypeOK, journal' = journal, DOMAIN txs \subseteq DOMAIN txs'
  PROVE  journal' \in Seq([label : Labels, hash : DOMAIN txs'])
<1> DEFINE R == [label : Labels, hash : DOMAIN txs']
<1>1. \A i \in 1 .. Len(journal) : journal[i] \in R
  BY TxFacts
<1>2. journal \in [1 .. Len(journal) -> R] /\ Len(journal) \in Nat
  <2>1. journal = [i \in 1 .. Len(journal) |-> journal[i]]
    BY TxFacts DEF DeployTypeOK
  <2> HIDE DEF R
  <2> QED BY <1>1, <2>1, TxFacts
<1>3. journal \in Seq(R)
  <2> HIDE DEF R
  <2> QED BY <1>2
<1> QED BY <1>3

\* The record a run finds for a label is the only one, so it is a transaction of that label's.
LEMMA PreviousFacts ==
  ASSUME DeployTypeOK, OneRecordPerStep, NEW l
  PROVE  IF \E i \in 1 .. given : journal[i].label = l
         THEN Previous(l) \in DOMAIN txs
         ELSE Previous(l) = 0
<1>1. CASE ~ \E i \in 1 .. given : journal[i].label = l
  BY <1>1 DEF Previous
<1>2. CASE \E i \in 1 .. given : journal[i].label = l
  <2> DEFINE First(i) == journal[i].label = l /\ \A j \in 1 .. i - 1 : journal[j].label # l
  <2>1. PICK i \in 1 .. given : journal[i].label = l
    BY <1>2
  <2>2. given \in 0 .. Len(journal)
    BY DEF DeployTypeOK
  <2>3. \A j \in 1 .. i - 1 : journal[j].label # l
    <3>1. i \in Nat /\ i <= given /\ given <= Len(journal) /\ given \in Nat /\ Len(journal) \in Nat
      BY <2>2, TxFacts
    <3>2. SUFFICES ASSUME NEW j \in 1 .. i - 1, journal[j].label = l PROVE FALSE
      OBVIOUS
    <3>3. i \in 1 .. Len(journal) /\ j \in 1 .. Len(journal) /\ i # j
      BY <3>1
    <3> QED BY <2>1, <3>2, <3>3, TxFacts DEF OneRecordPerStep
  <2>4. \E j \in 1 .. given : First(j)
    BY <2>1, <2>3
  <2> DEFINE k == CHOOSE j \in 1 .. given : First(j)
  <2>5. k \in 1 .. given
    BY <2>4
  <2>6. Previous(l) = journal[k].hash
    BY <1>2 DEF Previous
  <2>7. journal[k].hash \in DOMAIN txs
    <3> HIDE DEF k
    <3> QED BY <2>2, <2>5, TxFacts
  <2> QED BY <1>2, <2>6, <2>7
<1> QED BY <1>1, <1>2

(***************************************************************************)
(* Types                                                                   *)
(***************************************************************************)

\* Types when what a run has been given, or nothing, is left of it.
LEMMA EndTypesKept ==
  ASSUME DeployTypeOK, End, UNCHANGED <<txs, journal>>,
         manifest' = manifest \/ manifest' = [contracts |-> address, with |-> options, block |-> scanFrom],
         stops' \in 0 .. MaxStops, drops' = drops
  PROVE  DeployTypeOK'
<1>1. /\ phase' = "idle" /\ position' = 0 /\ current' = 0 /\ given' = 0 /\ scanFrom' = 0
      /\ address' \in [Creations -> 0 .. Len(txs')]
      /\ options' = "-"
  BY TxFacts DEF End, NoAddress
<1>2. manifest' \in {<<>>} \cup [contracts : [Creations -> 0 .. Len(txs')],
                                with : Options \cup {"-"}, block : Nat]
  BY DEF DeployTypeOK
<1>3. position' \in 0 .. LastStep' + 1 /\ current' \in 0 .. Len(txs') /\ given' \in 0 .. Len(journal')
  BY <1>1, TxFacts, CreationFacts DEF LastStep
<1>4. txs' \in Seq(Transactions) /\ journal' \in Seq([label : Labels, hash : DOMAIN txs'])
  BY DEF DeployTypeOK
<1> QED BY <1>1, <1>2, <1>3, <1>4 DEF DeployTypeOK

\* Types when only the chain moves on, or a transaction is added to it.
LEMMA ChainTypesKept ==
  ASSUME DeployTypeOK, txs' \in Seq(Transactions), Len(txs') >= Len(txs), journal' = journal,
         phase' \in {"idle", "check", "send", "record", "wait"},
         current' \in 0 .. Len(txs'),
         UNCHANGED <<position, address, options, given, scanFrom, manifest, stops>>,
         drops' \in 0 .. MaxDrops
  PROVE  DeployTypeOK'
<1>1. DOMAIN txs' = 1 .. Len(txs') /\ Len(txs') \in Nat
  OBVIOUS
<1>2. DOMAIN txs \subseteq DOMAIN txs'
  BY <1>1, TxFacts
<1>3. journal' \in Seq([label : Labels, hash : DOMAIN txs'])
  BY <1>2, JournalTyped
<1>4. address' \in [Creations -> 0 .. Len(txs')]
  BY <1>1, TxFacts DEF DeployTypeOK
<1>5. manifest' \in {<<>>} \cup [contracts : [Creations -> 0 .. Len(txs')],
                                with : Options \cup {"-"}, block : Nat]
  <2>1. [Creations -> 0 .. Len(txs)] \subseteq [Creations -> 0 .. Len(txs')]
    BY <1>1, TxFacts
  <2> QED BY <2>1 DEF DeployTypeOK
<1> QED BY <1>3, <1>4, <1>5 DEF DeployTypeOK, LastStep

\* Types when neither the chain nor the journal changes and the run goes on.
LEMMA RunTypesKept ==
  ASSUME DeployTypeOK, UNCHANGED <<txs, journal, options, manifest, stops, drops>>,
         phase' \in {"idle", "check", "send", "record", "wait"},
         position' \in 0 .. LastStep + 1,
         current' \in 0 .. Len(txs),
         address' \in [Creations -> 0 .. Len(txs)],
         given' \in 0 .. Len(journal),
         scanFrom' \in Nat
  PROVE  DeployTypeOK'
BY DEF DeployTypeOK, LastStep

LEMMA TypesKept ==
  ASSUME DeployTypeOK, OneRecordPerStep, PlaceOK, CurrentOK, [DeployNext]_vars
  PROVE  DeployTypeOK'
<1>0. /\ LastStep \in {17, 18}
      /\ position \in 0 .. LastStep + 1
      /\ current \in 0 .. Len(txs)
      /\ address \in [Creations -> 0 .. Len(txs)]
      /\ given \in 0 .. Len(journal)
      /\ stops \in 0 .. MaxStops
      /\ drops \in 0 .. MaxDrops
      /\ scanFrom \in Nat
      /\ phase \in {"idle", "check", "send", "record", "wait"}
  BY CreationFacts DEF DeployTypeOK
<1>1. CASE UNCHANGED vars
  BY <1>1 DEF vars, runVars, DeployTypeOK, LastStep
<1>2. CASE Begin
  <2>1. Len(journal) \in Nat
    BY TxFacts
  <2> QED BY <1>0, <1>2, <2>1 DEF Begin, DeployTypeOK, LastStep
<1>3. CASE Check
  BY <1>0, <1>3, RunTypesKept DEF Check
<1>4. CASE Reuse
  <2>1. CASE End
    BY <1>0, <1>4, <2>1, EndTypesKept DEF Reuse
  <2>2. CASE ~End
    <3>1. Previous(Label) \in 0 .. Len(txs)
      BY <1>4, PreviousFacts, TxFacts DEF Reuse
    <3> QED BY <1>0, <1>4, <2>2, <3>1, RunTypesKept DEF Reuse
  <2> QED BY <2>1, <2>2
<1>5. CASE Submit
  <2>1. CASE End /\ txs' = txs
    BY <1>0, <1>5, <2>1, EndTypesKept DEF Submit
  <2>2. CASE ~(End /\ txs' = txs)
    <3> DEFINE t == [request |-> Request(Label), status |-> "pending", block |-> 0]
    <3>1. /\ txs' = Append(txs, t)
          /\ phase' = "record"
          /\ current' = Len(txs')
          /\ UNCHANGED <<position, address, options, given, scanFrom, journal, manifest, stops, drops>>
      BY <1>5, <2>2 DEF Submit
    <3>2. position \in 1 .. 18
      BY <1>0, <1>5 DEF Submit, PlaceOK
    <3>3. Label \in Labels
      BY <3>2, StepKinds DEF Label
    <3>4. address \in [Creations -> Nat]
      BY <1>0, TxFacts
    <3>5. Request(Label) \in Requests
      BY <3>3, <3>4 DEF Request, RequestOf, Requests, DeployTypeOK
    <3>6. t \in Transactions
      BY <3>5 DEF Transactions
    <3>7. txs' \in Seq(Transactions) /\ Len(txs') = Len(txs) + 1 /\ Len(txs) \in Nat
      <4> HIDE DEF t
      <4> QED BY <3>1, <3>6 DEF DeployTypeOK
    <3> QED BY <1>0, <3>1, <3>7, ChainTypesKept
  <2> QED BY <2>1, <2>2
<1>6. CASE Record
  <2>1. position \in 1 .. 18
    BY <1>0, <1>6 DEF Record, PlaceOK
  <2>2. Label \in Labels
    BY <2>1, StepKinds DEF Label
  <2>3. current \in DOMAIN txs
    BY <1>6 DEF Record, CurrentOK
  <2> DEFINE R == [label : Labels, hash : DOMAIN txs]
             e == [label |-> Label, hash |-> current]
  <2>4. e \in R
    BY <2>2, <2>3
  <2>5. journal \in Seq(R) /\ journal' = Append(journal, e)
    BY <1>6 DEF Record, DeployTypeOK
  <2>6. journal' \in Seq(R) /\ Len(journal') = Len(journal) + 1 /\ Len(journal) \in Nat
    <3> HIDE DEF R, e
    <3> QED BY <2>4, <2>5
  <2>7. given \in 0 .. Len(journal')
    BY <1>0, <2>6
  <2> QED BY <1>0, <1>6, <2>6, <2>7 DEF Record, DeployTypeOK, LastStep
<1>7. CASE Confirm
  <2>1. Height \in Nat
    BY HeightType DEF DeployTypeOK
  <2>2. txs[current].block \in Nat
    BY <1>7, TxFacts DEF Confirm, CurrentOK, Transactions
  <2>3. position \in 1 .. LastStep
    BY <1>7 DEF Confirm, PlaceOK
  <2>4. scanFrom' \in Nat
    BY <1>0, <1>7, <2>1, <2>2 DEF Confirm, DeploymentBlock
  <2>5. address' \in [Creations -> 0 .. Len(txs)]
    BY <1>0, <1>7 DEF Confirm
  <2>6. 0 \in 0 .. Len(txs) /\ position + 1 \in 0 .. LastStep + 1
    BY <1>0, <2>3, TxFacts
  <2> QED BY <1>0, <1>7, <2>4, <2>5, <2>6, RunTypesKept DEF Confirm
<1>8. CASE ConfirmFailed
  BY <1>0, <1>8, EndTypesKept DEF ConfirmFailed
<1>9. CASE Return
  BY <1>0, <1>9, EndTypesKept DEF Return
<1>10. CASE Stop
  <2>1. stops + 1 \in 0 .. MaxStops
    BY <1>0, <1>10, DeploymentAssumption DEF Stop
  <2> QED BY <1>10, <2>1, EndTypesKept DEF Stop
<1>11. CASE Mine
  <2>1. PICK i \in DOMAIN txs :
          txs' = [txs EXCEPT ![i].status = IF Reverts(txs[i].request) THEN "reverted" ELSE "mined",
                             ![i].block = Height + 1]
    BY <1>11 DEF Mine
  <2> DEFINE t == [txs[i] EXCEPT !.status = IF Reverts(txs[i].request) THEN "reverted" ELSE "mined",
                                 !.block = Height + 1]
  <2>2. t \in Transactions
    <3> DEFINE outcome == IF Reverts(txs[i].request) THEN "reverted" ELSE "mined"
               block == Height + 1
    <3>1. txs[i] \in Transactions
      BY TxFacts
    <3>2. outcome \in {"pending", "mined", "reverted", "dropped"}
      OBVIOUS
    <3>3. block \in Nat
      BY HeightType DEF DeployTypeOK
    <3>4. t = [txs[i] EXCEPT !.status = outcome, !.block = block]
      OBVIOUS
    <3> HIDE DEF outcome, block, t
    <3> QED BY <3>1, <3>2, <3>3, <3>4 DEF Transactions
  <2>3. txs' = [txs EXCEPT ![i] = t]
    BY <2>1
  <2>4. txs' \in Seq(Transactions) /\ Len(txs') = Len(txs) /\ Len(txs) \in Nat
    <3> HIDE DEF t
    <3> QED BY <2>2, <2>3 DEF DeployTypeOK
  <2> QED BY <1>0, <1>11, <2>4, ChainTypesKept DEF Mine, runVars
<1>12. CASE Drop
  <2> DEFINE After(i) ==
        IF txs[i].status = "pending" THEN [txs[i] EXCEPT !.status = "dropped"] ELSE txs[i]
  <2>1. \A i \in 1 .. Len(txs) : After(i) \in Transactions
    BY TxFacts DEF Transactions
  <2>2. txs' = [i \in 1 .. Len(txs) |-> After(i)]
    BY <1>12, TxFacts DEF Drop
  <2>3. txs' \in Seq(Transactions) /\ Len(txs') = Len(txs) /\ Len(txs) \in Nat
    <3> HIDE DEF After
    <3> QED BY <2>1, <2>2, TxFacts
  <2>4. drops + 1 \in 0 .. MaxDrops
    BY <1>0, <1>12, DeploymentAssumption DEF Drop
  <2> QED BY <1>0, <1>12, <2>3, <2>4, ChainTypesKept DEF Drop, runVars
<1> QED BY <1>1, <1>2, <1>3, <1>4, <1>5, <1>6, <1>7, <1>8, <1>9, <1>10, <1>11, <1>12
     DEF DeployNext, RunStep

(***************************************************************************)
(* The other conjuncts                                                     *)
(***************************************************************************)

LEMMA ChainGrows ==
  ASSUME DeployTypeOK, [DeployNext]_vars
  PROVE  Grown
<1>1. CASE txs' = txs
  BY <1>1 DEF Grown
<1>2. CASE Mine
  <2>1. PICK i \in DOMAIN txs :
          /\ txs[i].status = "pending"
          /\ txs' = [txs EXCEPT ![i].status = IF Reverts(txs[i].request) THEN "reverted" ELSE "mined",
                                ![i].block = Height + 1]
    BY <1>2 DEF Mine
  <2>2. DOMAIN txs' = DOMAIN txs
    BY <2>1
  <2>3. \A j \in DOMAIN txs : j # i => txs'[j] = txs[j]
    BY <2>1
  <2>4. txs'[i].request = txs[i].request
    <3> DEFINE s == IF Reverts(txs[i].request) THEN "reverted" ELSE "mined"
               b == Height + 1
    <3>1. txs' = [txs EXCEPT ![i].status = s, ![i].block = b]
      BY <2>1
    <3>2. txs[i] \in Transactions
      BY TxFacts
    <3> HIDE DEF s, b
    <3> QED BY <3>1, <3>2 DEF Transactions
  <2> QED BY <2>1, <2>2, <2>3, <2>4 DEF Grown
<1>3. CASE Drop
  <2>1. \A i \in DOMAIN txs : txs[i] \in Transactions
    BY TxFacts
  <2> QED BY <1>3, <2>1 DEF Drop, Grown, Transactions
<1>4. CASE Submit
  <2>1. PICK t : txs' = txs \/ txs' = Append(txs, t)
    BY <1>4 DEF Submit
  <2>2. CASE txs' = Append(txs, t)
    BY <2>2, TxFacts DEF Grown, DeployTypeOK
  <2> QED BY <1>1, <2>1, <2>2
<1> QED BY <1>1, <1>2, <1>3, <1>4
     DEF DeployNext, RunStep, Begin, Check, Reuse, Record, Confirm, ConfirmFailed, Return, Stop, vars

\* Requests depend on the run's contracts and options only.
LEMMA RequestsStay ==
  ASSUME address' = address, options' = options
  PROVE  \A l : Request(l)' = Request(l)
BY DEF Request, RequestOf

\* A run that moves by at most a step, past a call that is mined, still knows its contracts and
\* has its calls behind it.
LEMMA PassedCalls ==
  ASSUME DeployInv, Grown, phase # "idle",
         address' = address, options' = options,
         position' \in {position, position + 1},
         position' # position => position > 10,
         position' # position => Mined(Request(Label))
  PROVE  ContractsOK' /\ CallsOK'
<1>1. position \in 1 .. 19
  BY CreationFacts DEF DeployInv, PlaceOK
<1>2. position' > 10 => position > 10
  BY <1>1
<1>3. ContractsOK'
  BY <1>2, GrownKeeps DEF DeployInv, ContractsOK
<1>4. \A l : Mined(Request(l)) => Mined(Request(l))'
  <2>1. \A r : Mined(r) => Mined(r)'
    BY GrownKeeps
  <2>2. \A r : Mined(r)' = (\E i \in DOMAIN txs' : txs'[i].request = r /\ txs'[i].status = "mined")
    BY DEF Mined
  <2> QED BY <2>1, <2>2, RequestsStay DEF Mined
<1>5. ASSUME position' > 11 PROVE Mined(Request("token governance"))
  <2>1. CASE position > 11
    BY <2>1 DEF DeployInv, CallsOK
  <2>2. CASE position <= 11
    <3>1. position = 11 /\ position' # position
      BY <1>1, <1>5, <2>2
    <3>2. Label = "token governance"
      BY <3>1, StepNames DEF Label
    <3>3. Mined(Request(Label))
      BY <3>1
    <3> QED BY <3>2, <3>3
  <2>3. position > 11 \/ position <= 11
    BY <1>1
  <2> QED BY <2>1, <2>2, <2>3
<1>6. ASSUME position' > 13 PROVE Mined(Request("proposer role"))
  <2>1. CASE position > 13
    BY <2>1 DEF DeployInv, CallsOK
  <2>2. CASE position <= 13
    <3>1. position = 13 /\ position' # position
      BY <1>1, <1>6, <2>2
    <3>2. Label = "proposer role"
      BY <3>1, StepNames DEF Label
    <3>3. Mined(Request(Label))
      BY <3>1
    <3> QED BY <3>2, <3>3
  <2>3. position > 13 \/ position <= 13
    BY <1>1
  <2> QED BY <2>1, <2>2, <2>3
<1>7. ASSUME position' > 14 PROVE Mined(Request("canceller role"))
  <2>1. CASE position > 14
    BY <2>1 DEF DeployInv, CallsOK
  <2>2. CASE position <= 14
    <3>1. position = 14 /\ position' # position
      BY <1>1, <1>7, <2>2
    <3>2. Label = "canceller role"
      BY <3>1, StepNames DEF Label
    <3>3. Mined(Request(Label))
      BY <3>1
    <3> QED BY <3>2, <3>3
  <2>3. position > 14 \/ position <= 14
    BY <1>1
  <2> QED BY <2>1, <2>2, <2>3
<1>8. CallsOK'
  BY <1>4, <1>5, <1>6, <1>7 DEF CallsOK
<1> QED BY <1>3, <1>8

\* What was safe to be mined stays safe as long as nothing new is broadcast.
LEMMA StaysSafe ==
  ASSUME DeployInv, Grown, DOMAIN txs' = DOMAIN txs
  PROVE  GivenAwaySafely'
<1>1. \A r : SafeCall(r) => SafeCall(r)'
  BY GrownKeeps
<1>2. \A i \in DOMAIN txs' : i \in DOMAIN txs /\ txs'[i].request = txs[i].request
  BY DEF Grown
<1>3. GivenAwaySafely
  BY DEF DeployInv
<1> QED BY <1>1, <1>2, <1>3 DEF GivenAwaySafely

\* The conjuncts about the run, that is, all but the types and what is broadcast.
RunInv ==
  PlaceOK /\ CurrentOK /\ JournalOK /\ OneRecordPerStep /\ ContractsOK /\ CallsOK

\* A run that is over has nothing to promise.
LEMMA EndKeeps ==
  ASSUME DeployInv, End, journal' = journal
  PROVE  RunInv'
<1>1. phase' = "idle" /\ position' = 0
  BY DEF End
<1>2. OneRecordPerStep'
  BY DEF DeployInv, OneRecordPerStep
<1> QED BY <1>1, <1>2 DEF RunInv, PlaceOK, CurrentOK, JournalOK, ContractsOK, CallsOK

\* A run that waits while the chain moves on.
LEMMA WaitKeeps ==
  ASSUME DeployInv, Grown, UNCHANGED <<runVars, journal>>
  PROVE  RunInv'
<1>1. /\ phase' = phase /\ position' = position /\ current' = current /\ address' = address
      /\ options' = options /\ given' = given /\ journal' = journal
  BY DEF runVars
<1>2. PlaceOK'
  BY <1>1 DEF DeployInv, PlaceOK, LastStep
<1>3. CurrentOK'
  <2>1. Label' = Label
    BY <1>1 DEF Label
  <2>2. Request(Label)' = Request(Label)
    BY <1>1, <2>1 DEF Request, RequestOf
  <2> QED BY <1>1, <2>2 DEF DeployInv, CurrentOK, Grown
<1>4. JournalOK'
  BY <1>1 DEF DeployInv, JournalOK, Label, LastStep
<1>5. OneRecordPerStep'
  BY <1>1 DEF DeployInv, OneRecordPerStep
<1>6. CASE phase = "idle"
  BY <1>1, <1>2, <1>3, <1>4, <1>5, <1>6 DEF RunInv, ContractsOK, CallsOK
<1>7. CASE phase # "idle"
  <2>1. ContractsOK' /\ CallsOK'
    BY <1>1, <1>7, PassedCalls
  <2> QED BY <1>2, <1>3, <1>4, <1>5, <2>1 DEF RunInv
<1> QED BY <1>6, <1>7

\* Begin: all there is in the journal is given.
LEMMA BeginKeeps ==
  ASSUME DeployInv, Begin
  PROVE  RunInv'
<1>1. /\ phase' = "check" /\ position' = 1 /\ given' = Len(journal)
      /\ txs' = txs /\ journal' = journal
  BY DEF Begin
<1>2. PlaceOK' /\ CurrentOK'
  BY <1>1, CreationFacts DEF PlaceOK, CurrentOK, LastStep
<1>3. JournalOK'
  <2>1. \A i \in DOMAIN journal : ~(i > Len(journal))
    BY TxFacts DEF DeployInv
  <2> QED BY <1>1, <2>1 DEF JournalOK
<1>4. OneRecordPerStep'
  BY <1>1 DEF DeployInv, OneRecordPerStep
<1>5. ContractsOK' /\ CallsOK'
  BY <1>1 DEF ContractsOK, CallsOK
<1> QED BY <1>2, <1>3, <1>4, <1>5 DEF RunInv

\* Check, and Reuse and Confirm as far as the journal is concerned: a run that moves on without
\* a new record, and not to the point where it is about to make one.
LEMMA MoveKeepsJournal ==
  ASSUME DeployInv, UNCHANGED <<journal, given>>, phase # "idle", phase' # "record",
         \/ phase \in {"check", "send", "record"} /\ position' \in {position, position + 1}
         \/ position' = position + 1
  PROVE  JournalOK' /\ OneRecordPerStep'
<1>1. OneRecordPerStep'
  BY DEF DeployInv, OneRecordPerStep
<1>2. position \in 1 .. 19
  BY CreationFacts DEF DeployInv, PlaceOK
<1>3. LastStep \in {17, 18} /\ LastStep' = LastStep
  BY CreationFacts DEF LastStep
<1>4. ASSUME NEW i \in DOMAIN journal, i > given
      PROVE  \E k \in 1 .. LastStep :
               journal[i].label = Steps[k] /\ (k < position' \/ (k = position' /\ phase' = "wait"))
  <2>1. PICK k \in 1 .. LastStep :
          journal[i].label = Steps[k] /\ (k < position \/ (k = position /\ phase = "wait"))
    BY <1>4 DEF DeployInv, JournalOK
  <2>2. k < position'
    BY <1>2, <1>3, <2>1
  <2> QED BY <2>1, <2>2
<1> QED BY <1>1, <1>3, <1>4 DEF JournalOK

LEMMA CheckKeeps ==
  ASSUME DeployInv, Check
  PROVE  RunInv'
<1>1. /\ phase = "check" /\ position \in 1 .. LastStep
      /\ \/ position' = position + 1 /\ phase' = "check" /\ Label \in Checked /\ AlreadyDone(Label)
         \/ position' = position /\ phase' = "send"
      /\ UNCHANGED <<txs, journal, current, address, options, given>>
  BY DEF Check
<1>2. LastStep \in {17, 18} /\ LastStep' = LastStep
  BY CreationFacts DEF LastStep
<1>3. PlaceOK' /\ CurrentOK'
  BY <1>1, <1>2 DEF PlaceOK, CurrentOK
<1>4. JournalOK' /\ OneRecordPerStep'
  BY <1>1, MoveKeepsJournal
<1>5. Grown
  BY <1>1 DEF Grown
<1>6. ASSUME position' # position PROVE position > 10 /\ Mined(Request(Label))
  <2>1. Label \in Checked /\ AlreadyDone(Label)
    BY <1>1, <1>6
  <2>2. position > 10
    BY <1>1, <1>2, <2>1, StepKinds DEF Label
  <2> QED BY <2>1, <2>2 DEF AlreadyDone
<1>7. ContractsOK' /\ CallsOK'
  BY <1>1, <1>5, <1>6, PassedCalls
<1> QED BY <1>3, <1>4, <1>7 DEF RunInv

LEMMA ReuseKeeps ==
  ASSUME DeployInv, Reuse
  PROVE  RunInv'
<1>1. CASE End
  BY <1>1, EndKeeps DEF Reuse
<1>2. CASE ~End
  <2>1. /\ phase = "send" /\ phase' = "wait" /\ current' = Previous(Label)
        /\ Previous(Label) # 0 /\ Matches(Previous(Label))
        /\ UNCHANGED <<txs, journal, position, address, options, given>>
    BY <1>2 DEF Reuse
  <2>2. Previous(Label) \in DOMAIN txs
    BY <2>1, PreviousFacts DEF DeployInv
  <2>3. Label' = Label
    BY <2>1 DEF Label
  <2>4. Request(Label)' = Request(Label)
    BY <2>1, <2>3 DEF Request, RequestOf
  <2>5. CurrentOK'
    BY <2>1, <2>2, <2>4 DEF CurrentOK, Matches
  <2>6. PlaceOK'
    BY <2>1 DEF DeployInv, PlaceOK, LastStep
  <2>7. JournalOK' /\ OneRecordPerStep'
    BY <2>1, MoveKeepsJournal
  <2>8. Grown
    BY <2>1 DEF Grown
  <2>9. ContractsOK' /\ CallsOK'
    BY <2>1, <2>8, PassedCalls
  <2> QED BY <2>5, <2>6, <2>7, <2>9 DEF RunInv
<1> QED BY <1>1, <1>2

LEMMA ConfirmKeeps ==
  ASSUME DeployInv, Confirm
  PROVE  RunInv'
<1>1. /\ phase = "wait" /\ phase' = "check" /\ position' = position + 1
      /\ txs[current].status = "mined"
      /\ address' = IF Label \in Creations THEN [address EXCEPT ![Label] = current] ELSE address
      /\ UNCHANGED <<txs, journal, options, given>>
  BY DEF Confirm
<1>2. LastStep \in {17, 18} /\ LastStep' = LastStep /\ position \in 1 .. LastStep
  BY <1>1, CreationFacts DEF LastStep, DeployInv, PlaceOK
<1>3. PlaceOK' /\ CurrentOK'
  BY <1>1, <1>2 DEF PlaceOK, CurrentOK
<1>4. JournalOK' /\ OneRecordPerStep'
  BY <1>1, MoveKeepsJournal
<1>5. current \in DOMAIN txs /\ txs[current].request = Request(Label)
  BY <1>1 DEF DeployInv, CurrentOK
<1>6. Grown
  BY <1>1 DEF Grown
<1>7. CASE position > 10
  <2>1. Label \notin Creations
    BY <1>2, <1>7, StepKinds DEF Label
  <2>2. address' = address
    BY <1>1, <2>1
  <2>3. Mined(Request(Label))
    BY <1>1, <1>5 DEF Mined
  <2>4. ContractsOK' /\ CallsOK'
    BY <1>1, <1>6, <1>7, <2>2, <2>3, PassedCalls
  <2> QED BY <1>3, <1>4, <2>4 DEF RunInv
<1>8. CASE position = 10
  <2>1. Label = "DAO"
    BY <1>8, StepNames DEF Label
  <2>2. /\ address'["DAO"] = current /\ address'["token"] = address["token"]
        /\ address'["timelock"] = address["timelock"]
    BY <1>1, <2>1, CreationFacts DEF DeployInv, DeployTypeOK
  <2>3. txs[current].request = Request("DAO")
    BY <1>5, <2>1
  <2>4. IsDAOOf(current, address["token"], address["timelock"])
    BY <1>1, <1>5, <2>3, RequestFacts DEF IsDAOOf
  <2>5. ContractsOK'
    BY <1>1, <2>2, <2>4 DEF ContractsOK, IsDAOOf
  <2>6. CallsOK'
    BY <1>1, <1>8 DEF CallsOK
  <2> QED BY <1>3, <1>4, <2>5, <2>6 DEF RunInv
<1>9. CASE position < 10
  <2>1. ~(position' > 10) /\ ~(position' > 11) /\ ~(position' > 13) /\ ~(position' > 14)
    BY <1>1, <1>2, <1>9
  <2>2. ContractsOK'
    BY <2>1 DEF ContractsOK
  <2>3. CallsOK'
    BY <2>1 DEF CallsOK
  <2> QED BY <1>3, <1>4, <2>2, <2>3 DEF RunInv
<1> QED BY <1>2, <1>7, <1>8, <1>9

LEMMA RecordKeeps ==
  ASSUME DeployInv, Record
  PROVE  RunInv'
<1> DEFINE e == [label |-> Label, hash |-> current]
           n == Len(journal)
<1>1. /\ phase = "record" /\ phase' = "wait"
      /\ journal' = Append(journal, e)
      /\ UNCHANGED <<txs, position, current, address, options, given>>
  BY DEF Record
<1>2. n \in Nat /\ DOMAIN journal = 1 .. n
  BY TxFacts DEF DeployInv
<1>3. /\ DOMAIN journal' = 1 .. n + 1
      /\ \A i \in 1 .. n : journal'[i] = journal[i]
      /\ journal'[n + 1].label = Label
  BY <1>1, <1>2 DEF DeployInv, DeployTypeOK
<1> HIDE DEF n, e
<1>4. \A i \in DOMAIN journal : journal[i].label # Label
  BY <1>1 DEF DeployInv, JournalOK
<1>5. LastStep \in {17, 18} /\ LastStep' = LastStep /\ position \in 1 .. LastStep
  BY <1>1, CreationFacts DEF LastStep, DeployInv, PlaceOK
<1>6. OneRecordPerStep'
  <2>1. SUFFICES ASSUME NEW i \in 1 .. n + 1, NEW j \in 1 .. n + 1,
                        journal'[i].label = journal'[j].label
                 PROVE  i = j
    BY <1>3 DEF OneRecordPerStep
  <2>2. CASE i \in 1 .. n /\ j \in 1 .. n
    BY <1>2, <1>3, <2>1, <2>2 DEF DeployInv, OneRecordPerStep
  <2>3. CASE i = n + 1 /\ j \in 1 .. n
    BY <1>2, <1>3, <1>4, <2>1, <2>3
  <2>4. CASE i \in 1 .. n /\ j = n + 1
    BY <1>2, <1>3, <1>4, <2>1, <2>4
  <2> QED BY <1>2, <2>2, <2>3, <2>4
<1>7. JournalOK'
  <2>1. ASSUME NEW i \in 1 .. n + 1, i > given
        PROVE  \E k \in 1 .. LastStep :
                 journal'[i].label = Steps[k] /\ (k < position \/ k = position)
    <3>1. CASE i \in 1 .. n
      <4>1. PICK k \in 1 .. LastStep :
              journal[i].label = Steps[k] /\ (k < position \/ (k = position /\ phase = "wait"))
        BY <1>1, <1>2, <2>1, <3>1 DEF DeployInv, JournalOK
      <4> QED BY <1>3, <3>1, <4>1
    <3>2. CASE i = n + 1
      BY <1>3, <1>5, <3>2 DEF Label
    <3> QED BY <1>2, <3>1, <3>2
  <2> QED BY <1>1, <1>3, <1>5, <2>1 DEF JournalOK
<1>8. PlaceOK'
  BY <1>1 DEF DeployInv, PlaceOK, LastStep
<1>9. CurrentOK'
  <2>1. Label' = Label
    BY <1>1 DEF Label
  <2>2. Request(Label)' = Request(Label)
    BY <1>1, <2>1 DEF Request, RequestOf
  <2> QED BY <1>1, <2>2 DEF DeployInv, CurrentOK
<1>10. Grown
  BY <1>1 DEF Grown
<1>11. ContractsOK' /\ CallsOK'
  BY <1>1, <1>10, PassedCalls
<1> QED BY <1>6, <1>7, <1>8, <1>9, <1>11 DEF RunInv

\* What a run broadcasts is safe to be mined: at the calls that give control away, the DAO that
\* takes it is on chain and the calls before are mined.
LEMMA NewCallSafe ==
  ASSUME DeployInv, phase = "send"
  PROVE  SafeCall(Request(Label))
<1> DEFINE d == address["DAO"]
           t == address["token"]
           l == address["timelock"]
<1>1. position \in 1 .. 18
  BY CreationFacts DEF DeployInv, PlaceOK
<1>2. ASSUME position > 10 PROVE IsDAOOf(d, t, l)
  BY <1>2 DEF DeployInv, ContractsOK
<1>0. Request(Label).label = Label
  BY RequestFacts
<1>3. CASE position = 15
  <2>1. Label = "admin renunciation"
    BY <1>3, StepNames DEF Label
  <2>2. IsDAOOf(d, t, l)
    BY <1>2, <1>3
  <2>3. Mined(Request("proposer role")) /\ Mined(Request("canceller role"))
    <3>1. position > 13 /\ position > 14
      BY <1>3
    <3> QED BY <3>1 DEF DeployInv, CallsOK
  <2>4. CallMade("proposer role", "timelock", l, d)
    BY <2>3, RequestFacts DEF Mined, CallMade
  <2>5. CallMade("canceller role", "timelock", l, d)
    BY <2>3, RequestFacts DEF Mined, CallMade
  <2>6. Backed(l)
    BY <2>2, <2>4, <2>5 DEF IsDAOOf, Backed
  <2> QED BY <1>0, <2>1, <2>6, RequestFacts DEF SafeCall
<1>4. CASE position = 16
  <2>1. Label = "token ownership"
    BY <1>4, StepNames DEF Label
  <2>2. IsDAOOf(d, t, l)
    BY <1>2, <1>4
  <2>3. Mined(Request("token governance"))
    <3>1. position > 11
      BY <1>4
    <3> QED BY <3>1 DEF DeployInv, CallsOK
  <2>4. CallMade("token governance", "token", t, d)
    BY <2>3, RequestFacts DEF Mined, CallMade
  <2>5. Handed(t, d)
    BY <2>2, <2>4 DEF IsDAOOf, Handed
  <2> QED BY <1>0, <2>1, <2>5, RequestFacts DEF SafeCall
<1>5. CASE position # 15 /\ position # 16
  <2>1. Label # Steps[15] /\ Label # Steps[16]
    BY <1>1, <1>5, StepsDiffer DEF Label
  <2> QED BY <1>0, <2>1, StepNames DEF SafeCall
<1> QED BY <1>3, <1>4, <1>5

LEMMA SubmitKeeps ==
  ASSUME DeployInv, Submit, Grown
  PROVE  RunInv' /\ GivenAwaySafely'
<1>1. CASE txs' = txs
  <2>1. End /\ journal' = journal
    <3>1. ~ \E t : txs' = Append(txs, t)
      BY <1>1, TxFacts DEF DeployInv, DeployTypeOK
    <3> QED BY <3>1 DEF Submit
  <2> QED BY <1>1, <2>1, EndKeeps, StaysSafe
<1>2. CASE txs' # txs
  <2> DEFINE t == [request |-> Request(Label), status |-> "pending", block |-> 0]
             n == Len(txs)
  <2>1. /\ phase = "send" /\ phase' = "record" /\ Previous(Label) = 0
        /\ txs' = Append(txs, t) /\ current' = Len(txs')
        /\ UNCHANGED <<journal, position, address, options, given>>
    BY <1>2 DEF Submit
  <2>2. n \in Nat /\ DOMAIN txs = 1 .. n
    BY TxFacts DEF DeployInv
  <2>3. /\ DOMAIN txs' = 1 .. n + 1 /\ Len(txs') = n + 1
        /\ \A i \in 1 .. n : txs'[i] = txs[i]
        /\ txs'[n + 1].request = Request(Label)
    BY <2>1, <2>2 DEF DeployInv, DeployTypeOK
  <2> HIDE DEF n, t
  <2>4. Label' = Label
    BY <2>1 DEF Label
  <2>5. Request(Label)' = Request(Label)
    BY <2>1, <2>4 DEF Request, RequestOf
  <2>6. LastStep \in {17, 18} /\ LastStep' = LastStep /\ position \in 1 .. LastStep
    BY <2>1, CreationFacts DEF LastStep, DeployInv, PlaceOK
  <2>7. PlaceOK'
    BY <2>1, <2>6 DEF PlaceOK
  <2>8. CurrentOK'
    BY <2>1, <2>2, <2>3, <2>5 DEF CurrentOK
  <2>9. ContractsOK' /\ CallsOK'
    BY <2>1, PassedCalls
  <2>10. OneRecordPerStep'
    BY <2>1 DEF DeployInv, OneRecordPerStep
  <2>11. \A i \in DOMAIN journal : i > given =>
           \E k \in 1 .. LastStep : journal[i].label = Steps[k] /\ k < position
    BY <2>1 DEF DeployInv, JournalOK
  <2>12. \A i \in DOMAIN journal : journal[i].label # Label
    <3>1. SUFFICES ASSUME NEW i \in DOMAIN journal, journal[i].label = Label PROVE FALSE
      OBVIOUS
    <3>2. given \in 0 .. Len(journal) /\ DOMAIN journal = 1 .. Len(journal) /\ Len(journal) \in Nat
      BY TxFacts DEF DeployInv, DeployTypeOK
    <3>3. CASE i > given
      <4>1. PICK k \in 1 .. LastStep : journal[i].label = Steps[k] /\ k < position
        BY <2>11, <3>3
      <4>2. k \in 1 .. 18 /\ position \in 1 .. 18 /\ k # position
        BY <2>6, <4>1
      <4> QED BY <3>1, <4>1, <4>2, StepsDiffer DEF Label
    <3>4. CASE i <= given
      <4>1. i \in 1 .. given
        BY <3>2, <3>4
      <4>2. Previous(Label) \in DOMAIN txs
        BY <3>1, <4>1, PreviousFacts DEF DeployInv
      <4> QED BY <2>1, <2>2, <4>2
    <3> QED BY <3>2, <3>3, <3>4
  <2>13. JournalOK'
    BY <2>1, <2>4, <2>6, <2>11, <2>12 DEF JournalOK
  <2>14. GivenAwaySafely'
    <3>1. \A r : SafeCall(r) => SafeCall(r)'
      BY GrownKeeps
    <3>2. \A i \in 1 .. n : SafeCall(txs[i].request)
      BY <2>2 DEF DeployInv, GivenAwaySafely
    <3>3. SafeCall(Request(Label))
      BY <2>1, NewCallSafe
    <3>4. ASSUME NEW i \in 1 .. n + 1, NEW r, r = txs'[i].request PROVE SafeCall(r)'
      <4>1. SafeCall(r)
        BY <2>2, <2>3, <3>2, <3>3, <3>4
      <4> QED BY <3>1, <4>1
    <3> QED BY <2>3, <3>4 DEF GivenAwaySafely
  <2> QED BY <2>7, <2>8, <2>9, <2>10, <2>13, <2>14 DEF RunInv
<1> QED BY <1>1, <1>2

(***************************************************************************)
(* The theorems                                                            *)
(***************************************************************************)

LEMMA InvStarts == DeployInit => DeployInv
<1> SUFFICES ASSUME DeployInit PROVE DeployInv
  OBVIOUS
<1>1. /\ txs = <<>> /\ journal = <<>> /\ phase = "idle" /\ position = 0 /\ current = 0
      /\ address = [c \in Creations |-> 0] /\ options = "-" /\ given = 0 /\ scanFrom = 0
      /\ manifest = <<>> /\ stops = 0 /\ drops = 0
  BY DEF DeployInit, NoAddress
<1>2. DeployTypeOK
  <2>1. address \in [Creations -> 0 .. Len(txs)]
    BY <1>1
  <2>2. position \in 0 .. LastStep + 1
    BY <1>1, CreationFacts
  <2>3. stops \in 0 .. MaxStops /\ drops \in 0 .. MaxDrops
    BY <1>1, DeploymentAssumption
  <2> QED BY <1>1, <2>1, <2>2, <2>3 DEF DeployTypeOK
<1>3. DOMAIN txs = {} /\ DOMAIN journal = {}
  BY <1>1
<1> QED BY <1>1, <1>2, <1>3
     DEF DeployInv, PlaceOK, CurrentOK, JournalOK, OneRecordPerStep, ContractsOK, CallsOK,
         GivenAwaySafely

LEMMA InvKept == DeployInv /\ [DeployNext]_vars => DeployInv'
<1> SUFFICES ASSUME DeployInv, [DeployNext]_vars PROVE DeployInv'
  OBVIOUS
<1>1. DeployTypeOK'
  BY TypesKept DEF DeployInv
<1>2. Grown
  BY ChainGrows DEF DeployInv
<1>3. DOMAIN txs' = DOMAIN txs => GivenAwaySafely'
  BY <1>2, StaysSafe
<1>4. CASE UNCHANGED vars
  <2>1. RunInv'
    BY <1>2, <1>4, WaitKeeps DEF vars
  <2> QED BY <1>1, <1>3, <1>4, <2>1 DEF vars, RunInv, DeployInv
<1>5. CASE Begin
  <2>1. RunInv'
    BY <1>5, BeginKeeps
  <2> QED BY <1>1, <1>3, <1>5, <2>1 DEF Begin, RunInv, DeployInv
<1>6. CASE Check
  <2>1. RunInv'
    BY <1>6, CheckKeeps
  <2> QED BY <1>1, <1>3, <1>6, <2>1 DEF Check, RunInv, DeployInv
<1>7. CASE Reuse
  <2>1. RunInv'
    BY <1>7, ReuseKeeps
  <2> QED BY <1>1, <1>3, <1>7, <2>1 DEF Reuse, RunInv, DeployInv
<1>8. CASE Submit
  <2>1. RunInv' /\ GivenAwaySafely'
    BY <1>2, <1>8, SubmitKeeps
  <2> QED BY <1>1, <2>1 DEF RunInv, DeployInv
<1>9. CASE Record
  <2>1. RunInv'
    BY <1>9, RecordKeeps
  <2> QED BY <1>1, <1>3, <1>9, <2>1 DEF Record, RunInv, DeployInv
<1>10. CASE Confirm
  <2>1. RunInv'
    BY <1>10, ConfirmKeeps
  <2> QED BY <1>1, <1>3, <1>10, <2>1 DEF Confirm, RunInv, DeployInv
<1>11. CASE ConfirmFailed \/ Return \/ Stop
  <2>1. End /\ txs' = txs /\ journal' = journal
    BY <1>11 DEF ConfirmFailed, Return, Stop
  <2>2. RunInv'
    BY <2>1, EndKeeps
  <2> QED BY <1>1, <1>3, <2>1, <2>2 DEF RunInv, DeployInv
<1>12. CASE Mine \/ Drop
  <2>1. DOMAIN txs' = DOMAIN txs /\ UNCHANGED <<runVars, journal>>
    BY <1>12 DEF Mine, Drop
  <2>2. RunInv'
    BY <1>2, <2>1, WaitKeeps
  <2> QED BY <1>1, <1>3, <2>1, <2>2 DEF RunInv, DeployInv
<1> QED BY <1>4, <1>5, <1>6, <1>7, <1>8, <1>9, <1>10, <1>11, <1>12 DEF DeployNext, RunStep

(***************************************************************************)
(* The manifest                                                            *)
(***************************************************************************)

\* The transaction that a deployment knows as contract l is mined and built from its others.
Built(l, contracts, o) ==
  /\ contracts[l] \in DOMAIN txs
  /\ txs[contracts[l]].status = "mined"
  /\ txs[contracts[l]].request = RequestOf(l, contracts, o)

\* The steps that a run has passed are done, for the contracts it knows now.
PartsOK ==
  phase # "idle" => \A k \in 1 .. 10 : k < position => Built(Steps[k], address, options)

PassedOK ==
  phase # "idle" => \A k \in 11 .. LastStep : k < position => Mined(Request(Steps[k]))

Told ==
  manifest # <<>> =>
    /\ \A k \in 1 .. 10 : Built(Steps[k], manifest.contracts, manifest.with)
    /\ \A k \in 11 .. LastStep : Mined(RequestOf(Steps[k], manifest.contracts, manifest.with))

TruthInv == PartsOK /\ PassedOK /\ Told

\* A contract is built from those of earlier steps.
LEMMA NamesComeFirst ==
  ASSUME NEW j \in 1 .. 10, NEW k \in 1 .. 10, Steps[k] \in Names[Steps[j]]
  PROVE  k < j
<1>1. Steps[j] \in Labels
  BY StepKinds
<1>2. CASE j \in {1, 7}
  BY <1>1, <1>2, StepNames DEF Names
<1>3. CASE j \in {2, 4, 6, 9}
  <2>1. Names[Steps[j]] = {"forwarder"}
    BY <1>1, <1>3, StepNames DEF Names
  <2>2. Steps[k] = Steps[1]
    BY <2>1, StepNames
  <2> QED BY <1>3, <2>2, StepsDiffer
<1>4. CASE j = 3
  <2>1. Steps[k] = Steps[2]
    BY <1>1, <1>4, StepNames DEF Names
  <2> QED BY <1>4, <2>1, StepsDiffer
<1>5. CASE j = 5
  <2>1. Steps[k] = Steps[4]
    BY <1>1, <1>5, StepNames DEF Names
  <2> QED BY <1>5, <2>1, StepsDiffer
<1>6. CASE j = 8
  <2>1. Steps[k] = Steps[7]
    BY <1>1, <1>6, StepNames DEF Names
  <2> QED BY <1>6, <2>1, StepsDiffer
<1>7. CASE j = 10
  <2>1. Steps[k] \in {Steps[9], Steps[3], Steps[8], Steps[6]}
    BY <1>1, <1>7, StepNames DEF Names
  <2> QED BY <1>7, <2>1, StepsDiffer
<1> QED BY <1>2, <1>3, <1>4, <1>5, <1>6, <1>7

\* What is built stays built, and what was mined stays mined.
LEMMA GrownKeepsBuilt ==
  ASSUME Grown
  PROVE  /\ \A l, m, o : Built(l, m, o) =>
              /\ m[l] \in DOMAIN txs'
              /\ txs'[m[l]].status = "mined"
              /\ txs'[m[l]].request = RequestOf(l, m, o)
         /\ \A r : Mined(r) => \E i \in DOMAIN txs' : txs'[i].request = r /\ txs'[i].status = "mined"
BY DEF Grown, Built, Mined

\* The manifest is not touched.
LEMMA ToldStays ==
  ASSUME Told, Grown, manifest' = manifest
  PROVE  Told'
<1>1. SUFFICES ASSUME manifest # <<>>
               PROVE  /\ \A k \in 1 .. 10 : Built(Steps[k], manifest.contracts, manifest.with)'
                      /\ \A k \in 11 .. LastStep :
                           Mined(RequestOf(Steps[k], manifest.contracts, manifest.with))'
  BY DEF Told, LastStep
<1>2. ASSUME NEW k \in 1 .. 10 PROVE Built(Steps[k], manifest.contracts, manifest.with)'
  <2>1. Built(Steps[k], manifest.contracts, manifest.with)
    BY <1>1 DEF Told
  <2>2. RequestOf(Steps[k], manifest.contracts, manifest.with)'
        = RequestOf(Steps[k], manifest.contracts, manifest.with)
    BY DEF RequestOf
  <2> QED BY <2>1, <2>2, GrownKeepsBuilt DEF Built
<1>3. ASSUME NEW k \in 11 .. LastStep
      PROVE  Mined(RequestOf(Steps[k], manifest.contracts, manifest.with))'
  <2>1. Mined(RequestOf(Steps[k], manifest.contracts, manifest.with))
    BY <1>1 DEF Told
  <2> QED BY <2>1, GrownKeepsBuilt DEF Mined, RequestOf
<1> QED BY <1>2, <1>3

\* A run that moves by at most a step, past a call that is mined, has its steps behind it.
LEMMA PassedSteps ==
  ASSUME DeployInv, PartsOK, PassedOK, Grown, phase # "idle",
         address' = address, options' = options,
         position' \in {position, position + 1},
         position' # position => position > 10,
         position' # position => Mined(Request(Label))
  PROVE  PartsOK' /\ PassedOK'
<1>1. position \in 1 .. 19 /\ LastStep \in {17, 18} /\ LastStep' = LastStep
  BY CreationFacts DEF DeployInv, PlaceOK, LastStep
<1>2. ASSUME NEW k \in 1 .. 10, k < position' PROVE Built(Steps[k], address, options)'
  <2>1. k < position
    BY <1>1, <1>2
  <2>2. Built(Steps[k], address, options)
    BY <2>1 DEF PartsOK
  <2> QED BY <2>2, GrownKeepsBuilt DEF Built, RequestOf
<1>3. ASSUME NEW k \in 11 .. LastStep, k < position' PROVE Mined(Request(Steps[k]))'
  <2>1. Mined(Request(Steps[k]))
    <3>1. CASE k < position
      BY <3>1 DEF PassedOK
    <3>2. CASE k = position /\ position' # position
      BY <3>2 DEF Label
    <3> QED BY <1>1, <1>3, <3>1, <3>2
  <2>2. Request(Steps[k])' = Request(Steps[k])
    BY RequestsStay
  <2> QED BY <2>1, <2>2, GrownKeepsBuilt DEF Mined
<1> QED BY <1>1, <1>2, <1>3 DEF PartsOK, PassedOK

\* A new contract is named by none of those before it.
LEMMA BuildingKeepsParts ==
  ASSUME DeployInv, PartsOK, phase # "idle", position <= 10,
         txs' = txs, options' = options, position' = position + 1,
         current \in DOMAIN txs, txs[current].status = "mined",
         txs[current].request = Request(Label),
         address' = [address EXCEPT ![Label] = current]
  PROVE  PartsOK'
<1>1. position \in 1 .. 10
  BY CreationFacts DEF DeployInv, PlaceOK
<1>2. Label \in Creations /\ address \in [Creations -> 0 .. Len(txs)]
  <2>1. Label \in Creations
    BY <1>1, StepKinds DEF Label
  <2>2. address \in [Creations -> 0 .. Len(txs)]
    BY DEF DeployInv, DeployTypeOK
  <2> QED BY <2>1, <2>2
<1>3. \A c \in Creations : c # Label => address'[c] = address[c]
  BY <1>2
<1>4. address'[Label] = current
  BY <1>2
<1>5. ASSUME NEW k \in 1 .. 10, k <= position
      PROVE  RequestOf(Steps[k], address', options') = RequestOf(Steps[k], address, options)
  <2>1. Label \notin Names[Steps[k]]
    BY <1>1, <1>5, NamesComeFirst DEF Label
  <2>2. \A c \in Creations : c \in Names[Steps[k]] => address'[c] = address[c]
    BY <1>3, <2>1
  <2>3. [c \in Creations |-> IF c \in Names[Steps[k]] THEN address'[c] ELSE 0]
        = [c \in Creations |-> IF c \in Names[Steps[k]] THEN address[c] ELSE 0]
    BY <2>2
  <2> QED BY <2>3 DEF RequestOf
<1>6. ASSUME NEW k \in 1 .. 10, k < position' PROVE Built(Steps[k], address, options)'
  <2>1. k \in Nat /\ k <= position
    BY <1>1, <1>6
  <2>2. CASE k = position
    <3>1. Steps[k] = Label
      BY <2>2 DEF Label
    <3>2. txs[current].request = RequestOf(Steps[k], address', options')
      BY <1>5, <2>1, <3>1 DEF Request
    <3> QED BY <1>4, <3>1, <3>2 DEF Built, RequestOf
  <2>3. CASE k < position
    <3>1. Built(Steps[k], address, options)
      BY <2>3 DEF PartsOK
    <3>2. Steps[k] # Label /\ Steps[k] \in Creations
      BY <1>1, <2>3, StepsDiffer, StepKinds DEF Label
    <3>3. address'[Steps[k]] = address[Steps[k]]
      BY <1>3, <3>2
    <3>4. txs'[address'[Steps[k]]].request = RequestOf(Steps[k], address', options')
      BY <1>5, <2>1, <3>1, <3>3 DEF Built
    <3> QED BY <3>1, <3>3, <3>4 DEF Built, RequestOf
  <2> QED BY <1>1, <2>1, <2>2, <2>3
<1> QED BY <1>6 DEF PartsOK

LEMMA TruthStarts == DeployInit => TruthInv
BY DEF DeployInit, TruthInv, PartsOK, PassedOK, Told

LEMMA TruthKept ==
  ASSUME DeployInv, TruthInv, [DeployNext]_vars
  PROVE  TruthInv'
<1>0. Grown /\ PartsOK /\ PassedOK /\ Told
  BY ChainGrows DEF DeployInv, TruthInv
<1>1. ASSUME manifest' = manifest PROVE Told'
  BY <1>0, <1>1, ToldStays
<1>2. ASSUME End PROVE PartsOK' /\ PassedOK'
  BY <1>2 DEF End, PartsOK, PassedOK
<1>3. ASSUME phase # "idle", UNCHANGED <<position, address, options>> PROVE PartsOK' /\ PassedOK'
  BY <1>0, <1>3, PassedSteps
<1>4. ASSUME phase' = "idle" PROVE PartsOK' /\ PassedOK'
  BY <1>4 DEF PartsOK, PassedOK
<1>5. CASE UNCHANGED vars
  BY <1>1, <1>3, <1>4, <1>5 DEF vars, runVars, TruthInv
<1>6. CASE Begin
  <2>1. position' = 1 /\ manifest' = manifest
    BY <1>6 DEF Begin
  <2>2. LastStep \in {17, 18} /\ LastStep' = LastStep
    BY CreationFacts DEF LastStep
  <2>3. PartsOK' /\ PassedOK'
    BY <2>1, <2>2 DEF PartsOK, PassedOK
  <2> QED BY <1>1, <2>1, <2>3 DEF TruthInv
<1>7. CASE Check
  <2>1. /\ phase = "check" /\ position \in 1 .. LastStep /\ manifest' = manifest
        /\ \/ position' = position + 1 /\ Label \in Checked /\ AlreadyDone(Label)
           \/ position' = position
        /\ UNCHANGED <<address, options>>
    BY <1>7 DEF Check
  <2>2. ASSUME position' # position PROVE position > 10 /\ Mined(Request(Label))
    BY <2>1, <2>2, CreationFacts, StepKinds DEF Label, AlreadyDone
  <2> QED BY <1>0, <1>1, <2>1, <2>2, PassedSteps DEF TruthInv
<1>8. CASE Reuse \/ Submit
  <2>1. /\ phase # "idle" /\ manifest' = manifest
        /\ End \/ UNCHANGED <<position, address, options>>
    BY <1>8 DEF Reuse, Submit
  <2> QED BY <1>1, <1>2, <1>3, <2>1 DEF TruthInv
<1>9. CASE Record
  BY <1>1, <1>3, <1>9 DEF Record, TruthInv
<1>10. CASE Confirm
  <2>1. /\ phase = "wait" /\ position' = position + 1 /\ txs[current].status = "mined"
        /\ address' = IF Label \in Creations THEN [address EXCEPT ![Label] = current] ELSE address
        /\ UNCHANGED <<txs, options, manifest>>
    BY <1>10 DEF Confirm
  <2>2. current \in DOMAIN txs /\ txs[current].request = Request(Label)
    BY <2>1 DEF DeployInv, CurrentOK
  <2>3. position \in 1 .. LastStep /\ LastStep \in {17, 18} /\ LastStep' = LastStep
    BY <2>1, CreationFacts DEF DeployInv, PlaceOK, LastStep
  <2>4. CASE position > 10
    <3>1. Label \notin Creations
      BY <2>3, <2>4, StepKinds DEF Label
    <3>2. Mined(Request(Label))
      BY <2>1, <2>2 DEF Mined
    <3>3. PartsOK' /\ PassedOK'
      BY <1>0, <2>1, <2>4, <3>1, <3>2, PassedSteps
    <3> QED BY <1>1, <2>1, <3>3 DEF TruthInv
  <2>5. CASE position <= 10
    <3>1. Label \in Creations
      BY <2>3, <2>5, StepKinds DEF Label
    <3>2. PartsOK'
      BY <1>0, <2>1, <2>2, <2>5, <3>1, BuildingKeepsParts
    <3>3. \A k \in 11 .. LastStep' : ~(k < position')
      BY <2>1, <2>3, <2>5
    <3>4. PassedOK'
      BY <3>3 DEF PassedOK
    <3> QED BY <1>1, <2>1, <3>2, <3>4 DEF TruthInv
  <2> QED BY <2>3, <2>4, <2>5
<1>11. CASE ConfirmFailed \/ Stop
  <2>1. End /\ manifest' = manifest
    BY <1>11 DEF ConfirmFailed, Stop
  <2> QED BY <1>1, <1>2, <2>1 DEF TruthInv
<1>12. CASE Return
  <2> DEFINE m == [contracts |-> address, with |-> options, block |-> scanFrom]
  <2>1. /\ phase = "check" /\ position = LastStep + 1 /\ End /\ txs' = txs
        /\ manifest' = m
    BY <1>12 DEF Return
  <2>2. m.contracts = address /\ m.with = options
    OBVIOUS
  <2>3. LastStep \in {17, 18} /\ LastStep' = LastStep
    BY CreationFacts DEF LastStep
  <2> HIDE DEF m
  <2>4. ASSUME NEW k \in 1 .. 10 PROVE Built(Steps[k], m.contracts, m.with)
    BY <1>0, <2>1, <2>2, <2>3 DEF PartsOK
  <2>5. ASSUME NEW k \in 11 .. LastStep PROVE Mined(RequestOf(Steps[k], m.contracts, m.with))
    <3>1. Mined(Request(Steps[k]))
      BY <1>0, <2>1, <2>3 DEF PassedOK
    <3> QED BY <2>2, <3>1 DEF Request
  <2>6. Told'
    BY <2>1, <2>3, <2>4, <2>5 DEF Told, Built, Mined, RequestOf
  <2> QED BY <1>2, <2>1, <2>6 DEF TruthInv
<1>13. CASE Mine \/ Drop
  <2>1. /\ UNCHANGED <<phase, position, address, options>> /\ manifest' = manifest
    BY <1>13 DEF Mine, Drop, runVars
  <2> QED BY <1>1, <1>3, <1>4, <2>1 DEF TruthInv
<1> QED BY <1>5, <1>6, <1>7, <1>8, <1>9, <1>10, <1>11, <1>12, <1>13 DEF DeployNext, RunStep

(***************************************************************************)
(* Blocks and records                                                      *)
(***************************************************************************)

\* Transactions are mined in the order of their nonces, none above the height of the chain.
MinedInOrder ==
  \A i, j \in DOMAIN txs :
    (i < j /\ txs[j].status = "mined") =>
      /\ txs[i].status # "pending"
      /\ txs[i].status = "mined" => txs[i].block <= txs[j].block

BlocksBounded == \A i \in DOMAIN txs : txs[i].status = "mined" => txs[i].block <= Height

\* What a step does to the chain: mined transactions keep their blocks, and those that are
\* mined by it are above the others.
Higher ==
  /\ Height' >= Height
  /\ \A i \in DOMAIN txs' :
       txs'[i].status = "mined" =>
         \/ i \in DOMAIN txs /\ txs[i].status = "mined" /\ txs'[i].block = txs[i].block
         \/ txs'[i].block > Height

\* A chain on which the same transactions count as mined.
LEMMA SameChain ==
  ASSUME DeployInv, MinedInOrder, BlocksBounded, txs' \in Seq(Transactions), Len(txs') >= Len(txs),
         \A i \in DOMAIN txs : txs[i].status # "pending" => txs'[i] = txs[i],
         \A i \in DOMAIN txs :
           txs[i].status = "pending" => txs'[i].status \in {"pending", "dropped"},
         \A i \in DOMAIN txs' : i \notin DOMAIN txs => txs'[i].status = "pending"
  PROVE  MinedInOrder' /\ BlocksBounded' /\ Higher
<1>1. /\ DOMAIN txs = 1 .. Len(txs) /\ Len(txs) \in Nat /\ DOMAIN txs' = 1 .. Len(txs') /\ Len(txs') \in Nat
      /\ DOMAIN txs \subseteq DOMAIN txs'
  BY TxFacts DEF DeployInv
<1>2. \A i \in DOMAIN txs' :
        txs'[i].status \in {"mined", "reverted"} =>
          i \in DOMAIN txs /\ txs[i].status \in {"mined", "reverted"} /\ txs'[i] = txs[i]
  BY <1>1
<1>3. \A i \in DOMAIN txs : txs[i].status \in {"mined", "reverted"} => txs'[i] = txs[i]
  OBVIOUS
<1>4. {i \in DOMAIN txs' : txs'[i].status \in {"mined", "reverted"}}
      = {i \in DOMAIN txs : txs[i].status \in {"mined", "reverted"}}
  BY <1>1, <1>2, <1>3
<1>5. Height' = Height
  BY <1>4 DEF Height
<1>6. Height \in Nat
  BY HeightType DEF DeployInv, DeployTypeOK
<1>7. MinedInOrder'
  <2>1. SUFFICES ASSUME NEW i \in DOMAIN txs', NEW j \in DOMAIN txs', i < j, txs'[j].status = "mined"
                 PROVE  /\ txs'[i].status # "pending"
                        /\ txs'[i].status = "mined" => txs'[i].block <= txs'[j].block
    BY DEF MinedInOrder
  <2>2. j \in DOMAIN txs /\ txs[j].status = "mined" /\ txs'[j] = txs[j]
    BY <1>2, <2>1
  <2>3. i \in DOMAIN txs
    BY <1>1, <2>1, <2>2
  <2>4. /\ txs[i].status # "pending"
        /\ txs[i].status = "mined" => txs[i].block <= txs[j].block
    BY <2>1, <2>2, <2>3 DEF MinedInOrder
  <2> QED BY <2>2, <2>3, <2>4
<1>8. BlocksBounded'
  BY <1>2, <1>5 DEF BlocksBounded
<1>9. Higher
  BY <1>2, <1>5, <1>6 DEF Higher
<1> QED BY <1>7, <1>8, <1>9

LEMMA ChainInOrder ==
  ASSUME DeployInv, MinedInOrder, BlocksBounded, [DeployNext]_vars
  PROVE  MinedInOrder' /\ BlocksBounded' /\ Higher
<1>1. /\ DOMAIN txs = 1 .. Len(txs) /\ Len(txs) \in Nat
      /\ txs \in Seq(Transactions) /\ txs' \in Seq(Transactions)
      /\ \A i \in DOMAIN txs : txs[i] \in Transactions
  BY TxFacts, TypesKept DEF DeployInv, DeployTypeOK
<1>2. CASE txs' = txs
  BY <1>1, <1>2, SameChain
<1>3. CASE Drop
  <2>1. /\ DOMAIN txs' = DOMAIN txs
        /\ \A i \in DOMAIN txs :
             txs'[i] = IF txs[i].status = "pending" THEN [txs[i] EXCEPT !.status = "dropped"] ELSE txs[i]
    BY <1>3 DEF Drop
  <2>2. Len(txs') = Len(txs)
    BY <1>1, <2>1
  <2>3. ASSUME NEW i \in DOMAIN txs, txs[i].status = "pending" PROVE txs'[i].status = "dropped"
    BY <1>1, <2>1, <2>3 DEF Transactions
  <2> QED BY <1>1, <2>1, <2>2, <2>3, SameChain
<1>4. CASE Submit
  <2> DEFINE t == [request |-> Request(Label), status |-> "pending", block |-> 0]
  <2>1. CASE txs' = Append(txs, t)
    <3>1. t.status = "pending"
      OBVIOUS
    <3> HIDE DEF t
    <3>2. /\ Len(txs') = Len(txs) + 1 /\ \A i \in DOMAIN txs : txs'[i] = txs[i]
          /\ \A i \in DOMAIN txs' : i \notin DOMAIN txs => txs'[i] = t
      BY <1>1, <2>1
    <3>3. Len(txs') >= Len(txs)
      BY <1>1, <3>2
    <3> QED BY <1>1, <3>1, <3>2, <3>3, SameChain
  <2> QED BY <1>2, <1>4, <2>1 DEF Submit
<1>5. CASE Mine
  <2>1. PICK m \in DOMAIN txs :
          /\ txs[m].status = "pending"
          /\ \A j \in 1 .. m - 1 : txs[j].status # "pending"
          /\ txs' = [txs EXCEPT ![m].status = IF Reverts(txs[m].request) THEN "reverted" ELSE "mined",
                                ![m].block = Height + 1]
    BY <1>5 DEF Mine
  <2>2. DOMAIN txs' = DOMAIN txs /\ \A i \in DOMAIN txs : i # m => txs'[i] = txs[i]
    BY <2>1
  <2>3. txs'[m].status \in {"mined", "reverted"} /\ txs'[m].block = Height + 1
    <3> DEFINE s == IF Reverts(txs[m].request) THEN "reverted" ELSE "mined"
               b == Height + 1
    <3>1. txs' = [txs EXCEPT ![m].status = s, ![m].block = b]
      BY <2>1
    <3>2. s \in {"mined", "reverted"}
      OBVIOUS
    <3>3. txs[m] \in Transactions
      BY <1>1
    <3>4. txs'[m].status = s /\ txs'[m].block = b
      <4> HIDE DEF s, b
      <4> QED BY <3>1, <3>3 DEF Transactions
    <3> QED BY <3>2, <3>4
  <2>4. Height \in Nat
    BY <1>1, HeightType
  <2>5. Height' = Height + 1
    <3> DEFINE Done == {i \in DOMAIN txs : txs[i].status \in {"mined", "reverted"}}
               After == {i \in DOMAIN txs' : txs'[i].status \in {"mined", "reverted"}}
    <3>1. After = Done \cup {m} /\ m \notin Done
      BY <2>1, <2>2, <2>3
    <3>2. IsFiniteSet(Done)
      <4>1. IsFiniteSet(1 .. Len(txs))
        BY <1>1, FS_Interval
      <4> QED BY <1>1, <4>1, FS_Subset
    <3>3. Cardinality(Done \cup {m}) = Cardinality(Done) + 1
      <4> HIDE DEF Done
      <4> QED BY <3>1, <3>2, FS_AddElement
    <3> QED BY <3>1, <3>3 DEF Height
  <2>6. MinedInOrder'
    <3>1. SUFFICES ASSUME NEW i \in DOMAIN txs, NEW j \in DOMAIN txs, i < j, txs'[j].status = "mined"
                   PROVE  /\ txs'[i].status # "pending"
                          /\ txs'[i].status = "mined" => txs'[i].block <= txs'[j].block
      BY <2>2 DEF MinedInOrder
    <3>2. CASE j = m
      <4>1. i \in 1 .. m - 1 /\ i # m
        BY <1>1, <3>1, <3>2
      <4>2. txs[i].status # "pending" /\ txs'[i] = txs[i]
        BY <2>1, <2>2, <4>1
      <4>3. ASSUME txs[i].status = "mined" PROVE txs[i].block <= txs'[j].block
        <5>1. txs[i].block <= Height /\ txs[i].block \in Nat
          BY <1>1, <4>3 DEF BlocksBounded, Transactions
        <5> QED BY <2>3, <2>4, <3>2, <5>1
      <4> QED BY <4>2, <4>3
    <3>3. CASE j # m
      <4>1. txs'[j] = txs[j] /\ txs[j].status = "mined"
        BY <2>2, <3>1, <3>3
      <4>2. /\ txs[i].status # "pending"
            /\ txs[i].status = "mined" => txs[i].block <= txs[j].block
        BY <3>1, <4>1 DEF MinedInOrder
      <4>3. txs'[i] = txs[i]
        BY <2>1, <2>2, <4>2
      <4> QED BY <4>1, <4>2, <4>3
    <3> QED BY <3>2, <3>3
  <2>7. BlocksBounded'
    <3>1. SUFFICES ASSUME NEW i \in DOMAIN txs, txs'[i].status = "mined"
                   PROVE  txs'[i].block <= Height + 1
      BY <2>2, <2>5 DEF BlocksBounded
    <3>2. CASE i = m
      BY <2>3, <2>4, <3>2
    <3>3. CASE i # m
      <4>1. txs'[i] = txs[i] /\ txs[i].block <= Height /\ txs[i].block \in Nat
        BY <1>1, <2>2, <3>1, <3>3 DEF BlocksBounded, Transactions
      <4> QED BY <2>4, <4>1
    <3> QED BY <3>2, <3>3
  <2>8. Higher
    <3>1. Height' >= Height
      BY <2>4, <2>5
    <3>2. ASSUME NEW i \in DOMAIN txs', txs'[i].status = "mined"
          PROVE  \/ i \in DOMAIN txs /\ txs[i].status = "mined" /\ txs'[i].block = txs[i].block
                 \/ txs'[i].block > Height
      BY <2>2, <2>3, <2>4, <3>2
    <3> QED BY <3>1, <3>2 DEF Higher
  <2> QED BY <2>6, <2>7, <2>8
<1> QED BY <1>2, <1>3, <1>4, <1>5
     DEF DeployNext, RunStep, Begin, Check, Reuse, Record, Confirm, ConfirmFailed, Return, Stop, vars

Recorded(l, h) == \E i \in DOMAIN journal : journal[i].label = l /\ journal[i].hash = h

\* The journal is in the order of the transactions and starts with the forwarder.
RecordsOrdered ==
  /\ \A i, j \in DOMAIN journal : i < j => journal[i].hash < journal[j].hash
  /\ journal # <<>> => journal[1].label = Steps[1]

\* What a run broadcast itself is the last transaction until the run goes on.
Fresh ==
  /\ phase = "record" => \A i \in DOMAIN journal : journal[i].hash < current
  /\ (phase \in {"record", "wait"} /\ Previous(Label) = 0) => current = Len(txs)

\* Every contract a run knows is in the journal.
KnownRecorded ==
  /\ phase # "idle" =>
       \A k \in 1 .. 10 : k < position => Recorded(Steps[k], address[Steps[k]])
  /\ phase = "wait" => Recorded(Label, current)

RecordsInv == RecordsOrdered /\ Fresh /\ KnownRecorded

LEMMA RecordFacts ==
  ASSUME DeployInv
  PROVE  /\ DOMAIN journal = 1 .. Len(journal) /\ Len(journal) \in Nat
         /\ \A i \in DOMAIN journal : journal[i].hash \in 1 .. Len(txs)
         /\ Len(txs) \in Nat
         /\ journal = <<>> <=> Len(journal) = 0
<1>1. journal \in Seq([label : Labels, hash : DOMAIN txs])
  BY DEF DeployInv, DeployTypeOK
<1>2. journal = <<>> <=> Len(journal) = 0
  BY <1>1
<1> QED BY <1>2, TxFacts DEF DeployInv

\* What is found in the journal is recorded there.
LEMMA PreviousRecorded ==
  ASSUME DeployInv, NEW l, Previous(l) # 0
  PROVE  Recorded(l, Previous(l))
<1> DEFINE First(i) == journal[i].label = l /\ \A j \in 1 .. i - 1 : journal[j].label # l
           k == CHOOSE i \in 1 .. given : First(i)
<1>1. PICK i \in 1 .. given : journal[i].label = l
  BY DEF Previous
<1>2. given \in 0 .. Len(journal) /\ DOMAIN journal = 1 .. Len(journal) /\ Len(journal) \in Nat
  BY RecordFacts DEF DeployInv, DeployTypeOK
<1>3. \A j \in 1 .. i - 1 : journal[j].label # l
  <2>1. SUFFICES ASSUME NEW j \in 1 .. i - 1, journal[j].label = l PROVE FALSE
    OBVIOUS
  <2>2. i \in DOMAIN journal /\ j \in DOMAIN journal /\ i # j
    BY <1>2
  <2> QED BY <1>1, <2>1, <2>2 DEF DeployInv, OneRecordPerStep
<1>4. \E j \in 1 .. given : First(j)
  BY <1>1, <1>3
<1>5. k \in 1 .. given /\ First(k)
  BY <1>4
<1>6. Previous(l) = journal[k].hash
  BY <1>1 DEF Previous
<1>7. k \in DOMAIN journal /\ journal[k].label = l
  <2> HIDE DEF k
  <2> QED BY <1>2, <1>5
<1> QED BY <1>6, <1>7 DEF Recorded

\* A label that is not in the journal is not found there.
LEMMA UnrecordedIsNew ==
  ASSUME DeployInv, NEW l, \A i \in DOMAIN journal : journal[i].label # l
  PROVE  Previous(l) = 0
<1>1. given \in 0 .. Len(journal) /\ DOMAIN journal = 1 .. Len(journal) /\ Len(journal) \in Nat
  BY RecordFacts DEF DeployInv, DeployTypeOK
<1>2. \A i \in 1 .. given : journal[i].label # l
  BY <1>1
<1> QED BY <1>2 DEF Previous

\* A run that waits, or is over.
LEMMA SameRecords ==
  ASSUME DeployInv, RecordsInv, journal' = journal,
         \/ phase' = "idle"
         \/ UNCHANGED <<phase, position, address, given, current>> /\ Len(txs') = Len(txs)
  PROVE  RecordsInv'
<1>1. RecordsOrdered'
  BY DEF RecordsInv, RecordsOrdered
<1>2. CASE phase' = "idle"
  BY <1>1, <1>2 DEF RecordsInv, Fresh, KnownRecorded
<1>3. CASE phase' # "idle"
  <2>1. UNCHANGED <<phase, position, address, given, current>> /\ Len(txs') = Len(txs)
    BY <1>3
  <2>2. Label' = Label /\ Previous(Label)' = Previous(Label)
    BY <2>1 DEF Label, Previous
  <2>3. KnownRecorded'
    BY <2>1, <2>2 DEF RecordsInv, KnownRecorded, Recorded
  <2>4. Fresh'
    BY <2>1, <2>2 DEF RecordsInv, Fresh
  <2> QED BY <1>1, <2>3, <2>4 DEF RecordsInv
<1> QED BY <1>2, <1>3

LEMMA SubmitRecords ==
  ASSUME DeployInv, RecordsInv, Submit, ~End
  PROVE  RecordsInv'
<1> DEFINE t == [request |-> Request(Label), status |-> "pending", block |-> 0]
<1>1. /\ phase = "send" /\ phase' = "record" /\ txs' = Append(txs, t) /\ current' = Len(txs')
      /\ UNCHANGED <<journal, position, address, given>>
  BY DEF Submit
<1>2. Len(txs') = Len(txs) + 1
  <2> HIDE DEF t
  <2> QED BY <1>1 DEF DeployInv, DeployTypeOK
<1>3. RecordsOrdered' /\ KnownRecorded'
  BY <1>1 DEF RecordsInv, RecordsOrdered, KnownRecorded, Recorded
<1>4. \A i \in DOMAIN journal : journal[i].hash < Len(txs) + 1
  BY RecordFacts
<1>5. Fresh'
  BY <1>1, <1>2, <1>4 DEF Fresh
<1> QED BY <1>3, <1>5 DEF RecordsInv

LEMMA RecordRecords ==
  ASSUME DeployInv, RecordsInv, Record
  PROVE  RecordsInv'
<1> DEFINE e == [label |-> Label, hash |-> current]
           n == Len(journal)
<1>1. /\ phase = "record" /\ phase' = "wait" /\ journal' = Append(journal, e)
      /\ UNCHANGED <<txs, position, current, address, given>>
  BY DEF Record
<1>2. n \in Nat /\ DOMAIN journal = 1 .. n
  BY RecordFacts
<1>3. /\ DOMAIN journal' = 1 .. n + 1
      /\ \A i \in 1 .. n : journal'[i] = journal[i]
      /\ journal'[n + 1].label = Label /\ journal'[n + 1].hash = current
  BY <1>1, <1>2 DEF DeployInv, DeployTypeOK
<1>4. position \in 1 .. 18 /\ Label' = Label
  BY <1>1, CreationFacts DEF DeployInv, PlaceOK, Label
<1> HIDE DEF e, n
<1>5. \A l, h : Recorded(l, h) => Recorded(l, h)'
  BY <1>2, <1>3 DEF Recorded
<1>6. Recorded(Label, current)'
  BY <1>2, <1>3, <1>4, <1>1 DEF Recorded
<1>7. \A k \in 1 .. 10 : k < position => Recorded(Steps[k], address[Steps[k]])
  BY <1>1 DEF RecordsInv, KnownRecorded
<1>8. KnownRecorded'
  <2>1. ASSUME NEW k \in 1 .. 10, k < position PROVE Recorded(Steps[k], address[Steps[k]])'
    <3>1. \E i \in DOMAIN journal :
            journal[i].label = Steps[k] /\ journal[i].hash = address[Steps[k]]
      BY <1>7, <2>1 DEF Recorded
    <3> QED BY <1>1, <1>2, <1>3, <3>1 DEF Recorded
  <2> QED BY <1>1, <1>6, <2>1 DEF KnownRecorded
<1>9. \A i \in 1 .. n : journal[i].hash < current
  BY <1>1, <1>2 DEF RecordsInv, Fresh
<1>10. RecordsOrdered'
  <2>1. ASSUME NEW i \in 1 .. n + 1, NEW j \in 1 .. n + 1, i < j
        PROVE  journal'[i].hash < journal'[j].hash
    <3>1. i \in 1 .. n
      BY <1>2, <2>1
    <3>2. CASE j = n + 1
      BY <1>3, <1>9, <3>1, <3>2
    <3>3. CASE j \in 1 .. n
      BY <1>2, <1>3, <2>1, <3>1, <3>3 DEF RecordsInv, RecordsOrdered
    <3> QED BY <1>2, <3>2, <3>3
  <2>2. journal'[1].label = Steps[1]
    <3>1. CASE n = 0
      <4>1. ~ \E i \in DOMAIN journal : TRUE
        BY <1>2, <3>1
      <4>2. ~(1 < position)
        BY <1>7, <4>1 DEF Recorded
      <4>3. Label = Steps[1]
        BY <1>4, <4>2 DEF Label
      <4> QED BY <1>3, <3>1, <4>3
    <3>2. CASE n # 0
      <4>1. journal # <<>> /\ 1 \in 1 .. n
        BY <1>2, <3>2, RecordFacts DEF n
      <4> QED BY <1>3, <4>1 DEF RecordsInv, RecordsOrdered
    <3> QED BY <3>1, <3>2
  <2> QED BY <1>3, <2>1, <2>2 DEF RecordsOrdered
<1>11. Fresh'
  <2>1. \A i \in DOMAIN journal : journal[i].label # Label
    BY <1>1 DEF DeployInv, JournalOK
  <2>2. Previous(Label) = 0
    BY <2>1, UnrecordedIsNew
  <2>3. current = Len(txs)
    BY <1>1, <2>2 DEF RecordsInv, Fresh
  <2> QED BY <1>1, <2>3 DEF Fresh
<1> QED BY <1>8, <1>10, <1>11 DEF RecordsInv

LEMMA ConfirmRecords ==
  ASSUME DeployInv, RecordsInv, Confirm
  PROVE  RecordsInv'
<1>1. /\ phase = "wait" /\ phase' = "check" /\ position' = position + 1
      /\ address' = IF Label \in Creations THEN [address EXCEPT ![Label] = current] ELSE address
      /\ UNCHANGED journal
  BY DEF Confirm
<1>2. position \in 1 .. 18 /\ address \in [Creations -> 0 .. Len(txs)]
  <2>1. position \in 1 .. 18
    BY <1>1, CreationFacts DEF DeployInv, PlaceOK
  <2>2. address \in [Creations -> 0 .. Len(txs)]
    BY DEF DeployInv, DeployTypeOK
  <2> QED BY <2>1, <2>2
<1>3. ASSUME NEW k \in 1 .. 10, k < position + 1 PROVE Recorded(Steps[k], address'[Steps[k]])
  <2>1. Steps[k] \in Creations
    BY StepKinds
  <2>2. CASE k = position
    <3>1. Label = Steps[k]
      BY <2>2 DEF Label
    <3>2. address'[Steps[k]] = current
      BY <1>1, <1>2, <2>1, <3>1
    <3>3. Recorded(Label, current)
      BY <1>1 DEF RecordsInv, KnownRecorded
    <3> QED BY <3>1, <3>2, <3>3 DEF Recorded
  <2>3. CASE k < position
    <3>1. Label # Steps[k]
      <4>1. position \in 1 .. 18 /\ k \in 1 .. 18 /\ k # position
        BY <1>2, <2>3
      <4> QED BY <4>1, StepsDiffer DEF Label
    <3>2. address'[Steps[k]] = address[Steps[k]]
      BY <1>1, <1>2, <2>1, <3>1
    <3>3. Recorded(Steps[k], address[Steps[k]])
      BY <1>1, <2>3 DEF RecordsInv, KnownRecorded
    <3> QED BY <3>2, <3>3 DEF Recorded
  <2> QED BY <1>2, <1>3, <2>2, <2>3
<1>4. KnownRecorded'
  BY <1>1, <1>3 DEF KnownRecorded, Recorded
<1>5. RecordsOrdered' /\ Fresh'
  BY <1>1 DEF RecordsInv, RecordsOrdered, Fresh
<1> QED BY <1>4, <1>5 DEF RecordsInv

LEMMA RecordsKept ==
  ASSUME DeployInv, RecordsInv, [DeployNext]_vars
  PROVE  RecordsInv'
<1>1. ASSUME UNCHANGED <<runVars, journal>>, Len(txs') = Len(txs) PROVE RecordsInv'
  <2>1. UNCHANGED <<phase, position, address, given, current, journal>>
    BY <1>1 DEF runVars
  <2> QED BY <1>1, <2>1, SameRecords
<1>2. ASSUME End, journal' = journal PROVE RecordsInv'
  BY <1>2, SameRecords DEF End
<1>3. CASE UNCHANGED vars
  BY <1>1, <1>3 DEF vars
<1>4. CASE Begin
  <2>1. phase' = "check" /\ position' = 1 /\ journal' = journal
    BY <1>4 DEF Begin
  <2> QED BY <2>1 DEF RecordsInv, RecordsOrdered, Fresh, KnownRecorded
<1>5. CASE Check
  <2>1. /\ phase = "check" /\ position \in 1 .. LastStep /\ UNCHANGED <<journal, address>>
        /\ phase' \in {"check", "send"}
        /\ position' = position \/ (position' = position + 1 /\ Label \in Checked)
    BY <1>5 DEF Check
  <2>2. position \in 1 .. 18
    BY <2>1, CreationFacts
  <2>3. Label \in Checked => position > 10
    BY <2>2, StepKinds DEF Label
  <2>4. \A k \in 1 .. 10 : k < position' => k < position
    BY <2>1, <2>2, <2>3
  <2>5. KnownRecorded'
    BY <2>1, <2>4 DEF RecordsInv, KnownRecorded, Recorded
  <2> QED BY <2>1, <2>5 DEF RecordsInv, RecordsOrdered, Fresh
<1>6. CASE Reuse
  <2>1. CASE End
    BY <1>2, <1>6, <2>1 DEF Reuse
  <2>2. CASE ~End
    <3>1. /\ phase = "send" /\ phase' = "wait" /\ current' = Previous(Label) /\ Previous(Label) # 0
          /\ UNCHANGED <<txs, journal, position, address, given>>
      BY <1>6, <2>2 DEF Reuse
    <3>2. Recorded(Label, current')
      BY <3>1, PreviousRecorded
    <3>3. KnownRecorded'
      BY <3>1, <3>2 DEF RecordsInv, KnownRecorded, Recorded, Label
    <3>4. Label' = Label /\ Previous(Label)' = Previous(Label)
      BY <3>1 DEF Label, Previous
    <3>5. Fresh'
      BY <3>1, <3>4 DEF Fresh
    <3> QED BY <3>1, <3>3, <3>5 DEF RecordsInv, RecordsOrdered
  <2> QED BY <2>1, <2>2
<1>7. CASE Submit
  <2>1. CASE End
    BY <1>2, <1>7, <2>1 DEF Submit
  <2> QED BY <1>7, <2>1, SubmitRecords
<1>8. CASE Mine \/ Drop
  <2>1. DOMAIN txs' = DOMAIN txs /\ UNCHANGED <<runVars, journal>>
    BY <1>8 DEF Mine, Drop
  <2>2. txs' \in Seq(Transactions) /\ txs \in Seq(Transactions)
    BY TypesKept DEF DeployInv, DeployTypeOK
  <2>3. Len(txs') = Len(txs)
    BY <2>1, <2>2
  <2> QED BY <1>1, <2>1, <2>3
<1>9. CASE ConfirmFailed \/ Return \/ Stop
  BY <1>2, <1>9 DEF ConfirmFailed, Return, Stop
<1> QED BY <1>3, <1>4, <1>5, <1>6, <1>7, <1>8, <1>9, RecordRecords, ConfirmRecords
     DEF DeployNext, RunStep

(***************************************************************************)
(* The first block to search                                               *)
(***************************************************************************)

\* Nothing after the run's forwarder is mined below the block that the run will report.
ScanOK ==
  (phase # "idle" /\ position > 1) =>
    /\ scanFrom <= Height
    /\ \A j \in DOMAIN txs :
         (j > address[Steps[1]] /\ txs[j].status = "mined") => scanFrom <= txs[j].block

\* What a manifest names is recorded, and mined in blocks that its reader searches.
ManifestOK ==
  manifest # <<>> =>
    /\ manifest.contracts \in [Creations -> Nat]
    /\ \A k \in 1 .. 10 : Recorded(Steps[k], manifest.contracts[Steps[k]])
    /\ \A k \in 2 .. 10 :
         /\ manifest.contracts[Steps[k]] \in DOMAIN txs
         /\ txs[manifest.contracts[Steps[k]]].status = "mined"
         /\ manifest.block <= txs[manifest.contracts[Steps[k]]].block

SearchInv ==
  DeployInv /\ TruthInv /\ MinedInOrder /\ BlocksBounded /\ RecordsInv /\ ScanOK /\ ManifestOK

\* The forwarder is the oldest contract of a run.
LEMMA ForwarderFirst ==
  ASSUME DeployInv, RecordsOrdered, NEW k \in 2 .. 10, NEW f, NEW h,
         Recorded(Steps[1], f), Recorded(Steps[k], h)
  PROVE  f < h
<1>1. PICK i \in DOMAIN journal : journal[i].label = Steps[1] /\ journal[i].hash = f
  BY DEF Recorded
<1>2. PICK j \in DOMAIN journal : journal[j].label = Steps[k] /\ journal[j].hash = h
  BY DEF Recorded
<1>3. DOMAIN journal = 1 .. Len(journal) /\ Len(journal) \in Nat /\ journal # <<>>
  BY <1>1, RecordFacts
<1>4. 1 \in DOMAIN journal /\ journal[1].label = Steps[1]
  BY <1>1, <1>3 DEF RecordsOrdered
<1>5. i = 1
  BY <1>1, <1>4 DEF DeployInv, OneRecordPerStep
<1>6. Steps[k] # Steps[1]
  BY StepsDiffer
<1>7. j # 1
  BY <1>2, <1>4, <1>6
<1>8. 1 < j
  BY <1>3, <1>7
<1> QED BY <1>1, <1>2, <1>4, <1>5, <1>8 DEF RecordsOrdered

\* Blocks below the height stay below it, also those of what is mined next.
LEMMA ScanStays ==
  ASSUME DeployInv, DeployTypeOK', ScanOK, Higher, UNCHANGED <<address, scanFrom>>,
         phase # "idle", position > 1
  PROVE  ScanOK'
<1>1. Height \in Nat /\ Height' \in Nat /\ scanFrom \in Nat
  <2>1. Height \in Nat
    BY HeightType DEF DeployInv, DeployTypeOK
  <2>2. Height' \in Nat
    <3>1. txs' \in Seq(Transactions)
      BY DEF DeployTypeOK
    <3>2. txs \in Seq(Transactions) => Height \in Nat
      BY HeightType
    <3> DEFINE D == {i \in DOMAIN txs' : txs'[i].status \in {"mined", "reverted"}}
    <3>3. DOMAIN txs' = 1 .. Len(txs') /\ Len(txs') \in Nat
      BY <3>1
    <3>4. IsFiniteSet(1 .. Len(txs'))
      BY <3>3, FS_Interval
    <3>5. IsFiniteSet(D)
      BY <3>3, <3>4, FS_Subset
    <3> QED BY <3>5, FS_CardinalityType DEF Height
  <2>3. scanFrom \in Nat
    BY DEF DeployInv, DeployTypeOK
  <2> QED BY <2>1, <2>2, <2>3
<1>2. scanFrom <= Height
  BY DEF ScanOK
<1>3. scanFrom <= Height'
  BY <1>1, <1>2 DEF Higher
<1>4. ASSUME NEW j \in DOMAIN txs', j > address[Steps[1]], txs'[j].status = "mined"
      PROVE  scanFrom <= txs'[j].block
  <2>1. CASE j \in DOMAIN txs /\ txs[j].status = "mined" /\ txs'[j].block = txs[j].block
    BY <1>4, <2>1 DEF ScanOK
  <2>2. CASE txs'[j].block > Height
    <3>1. txs'[j].block \in Nat
      <4>1. txs'[j] \in Transactions
        BY <1>4 DEF DeployTypeOK
      <4> QED BY <4>1 DEF Transactions
    <3> QED BY <1>1, <1>2, <2>2, <3>1
  <2> QED BY <1>4, <2>1, <2>2 DEF Higher
<1> QED BY <1>3, <1>4 DEF ScanOK

\* A record stays in the journal.
LEMMA RecordsStay ==
  ASSUME DeployInv, [DeployNext]_vars
  PROVE  \A l, h : Recorded(l, h) =>
           \E i \in DOMAIN journal' : journal'[i].label = l /\ journal'[i].hash = h
<1>1. CASE journal' = journal
  BY <1>1 DEF Recorded
<1>2. CASE Record
  <2> DEFINE e == [label |-> Label, hash |-> current]
  <2>1. journal' = Append(journal, e)
    BY <1>2 DEF Record
  <2> HIDE DEF e
  <2>2. \A i \in DOMAIN journal : i \in DOMAIN journal' /\ journal'[i] = journal[i]
    BY <2>1 DEF DeployInv, DeployTypeOK
  <2> QED BY <2>2 DEF Recorded
<1> QED BY <1>1, <1>2
     DEF DeployNext, RunStep, Begin, Check, Reuse, Submit, Confirm, ConfirmFailed, Return, Stop,
         Mine, Drop, vars

LEMMA ManifestStays ==
  ASSUME DeployInv, ManifestOK, Grown, Higher, MinedInOrder, BlocksBounded, DeployTypeOK',
         [DeployNext]_vars, manifest' = manifest
  PROVE  ManifestOK'
<1>1. SUFFICES ASSUME manifest # <<>>
               PROVE  /\ manifest.contracts \in [Creations -> Nat]
                      /\ \A k \in 1 .. 10 :
                           \E i \in DOMAIN journal' :
                             /\ journal'[i].label = Steps[k]
                             /\ journal'[i].hash = manifest.contracts[Steps[k]]
                      /\ \A k \in 2 .. 10 :
                           /\ manifest.contracts[Steps[k]] \in DOMAIN txs'
                           /\ txs'[manifest.contracts[Steps[k]]].status = "mined"
                           /\ manifest.block <= txs'[manifest.contracts[Steps[k]]].block
  BY DEF ManifestOK, Recorded
<1>2. manifest.contracts \in [Creations -> Nat]
  BY <1>1 DEF ManifestOK
<1>3. ASSUME NEW k \in 1 .. 10
      PROVE  \E i \in DOMAIN journal' :
               journal'[i].label = Steps[k] /\ journal'[i].hash = manifest.contracts[Steps[k]]
  <2>1. Recorded(Steps[k], manifest.contracts[Steps[k]])
    BY <1>1 DEF ManifestOK
  <2> QED BY <2>1, RecordsStay
<1>4. ASSUME NEW k \in 2 .. 10, NEW c, c = manifest.contracts[Steps[k]]
      PROVE  c \in DOMAIN txs' /\ txs'[c].status = "mined" /\ manifest.block <= txs'[c].block
  <2>1. c \in DOMAIN txs /\ txs[c].status = "mined" /\ manifest.block <= txs[c].block
    BY <1>1, <1>4 DEF ManifestOK
  <2>2. c \in DOMAIN txs' /\ txs'[c].status = "mined"
    BY <2>1 DEF Grown
  <2>3. CASE txs'[c].block = txs[c].block
    BY <2>1, <2>2, <2>3
  <2>4. CASE txs'[c].block > Height
    <3>1. txs[c].block <= Height
      BY <2>1 DEF BlocksBounded
    <3>2. Height \in Nat /\ txs[c].block \in Nat
      BY <2>1, HeightType, TxFacts DEF DeployInv, DeployTypeOK, Transactions
    <3>3. txs'[c].block \in Nat
      <4>1. txs'[c] \in Transactions
        BY <2>2 DEF DeployTypeOK
      <4> QED BY <4>1 DEF Transactions
    <3>4. manifest.block \in Nat
      BY <1>1 DEF DeployInv, DeployTypeOK
    <3> QED BY <2>1, <2>2, <2>4, <3>1, <3>2, <3>3, <3>4
  <2> QED BY <2>2, <2>3, <2>4 DEF Higher
<1> QED BY <1>2, <1>3, <1>4

LEMMA ReturnTells ==
  ASSUME SearchInv, Return
  PROVE  ManifestOK'
<1> DEFINE m == [contracts |-> address, with |-> options, block |-> scanFrom]
<1>1. /\ phase = "check" /\ position = LastStep + 1 /\ UNCHANGED <<txs, journal>>
      /\ manifest' = m
  BY DEF Return
<1>2. m.contracts = address /\ m.block = scanFrom
  OBVIOUS
<1> HIDE DEF m
<1>3. LastStep \in {17, 18}
  BY CreationFacts
<1>4. address \in [Creations -> Nat]
  <2>1. address \in [Creations -> 0 .. Len(txs)]
    BY DEF SearchInv, DeployInv, DeployTypeOK
  <2> QED BY <2>1, RecordFacts DEF SearchInv
<1>5. \A k \in 1 .. 10 : Recorded(Steps[k], address[Steps[k]])
  BY <1>1, <1>3 DEF SearchInv, RecordsInv, KnownRecorded
<1>6. ASSUME NEW k \in 2 .. 10
      PROVE  /\ address[Steps[k]] \in DOMAIN txs
             /\ txs[address[Steps[k]]].status = "mined"
             /\ scanFrom <= txs[address[Steps[k]]].block
  <2>1. Built(Steps[k], address, options)
    BY <1>1, <1>3 DEF SearchInv, TruthInv, PartsOK
  <2>2. address[Steps[k]] \in DOMAIN txs /\ txs[address[Steps[k]]].status = "mined"
    BY <2>1 DEF Built
  <2>3. Recorded(Steps[1], address[Steps[1]]) /\ Recorded(Steps[k], address[Steps[k]])
    BY <1>5
  <2>4. address[Steps[1]] < address[Steps[k]]
    BY <2>3, ForwarderFirst DEF SearchInv, RecordsInv
  <2>5. Steps[1] \in Creations /\ Steps[k] \in Creations
    BY StepKinds
  <2>6. address[Steps[k]] > address[Steps[1]]
    BY <1>4, <2>4, <2>5
  <2>7. position > 1
    BY <1>1, <1>3
  <2> QED BY <1>1, <2>2, <2>6, <2>7 DEF SearchInv, ScanOK
<1> QED BY <1>1, <1>2, <1>4, <1>5, <1>6 DEF ManifestOK, Recorded

LEMMA ConfirmScans ==
  ASSUME SearchInv, Confirm
  PROVE  ScanOK'
<1>1. /\ phase = "wait" /\ txs[current].status = "mined"
      /\ address' = IF Label \in Creations THEN [address EXCEPT ![Label] = current] ELSE address
      /\ scanFrom' = IF Label = "forwarder" THEN DeploymentBlock ELSE scanFrom
      /\ txs' = txs
  BY DEF Confirm
<1>2. position \in 1 .. 18 /\ current \in DOMAIN txs
  BY <1>1, CreationFacts DEF SearchInv, DeployInv, PlaceOK, CurrentOK
<1>3. address \in [Creations -> 0 .. Len(txs)] /\ Steps[1] \in Creations
  BY StepKinds DEF SearchInv, DeployInv, DeployTypeOK
<1>4. SUFFICES /\ scanFrom' <= Height
               /\ \A j \in DOMAIN txs :
                    (j > address'[Steps[1]] /\ txs[j].status = "mined") => scanFrom' <= txs[j].block
  BY <1>1 DEF ScanOK, Height
<1>5. CASE position = 1
  <2>1. Label = "forwarder" /\ Label = Steps[1]
    BY <1>5, StepNames DEF Label
  <2>2. address'[Steps[1]] = current /\ scanFrom' = DeploymentBlock
    BY <1>1, <1>3, <2>1
  <2>3. CASE Previous("forwarder") # 0
    <3>1. scanFrom' = txs[current].block
      BY <2>2, <2>3 DEF DeploymentBlock
    <3>2. txs[current].block <= Height
      BY <1>1, <1>2 DEF SearchInv, BlocksBounded
    <3>3. ASSUME NEW j \in DOMAIN txs, j > current, txs[j].status = "mined"
          PROVE  txs[current].block <= txs[j].block
      <4>1. current < j
        BY <1>2, <3>3, RecordFacts, TxFacts DEF SearchInv, DeployInv
      <4> QED BY <1>1, <1>2, <3>3, <4>1 DEF SearchInv, MinedInOrder
    <3> QED BY <2>2, <3>1, <3>2, <3>3
  <2>4. CASE Previous("forwarder") = 0
    <3>1. scanFrom' = Height
      BY <2>2, <2>4 DEF DeploymentBlock
    <3>2. current = Len(txs)
      BY <1>1, <2>1, <2>4 DEF SearchInv, RecordsInv, Fresh
    <3>3. \A j \in DOMAIN txs : ~(j > current)
      BY <3>2, TxFacts DEF SearchInv, DeployInv
    <3>4. Height \in Nat
      BY HeightType DEF SearchInv, DeployInv, DeployTypeOK
    <3> QED BY <2>2, <3>1, <3>3, <3>4
  <2> QED BY <2>3, <2>4
<1>6. CASE position # 1
  <2>1. Label # Steps[1]
    BY <1>2, <1>6, StepsDiffer DEF Label
  <2>2. address'[Steps[1]] = address[Steps[1]]
    BY <1>1, <1>3, <2>1
  <2>3. scanFrom' = scanFrom
    BY <1>1, <2>1, StepNames
  <2>4. position > 1
    BY <1>2, <1>6
  <2> QED BY <1>1, <2>2, <2>3, <2>4 DEF SearchInv, ScanOK
<1> QED BY <1>5, <1>6

LEMMA ScanKept ==
  ASSUME SearchInv, DeployTypeOK', Higher, [DeployNext]_vars
  PROVE  ScanOK'
<1>1. DeployInv /\ ScanOK
  BY DEF SearchInv
<1>2. CASE phase' = "idle"
  BY <1>2 DEF ScanOK
<1>3. ASSUME phase # "idle", UNCHANGED <<address, scanFrom>>, position' > 1 => position > 1
      PROVE  ScanOK'
  <2>1. CASE position > 1
    BY <1>1, <1>3, <2>1, ScanStays
  <2>2. CASE ~(position' > 1)
    BY <2>2 DEF ScanOK
  <2> QED BY <1>3, <2>1, <2>2
<1>4. CASE Begin
  <2>1. ~(position' > 1)
    BY <1>4 DEF Begin
  <2> QED BY <2>1 DEF ScanOK
<1>5. CASE Check
  <2>1. /\ phase # "idle" /\ UNCHANGED <<address, scanFrom>> /\ position \in 1 .. 18
        /\ position' = position \/ (position' = position + 1 /\ Label \in Checked)
    BY <1>5, CreationFacts DEF Check
  <2>2. Label \in Checked => position > 10
    BY <2>1, StepKinds DEF Label
  <2>3. position' > 1 => position > 1
    BY <2>1, <2>2
  <2> QED BY <1>3, <2>1, <2>3
<1>6. ASSUME UNCHANGED <<phase, position, address, scanFrom>> PROVE ScanOK'
  BY <1>2, <1>3, <1>6
<1>7. CASE Reuse \/ Submit \/ Record
  <2>1. /\ phase # "idle"
        /\ phase' = "idle" \/ UNCHANGED <<position, address, scanFrom>>
    BY <1>7 DEF Reuse, Submit, Record, End
  <2> QED BY <1>2, <1>3, <2>1
<1>8. CASE ConfirmFailed \/ Return \/ Stop
  BY <1>2, <1>8 DEF ConfirmFailed, Return, Stop, End
<1>9. CASE Mine \/ Drop \/ UNCHANGED vars
  BY <1>6, <1>9 DEF Mine, Drop, vars, runVars
<1> QED BY <1>4, <1>5, <1>7, <1>8, <1>9, ConfirmScans DEF DeployNext, RunStep

LEMMA SearchStarts == DeployInit => SearchInv
<1> SUFFICES ASSUME DeployInit PROVE SearchInv
  OBVIOUS
<1>1. txs = <<>> /\ journal = <<>> /\ phase = "idle" /\ manifest = <<>>
  BY DEF DeployInit
<1>2. DOMAIN txs = {} /\ DOMAIN journal = {}
  BY <1>1
<1>3. MinedInOrder /\ BlocksBounded /\ RecordsInv /\ ScanOK /\ ManifestOK
  BY <1>1, <1>2
     DEF MinedInOrder, BlocksBounded, RecordsInv, RecordsOrdered, Fresh, KnownRecorded, ScanOK, ManifestOK
<1> QED BY <1>3, InvStarts, TruthStarts DEF SearchInv

LEMMA SearchKept == SearchInv /\ [DeployNext]_vars => SearchInv'
<1> SUFFICES ASSUME SearchInv, [DeployNext]_vars PROVE SearchInv'
  OBVIOUS
<1>1. DeployInv /\ TruthInv /\ MinedInOrder /\ BlocksBounded /\ RecordsInv /\ ManifestOK
  BY DEF SearchInv
<1>2. DeployInv' /\ DeployTypeOK'
  BY <1>1, InvKept DEF DeployInv
<1>3. TruthInv'
  BY <1>1, TruthKept
<1>4. MinedInOrder' /\ BlocksBounded' /\ Higher
  BY <1>1, ChainInOrder
<1>5. RecordsInv'
  BY <1>1, RecordsKept
<1>6. ScanOK'
  BY <1>2, <1>4, ScanKept
<1>7. Grown
  BY <1>1, ChainGrows DEF DeployInv
<1>8. CASE Return
  <2>1. ManifestOK'
    BY <1>8, ReturnTells
  <2> QED BY <1>2, <1>3, <1>4, <1>5, <1>6, <2>1 DEF SearchInv
<1>9. CASE manifest' = manifest
  <2>1. ManifestOK'
    BY <1>1, <1>2, <1>4, <1>7, <1>9, ManifestStays
  <2> QED BY <1>2, <1>3, <1>4, <1>5, <1>6, <2>1 DEF SearchInv
<1> QED BY <1>8, <1>9
     DEF DeployNext, RunStep, Begin, Check, Reuse, Submit, Record, Confirm, ConfirmFailed, Stop,
         Mine, Drop, vars

\* A complete deployment that is run again finds the contracts it had.
LEMMA ReturnsTheSame ==
  ASSUME SearchInv, Return, manifest # <<>>
  PROVE  manifest'.contracts = manifest.contracts
<1>1. /\ position = LastStep + 1 /\ phase = "check"
      /\ manifest' = [contracts |-> address, with |-> options, block |-> scanFrom]
  BY DEF Return
<1>2. LastStep \in {17, 18}
  BY CreationFacts
<1>3. ASSUME NEW k \in 1 .. 10 PROVE address[Steps[k]] = manifest.contracts[Steps[k]]
  <2>1. Recorded(Steps[k], address[Steps[k]])
    BY <1>1, <1>2 DEF SearchInv, RecordsInv, KnownRecorded
  <2>2. Recorded(Steps[k], manifest.contracts[Steps[k]])
    BY DEF SearchInv, ManifestOK
  <2> QED BY <2>1, <2>2 DEF Recorded, SearchInv, DeployInv, OneRecordPerStep
<1>4. \A c \in Creations : address[c] = manifest.contracts[c]
  BY <1>3 DEF Creations
<1>5. address \in [Creations -> 0 .. Len(txs)]
  BY DEF SearchInv, DeployInv, DeployTypeOK
<1>6. manifest.contracts \in [Creations -> Nat]
  BY DEF SearchInv, ManifestOK
<1>7. address = manifest.contracts
  BY <1>4, <1>5, <1>6
<1> QED BY <1>1, <1>7

(***************************************************************************)
(* What a deployment pays for                                              *)
(***************************************************************************)

\* What a run broadcast and is about to record.
InTransit == IF phase = "record" THEN 1 ELSE 0

\* Everything else that was broadcast is recorded, except for one transaction at each stop, and
\* what is recorded are steps of this deployment.
SpentInv ==
  /\ Len(txs) <= Len(journal) + stops + InTransit
  /\ \A i \in DOMAIN journal : \E k \in 1 .. LastStep : journal[i].label = Steps[k]

LEMMA SpentStarts == DeployInit => SpentInv
BY DEF DeployInit, SpentInv, InTransit

\* A step that neither broadcasts nor records nor leaves a record undone, and one that is stopped.
LEMMA NothingSpent ==
  ASSUME DeployInv, SpentInv, journal' = journal, Len(txs') = Len(txs),
         \/ stops' = stops /\ phase # "record"
         \/ stops' = stops /\ phase' = phase
         \/ stops' = stops + 1
  PROVE  SpentInv'
<1>1. /\ Len(txs) \in Nat /\ Len(journal) \in Nat /\ stops \in Nat
      /\ LastStep' = LastStep
  BY RecordFacts DEF DeployInv, DeployTypeOK, LastStep
<1>2. Len(txs') <= Len(journal') + stops' + InTransit'
  BY <1>1 DEF SpentInv, InTransit
<1> QED BY <1>1, <1>2 DEF SpentInv

\* A step that is broadcast is in transit.
LEMMA SubmitSpends ==
  ASSUME DeployInv, SpentInv, Submit, ~End
  PROVE  SpentInv'
<1>1. /\ Len(txs) \in Nat /\ Len(journal) \in Nat /\ stops \in Nat
      /\ LastStep' = LastStep /\ txs \in Seq(Transactions)
  BY RecordFacts DEF DeployInv, DeployTypeOK, LastStep
<1>2. /\ phase = "send" /\ phase' = "record" /\ journal' = journal /\ stops' = stops
      /\ txs' = Append(txs, [request |-> Request(Label), status |-> "pending", block |-> 0])
  BY DEF Submit
<1>3. Len(txs') = Len(txs) + 1
  BY <1>1, <1>2
<1>4. Len(txs') <= Len(journal') + stops' + InTransit'
  BY <1>1, <1>2, <1>3 DEF SpentInv, InTransit
<1> QED BY <1>1, <1>2, <1>4 DEF SpentInv

\* onSubmitted moves it into the journal.
LEMMA RecordSpends ==
  ASSUME DeployInv, SpentInv, Record
  PROVE  SpentInv'
<1> DEFINE e == [label |-> Label, hash |-> current]
<1>1. /\ Len(txs) \in Nat /\ Len(journal) \in Nat /\ stops \in Nat
      /\ DOMAIN journal = 1 .. Len(journal) /\ LastStep' = LastStep
      /\ journal \in Seq([label : Labels, hash : DOMAIN txs])
  BY RecordFacts DEF DeployInv, DeployTypeOK, LastStep
<1>2. /\ phase = "record" /\ phase' = "wait" /\ UNCHANGED <<txs, stops>>
      /\ journal' = Append(journal, e)
  BY DEF Record
<1>3. /\ Len(journal') = Len(journal) + 1 /\ DOMAIN journal' = 1 .. Len(journal) + 1
      /\ \A i \in 1 .. Len(journal) : journal'[i] = journal[i]
      /\ journal'[Len(journal) + 1].label = Label
  BY <1>1, <1>2
<1>4. position \in 1 .. LastStep
  BY <1>2 DEF DeployInv, PlaceOK
<1>5. Len(txs') <= Len(journal') + stops' + InTransit'
  BY <1>1, <1>2, <1>3 DEF SpentInv, InTransit
<1>6. \A i \in DOMAIN journal' : \E k \in 1 .. LastStep : journal'[i].label = Steps[k]
  <2> TAKE i \in DOMAIN journal'
  <2>1. CASE i \in 1 .. Len(journal)
    BY <1>1, <1>3, <2>1 DEF SpentInv
  <2>2. CASE i = Len(journal) + 1
    BY <1>3, <1>4, <2>2 DEF Label
  <2> QED BY <1>1, <1>3, <2>1, <2>2
<1> QED BY <1>1, <1>5, <1>6 DEF SpentInv

LEMMA SpentKept ==
  ASSUME DeployInv, SpentInv, [DeployNext]_vars
  PROVE  SpentInv'
<1>1. CASE UNCHANGED vars
  BY <1>1, NothingSpent DEF vars, runVars
<1>2. CASE Begin
  BY <1>2, NothingSpent DEF Begin
<1>3. CASE Check \/ Reuse \/ Confirm \/ ConfirmFailed \/ Return
  BY <1>3, NothingSpent DEF Check, Reuse, Confirm, ConfirmFailed, Return
<1>4. CASE Submit
  <2>1. CASE End
    <3>1. phase = "send" /\ phase' = "idle" /\ UNCHANGED <<txs, journal, stops>>
      BY <1>4, <2>1 DEF Submit, End
    <3> QED BY <3>1, NothingSpent
  <2> QED BY <1>4, <2>1, SubmitSpends
<1>5. CASE Record
  BY <1>5, RecordSpends
<1>6. CASE Stop
  BY <1>6, NothingSpent DEF Stop
<1>7. CASE Mine \/ Drop
  <2>1. DOMAIN txs' = DOMAIN txs /\ UNCHANGED <<phase, journal, stops>>
    <3>1. CASE Mine
      BY <3>1 DEF Mine, runVars
    <3>2. CASE Drop
      BY <3>2 DEF Drop, runVars
    <3> QED BY <1>7, <3>1, <3>2
  <2>2. txs' \in Seq(Transactions) /\ txs \in Seq(Transactions)
    BY TypesKept DEF DeployInv, DeployTypeOK
  <2>3. Len(txs') = Len(txs)
    BY <2>1, <2>2
  <2> QED BY <2>1, <2>3, NothingSpent
<1> QED BY <1>1, <1>2, <1>3, <1>4, <1>5, <1>6, <1>7 DEF DeployNext, RunStep

\* The journal has room for the transaction in transit: its labels are different steps, and the
\* step in transit is none of them.
LEMMA StepsAreFew ==
  ASSUME DeployInv, SpentInv
  PROVE  Len(journal) + InTransit <= LastStep
<1> DEFINE n == Len(journal) + InTransit
           step == [i \in 1 .. n |-> IF i <= Len(journal) THEN Number(journal[i].label) ELSE position]
<1>1. /\ Len(journal) \in Nat /\ DOMAIN journal = 1 .. Len(journal)
      /\ InTransit \in {0, 1} /\ n \in Nat /\ LastStep \in {17, 18}
  BY RecordFacts, CreationFacts DEF InTransit
<1>2. \A i \in 1 .. Len(journal) :
        /\ Number(journal[i].label) \in 1 .. LastStep
        /\ journal[i].label = Steps[Number(journal[i].label)]
  <2> TAKE i \in 1 .. Len(journal)
  <2>1. PICK k \in 1 .. LastStep : journal[i].label = Steps[k]
    BY <1>1 DEF SpentInv
  <2>2. k \in 1 .. 18
    <3>1. LastStep \in {17, 18} BY <1>1
    <3> QED BY <3>1
  <2>3. Number(Steps[k]) = k
    BY <2>2, StepNumbers
  <2> QED BY <2>1, <2>3
<1>3. ASSUME NEW i \in 1 .. n, i > Len(journal)
      PROVE  phase = "record" /\ i = Len(journal) + 1 /\ position \in 1 .. LastStep
  <2>1. phase = "record"
    BY <1>1, <1>3 DEF InTransit
  <2> QED BY <1>1, <1>3, <2>1 DEF DeployInv, PlaceOK
<1>4. step \in [1 .. n -> 1 .. LastStep]
  BY <1>1, <1>2, <1>3
<1>5. ASSUME NEW i \in 1 .. n, NEW j \in 1 .. n, step[i] = step[j] PROVE i = j
  <2>1. CASE i <= Len(journal) /\ j <= Len(journal)
    <3>1. i \in DOMAIN journal /\ j \in DOMAIN journal
      BY <1>1, <2>1
    <3>2. Number(journal[i].label) = Number(journal[j].label)
      BY <1>5, <2>1
    <3>3. journal[i].label = journal[j].label
      BY <1>1, <1>2, <3>1, <3>2
    <3> QED BY <3>1, <3>3 DEF DeployInv, OneRecordPerStep
  <2>2. ASSUME NEW h \in 1 .. n, NEW l \in 1 .. n, h <= Len(journal), l > Len(journal),
               step[h] = step[l]
        PROVE  FALSE
    <3>1. phase = "record" /\ h \in DOMAIN journal
      BY <1>1, <1>3, <2>2
    <3>2. Number(journal[h].label) = position
      BY <1>1, <2>2
    <3>3. journal[h].label = Label
      BY <1>1, <1>2, <3>1, <3>2 DEF Label
    <3> QED BY <3>1, <3>3 DEF DeployInv, JournalOK
  <2>3. CASE i > Len(journal) /\ j > Len(journal)
    BY <1>3, <2>3
  <2> QED BY <1>1, <1>5, <2>1, <2>2, <2>3
<1>6. CASE n > LastStep
  <2>1. /\ IsFiniteSet(1 .. n) /\ Cardinality(1 .. n) = n
        /\ IsFiniteSet(1 .. LastStep) /\ Cardinality(1 .. LastStep) = LastStep
    <3> HIDE DEF n
    <3>1. 1 \in Int /\ n \in Int /\ LastStep \in Int /\ 1 <= n /\ 1 <= LastStep
      BY <1>1, <1>6
    <3>2. ASSUME NEW b \in Int, 1 <= b PROVE IsFiniteSet(1 .. b) /\ Cardinality(1 .. b) = b
      <4>1. IsFiniteSet(1 .. b) /\ Cardinality(1 .. b) = IF 1 > b THEN 0 ELSE b - 1 + 1
        BY FS_Interval
      <4> QED BY <3>2, <4>1
    <3> QED BY <3>1, <3>2
  <2>2. \E i, j \in 1 .. n : i # j /\ step[i] = step[j]
    <3> HIDE DEF step, n
    <3>1. Cardinality(1 .. LastStep) < Cardinality(1 .. n)
      BY <1>1, <1>6, <2>1
    <3> QED BY <1>4, <2>1, <3>1, FS_PigeonHole
  <2> HIDE DEF step, n
  <2> QED BY <1>5, <2>2
<1> QED BY <1>1, <1>6

\* The inductive invariant, and with it the types, hold however the deployment is stopped,
\* resumed, delayed or forgotten by the network.
THEOREM DeploymentInvariant == DeploySpec => [](DeployInv /\ DeployTypeOK)
<1>1. DeployInv => DeployInv /\ DeployTypeOK
  BY DEF DeployInv
<1> QED BY <1>1, InvStarts, InvKept, PTL DEF DeploySpec

\* The journal never gets two records for one step (execute of transactionUtils.ts records only
\* what it did not find).
THEOREM DeploymentJournal == DeploySpec => []OneRecordPerStep
<1>1. DeployInv => OneRecordPerStep
  BY DEF DeployInv
<1> QED BY <1>1, InvStarts, InvKept, PTL DEF DeploySpec

\* A stop costs at most the transaction that it kept from being recorded: the journal has room for
\* one transaction of each step, and every other one that was broadcast lies at a stop.
THEOREM DeploymentPaysOnce == DeploySpec => []OneTransactionPerStep
<1>1. DeployInv /\ SpentInv => OneTransactionPerStep
  <2> SUFFICES ASSUME DeployInv, SpentInv PROVE OneTransactionPerStep
    OBVIOUS
  <2>1. /\ Len(txs) \in Nat /\ Len(journal) \in Nat /\ stops \in Nat
        /\ InTransit \in {0, 1} /\ LastStep \in {17, 18}
    BY RecordFacts, CreationFacts DEF DeployInv, DeployTypeOK, InTransit
  <2>2. Len(txs) <= Len(journal) + stops + InTransit /\ Len(journal) + InTransit <= LastStep
    BY StepsAreFew DEF SpentInv
  <2> QED BY <2>1, <2>2 DEF OneTransactionPerStep, DeployInv
<1>2. (DeployInv /\ SpentInv) /\ [DeployNext]_vars => (DeployInv /\ SpentInv)'
  BY InvKept, SpentKept
<1> QED BY <1>1, <1>2, InvStarts, SpentStarts, PTL DEF DeploySpec

\* The deployer's renunciation of a timelock is mined only when the DAO built on it can schedule
\* and cancel: the order of the calls in browser.ts is safe against every crash and resumption.
THEOREM DeploymentTimelockUsable == DeploySpec => []TimelockNeverLocked
<1>1. DeployInv => TimelockNeverLocked
  BY DEF DeployInv, GivenAwaySafely, SafeCall, TimelockNeverLocked, Backed
<1> QED BY <1>1, InvStarts, InvKept, PTL DEF DeploySpec

\* The token's ownership goes only to a DAO built on that token which already governs it.
THEOREM DeploymentTokenHandedOver == DeploySpec => []TokenHandedToItsDAO
<1>1. DeployInv => TokenHandedToItsDAO
  BY DEF DeployInv, GivenAwaySafely, SafeCall, TokenHandedToItsDAO, Handed
<1> QED BY <1>1, InvStarts, InvKept, PTL DEF DeploySpec

\* A manifest names only contracts that are mined and built from one another, and every call
\* that hands them over is mined: what browser.ts returns is a complete deployment, whichever
\* runs, with whichever options, its parts come from.
THEOREM DeploymentManifest == DeploySpec => []ManifestTellsTheTruth
<1>1. TruthInv => ManifestTellsTheTruth
  <2>1. SUFFICES ASSUME Told, manifest # <<>>
                 PROVE  /\ \A l \in Creations :
                             Built(l, manifest.contracts, manifest.with)
                        /\ \A k \in 11 .. LastStep :
                             Mined(RequestOf(Steps[k], manifest.contracts, manifest.with))
    BY DEF TruthInv, ManifestTellsTheTruth, Built
  <2> QED BY <2>1 DEF Told, Creations
<1>2. DeployInit => DeployInv /\ TruthInv
  BY InvStarts, TruthStarts
<1>3. (DeployInv /\ TruthInv) /\ [DeployNext]_vars => (DeployInv /\ TruthInv)'
  BY InvKept, TruthKept
<1> QED BY <1>1, <1>2, <1>3, PTL DEF DeploySpec

\* No contract of a manifest has an event below the block that the manifest tells clients to
\* search from, whether the forwarder was resumed from the journal or is new.
THEOREM DeploymentSearch == DeploySpec => []SearchMissesNothing
<1>1. SearchInv => SearchMissesNothing
  <2>1. SUFFICES ASSUME SearchInv, manifest # <<>>,
                        NEW l \in {"token", "swap", "timelock", "DAO"}
                 PROVE  manifest.block <= txs[manifest.contracts[l]].block
    BY DEF SearchMissesNothing
  <2>2. \E k \in 2 .. 10 : l = Steps[k]
    <3>1. l \in {Steps[3], Steps[5], Steps[8], Steps[10]}
      BY <2>1, StepNames
    <3> QED BY <3>1
  <2> QED BY <2>1, <2>2 DEF SearchInv, ManifestOK
<1> QED BY <1>1, SearchStarts, SearchKept, PTL DEF DeploySpec

\* Whoever runs a complete deployment again gets the contracts it has, never a second set.
THEOREM DeploymentSameContracts == DeploySpec => SameContracts
<1>1. SearchInv /\ [DeployNext]_vars =>
        [manifest # <<>> => manifest'.contracts = manifest.contracts]_vars
  <2>1. SUFFICES ASSUME SearchInv, [DeployNext]_vars, manifest # <<>>
                 PROVE  manifest'.contracts = manifest.contracts
    OBVIOUS
  <2>2. CASE Return
    BY <2>1, <2>2, ReturnsTheSame
  <2>3. CASE manifest' = manifest
    BY <2>3
  <2> QED BY <2>1, <2>2, <2>3
       DEF DeployNext, RunStep, Begin, Check, Reuse, Submit, Record, Confirm, ConfirmFailed, Stop,
           Mine, Drop, vars
<1> QED BY <1>1, SearchStarts, SearchKept, PTL DEF DeploySpec, SameContracts
=============================================================================
