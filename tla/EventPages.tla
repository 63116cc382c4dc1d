----------------------------- MODULE EventPages -----------------------------
(***************************************************************************)
(* Paging through events, newest page first: eventBlockWindow of           *)
(* src/client/utils.ts with listPools of src/client/trading.ts and         *)
(* listProposals of src/client/governance.ts, called by a page that adds   *)
(* every page of items to its list until nextBlock is null, while the      *)
(* chain grows.                                                            *)
(***************************************************************************)
EXTENDS Integers, FiniteSets

CONSTANTS
  Events,    \* the events of the pool manager and of the DAO
  Kind,      \* Kind[e]: where a pool has the token, or "proposal"
  Saved,     \* the events with the saved pool's id
  PageSize,  \* blocks in a page: 1000
  MaxBlock,  \* bound on the chain
  MaxOpens   \* bound on how often the list is begun again

Kinds == {"currency0", "currency1", "neither", "proposal"}

ASSUME PagesAssumption ==
  /\ Kind \in [Events -> Kinds]
  /\ Saved \subseteq {e \in Events : Kind[e] # "proposal"}
  /\ PageSize \in Nat \ {0}
  /\ MaxBlock \in Nat /\ MaxOpens \in Nat

Null == -1  \* nextBlock null, and the block of an event that did not happen yet

\* What is listed: the token's pools, its pool with the saved id, or the proposals.
Queries == {"pools", "saved", "proposals"}

VARIABLES
  head,    \* getBlockNumber()
  block,   \* the block of each event
  query,   \* what the page lists
  window,  \* the window of the call that waits for logs, if any
  upTo,    \* history: the last block of the first page
  next,    \* nextBlock of the last page
  shown,   \* how often each event is in the list
  opens    \* how often the list was begun

pagesVars == <<head, block, query, window, upTo, next, shown, opens>>

Windows == [fromBlock : Nat, toBlock : Nat, nextBlock : Nat \cup {Null}]
NoWindow == [fromBlock |-> 1, toBlock |-> 0, nextBlock |-> Null]

PagesTypeOK ==
  /\ head \in Nat
  /\ block \in [Events -> Nat \cup {Null}]
  /\ query \in Queries
  /\ window \in Windows
  /\ upTo \in Nat \cup {Null}
  /\ next \in Nat \cup {Null}
  /\ shown \in [Events -> Nat]
  /\ opens \in Nat

Init ==
  /\ head = 0
  /\ block = [e \in Events |-> Null]
  /\ query \in Queries
  /\ window = NoWindow
  /\ upTo = Null /\ next = Null
  /\ shown = [e \in Events |-> 0]
  /\ opens = 0

\* A block with some of the events that have not happened; a pool is initialized once.
Mine ==
  /\ head < MaxBlock
  /\ head' = head + 1
  /\ \E new \in SUBSET {e \in Events : block[e] = Null} :
       block' = [e \in Events |-> IF e \in new THEN head' ELSE block[e]]
  /\ UNCHANGED <<query, window, upTo, next, shown, opens>>

-----------------------------------------------------------------------------
(* A page *)

FromBlock(to) == IF to < PageSize THEN 0 ELSE to - (PageSize - 1)

WindowTo(to) ==
  [fromBlock |-> FromBlock(to),
   toBlock   |-> to,
   nextBlock |-> IF FromBlock(to) > 0 THEN FromBlock(to) - 1 ELSE Null]

\* Wrong variant: the next page begins with the block this one ends with.
OverlappingWindow(latest, before) ==
  LET to == IF before = Null THEN latest ELSE before
  IN [WindowTo(to) EXCEPT !.nextBlock = IF FromBlock(to) > 0 THEN FromBlock(to) ELSE Null]

\* Wrong variant: block zero is taken for no block.
WindowBeforeZero(latest, before) ==
  WindowTo(IF before \in {Null, 0} THEN latest ELSE before)

eventBlockWindow(latest, before) == WindowTo(IF before = Null THEN latest ELSE before)

\* The log filters of a query, asked in parallel; a log that two of them match comes twice.
Filters(q) ==
  CASE q = "pools"     -> {"currency0", "currency1"}
    [] q = "saved"     -> {"id"}
    [] q = "proposals" -> {"proposal"}

Matches(f, e) == IF f = "id" THEN e \in Saved ELSE Kind[e] = f

\* The items kept of what the filters return: pools of another token are dropped.
Kept(q, e) == q = "saved" => Kind[e] # "neither"

Waiting == window # NoWindow

\* A call reads the latest block and computes its window.
Open ==
  /\ ~Waiting
  /\ opens < MaxOpens
  /\ opens' = opens + 1
  /\ window' = eventBlockWindow(head, Null)
  /\ query' \in Queries
  /\ upTo' = head /\ next' = head
  /\ shown' = [e \in Events |-> 0]
  /\ UNCHANGED <<head, block>>

More ==
  /\ ~Waiting
  /\ next # Null
  /\ window' = eventBlockWindow(head, next)
  /\ UNCHANGED <<head, block, query, upTo, next, shown, opens>>

\* The logs arrive, maybe blocks later, and their items are added to the list.
Answer ==
  /\ Waiting
  /\ shown' = [e \in Events |->
       shown[e] + IF /\ block[e] \in window.fromBlock .. window.toBlock
                     /\ Kept(query, e)
                  THEN Cardinality({f \in Filters(query) : Matches(f, e)})
                  ELSE 0]
  /\ next' = window.nextBlock
  /\ window' = NoWindow
  /\ UNCHANGED <<head, block, query, upTo, opens>>

Next == Mine \/ Open \/ More \/ Answer

Spec == Init /\ [][Next]_pagesVars

\* The provider answers and the page goes on loading.
FairSpec == Spec /\ WF_pagesVars(More) /\ WF_pagesVars(Answer)

-----------------------------------------------------------------------------
(* Properties *)

Wanted(e) ==
  CASE query = "pools"     -> Kind[e] \in {"currency0", "currency1"}
    [] query = "saved"     -> e \in Saved /\ Kind[e] \in {"currency0", "currency1"}
    [] query = "proposals" -> Kind[e] = "proposal"

\* Whatever blocks arrive between the pages, the list has each wanted event of the blocks
\* paged through exactly once, down to block zero, and nothing else.
ShownOnce ==
  \A e \in Events :
    shown[e] = IF Wanted(e) /\ next < block[e] /\ block[e] <= upTo THEN 1 ELSE 0

\* A page that keeps loading older events reaches the first block, however the chain grows.
HistoryIsLoaded == opens > 0 ~> opens > 0 /\ next = Null
=============================================================================
