------------------------ MODULE MarketplaceSwapClient ------------------------
(***************************************************************************)
(* MarketplaceSwapClient of src/client/trading.ts on top of the router: a  *)
(* quote is reviewed, quoted again, approved and swapped, with an await    *)
(* between any two of these steps, during which the DAO may change the     *)
(* fee, the pool may move and the same account may trade in another tab.   *)
(* quote's checks of its inputs and of the configured addresses are left   *)
(* out: the inputs here are those it accepts.                              *)
(***************************************************************************)
EXTENDS MarketplaceV4SwapRouter

CONSTANTS
  Sessions,     \* open tabs
  Trader,       \* the account of each session
  SlippageBps   \* the slippages that traders choose

ASSUME ClientAssumption ==
  Trader \in [Sessions -> Traders] /\ SlippageBps \subseteq 1 .. 1000

\* What each session knows and does next.  quote() reads feeBps ("asking"), asks the quoter and
\* returns ("reviewed"); swap() does so again ("rechecking", "checked") and looks after the allowance
\* ("reset", "approve") before it sends.  accepted is the minimum of the quote the trader accepted.
VARIABLE session

swapVars == <<routerVars, session>>

Idle == [phase |-> "idle"]

Now(s) == session[s].phase
Goto(s, phase) == session' = [session EXCEPT ![s].phase = phase]
Quit(s) == session' = [session EXCEPT ![s] = Idle]

(***************************************************************************)
(* quote                                                                   *)
(***************************************************************************)

Ask(s, zeroForOne, amountIn, slippage) ==
  /\ Now(s) = "idle"
  /\ session' = [session EXCEPT
                   ![s] = [phase |-> "asking", zeroForOne |-> zeroForOne, amountIn |-> amountIn,
                           slippage |-> slippage, fee |-> feeBps, minimumOut |-> 0, accepted |-> 0]]
  /\ UNCHANGED routerVars

\* What the quoter says of the input less the fee read before: what the pool would give for it.
AmountOut(q) == Given(q.amountIn - (q.amountIn * q.fee) \div 10000)

MinimumOut(q) == (AmountOut(q) * (10000 - q.slippage)) \div 10000

\* The quote is returned for review, or refused when its output is of no use.
Quote(s) ==
  /\ Now(s) = "asking"
  /\ IF MinimumOut(session[s]) = 0
     THEN Quit(s)
     ELSE session' = [session EXCEPT ![s].phase = "reviewed", ![s].minimumOut = MinimumOut(session[s])]
  /\ UNCHANGED routerVars

(***************************************************************************)
(* swap                                                                    *)
(***************************************************************************)

\* The trader accepts the quote; the fresh quote reads the fee again.
Accept(s) ==
  /\ Now(s) = "reviewed"
  /\ session' = [session EXCEPT ![s].phase = "rechecking", ![s].fee = feeBps,
                                 ![s].accepted = session[s].minimumOut]
  /\ UNCHANGED routerVars

\* A wrong variant for the runs: the fresh quote replaces the one that was accepted.
RecheckReplacing(s) ==
  /\ Now(s) = "rechecking"
  /\ IF MinimumOut(session[s]) = 0
     THEN Quit(s)
     ELSE session' = [session EXCEPT ![s].phase = "checked", ![s].minimumOut = MinimumOut(session[s])]
  /\ UNCHANGED routerVars

Recheck(s) ==
  /\ Now(s) = "rechecking"
  /\ IF MinimumOut(session[s]) = 0 \/ AmountOut(session[s]) < session[s].minimumOut
     THEN Quit(s)
     ELSE Goto(s, "checked")
  /\ UNCHANGED routerVars

ReadAllowance(s) ==
  LET allowed == allowance[Trader[s]]
  IN  /\ Now(s) = "checked"
      /\ Goto(s, CASE session[s].zeroForOne \/ allowed >= session[s].amountIn -> "send"
                   [] ~session[s].zeroForOne /\ allowed = 0 -> "approve"
                   [] OTHER -> "reset")
      /\ UNCHANGED routerVars

ResetAllowance(s) ==
  /\ Now(s) = "reset"
  /\ approve(Trader[s], 0)
  /\ Goto(s, "approve")

ApproveInput(s) ==
  /\ Now(s) = "approve"
  /\ approve(Trader[s], session[s].amountIn)
  /\ Goto(s, "send")

Send(s) ==
  LET q == session[s]
  IN  /\ Now(s) = "send"
      /\ swapExactInputSingle(Trader[s], q.zeroForOne, q.amountIn, q.minimumOut,
                              IF q.zeroForOne THEN q.amountIn ELSE 0)
      /\ Quit(s)

\* A call reverts, the trader declines or closes the tab.
Leave(s) ==
  /\ Now(s) # "idle"
  /\ Quit(s)
  /\ UNCHANGED routerVars

SessionStep(s) ==
  \/ \E z \in BOOLEAN, a \in Amounts, b \in SlippageBps : Ask(s, z, a, b)
  \/ Quote(s) \/ Accept(s) \/ Recheck(s)
  \/ ReadAllowance(s) \/ ResetAllowance(s) \/ ApproveInput(s)
  \/ Send(s) \/ Leave(s)

SwapInit == RouterInit /\ session = [s \in Sessions |-> Idle]

\* The other traders call the router without a client.
Clients == {Trader[s] : s \in Sessions}

SwapNext ==
  \/ \E s \in Sessions : SessionStep(s)
  \/ /\ MarketStep \/ \E t \in Traders \ Clients : DirectSwap(t)
     /\ UNCHANGED session

SwapSpec == SwapInit /\ [][SwapNext]_swapVars

(***************************************************************************)
(* Properties                                                              *)
(***************************************************************************)

\* Whenever an account with a client trades, it is a trade that one of its sessions accepted: it costs no more
\* than the input and brings at least the minimum of the accepted quote, though fee, pool and
\* allowance may have changed at every await since.
ReviewedSwap ==
  [][\A t \in Clients :
       LET gained(c) == balance'[c][t] - balance[c][t]
       IN  (gained("native") > 0 \/ gained("token") > 0) =>
             \E s \in Sessions :
               /\ Trader[s] = t /\ Now(s) = "send" /\ session'[s] = Idle
               /\ gained(Input(session[s].zeroForOne)) >= - session[s].amountIn
               /\ gained(Output(session[s].zeroForOne)) >= session[s].accepted]_swapVars
=============================================================================
