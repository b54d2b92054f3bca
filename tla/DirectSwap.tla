----------------------------- MODULE DirectSwap ------------------------------
(***************************************************************************)
(* A swap through one pool with Uniswap's own routers: an adapter's quote, *)
(* the plan it builds (build_swap and swap_calldata in                     *)
(* src/src/uniswap/v2.rs, v3.rs and v4.rs), and the plan carried out.  The *)
(* routers are external; of them the model keeps who pays, who is paid and *)
(* what a router is left with, as the adapters' comments describe it.      *)
(***************************************************************************)
EXTENDS Venues, FeeMath

CONSTANTS
  Worlds,       \* states of the chain
  Offered,      \* pools a caller may name, forged ones included
  Trades,       \* and what it may ask of them
  Slippages,
  Tokens        \* currencies: 0 is the native one

(* "one" and "two" are addresses 1 and 2, "pool" everyone who trades.      *)
Accounts == {"wallet", "other", "one", "two", "router", "pool"}
Weth == 1

(* A wrapped-native contract is the same in every state of the chain.      *)
ASSUME DirectSwapAssumption ==
  /\ Worlds \subseteq World
  /\ \A w \in Worlds, c \in {"router02", "swapRouter"} : w.wiring[c].weth = Weth
  /\ {Native, Weth} \subseteq Tokens /\ Tokens \subseteq Nat /\ Slippages \subseteq Rates
  /\ \A p \in Offered : p.kind \in {"V2", "V3", "V4"}
  /\ \A t \in Trades : /\ t.sender = "wallet" /\ t.recipient \in Accounts \ {"router", "pool"}
                        /\ {t.currency_in, t.currency_out} \subseteq Tokens \union {Erc20Zero}
                        /\ t.amount_in \in Nat

VARIABLES
  phase,    \* ask, quoted, built, done; or refused, reverted
  world,    \* the chain as it is now
  order,    \* the pool and the trade: a set of at most one element
  quote,    \* amount_out, and the state of the chain it was read from
  plan,     \* what build_swap returns
  next,     \* the call of the plan to carry out next
  flow,     \* what the swap took from the payer and paid out
  bal       \* changes of balance since the start
vars == <<phase, world, order, quote, plan, next, flow, bal>>

Pool  == (CHOOSE o \in order : TRUE).pool
Trade == (CHOOSE o \in order : TRUE).trade
Quoted == CHOOSE q \in quote : TRUE
Plan  == CHOOSE p \in plan : TRUE
Nothing == [a \in Accounts |-> [t \in Tokens |-> 0]]

Init ==
  /\ phase = "ask" /\ world \in Worlds
  /\ order = {} /\ quote = {} /\ plan = {} /\ next = 1
  /\ flow = [spent |-> 0, paid |-> 0]
  /\ bal = Nothing

(* The types; an adapter never quotes an output of zero (v2.rs:275).        *)
TypeOK ==
  /\ phase \in {"ask", "quoted", "built", "done", "refused", "reverted"}
  /\ world \in Worlds
  /\ \A o \in order : o.pool \in Offered /\ o.trade \in Trades
  /\ \A q \in quote : q.amount_out \in Nat \ {0} /\ q.world \in Worlds
  /\ \A p \in plan : p.value \in Nat /\ p.approval \in Nat
  /\ next \in Nat \ {0}
  /\ flow \in [spent : Nat, paid : Nat]
  /\ bal \in [Accounts -> [Tokens -> Int]]

-----------------------------------------------------------------------------
(* Dex::quote of the adapter of the pool's kind, at the current block.     *)
Quotes(w, p, t) ==
  CASE p.kind = "V2" -> UNION {V2Quote(w, weth, p, t) : weth \in V2Connect(w)}
    [] p.kind = "V3" -> UNION {V3Quote(w, weth, p, t) : weth \in V3Connect(w)}
    [] p.kind = "V4" -> IF V4Connect(w) THEN V4Quote(w, p, t) ELSE {}

Ask(p, t) ==
  LET answer == Quotes(world, p, t) IN
  /\ phase = "ask"
  /\ order' = {[pool |-> p, trade |-> t]}
  /\ quote' = {[amount_out |-> n, world |-> world] : n \in answer}
  /\ phase' = IF answer = {} THEN "refused" ELSE "quoted"
  /\ UNCHANGED <<world, plan, next, flow, bal>>

(* The chain moves on between the quote and the swap.                      *)
Market == /\ phase \in {"quoted", "built"} /\ next = 1
          /\ world' \in Worlds
          /\ UNCHANGED <<phase, order, quote, plan, next, flow, bal>>

Call(op, minimum, to) == [op |-> op, minimum |-> minimum, to |-> to]

V2SwapCalldata(t, minimum) ==
  <<Call(IF t.currency_in = Native THEN "swapExactETHForTokens"
         ELSE IF t.currency_out = Native THEN "swapExactTokensForETH"
         ELSE "swapExactTokensForTokens", minimum, t.recipient)>>

\* MUTANT of V3SwapCalldata: no refund of native input.
V3SwapCalldataNoRefund(t, minimum) ==
  IF t.currency_out = Native
  THEN <<Call("exactInputSingle", minimum, "router"), Call("unwrapWETH9", minimum, t.recipient)>>
  ELSE <<Call("exactInputSingle", minimum, t.recipient)>>
(* The literal recipient is paid by the router when the swap would treat   *)
(* its address as an alias, or when the output has to be unwrapped.        *)
V3SwapCalldata(t, minimum) ==
  LET native  == t.currency_out = Native
      aliased == t.recipient \in {"one", "two"}
  IN  <<Call("exactInputSingle", minimum,
             IF native \/ aliased THEN "router" ELSE t.recipient)>>
      \o (IF native THEN <<Call("unwrapWETH9", minimum, t.recipient)>>
          ELSE IF aliased THEN <<Call("sweepToken", minimum, t.recipient)>> ELSE <<>>)
      \o (IF t.currency_in = Native THEN <<Call("refundETH", 0, t.sender)>> ELSE <<>>)

V4Commands(t, minimum) ==
  <<Call("SWAP_EXACT_IN_SINGLE", minimum, "router"), Call("SETTLE_ALL", 0, "pool"),
    Call("TAKE", 0, t.recipient)>>
  \o (IF t.currency_in = Native THEN <<Call("SWEEP", 0, "one")>> ELSE <<>>)

(* Native input travels with the call; a token is approved, by V4 once for *)
(* Permit2 and once more within it.                                        *)
PlanOf(t, calls) ==
  [calls |-> calls,
   value    |-> IF t.currency_in = Native THEN t.amount_in ELSE 0,
   approval |-> IF t.currency_in = Native THEN 0 ELSE t.amount_in]

(* The wrapped token is that of the connection, in the quote's world.       *)
V2BuildSwap(w, p, t, minimum) ==
  UNION {When(V2ValidateTrade(weth, p, t), PlanOf(t, V2SwapCalldata(t, minimum))) :
           weth \in V2Connect(w)}
V3BuildSwap(w, p, t, minimum) ==
  UNION {When(V3ValidateTrade(weth, p, t), PlanOf(t, V3SwapCalldata(t, minimum))) :
           weth \in V3Connect(w)}
\* MUTANT of V4BuildSwap: any recipient.
V4BuildSwapAnyRecipient(p, t, minimum) == {PlanOf(t, V4Commands(t, minimum))}
V4BuildSwap(p, t, minimum) ==
  When(V4ValidateTrade(p, t) /\ minimum <= MaxUint128 /\ t.recipient \notin {"one", "two"},
       PlanOf(t, V4Commands(t, minimum)))

(* build_swap validates the trade again, without reading the chain.        *)
BuildSwap(w, p, t, minimum) ==
  CASE p.kind = "V2" -> V2BuildSwap(w, p, t, minimum)
    [] p.kind = "V3" -> V3BuildSwap(w, p, t, minimum)
    [] p.kind = "V4" -> V4BuildSwap(p, t, minimum)

Build(slippage) ==
  LET minimum == minimum_amount_out(Quoted.amount_out, slippage)
      built   == BuildSwap(Quoted.world, Pool, Trade, minimum)
  IN
  /\ phase = "quoted"
  /\ plan' = {[calls |-> p.calls, value |-> p.value, approval |-> p.approval,
               slippage |-> slippage] : p \in built}
  /\ phase' = IF built = {} THEN "refused" ELSE "built"
  /\ UNCHANGED <<world, order, quote, next, flow, bal>>

-----------------------------------------------------------------------------
(* The transaction: external contracts, which carry out the calls in turn. *)
Move(b, from, to, c, n) == [b EXCEPT ![from][c] = @ - n, ![to][c] = @ + n]
Alias(to) == IF to = "one" THEN Trade.sender ELSE IF to = "two" THEN "router" ELSE to
Current == Plan.calls[next]

(* The balances once the value has been sent with the call.                *)
Paid == IF next = 1 THEN Move(bal, Trade.sender, "router", Native, Plan.value) ELSE bal
Left(c) == Paid["router"][c]

(* The swap: V2 takes all of the input; in V3 and V4 the price can reach   *)
(* a boundary before.  The pool is the one the tokens or the key lead to.  *)
Swapped(spent) ==
  LET t       == Trade
      forward == IF Pool.kind = "V4" THEN t.currency_in < t.currency_out
                 ELSE Forward(Path(Weth, t))
      deployment == CASE Pool.kind = "V2" -> V2Factory [] Pool.kind = "V3" -> V3Factory
                      [] Pool.kind = "V4" -> PoolManager
  IN  {Output(world, i, forward, spent) : i \in Registered(world, deployment, Key(Pool))}

SwapCalls == {"swapExactETHForTokens", "swapExactTokensForETH", "swapExactTokensForTokens",
              "exactInputSingle", "SWAP_EXACT_IN_SINGLE"}

(* The token an output is paid in: V3 does not unwrap.                     *)
PaidIn == IF Current.op = "exactInputSingle" THEN Path(Weth, Trade)[2] ELSE Trade.currency_out

Swap(spent, paid) ==
  LET fromValue == Trade.currency_in = Native
      payer     == IF fromValue THEN "router" ELSE Trade.sender
      to        == IF Current.op = "exactInputSingle" THEN Alias(Current.to) ELSE Current.to
      charged   == Move(Paid, payer, "pool", Trade.currency_in, spent)
  IN
  /\ Current.op \in SwapCalls
  /\ Pool.kind = "V2" => spent = Trade.amount_in
  /\ paid \in Swapped(spent) /\ paid >= Current.minimum
  /\ fromValue \/ spent <= Plan.approval
  /\ flow' = [spent |-> spent, paid |-> paid]
  /\ bal' = IF Current.op = "SWAP_EXACT_IN_SINGLE" THEN Paid   \* a debt and a credit
            ELSE Move(charged, "pool", to, PaidIn, paid)

SettleAll == /\ Current.op = "SETTLE_ALL"
             /\ bal' = Move(bal, IF Trade.currency_in = Native THEN "router" ELSE Trade.sender,
                            "pool", Trade.currency_in, flow.spent)
             /\ UNCHANGED flow
Take == /\ Current.op = "TAKE"
        /\ bal' = Move(bal, "pool", Alias(Current.to), Trade.currency_out, flow.paid)
        /\ UNCHANGED flow
UnwrapWETH9 ==
  /\ Current.op = "unwrapWETH9" /\ Left(Weth) >= Current.minimum
  /\ bal' = Move(Move(bal, "router", "pool", Weth, Left(Weth)),
                 "pool", Current.to, Native, Left(Weth))
  /\ UNCHANGED flow
SweepToken == /\ Current.op = "sweepToken" /\ Left(Trade.currency_out) >= Current.minimum
              /\ bal' = Move(bal, "router", Current.to, Trade.currency_out, Left(Trade.currency_out))
              /\ UNCHANGED flow
ReturnNative == /\ Current.op \in {"refundETH", "SWEEP"}
                /\ bal' = Move(bal, "router", Trade.sender, Native, Left(Native))
                /\ UNCHANGED flow

Step ==
  /\ phase = "built"
  /\ \/ \E spent \in 1..Trade.amount_in : \E paid \in Swapped(spent) : Swap(spent, paid)
     \/ SettleAll \/ Take \/ UnwrapWETH9 \/ SweepToken \/ ReturnNative
  /\ next' = next + 1
  /\ phase' = IF next = Len(Plan.calls) THEN "done" ELSE phase
  /\ UNCHANGED <<world, order, quote, plan>>

(* Any failing call, a passed deadline included, undoes the transaction.   *)
Revert == /\ phase = "built"
          /\ bal' = Nothing /\ phase' = "reverted"
          /\ UNCHANGED <<world, order, quote, plan, next, flow>>

Again == /\ phase \in {"done", "refused", "reverted"}
         /\ phase' = "ask" /\ order' = {} /\ quote' = {} /\ plan' = {} /\ next' = 1
         /\ flow' = [spent |-> 0, paid |-> 0] /\ bal' = Nothing
         /\ UNCHANGED world

Next == \/ \E p \in Offered, t \in Trades : Ask(p, t)
        \/ Market
        \/ \E s \in Slippages : Build(s)
        \/ Step \/ Revert \/ Again

Spec == Init /\ [][Next]_vars

-----------------------------------------------------------------------------
(* A quote is what the genuine pool with the named identity would pay, in  *)
(* the deployment the swap will use: forged pools, pools of forks and      *)
(* routers of other deployments are noticed (v2.rs:204, v3.rs:90,          *)
(* v4.rs:274 and the checks of connect).                                   *)
QuotedPoolIsReal ==
  \A q \in quote :
    LET forward == IF Pool.kind = "V4" THEN Trade.currency_in < Trade.currency_out
                   ELSE Forward(Path(Weth, Trade))
    IN  \E i \in q.world.deployed \cap Genuine :
          /\ Key(Claim[i]) = Key(Pool) /\ Claim[i].deployment = Pool.deployment
          /\ Claim[i].deployment \in {V2Factory, V3Factory, PoolManager}
          /\ q.amount_out = Output(q.world, i, forward, Trade.amount_in)

(* A swap that is done has moved exactly this: the sender lost what the    *)
(* pool took, at most the input; the recipient named in the trade, be it   *)
(* address 1 or 2, gained the output, in the currency asked for and at     *)
(* least the minimum of the quote; and the router kept nothing of either.  *)
LandsWithRecipient ==
  phase = "done" =>
    /\ flow.spent \in 1..Trade.amount_in
    /\ flow.paid >= minimum_amount_out(Quoted.amount_out, Plan.slippage)
    /\ bal = Move(Move(Nothing, Trade.sender, "pool", Trade.currency_in, flow.spent),
                  "pool", Trade.recipient, Trade.currency_out, flow.paid)
=============================================================================
