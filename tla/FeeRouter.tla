------------------------------ MODULE FeeRouter ------------------------------
(***************************************************************************)
(* The FeeRouter contract (src/contracts/src/FeeRouter.sol).  A swap is a  *)
(* sequence of external calls, to tokens, routers, the pool manager and    *)
(* its hooks, and receivers of native currency; code of others may run at  *)
(* each of them and call back.  A call that fails undoes the transaction.  *)
(***************************************************************************)
EXTENDS FeeMath, Sequences

CONSTANTS
  Tokens, Native, Wrapped,   \* currencies; Native is address(0)
  Accounts, FeeRecipient,    \* users, one of which receives the fees
  Router, World,             \* this contract; pools and everyone else
  Requests,                  \* the calls of swap and swapWithFee considered
  Balances,                  \* balances before the first transaction
  MaxCalls,                  \* bound on the number of swaps tried
  MaxGifts                   \* bound on what others send the router

Holders  == Accounts \union {Router, World}
Ledgers  == [Tokens -> [Holders -> Nat]]
Versions == {"V2", "V3", "V4"}
Hops     == {h \in [version : Versions, tokenIn : Tokens, tokenOut : Tokens] :
               h.tokenIn # h.tokenOut}

(* expected is the fee swapWithFee names; swap names none: {}.             *)
RequestType ==
  [caller : Accounts, tokenIn : Tokens, tokenOut : Tokens, amountIn : U256 \ {0},
   minimum : U256, recipient : Accounts, expected : {{}} \union {{r} : r \in Rates},
   hops : Seq(Hops) \ {<<>>}]

ASSUME FeeRouterAssumption ==
  /\ Native \in Tokens /\ Wrapped \in Tokens /\ Native # Wrapped
  /\ FeeRecipient \in Accounts
  /\ Router \notin Accounts /\ World \notin Accounts /\ Router # World
  /\ Requests \subseteq RequestType
  /\ Balances \in Ledgers
  /\ MaxCalls \in Nat /\ MaxGifts \in Nat

VARIABLES
  bal,            \* bal[t][h]: what h owns of t
  feeBps,
  entered,        \* the lock: 1 free, 2 taken
  pendingUnlock,  \* the hop whose callback is awaited, 0 for none
  allowance,      \* what the V2 and V3 routers may pull from this contract
  pc,             \* where the transaction is
  call,           \* its request: a set of at most one element
  hop,            \* the index of the hop
  currency,       \* the currency of the route so far, and
  amount,         \* how much of it
  before,         \* the balances at the start of the hop
  start,          \* the balances, the fee and gifts when it began
  gifts,          \* how often others sent the router something
  calls           \* swaps tried so far

transaction == <<call, hop, currency, amount, before, start>>
vars == <<bal, feeBps, entered, pendingUnlock, allowance, pc, transaction, gifts, calls>>

Req == CHOOSE r \in call : TRUE
Fee == mulDiv(Req.amountIn, start.feeBps)
Hop == Req.hops[hop]

None == [t \in Tokens |-> 0]

TypeOK ==
  /\ bal \in Ledgers
  /\ feeBps \in Rates
  /\ entered \in {1, 2}
  /\ pendingUnlock \in Nat
  /\ allowance \in [Tokens -> Nat]
  /\ pc \in {"idle", "route", "venue", "callback", "measure", "fee"}
  /\ call \in {{}} \union {{r} : r \in Requests}
  /\ pc = "idle" <=> call = {}
  /\ hop \in Nat \ {0}
  /\ currency \in Tokens
  /\ amount \in Nat
  /\ before \in Ledgers
  /\ start \in [bal : Ledgers, feeBps : Rates, gifts : 0..MaxGifts]
  /\ gifts \in 0..MaxGifts
  /\ calls \in 0..MaxCalls

Init ==
  /\ bal = Balances /\ feeBps \in Rates /\ entered = 1 /\ pendingUnlock = 0
  /\ allowance = None /\ pc = "idle" /\ gifts = 0 /\ calls = 0
  /\ call = {} /\ hop = 1 /\ currency = Native /\ amount = 0 /\ before = Balances
  /\ start = [bal |-> Balances, feeBps |-> 0, gifts |-> 0]

(* A transfer of standard tokens or of native currency.                    *)
Loses(l, h, n) == [l EXCEPT ![h] = @ - n]
Earns(l, h, n) == [l EXCEPT ![h] = @ + n]
Moved(l, from, to, n) == Earns(Loses(l, from, n), to, n)
Pays(b, t, from, to, n) == [b EXCEPT ![t] = Moved(@, from, to, n)]
Pay(t, from, to, n) == n <= bal[t][from] /\ bal' = Pays(bal, t, from, to, n)

\* MUTANT of LockFree: rescue and setFeeBps without nonReentrant.
LockForgotten == TRUE
LockFree == entered = 1

-----------------------------------------------------------------------------
(***************************************************************************)
(* swap and swapWithFee.                                                   *)
(***************************************************************************)

\* MUTANT of FeeAgreed: swapWithFee ignores the expected fee.
FeeIgnored(req) == TRUE
FeeAgreed(req) == req.expected \subseteq {feeBps}

(* A transaction's variables end with it.                                  *)
End ==
  /\ pc' = "idle" /\ call' = {} /\ hop' = 1 /\ currency' = Native /\ amount' = 0
  /\ before' = Balances /\ start' = [bal |-> Balances, feeBps |-> 0, gifts |-> 0]

(* The checks, the fee, and _collectInput.                                 *)
Call(req) ==
  LET fee == mulDiv(req.amountIn, feeBps)
  IN  /\ pc = "idle" /\ LockFree /\ calls < MaxCalls
      /\ FeeAgreed(req)
      /\ req.amountIn - fee > 0
      /\ Pay(req.tokenIn, req.caller, Router, req.amountIn)
      /\ entered' = 2 /\ calls' = calls + 1
      /\ call' = {req} /\ hop' = 1
      /\ currency' = req.tokenIn /\ amount' = req.amountIn - fee
      /\ start' = [bal |-> bal, feeBps |-> feeBps, gifts |-> gifts]
      /\ pc' = "route"
      /\ UNCHANGED <<feeBps, pendingUnlock, allowance, before, gifts>>

MoreHops == hop <= Len(Req.hops)
Needed   == IF MoreHops THEN Hop.tokenIn ELSE Req.tokenOut

deposit(b, n) ==
  [Pays(b, Native, Router, World, n) EXCEPT ![Wrapped] = Earns(@, Router, n)]
withdraw(b, n) ==
  [Pays(b, Native, World, Router, n) EXCEPT ![Wrapped] = Loses(@, Router, n)]

(* _convert: wrap or unwrap what the route carries.                        *)
Convert ==
  /\ pc = "route" /\ currency # Needed
  /\ \/ /\ currency = Native /\ Needed = Wrapped
        /\ bal' = deposit(bal, amount)
     \/ /\ currency = Wrapped /\ Needed = Native
        /\ amount <= bal[Native][World]
        /\ bal' = withdraw(bal, amount)
  /\ currency' = Needed
  /\ UNCHANGED <<feeBps, entered, pendingUnlock, allowance, pc, call, hop, amount,
                 before, start, gifts, calls>>

(* _executeHop up to the call of the venue: approve, or await a callback.  *)
BeginHop ==
  /\ pc = "route" /\ MoreHops /\ currency = Needed
  /\ amount # 0 /\ bal[currency][Router] >= amount
  /\ Hop.version # "V4" => Native \notin {Hop.tokenIn, Hop.tokenOut}
  /\ before' = bal
  /\ IF Hop.version = "V4"
     THEN pendingUnlock' = hop /\ UNCHANGED allowance
     ELSE allowance' = [allowance EXCEPT ![currency] = amount] /\ UNCHANGED pendingUnlock
  /\ pc' = "venue"
  /\ UNCHANGED <<bal, feeBps, entered, call, hop, currency, amount, start, gifts, calls>>

(* The venue takes spent of the input and returns out of the output.       *)
Trade(spent, out) ==
  /\ spent <= bal[Hop.tokenIn][Router] /\ out <= bal[Hop.tokenOut][World]
  /\ bal' = Pays(Pays(bal, Hop.tokenIn, Router, World, spent),
                 Hop.tokenOut, World, Router, out)
  /\ pc' = "measure"

\* MUTANT of ApproveZero: the allowance is left to the next hop.
ApprovalKept(a) == a
ApproveZero(a) == [a EXCEPT ![Hop.tokenIn] = 0]

(* The V2 router takes the whole input, the V3 router up to it; then the   *)
(* allowance is taken back.                                                *)
SwapV2V3 ==
  /\ pc = "venue" /\ Hop.version # "V4"
  /\ \E spent \in 0..allowance[Hop.tokenIn], out \in 0..bal[Hop.tokenOut][World] :
       /\ Hop.version = "V2" => spent = amount
       /\ Trade(spent, out)
  /\ allowance' = ApproveZero(allowance)
  /\ UNCHANGED <<feeBps, entered, pendingUnlock, transaction, gifts, calls>>

\* MUTANT of Awaited: any callback during a swap.
AwaitedAny(data) == TRUE
Awaited(data) == pendingUnlock # 0 /\ data = pendingUnlock

(* unlockCallback, with the data of a hop: whatever the swap is doing when *)
(* it comes, only the check lets it in.                                    *)
UnlockCallback ==
  /\ entered = 2 /\ \E data \in DOMAIN Req.hops : Awaited(data)
  /\ pendingUnlock' = 0
  /\ pc' = "callback"
  /\ UNCHANGED <<bal, feeBps, entered, allowance, transaction, gifts, calls>>

(* The pool's deltas, after its hooks: settled and taken, or refused.      *)
SettleAndTake ==
  /\ pc = "callback"
  /\ \E spent \in 0..amount, out \in 1..bal[Hop.tokenOut][World] : Trade(spent, out)
  /\ UNCHANGED <<feeBps, entered, pendingUnlock, allowance, transaction, gifts, calls>>

\* MUTANT of Output: the whole balance counts as the hop's output.
OutputBalance(t) == bal[t][Router]
Output(t) == bal[t][Router] - before[t][Router]

\* MUTANT of Unspent: the input the venue left is not returned.
UnspentKept(t) == 0
Unspent(t) == amount - (before[t][Router] - bal[t][Router])

(* _executeHop after the venue: measure both balances and refund.          *)
Measure ==
  LET input == Hop.tokenIn
  IN  /\ pc = "measure" /\ pendingUnlock = 0
      /\ bal[input][Router] <= before[input][Router]
      /\ before[input][Router] - bal[input][Router] <= amount
      /\ bal[Hop.tokenOut][Router] > before[Hop.tokenOut][Router]
      /\ amount' = Output(Hop.tokenOut)
      /\ Pay(input, Router, Req.caller, Unspent(input))
      /\ currency' = Hop.tokenOut /\ hop' = hop + 1
      /\ pc' = "route"
      /\ UNCHANGED <<feeBps, entered, pendingUnlock, allowance, call, before, start,
                     gifts, calls>>

\* MUTANT of Enough: the minimum is compared with the router's balance.
BalanceEnough(n) == bal[Req.tokenOut][Router] >= Req.minimum
Enough(n) == n >= Req.minimum

PayOutput ==
  /\ pc = "route" /\ ~MoreHops /\ currency = Needed
  /\ Enough(amount)
  /\ Pay(currency, Router, Req.recipient, amount)
  /\ pc' = "fee"
  /\ UNCHANGED <<feeBps, entered, pendingUnlock, allowance, transaction, gifts, calls>>

PayFee ==
  /\ pc = "fee"
  /\ Pay(Req.tokenIn, Router, FeeRecipient, Fee)
  /\ entered' = 1
  /\ End
  /\ UNCHANGED <<feeBps, pendingUnlock, allowance, gifts, calls>>

(* A check or an external call fails: the transaction had no effect.       *)
Revert ==
  /\ pc # "idle"
  /\ bal' = start.bal /\ feeBps' = start.feeBps
  /\ entered' = 1 /\ pendingUnlock' = 0 /\ allowance' = None
  /\ End
  /\ UNCHANGED <<gifts, calls>>

-----------------------------------------------------------------------------
(***************************************************************************)
(* The other entry points, as transactions of their own or called while a  *)
(* swap runs, by hooks, tokens and receivers.                              *)
(***************************************************************************)

Rescue ==
  /\ LockFree
  /\ \E t \in Tokens : \E n \in 1..bal[t][Router] : Pay(t, Router, FeeRecipient, n)
  /\ UNCHANGED <<feeBps, entered, pendingUnlock, allowance, pc, transaction, gifts, calls>>

\* MUTANT of FeeBpsValid: off by one.
FeeBpsBelowLimit(new) == new <= BPS + 1
FeeBpsValid(new) == new <= BPS

SetFeeBps ==
  /\ LockFree
  /\ \E new \in 0..BPS + 1 : FeeBpsValid(new) /\ feeBps' = new
  /\ UNCHANGED <<bal, entered, pendingUnlock, allowance, pc, transaction, gifts, calls>>

(* Someone sends the router a token; native currency can come through the  *)
(* pool manager (receive).                                                 *)
Gift ==
  /\ pc # "measure" /\ gifts < MaxGifts
  /\ \E t \in Tokens : Pay(t, World, Router, 1)
  /\ gifts' = gifts + 1
  /\ UNCHANGED <<feeBps, entered, pendingUnlock, allowance, pc, transaction, calls>>

Next ==
  \/ \E req \in Requests : Call(req)
  \/ Convert \/ BeginHop \/ SwapV2V3 \/ UnlockCallback \/ SettleAndTake \/ Measure
  \/ PayOutput \/ PayFee \/ Revert
  \/ Rescue \/ SetFeeBps \/ Gift

Spec == Init /\ [][Next]_vars

-----------------------------------------------------------------------------
(***************************************************************************)
(* Properties.                                                             *)
(***************************************************************************)

(* A transaction leaves no lock, no awaited callback and no allowance      *)
(* behind, and inside one only the current hop may be spent: never the     *)
(* fee, nor what the router held before.                                   *)
NothingStanding ==
  /\ pc = "idle" <=> entered = 1
  /\ pc # "venue" => allowance = None /\ pendingUnlock = 0
  /\ pc = "venue" => \A t \in Tokens : allowance[t] # 0 => t = Hop.tokenIn

(* Existing router balances are never route input: at the end of a swap,   *)
(* and whatever others did while it ran, the router owns no less of any    *)
(* token than before it.                                                   *)
RouterKeepsItsOwn ==
  [][PayFee => \A t \in Tokens : bal'[t][Router] >= start.bal[t][Router]]_vars

(* Nothing of a user's money stays behind: when nobody sent the router     *)
(* anything meanwhile, a swap leaves its balances as they were.            *)
NothingStranded ==
  [][PayFee /\ gifts = start.gifts => \A t \in Tokens : bal'[t][Router] = start.bal[t][Router]]_vars

(* The fee the SDK displayed for the rate it read is the fee paid, to the  *)
(* unit: at a rate changed since, the swap does not run.                   *)
FeeAsQuoted ==
  pc = "fee" => \A rate \in Req.expected : Fee = calculate_fee(Req.amountIn, rate)

(* FairExchange, its balances being those of the last whole transaction.   *)
Promise == INSTANCE FairExchange
  WITH bal <- IF pc = "idle" THEN bal ELSE start.bal,
       feeBps <- IF pc = "idle" THEN feeBps ELSE start.feeBps
ImplementsFairExchange == Promise!Spec
=============================================================================
