----------------------------- MODULE Preparation -----------------------------
(***************************************************************************)
(* From a request to a plan that is sent and mined: the trader's           *)
(* preparation, the caller who shows it and hands it back, the refresh     *)
(* after an approval (src/src/fee_router/trader.rs), the router client's   *)
(* calldata (src/src/fee_router.rs), while the chain moves on.  How        *)
(* transactions are sent is Execution's, and what the contract does        *)
(* FairExchange's; here the contract keeps that promise.                   *)
(***************************************************************************)
EXTENDS Venues, FeeMath

CONSTANTS
  Worlds,      \* states of the chain, with the fee rate of the contract
  MaxBlocks,   \* bound on the blocks that come to pass
  Router,      \* the contract's wrapped_native, v2_factory, v3_factory, pool_manager
  Requests,    \* what callers ask for
  Settings,    \* native_settlement, buy_with
  Usdc,        \* ROBINHOOD_USDC: a set of at most one token
  Tiers,       \* the fee tiers of a funding hop, in the order of the code
  Slippages,
  Writes       \* what callers write over fields of a prepared swap, its quote, its trade

Wallet == "wallet"
Kinds == {"V2", "V3", "V4"}
Pools == [id : Ids \union {"key"}, chain : Nat, deployment : {Claim[i].deployment : i \in Ids},
          kind : Kinds, tokens : Int \X Int, fee : Nat, spacing : Int, hooks : STRING]
RouteHop == [pool : Pools, currency_in : Int, currency_out : Int, hook_data : STRING]

ASSUME PreparationAssumption ==
  /\ \A w \in Worlds : w.fee \in Rates /\ w.deployed \subseteq Ids /\ w.rate \in [Ids -> Nat]
  /\ MaxBlocks \in Nat \ {0} /\ Cardinality(Usdc) <= 1
  /\ \A r \in Requests : r.amount_in \in U256
  /\ Tiers \in Seq(Nat)
  \* The limits of a prepared swap are private, amounts are words.
  /\ \A w \in Writes :
       /\ DOMAIN w.swap \subseteq {"funding", "fee_amount"}
       /\ "amount_out" \in DOMAIN w.quote => w.quote.amount_out \in U256
       /\ "hops" \in DOMAIN w.quote => w.quote.hops \in Seq(RouteHop)
       /\ "amount_in" \in DOMAIN w.trade => w.trade.amount_in \in U256
  \* What contracts claim, and what the deployments create: one pool of an
  \* identity, and pools of V3 by the factory of V3.
  /\ \A i \in Ids : Claim[i].kind \in Kinds
  /\ \A i, j \in Genuine :
       Claim[i].deployment = Claim[j].deployment /\ Key(Claim[i]) = Key(Claim[j]) => i = j
  /\ \A i \in Genuine : Claim[i].deployment = V3Factory =>
       /\ Claim[i].id = i /\ Claim[i].kind = "V3" /\ Claim[i].chain = ChainId
       /\ Claim[i].spacing > 0

VARIABLES
  blocks,      \* the chain: its state at each block
  pc,
  method,      \* of the caller: prepare, submit_prepared or submit
  refreshing,  \* whether the steps of preparation belong to submit's refresh
  router,      \* the FeeRouter client: block and fee (at most one)
  ask,         \* the request, with settings and limits (at most one)
  hop,         \* its hop through the selected pool (at most one)
  search,      \* funding pools, in order, and tiers that failed (at most one)
  shown,       \* the PreparedSwap, as it was returned (at most one)
  handed,      \* as it was handed to submit_prepared or to execution
  current,     \* the plan to send, and the quote it now rests on
  landed       \* the fee and the output of the mined swap (at most one)
call == <<router, ask, hop, search, shown, handed, current>>
vars == <<blocks, pc, method, refreshing, call, landed>>

The(S) == CHOOSE x \in S : TRUE
Ask    == The(ask)
Hop    == The(hop)
Fee    == The(router).fee
Block  == The(router).block
Latest == Len(blocks)

\* MUTANT of At: reads that do not name their block.
AtLatest(b) == blocks[Len(blocks)]
(* The state of the chain that a call for this block reads.                *)
At(b) == blocks[b]

Init ==
  /\ blocks \in {<<w>> : w \in Worlds}
  /\ pc = "idle" /\ method = "prepare" /\ refreshing = FALSE
  /\ router = {} /\ ask = {} /\ hop = {} /\ search = {} /\ shown = {} /\ handed = {}
  /\ current = {} /\ landed = {}

NewBlock == /\ Len(blocks) < MaxBlocks
            /\ \E w \in Worlds : blocks' = Append(blocks, w)
            /\ UNCHANGED <<pc, method, refreshing, call, landed>>

-----------------------------------------------------------------------------
(* The router client.                                                      *)
amount_after_fee(fee, amount) == amount - calculate_fee(amount, fee)

connect(b) == {[block |-> b, fee |-> At(b).fee]}

address_of(c) == c # Erc20Zero
check_connection(from, to) ==
  /\ address_of(from) /\ address_of(to)
  /\ from = to \/ {from, to} = {Native, Router.wrapped_native}

Manager(kind) == CASE kind = "V2" -> Router.v2_factory [] kind = "V3" -> Router.v3_factory
                   [] kind = "V4" -> Router.pool_manager
encode_hop(h) ==
  When(/\ address_of(h.currency_in) /\ address_of(h.currency_out)
       /\ h.pool.deployment = Manager(h.pool.kind)
       /\ h.pool.chain = ChainId
       /\ h.currency_in # h.currency_out
       /\ h.pool.tokens = Sorted(h.currency_in, h.currency_out)
       /\ h.pool.kind # "V4" => h.hook_data = "" /\ Native \notin {h.currency_in, h.currency_out},
       [pool |-> h.pool.id, key |-> Key(h.pool), tokenIn |-> h.currency_in,
        tokenOut |-> h.currency_out, hookData |-> h.hook_data])

Connected(trade, hops) ==
  /\ hops # <<>>
  /\ check_connection(trade.currency_in, hops[1].currency_in)
  /\ \A n \in 2..Len(hops) : check_connection(hops[n - 1].currency_out, hops[n].currency_in)
  /\ check_connection(hops[Len(hops)].currency_out, trade.currency_out)

(* The plan for a quoted route: it names the fee at the quote's block.     *)
build_swap(r, quote, limits) ==
  LET trade == quote.trade IN
  When(/\ quote.block = r.block
       /\ limits \in Rates
       /\ trade.chain = ChainId
       /\ amount_after_fee(r.fee, trade.amount_in) > 0
       /\ trade.recipient \notin {"zero", "router"}
       /\ Connected(trade, quote.hops)
       /\ \A n \in DOMAIN quote.hops : encode_hop(quote.hops[n]) # {},
       [expectedFeeBps |-> r.fee, tokenIn |-> trade.currency_in, tokenOut |-> trade.currency_out,
        amountIn |-> trade.amount_in, from |-> trade.sender, recipient |-> trade.recipient,
        minimumAmountOut |-> minimum_amount_out(quote.amount_out, limits),
        hops |-> [n \in DOMAIN quote.hops |-> The(encode_hop(quote.hops[n]))],
        value |-> IF trade.currency_in = Native THEN trade.amount_in ELSE 0,
        approval |-> IF trade.currency_in = Native THEN 0 ELSE trade.amount_in])

-----------------------------------------------------------------------------
(* Preparation: which pool and which direction.                            *)
Connect ==
  /\ pc = "idle" \/ (pc = "shown" /\ method = "prepare")
  /\ router' = connect(Latest)
  /\ pc' = IF pc = "idle" THEN "ready" ELSE pc
  /\ UNCHANGED <<blocks, method, refreshing, ask, hop, search, shown, handed, current, landed>>

currency(buy_with) == IF buy_with = "Native" THEN {Native} ELSE Usdc

validate_request(a, fee) ==
  /\ a.limits \in Rates
  /\ a.side = "Buy" => currency(a.buy_with) # {}
  /\ amount_after_fee(fee, a.amount_in) > 0

(* prepare_swap or submit, with the router the caller has.                 *)
Request(a, m) ==
  /\ pc = "ready" /\ m \in {"prepare", "submit"}
  /\ ask' = {a} /\ method' = m
  /\ pc' = IF validate_request(a, Fee) THEN "resolve" ELSE "refused"
  /\ UNCHANGED <<blocks, refreshing, router, hop, search, shown, handed, current, landed>>

(* A pair is an address that answers factory(), a V4 pool a key.           *)
prepare_v4_swap(w, key) == IF V4Connect(w) THEN V4LoadPool(w, key) ELSE {}
prepare_swap(w, pair) ==
  LET factory == IF pair \in w.deployed THEN {Claim[pair].deployment} ELSE {} IN
  IF factory = {Router.v2_factory} THEN UNION {V2LoadPool(w, pair) : weth \in V2Connect(w)}
  ELSE IF factory = {Router.v3_factory} THEN UNION {V3LoadPool(w, pair) : weth \in V3Connect(w)}
  ELSE {}
Selected(w, a) == IF a.v4 THEN prepare_v4_swap(w, Key(Claim[a.pair])) ELSE prepare_swap(w, a.pair)

direction(side, tokens, target) ==
  LET other == CHOOSE t \in {tokens[1], tokens[2]} : t # target
  IN  When(target \in {tokens[1], tokens[2]},
           IF side = "Buy" THEN <<other, target>> ELSE <<target, other>>)

HopThrough(pool, a) ==
  {[pool |-> pool, currency_in |-> d[1], currency_out |-> d[2],
    hook_data |-> IF a.v4 THEN a.hook_data ELSE ""] : d \in direction(a.side, pool.tokens, a.token)}

wrapped_currency(c) == IF c = Native THEN Router.wrapped_native ELSE c
settlement_currency(a, c) ==
  IF a.native_settlement /\ c = Router.wrapped_native THEN Native ELSE c

(* The wallet's trade; what the pool sees of it is net of the fee.         *)
TradeOf(a, h) ==
  [chain |-> ChainId, amount_in |-> a.amount_in, sender |-> Wallet, recipient |-> Wallet,
   currency_in  |-> IF a.side = "Buy" THEN The(currency(a.buy_with))
                    ELSE settlement_currency(a, h.currency_in),
   currency_out |-> settlement_currency(a, h.currency_out)]
Over(trade, h, amount) == [trade EXCEPT !.currency_in = h.currency_in,
                                        !.currency_out = h.currency_out, !.amount_in = amount]

(* Every await of preparation can fail, which ends it.                     *)
Resolve(ok) ==
  LET hops == UNION {HopThrough(p, Ask) : p \in Selected(At(Block), Ask)}
      needsFunding(h) == wrapped_currency(TradeOf(Ask, h).currency_in)
                           # wrapped_currency(h.currency_in)
  IN
  /\ pc = "resolve"
  /\ hop' = IF ok THEN hops ELSE {}
  /\ pc' = IF hop' = {} THEN "refused"
           ELSE IF needsFunding(The(hops)) THEN "fund" ELSE "quote"
  /\ UNCHANGED <<blocks, method, refreshing, router, ask, search, shown, handed, current, landed>>

(* connect and quote of the adapter of the hop's pool.                     *)
HopQuote(w, h, trade) ==
  LET t == Over(trade, h, trade.amount_in) IN
  CASE h.pool.kind = "V2" -> UNION {V2Quote(w, weth, h.pool, t) : weth \in V2Connect(w)}
    [] h.pool.kind = "V3" -> UNION {V3Quote(w, weth, h.pool, t) : weth \in V3Connect(w)}
    [] h.pool.kind = "V4" -> IF V4Connect(w) THEN V4Quote(w, h.pool, t) ELSE {}

same_intent(p, q) ==
  /\ p.quote.trade = q.quote.trade
  /\ p.quote.hops[Len(p.quote.hops)] = q.quote.hops[Len(q.quote.hops)]

(* The plan and what is shown of it; or, after an approval, the plan that  *)
(* replaces the one that was to be sent.                                   *)
PreparedSwaps(hops, amounts, funding) ==
  UNION {LET quote == [hops |-> hops, trade |-> TradeOf(Ask, Hop), block |-> Block,
                       amount_out |-> n]
         IN  {[quote |-> quote, plan |-> plan, funding |-> funding, limits |-> Ask.limits,
               fee_amount |-> calculate_fee(quote.trade.amount_in, Fee)] :
                 plan \in build_swap(The(router), quote, Ask.limits)} : n \in amounts}
finish_preparation(hops, amounts, funding) ==
  LET prepared == PreparedSwaps(hops, amounts, funding)
      ready == prepared # {} /\ (refreshing => same_intent(The(handed), The(prepared)))
  IN
  /\ IF refreshing THEN /\ current' = (IF ready THEN prepared ELSE {})
                        /\ UNCHANGED <<shown, handed>>
     ELSE /\ shown' = prepared /\ UNCHANGED current
          /\ handed' = IF method = "submit" THEN prepared ELSE {}
  /\ pc' = IF ~ready THEN "refused" ELSE IF refreshing THEN "send"
           ELSE IF method = "submit" THEN "allowance" ELSE "shown"

(* prepare_pool: the trade's input is, or wraps to, the pool's.            *)
prepare_pool(ok) ==
  LET net == Over(TradeOf(Ask, Hop), Hop, amount_after_fee(Fee, Ask.amount_in)) IN
  /\ pc = "quote"
  /\ finish_preparation(<<Hop>>, IF ok THEN HopQuote(At(Block), Hop, net) ELSE {}, {})
  /\ UNCHANGED <<blocks, method, refreshing, router, ask, hop, search, landed>>

-----------------------------------------------------------------------------
(* prepare_funded: a V3 hop from the input to the pool's currency.         *)
FundingTrade ==
  LET t == TradeOf(Ask, Hop) IN
  [t EXCEPT !.currency_in = wrapped_currency(t.currency_in),
            !.currency_out = wrapped_currency(Hop.currency_in),
            !.amount_in = amount_after_fee(Fee, t.amount_in)]
FundingHop(pool) == [pool |-> pool, currency_in |-> FundingTrade.currency_in,
                     currency_out |-> FundingTrade.currency_out, hook_data |-> ""]

TierPools(w, tier) ==
  UNION {V3LoadPool(w, i) :
    i \in {i \in w.deployed \cap Genuine :
             /\ Claim[i].deployment = V3Factory /\ Claim[i].fee = tier
             /\ Claim[i].tokens = Sorted(FundingTrade.currency_in, FundingTrade.currency_out)}}

(* Discovery's find_pools over the tiers, some of which may fail.          *)
FundingPools(w, failed) ==
  LET pool(n) == IF Tiers[n] \in failed THEN {} ELSE TierPools(w, Tiers[n])
      pools[n \in 0..Len(Tiers)] ==
        IF n = 0 THEN <<>>
        ELSE pools[n - 1] \o (IF pool(n) = {} THEN <<>> ELSE <<The(pool(n))>>)
  IN  pools[Len(Tiers)]
Discover(ok, failed) ==
  /\ pc = "fund"
  /\ IF ok /\ V3Connect(At(Block)) # {}
     THEN /\ search' = {[pools |-> FundingPools(At(Block), failed), failed |-> failed]}
          /\ pc' = "rank"
     ELSE pc' = "refused" /\ UNCHANGED search
  /\ UNCHANGED <<blocks, method, refreshing, router, ask, hop, shown, handed, current, landed>>

Candidate(pool) ==
  UNION {HopQuote(At(Block), Hop, Over(FundingTrade, Hop, first)) :
           first \in HopQuote(At(Block), FundingHop(pool), FundingTrade)}

\* MUTANT of Better: the last candidate wins.
BetterLast(a, b) == TRUE
Better(a, b) == a > b
(* The candidates in the order of the tiers; the first of the best wins.   *)
Best(candidates) ==
  LET best[n \in 0..Len(candidates)] ==
        IF n = 0 THEN 0
        ELSE IF /\ candidates[n] # {}
                /\ \/ best[n - 1] = 0
                   \/ Better(The(candidates[n]), The(candidates[best[n - 1]]))
             THEN n ELSE best[n - 1]
  IN  best[Len(candidates)]

prepare_funded(lost) ==
  LET pools == The(search).pools
      candidates == [n \in DOMAIN pools |-> IF n \in lost THEN {} ELSE Candidate(pools[n])]
      best == Best(candidates)
      report == [failed |-> The(search).failed,
                 quote_failures |-> {pools[n] : n \in {m \in DOMAIN pools : candidates[m] = {}}}]
  IN
  /\ pc = "rank" /\ lost \subseteq DOMAIN pools
  /\ IF best = 0 THEN pc' = "refused" /\ UNCHANGED <<shown, handed, current>>
     ELSE finish_preparation(<<FundingHop(pools[best]), Hop>>, candidates[best], {report})
  /\ UNCHANGED <<blocks, method, refreshing, router, ask, hop, search, landed>>

-----------------------------------------------------------------------------
(* The caller holds a PreparedSwap, of which everything but the limits is  *)
(* public: any fields of its quote, the quote's trade, its fee amount, and *)
(* the plan, which build_swap may make anew, also with a later router.     *)
Write(r, w) == [f \in DOMAIN r |-> IF f \in DOMAIN w THEN w[f] ELSE r[f]]
Rewritten(quote, w) == [Write(quote, w.quote) EXCEPT !.trade = Write(quote.trade, w.trade)]
Altered(p) ==
  UNION {LET q == Rewritten(p.quote, w)
             plans == {p.plan, [p.plan EXCEPT !.minimumAmountOut = 0]}
                        \union build_swap(The(router), q, p.limits)
         IN  {[Write(p, w.swap) EXCEPT !.quote = q, !.plan = plan] : plan \in plans} :
           w \in Writes}

\* MUTANT of Unaltered: does not build the plan again.
OwnWallet(p) == p.quote.trade.sender = Wallet /\ p.quote.trade.recipient = Wallet
Unaltered(p) ==
  /\ p.quote.trade.sender = Wallet /\ p.quote.trade.recipient = Wallet
  /\ build_swap(The(router), p.quote, p.limits) = {p.plan}

submit_prepared(p) ==
  /\ pc = "shown" /\ method = "prepare"
  /\ method' = "submit_prepared"
  /\ IF Unaltered(p) THEN handed' = {p} /\ pc' = "allowance"
                     ELSE handed' = {} /\ pc' = "refused"
  /\ UNCHANGED <<blocks, refreshing, router, ask, hop, search, shown, current, landed>>

(* Execution::submit sends the swap at once, or an approval first.         *)
Allowance(enough) ==
  /\ pc = "allowance"
  /\ The(handed).plan.approval = 0 => enough
  /\ IF enough THEN current' = handed /\ pc' = "send"
     ELSE pc' = "refresh" /\ UNCHANGED current
  /\ UNCHANGED <<blocks, method, refreshing, router, ask, hop, search, shown, handed, landed>>

(* refresh, of submit: everything again, with a router of the latest block. *)
Refresh ==
  /\ pc = "refresh" /\ method = "submit"
  /\ router' = connect(Latest) /\ refreshing' = TRUE
  /\ pc' = IF validate_request(Ask, At(Latest).fee) THEN "resolve" ELSE "refused"
  /\ hop' = {} /\ search' = {}
  /\ UNCHANGED <<blocks, method, ask, shown, handed, current, landed>>

(* Each hop of the route on the output of the one before it.               *)
Requote(w, quote, fee) ==
  LET out[n \in 0..Len(quote.hops)] ==
        IF n = 0 THEN {amount_after_fee(fee, quote.trade.amount_in)}
        ELSE UNION {HopQuote(w, quote.hops[n], [quote.trade EXCEPT !.amount_in = a]) :
                      a \in out[n - 1]}
  IN  out[Len(quote.hops)]

\* MUTANT of Kept: the plan of the refreshed quote replaces the one shown.
KeptNot(plan, refreshed) == refreshed
(* The displayed minimum stays the bound.                                  *)
Kept(plan, refreshed) == plan
\* MUTANT of Acceptable: any output.
AcceptableAny(amount, quote, limits) == TRUE
Acceptable(amount, quote, limits) == amount >= minimum_amount_out(quote.amount_out, limits)

(* refresh_route, of submit_prepared: the same hops at the latest block.   *)
refresh_route(ok) ==
  LET p     == The(handed)
      fresh == The(connect(Latest))
      quotes == {[p.quote EXCEPT !.amount_out = n, !.block = Latest] :
                   n \in {n \in Requote(At(Latest), p.quote, fresh.fee) :
                            Acceptable(n, p.quote, p.limits)}}
  IN
  /\ pc = "refresh" /\ method = "submit_prepared"
  /\ current' = IF ok /\ fresh.fee = Fee
                THEN UNION {{[p EXCEPT !.quote = q, !.plan = Kept(@, plan), !.funding = {},
                                       !.fee_amount = calculate_fee(q.trade.amount_in, fresh.fee)] :
                               plan \in build_swap(fresh, q, p.limits)} : q \in quotes}
                ELSE {}
  /\ pc' = IF current' = {} THEN "refused" ELSE "send"
  /\ UNCHANGED <<blocks, method, refreshing, router, ask, hop, search, shown, handed, landed>>

-----------------------------------------------------------------------------
(* The swap is mined in the latest block, or reverts: the contract takes   *)
(* no fee but the one that was named, and pays at least the minimum.       *)
Mine ==
  LET plan == The(current).plan IN
  /\ pc = "send" /\ plan.expectedFeeBps = At(Latest).fee
  /\ landed' = {[fee |-> mulDiv(plan.amountIn, At(Latest).fee),
                 output |-> plan.minimumAmountOut, to |-> plan.recipient]}
  /\ pc' = "landed"
  /\ UNCHANGED <<blocks, method, refreshing, call>>
Fail == /\ pc = "send" /\ pc' = "refused"
        /\ UNCHANGED <<blocks, method, refreshing, call, landed>>

Again == /\ pc \in {"refused", "landed"}
         /\ pc' = "idle" /\ method' = "prepare" /\ refreshing' = FALSE
         /\ router' = {} /\ ask' = {} /\ hop' = {} /\ search' = {} /\ shown' = {}
         /\ handed' = {} /\ current' = {} /\ landed' = {}
         /\ UNCHANGED blocks

Next ==
  \/ NewBlock \/ Connect
  \/ \E r \in Requests, s \in Settings, l \in Slippages, m \in {"prepare", "submit"} :
       Request([v4 |-> r.v4, pair |-> r.pair, token |-> r.token, side |-> r.side,
                amount_in |-> r.amount_in, hook_data |-> r.hook_data,
                native_settlement |-> s.native_settlement, buy_with |-> s.buy_with,
                limits |-> l], m)
  \/ \E ok \in BOOLEAN : Resolve(ok) \/ prepare_pool(ok) \/ refresh_route(ok)
  \/ \E ok \in BOOLEAN, failed \in SUBSET {Tiers[n] : n \in DOMAIN Tiers} : Discover(ok, failed)
  \/ \E lost \in SUBSET DOMAIN Tiers : prepare_funded(lost)
  \/ pc = "shown" /\ \E q \in shown : \E p \in Altered(q) : submit_prepared(p)
  \/ \E enough \in BOOLEAN : Allowance(enough)
  \/ Refresh \/ Mine \/ Fail \/ Again

Spec == Init /\ [][Next]_vars

-----------------------------------------------------------------------------
(* What a route of the contract's own deployments pays in a state of the   *)
(* chain, net of the fee of that state.                                    *)
RouteOutput(w, hops, amount) ==
  LET out[n \in 0..Len(hops)] ==
        IF n = 0 THEN amount_after_fee(w.fee, amount)
        ELSE The({Output(w, i, hops[n].tokenIn < hops[n].tokenOut, out[n - 1]) :
                    i \in Registered(w, Manager(hops[n].key.kind), hops[n].key)})
  IN  out[Len(hops)]

(* Everything that is shown belongs to the one block that the quote names: *)
(* the output is what the whole route pays there net of the fee there,     *)
(* and the fee amount and the fee the plan insists on are the contract's   *)
(* there, however the chain moved meanwhile (trader.rs:548,                *)
(* fee_router.rs:129).                                                     *)
OneBlock ==
  \A p \in shown :
    LET w == blocks[p.quote.block] IN
    /\ p.quote.amount_out = RouteOutput(w, p.plan.hops, p.quote.trade.amount_in)
    /\ p.plan.expectedFeeBps = w.fee
    /\ p.fee_amount = mulDiv(p.quote.trade.amount_in, w.fee)

(* Of all tiers of the funding search, each that has a pool at that block  *)
(* is reported as failed, or its route pays no more than the chosen one    *)
(* (trader.rs:735).                                                        *)
BestFunding ==
  \A p \in shown : \A report \in p.funding :
    LET w     == blocks[p.quote.block]
        first == p.plan.hops[1]
        Through(i) == [first EXCEPT !.pool = i, !.key = Key(Claim[i])]
        rivals == {i \in w.deployed \cap Genuine :
                     /\ Claim[i].deployment = V3Factory /\ Claim[i].tokens = first.key.tokens
                     /\ Claim[i].fee \in {Tiers[n] : n \in DOMAIN Tiers} \ report.failed
                     /\ Claim[i] \notin report.quote_failures}
    IN  \A i \in rivals :
          p.quote.amount_out
            >= RouteOutput(w, <<Through(i), p.plan.hops[2]>>, p.quote.trade.amount_in)

(* A plan about to be sent would land in the block of its quote: its fee   *)
(* is the contract's there, and the route still pays its minimum.  Of a    *)
(* swap that waited for an approval that block is one after the request to *)
(* refresh, so a worse market or a new fee ends it (trader.rs:459,         *)
(* trader.rs:533).  Not so a quote that the caller wrote itself and that   *)
(* no refresh has tried.                                                   *)
Unwritten == \E h \in handed, s \in shown : h.quote = s.quote /\ h.plan = s.plan
WouldLand ==
  \A p \in current :
    (pc = "send" /\ (current # handed \/ Unwritten)) =>
      LET w == blocks[p.quote.block] IN
      /\ p.plan.expectedFeeBps = w.fee
      /\ RouteOutput(w, p.plan.hops, p.plan.amountIn) >= p.plan.minimumAmountOut

(* Of a prepared swap lands what its quote says as the caller hands it in, *)
(* whichever public fields were written before: to the wallet, at least    *)
(* the minimum of that quote at the slippage of the preparation, at the    *)
(* fee of its input in its block.  If input and block are still those that *)
(* were shown, that is the fee amount that was shown, whatever the field   *)
(* says by now; also if an approval and blocks came between                *)
(* (trader.rs:321).                                                        *)
LandsAsShown ==
  \A l \in landed : method = "submit_prepared" => \E s \in shown :
    LET q == The(handed).quote IN
    /\ l.to = Wallet
    /\ l.output >= minimum_amount_out(q.amount_out, s.limits)
    /\ l.fee = mulDiv(q.trade.amount_in, blocks[q.block].fee)
    /\ (q.trade.amount_in = s.quote.trade.amount_in /\ q.block = s.quote.block) =>
         l.fee = s.fee_amount
=============================================================================
