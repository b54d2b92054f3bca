------------------------ MODULE PreparationInvariant -------------------------
(***************************************************************************)
(* The inductive invariant of Preparation: what is prepared goes back to   *)
(* the block it names, and what is handed in and sent to what was          *)
(* prepared, while blocks are added and callers write to public fields.    *)
(***************************************************************************)
EXTENDS Preparation

Preparing == {"resolve", "fund", "quote", "rank"}
Steps == Preparing \union {"idle", "ready", "refused", "shown", "allowance", "refresh",
                           "send", "landed"}

(* Blocks are there to stay, and a client speaks of one of them.           *)
ChainRight == /\ blocks \in Seq(Worlds) /\ blocks # <<>>
              /\ router \subseteq {[block |-> b, fee |-> At(b).fee] : b \in DOMAIN blocks}
              /\ pc # "idle" => router # {}

(* Where the caller and the trader are.                                    *)
Stage ==
  /\ pc \in Steps /\ method \in {"prepare", "submit", "submit_prepared"}
  /\ pc \in {"idle", "ready"} =>
       method = "prepare" /\ ~refreshing /\ shown = {} /\ handed = {} /\ current = {}
  /\ pc \in Preparing => method \in {"prepare", "submit"}
  /\ pc = "shown" => method = "prepare"
  /\ pc \in {"allowance", "refresh"} => handed # {} /\ method # "prepare"
  /\ pc = "send" => current # {} /\ method # "prepare"
  /\ refreshing => method = "submit"
  /\ landed # {} => pc = "landed"

(* The request, the selected pool, and the funding pools of the block: a   *)
(* tier that did not fail has all its pools.                               *)
AskRight ==
  /\ pc \notin {"idle", "ready", "refused"} =>
       \E a \in ask : ask = {a} /\ a.amount_in \in U256 /\ a.limits \in Rates
  /\ pc \in {"fund", "quote", "rank"} => hop # {} /\ Hop.pool.kind \in Kinds
  /\ pc = "rank" => \E s \in search :
       /\ search = {s} /\ s.pools \in Seq({Claim[i] : i \in Ids})
       /\ \A n \in DOMAIN s.pools : \E tier \in {Tiers[k] : k \in DOMAIN Tiers} :
            s.pools[n] \in TierPools(At(Block), tier)
       /\ \A tier \in {Tiers[k] : k \in DOMAIN Tiers} \ s.failed :
            \A pool \in TierPools(At(Block), tier) : \E n \in DOMAIN s.pools : s.pools[n] = pool

-----------------------------------------------------------------------------
(* A plan that the client builds for this quote at the quote's block, with *)
(* the fee of that block.                                                  *)
ClientAt(b) == [block |-> b, fee |-> At(b).fee]
PlanRight(p) ==
  LET q == p.quote IN
  /\ DOMAIN p = {"quote", "plan", "funding", "limits", "fee_amount"}
  /\ DOMAIN q = {"hops", "trade", "block", "amount_out"}
  /\ DOMAIN q.trade = {"chain", "amount_in", "sender", "recipient",
                       "currency_in", "currency_out"}
  /\ q.block \in DOMAIN blocks /\ q.trade.amount_in \in U256 /\ p.limits \in Rates
  /\ q.amount_out \in Nat
  /\ q.hops \in Seq({q.hops[n] : n \in DOMAIN q.hops})
  /\ \A n \in DOMAIN q.hops : q.hops[n].pool.kind \in Kinds
  /\ build_swap(ClientAt(q.block), q, p.limits) = {p.plan}
  /\ q.trade.recipient = Wallet

(* What is shown, as its block gives it.                                   *)
QuoteRight(p) ==
  LET w == At(p.quote.block) IN
  /\ p.quote.amount_out \in Requote(w, p.quote, w.fee)
  /\ p.fee_amount = calculate_fee(p.quote.trade.amount_in, w.fee)

(* A plan that would land in the block of its quote.                       *)
Lands(p) ==
  LET w == At(p.quote.block) IN
  /\ p.quote.block \in DOMAIN blocks
  /\ p.plan.expectedFeeBps = w.fee
  /\ RouteOutput(w, p.plan.hops, p.plan.amountIn) >= p.plan.minimumAmountOut

ShownRight  == \A p \in shown : PlanRight(p) /\ QuoteRight(p)
HandedRight ==
  /\ method = "prepare" => handed = {}
  /\ method = "submit"  => handed = shown
  /\ method = "submit_prepared" /\ pc # "refused" =>
       \E p \in handed, s \in shown :
         /\ handed = {p} /\ PlanRight(p)
         /\ p.quote.block = Block /\ p.limits = s.limits
CurrentRight ==
  pc = "send" =>
    /\ current # handed \/ Unwritten => \A p \in current : Lands(p)
    /\ method = "submit_prepared" => \A p \in current : p.plan = The(handed).plan

IInv == /\ ChainRight /\ Stage /\ AskRight /\ ShownRight /\ HandedRight /\ CurrentRight
        /\ BestFunding /\ LandsAsShown
=============================================================================
