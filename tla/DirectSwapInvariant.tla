-------------------------- MODULE DirectSwapInvariant --------------------------
(***************************************************************************)
(* The inductive invariant of DirectSwap: what a quote and a plan go back  *)
(* to, and where the money is after each call of a plan.                   *)
(***************************************************************************)
EXTENDS DirectSwap

(* An order that got a quote, and the plan that was built for it.          *)
QuoteRight ==
  \A q \in quote : /\ q.amount_out \in Quotes(q.world, Pool, Trade) /\ q.world \in Worlds
                   /\ Pool \in Offered /\ Trade \in Trades
PlanRight ==
  \A p \in plan :
    /\ quote # {}
    /\ \E b \in BuildSwap(Quoted.world, Pool, Trade,
                        minimum_amount_out(Quoted.amount_out, p.slippage)) :
         p.calls = b.calls /\ p.value = b.value /\ p.approval = b.approval

Stage ==
  /\ quote = {} => phase \in {"ask", "refused"}
  /\ plan = {} => phase \notin {"built", "done"}
  /\ phase \in {"ask", "quoted"} => plan = {} /\ next = 1
  /\ next = 1 => bal = Nothing
  /\ phase = "built" => next \in 1..Len(Plan.calls)

(* Where the money is: so much was spent and paid out, in a currency to an *)
(* account, and the router still holds a part of the value it was sent.    *)
Ledger(to, c, paid, spent, held) ==
  Move(Move(Move(Nothing, Trade.sender, "pool", Trade.currency_in, spent),
            "pool", to, c, paid),
       Trade.sender, "router", Native, held)
Value == IF Trade.currency_in = Native THEN Trade.amount_in ELSE 0
Rest  == IF Trade.currency_in = Native THEN Trade.amount_in - flow.spent ELSE 0

Underway ==
  LET kept == next = 2 /\ Plan.calls[1].to = "router"
  IN  /\ Pool.kind # "V2"
      /\ Pool.kind = "V3" =>
           /\ kept => bal = Ledger("router", Path(Weth, Trade)[2], flow.paid, flow.spent, Rest)
           /\ ~kept => bal = Ledger(Trade.recipient, Trade.currency_out, flow.paid, flow.spent, Rest)
      /\ Pool.kind = "V4" =>
           /\ next = 2 => bal = Ledger(Trade.recipient, Trade.currency_out, 0, 0, Value)
           /\ next = 3 => bal = Ledger(Trade.recipient, Trade.currency_out, 0, flow.spent, Rest)
           /\ next > 3 => bal = Ledger(Trade.recipient, Trade.currency_out,
                                       flow.paid, flow.spent, Rest)

FlowRight == /\ flow.spent \in 1..Trade.amount_in
             /\ flow.paid >= minimum_amount_out(Quoted.amount_out, Plan.slippage)

LedgerInvariant ==
  /\ TypeOK /\ QuoteRight /\ PlanRight /\ Stage
  /\ phase = "built" /\ next > 1 => FlowRight /\ Underway
  /\ LandsWithRecipient
=============================================================================
