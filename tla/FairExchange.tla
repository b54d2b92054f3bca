----------------------------- MODULE FairExchange -----------------------------
(***************************************************************************)
(* What the FeeRouter contract promises its users: a swap that was asked   *)
(* for happens in one step or not at all; it takes no more than the input  *)
(* from its caller and nothing from any other account, pays the fee and at *)
(* least the minimum output, and never spends what the router holds.       *)
(***************************************************************************)
EXTENDS FeeMath

CONSTANTS Tokens, Accounts, Router, World, FeeRecipient, Requests

VARIABLES
  bal, feeBps,
  call         \* the swap under way: a set of at most one request

vars == <<bal, feeBps, call>>

Amount(condition, n) == IF condition THEN n ELSE 0

Ask(req) == call = {} /\ call' = {req} /\ UNCHANGED <<bal, feeBps>>

(* Of each token, each account has at least what it had, less what it      *)
(* offers and more what it is due.                                         *)
Swap(req) ==
  LET Offers(t, a) == Amount(a = req.caller /\ t = req.tokenIn, req.amountIn)
      Due(t, a)    == Amount(a = req.recipient /\ t = req.tokenOut, req.minimum)
                      + Amount(a = FeeRecipient /\ t = req.tokenIn,
                               mulDiv(req.amountIn, feeBps))
  IN  /\ call = {req} /\ call' = {}
      /\ req.expected \subseteq {feeBps}
      /\ \A t \in Tokens, a \in Accounts :
           bal'[t][a] + Offers(t, a) >= bal[t][a] + Due(t, a)
      /\ \A t \in Tokens : bal'[t][Router] >= bal[t][Router]
      /\ UNCHANGED feeBps

Refuse == call # {} /\ call' = {} /\ UNCHANGED <<bal, feeBps>>

(* Between swaps, money moves to or from the router, or the fee changes.   *)
Transfer(from, to) ==
  /\ call = {}
  /\ \E t \in Tokens : \E n \in 1..bal[t][from] :
       bal' = [bal EXCEPT ![t][from] = @ - n, ![t][to] = @ + n]
  /\ UNCHANGED <<feeBps, call>>

SetFee == call = {} /\ feeBps' \in Rates /\ UNCHANGED <<bal, call>>

Init ==
  /\ bal \in [Tokens -> [Accounts \union {Router, World} -> Nat]]
  /\ feeBps \in Rates /\ call = {}

Next ==
  \/ \E req \in Requests : Ask(req) \/ Swap(req)
  \/ Refuse
  \/ Transfer(Router, FeeRecipient) \/ Transfer(World, Router)
  \/ SetFee

Spec == Init /\ [][Next]_vars
=============================================================================
