----------------------------- MODULE MCFeeRouter -----------------------------
EXTENDS FeeRouterInvariant

MCAccounts == {"user", "treasury"}
MCTokens   == {"eth", "weth", "usd"}

(* The user owns 5 of a currency, the router 1 and the pools 2 of each.    *)
MCBalances ==
  [t \in MCTokens |->
     [user |-> 5, treasury |-> 0, router |-> 1, world |-> 2]]

H(v, a, b) == [version |-> v, tokenIn |-> a, tokenOut |-> b]
MCRequest(in, out, hops) ==
  [caller : {"user"}, tokenIn : {in}, tokenOut : {out}, amountIn : {1, 5},
   minimum : {1, 2}, recipient : {"user"}, expected : {{}, {2}}, hops : {hops}]

(* Unwrapping the output; a native pool; wrapping the input of a cycle.    *)
MCRequests == UNION {
  MCRequest("usd", "eth", <<H("V2", "usd", "weth")>>),
  MCRequest("eth", "usd", <<H("V4", "eth", "usd")>>),
  MCRequest("eth", "eth", <<H("V3", "weth", "usd"), H("V4", "usd", "eth")>>)}
=============================================================================
