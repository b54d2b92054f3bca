--------------------------- MODULE MCPreparation -----------------------------
(* Tokens 0 (native), 1 (wrapped), 2 and 3: a pair with the wrapped token,  *)
(* a V4 pool that needs funding, two tiers that can fund it, a native V4    *)
(* pool, and a pair of a fork.                                              *)
EXTENDS PreparationInvariant

P(i, kind, deployment, tokens, fee) ==
  [id |-> i, chain |-> 1, deployment |-> deployment, kind |-> kind, tokens |-> tokens,
   fee |-> fee, spacing |-> 1, hooks |-> "none"]
MCIds == {"pair", "fork", "low", "high", "key23", "key02"}
MCClaim == [i \in MCIds |->
  CASE i = "pair"  -> P(i, "V2", "v2", <<1, 2>>, 0)
    [] i = "fork"  -> P(i, "V2", "forkV2", <<1, 2>>, 0)
    [] i = "low"   -> P(i, "V3", "v3", <<1, 3>>, 1)
    [] i = "high"  -> P(i, "V3", "v3", <<1, 3>>, 3)
    [] i = "key23" -> P("key", "V4", "manager", <<2, 3>>, 3)
    [] i = "key02" -> P("key", "V4", "manager", <<0, 2>>, 3)]
MCWiring == [c \in Periphery |->
  [weth |-> 1, deployment |-> CASE c = "router02" -> "v2"
                                [] c \in {"swapRouter", "quoterV2"} -> "v3"
                                [] OTHER -> "manager"]]
W(fee, deployed, low, high, other) ==
  [fee |-> fee, deployed |-> deployed, wiring |-> MCWiring,
   rate |-> [i \in MCIds |-> CASE i = "low" -> low [] i = "high" -> high [] i = "fork" -> 3
                             [] OTHER -> other]]
MCWorlds == {W(1, MCIds, 2, 3, 1), W(1, MCIds, 2, 1, 2), W(2, MCIds \ {"high"}, 1, 1, 1)}
MCRouter == [wrapped_native |-> 1, v2_factory |-> "v2", v3_factory |-> "v3",
             pool_manager |-> "manager"]

R(v4, pair, token, side) == [v4 |-> v4, pair |-> pair, token |-> token, side |-> side,
                             amount_in |-> 8, hook_data |-> ""]
MCRequests == {R(FALSE, "pair", 2, "Buy"), R(FALSE, "pair", 2, "Sell"), R(FALSE, "pair", 3, "Sell"),
               R(FALSE, "fork", 2, "Buy"), R(TRUE, "key23", 2, "Buy"), R(TRUE, "key02", 2, "Sell"),
               [R(FALSE, "low", 3, "Sell") EXCEPT !.amount_in = 1]}
MCSettings == [native_settlement : BOOLEAN, buy_with : {"Native"}]
              \union {[native_settlement |-> FALSE, buy_with |-> "Usdc"]}
H(i, a, b) == [pool |-> MCClaim[i], currency_in |-> a, currency_out |-> b, hook_data |-> ""]
Nothing == [f \in {} |-> 0]
MCWrites ==
  [swap  : {Nothing, [fee_amount |-> 0]},
   quote : {Nothing, [amount_out |-> 5],
            [hops |-> <<H("key23", 2, 3), H("low", 3, 1)>>], [hops |-> <<H("fork", 2, 1)>>],
            [hops |-> <<>>]} \union {[block |-> b] : b \in 1..MaxBlocks},
   trade : {Nothing, [amount_in |-> 5], [sender |-> "other"], [recipient |-> "other"],
            [chain |-> 2], [currency_in |-> 0], [currency_in |-> 1]}]
MCTiers == <<1, 2, 3>>
=============================================================================
