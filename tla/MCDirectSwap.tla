--------------------------- MODULE MCDirectSwap ------------------------------
(* Tokens 0 (native), 1 (wrapped), 2 and 3; genuine pools of each version,  *)
(* a pool of a fork of V2, and contracts that only say they are pools.      *)
EXTENDS DirectSwapInvariant

P(i, kind, deployment, tokens, fee) ==
  [id |-> i, chain |-> 1, deployment |-> deployment, kind |-> kind, tokens |-> tokens,
   fee |-> fee, spacing |-> 1, hooks |-> "none"]

MCIds == {"pair", "fork", "fake", "pool3", "fake3", "key4", "other4"}
MCClaim == [i \in MCIds |->
  CASE i = "pair"  -> P(i, "V2", "v2", <<1, 2>>, 0)
    [] i = "fork"  -> P(i, "V2", "forkV2", <<1, 2>>, 0)
    [] i = "fake"  -> P(i, "V2", "v2", <<1, 2>>, 0)
    [] i = "pool3" -> P(i, "V3", "v3", <<1, 2>>, 3)
    [] i = "fake3" -> P(i, "V3", "v3", <<2, 3>>, 3)
    [] i = "key4"   -> P("key", "V4", "manager", <<0, 2>>, 3)
    [] i = "other4" -> P("key", "V4", "otherManager", <<0, 2>>, 3)]
MCGenuine == MCIds \ {"fake", "fake3"}

\* The periphery of the deployments, but for one contract of another one.
Wired(odd) == [c \in Periphery |->
  [weth |-> 1,
   deployment |-> CASE c = "router02" -> IF c = odd THEN "forkV2" ELSE "v2"
                    [] c \in {"swapRouter", "quoterV2"} -> "v3"
                    [] OTHER -> IF c = odd THEN "otherManager" ELSE "manager"]]
MCWorld(deployed, rate, odd) ==
  [deployed |-> deployed, wiring |-> Wired(odd),
   rate |-> [i \in MCIds |-> IF i \in {"fork", "other4"} THEN 3 ELSE rate]]
MCWorlds == {MCWorld(MCIds, 1, "none"), MCWorld(MCIds, 2, "none"),
             MCWorld(MCIds \ {"pair", "key4"}, 2, "none"),
             MCWorld(MCIds, 1, "router02"), MCWorld(MCIds, 1, "quoter")}

\* Every claim; the pool of V2 under the address of the forged one; and the
\* pool of V3 with another tick spacing.
MCOffered == {MCClaim[i] : i \in MCIds} \union {[MCClaim["pair"] EXCEPT !.id = "fake"],
                                               [MCClaim["pool3"] EXCEPT !.spacing = 2]}
MCTrades == {[chain |-> c, currency_in |-> a, currency_out |-> b, amount_in |-> n,
              sender |-> "wallet", recipient |-> r] :
               c \in {1}, a \in {-1, 0, 1, 2}, b \in {0, 1, 2}, n \in {0, 1, 3, 4},
               r \in {"wallet", "other", "one", "two"}}
MCTokens == 0..3
=============================================================================
