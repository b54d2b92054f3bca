---------------------------- MODULE MCDiscovery ------------------------------
(* Two branches, a1-a2-a3 and a1-b2-b3; tokens 0 (native), 1 (wrapped), 2   *)
(* and 3; a pair and two V3 tiers, three V4 pools, one that no block makes, *)
(* and a key of another manager.                                            *)
EXTENDS DiscoveryInvariant

P(i, kind, deployment, tokens, fee) ==
  [id |-> i, chain |-> 1, deployment |-> deployment, kind |-> kind, tokens |-> tokens,
   fee |-> fee, spacing |-> 1, hooks |-> "none"]
MCIds == {"pair", "low", "high", "key1", "key2", "key3", "unborn", "other"}
MCClaim == [i \in MCIds |->
  CASE i = "pair"   -> P(i, "V2", "v2", <<1, 2>>, 0)
    [] i = "low"    -> P(i, "V3", "v3", <<1, 2>>, 1)
    [] i = "high"   -> P(i, "V3", "v3", <<1, 2>>, 3)
    [] i = "key1"   -> P("key", "V4", "manager", <<0, 2>>, 1)
    [] i = "key2"   -> P("key", "V4", "manager", <<0, 2>>, 2)
    [] i = "key3"   -> P("key", "V4", "manager", <<2, 3>>, 2)
    [] i = "unborn" -> P("key", "V4", "manager", <<0, 2>>, 4)
    [] i = "other"  -> P("key", "V4", "otherManager", <<0, 2>>, 5)]

MCBlocks == {"a1", "a2", "a3", "b2", "b3"}
MCAncestry == [b \in MCBlocks |->
  CASE b = "a1" -> <<"a1">> [] b = "a2" -> <<"a1", "a2">> [] b = "a3" -> <<"a1", "a2", "a3">>
    [] b = "b2" -> <<"a1", "b2">> [] b = "b3" -> <<"a1", "b2", "b3">>]
MCBorn == [b \in MCBlocks |->
  CASE b = "a1" -> {"low", "key3", "other"} [] b = "a2" -> {"pair", "high", "key1"}
    [] b = "a3" -> {"key2"} [] b = "b2" -> {"key2"} [] b = "b3" -> {"pair"}]
MCWiring == [c \in Periphery |->
  [weth |-> 1, deployment |-> CASE c = "router02" -> "v2"
                                [] c \in {"swapRouter", "quoterV2"} -> "v3"
                                [] OTHER -> "manager"]]
MCPrices == [i \in MCIds |-> 1]

Q(kind, a, b, scopes) == [kind |-> kind, chain |-> 1, a |-> a, b |-> b, scopes |-> scopes,
                          id |-> Key(MCClaim["key2"])]
MCQueries == {Q("V2", 0, 2, <<<<0>>>>), Q("V2", 0, 1, <<<<0>>>>), Q("V3", 2, 0, <<<<1>>, <<2>>, <<3>>>>),
              Q("V4", 2, 0, <<<<1, 2>>, <<3, 3>>>>), Q("V4", 2, 0, <<<<2, 1>>, <<1, 3>>>>),
              Q("V4", 2, -1, <<<<1, 3>>>>), Q("V4Id", 0, 0, <<<<1, 1>>, <<2, 3>>>>)}

L(address, removed, number, key, id) ==
  [address |-> address, removed |-> removed, number |-> number,
   key |-> Key(MCClaim[key]), id |-> Key(MCClaim[id])]
MCNoise == {L("otherManager", FALSE, 2, "key2", "key2"), L("manager", TRUE, 2, "key1", "key1"),
            L("manager", FALSE, 2, "unborn", "unborn"), L("manager", FALSE, 2, "key3", "key3"),
            L("manager", FALSE, 2, "key1", "key2")}
=============================================================================
