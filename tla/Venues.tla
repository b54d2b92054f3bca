------------------------------- MODULE Venues --------------------------------
(***************************************************************************)
(* The Uniswap adapters (src/src/uniswap/v2.rs, v3.rs, v4.rs): which pools *)
(* and trades they accept, and what they quote, from the state of the      *)
(* chain at one block.  A read that fails gives the empty set, one that    *)
(* succeeds a set of one element.                                          *)
(* A token is a number, in the order of addresses; 0 is the zero address,  *)
(* which a Currency names Native and never Erc20.                          *)
(***************************************************************************)
EXTENDS Integers, Sequences, FiniteSets

CONSTANTS
  ChainId,                            \* the chain the client is connected to
  V2Factory, V3Factory, PoolManager,  \* the deployments the SDK is given
  Ids, Claim,    \* contracts and V4 keys, and the pool each says it is
  Genuine,       \* those that the deployment they name has created
  MaxFee, DynamicFee, MaxSpacing,     \* of a V4 key
  MaxInt256, MaxUint128               \* largest inputs of V3 and V4

Native     == 0
Erc20Zero  == -1        \* Currency::Erc20(Address::ZERO)
Periphery  == {"router02", "swapRouter", "quoterV2",
               "universalRouter", "quoter", "stateView"}

(* The chain at a block: pools that exist, what they pay for a unit, and   *)
(* what the periphery contracts say of themselves.                         *)
World == [deployed : SUBSET Ids, rate : [Ids -> Nat],
          wiring : [Periphery -> [deployment : {Claim[i].deployment : i \in Ids},
                                  weth : Nat]]]

When(condition, value) == IF condition THEN {value} ELSE {}
Sorted(a, b) == IF a < b THEN <<a, b>> ELSE <<b, a>>

(* A pool's identity within its deployment: the key in V4, and in V2 and   *)
(* V3 the salt of its address, which holds no tick spacing.                *)
Key(p) == IF p.kind = "V4"
          THEN [kind |-> p.kind, tokens |-> p.tokens, fee |-> p.fee,
                spacing |-> p.spacing, hooks |-> p.hooks]
          ELSE [kind |-> p.kind, tokens |-> p.tokens, fee |-> p.fee]

(* getPair, getPool, or the pool of a key: what a deployment has created.  *)
Registered(w, deployment, key) ==
  {i \in w.deployed \cap Genuine :
     Claim[i].deployment = deployment /\ Key(Claim[i]) = key}

(* CREATE2: the address that this identity leads to, existing or not.      *)
Canonical(p) == /\ p.id \in Genuine
                /\ Claim[p.id].deployment = p.deployment
                /\ Key(Claim[p.id]) = Key(p)

(* What a pool pays out: external, any function of its state.              *)
Output(w, id, forward, amount) ==
  IF forward THEN amount * w.rate[id]
  ELSE IF w.rate[id] = 0 THEN 0 ELSE amount \div w.rate[id]

(* A periphery contract quotes the pool of its own deployment.             *)
\* MUTANT of Positive: an output of zero is a quote.
AnyOutput(S) == S
Positive(S) == {n \in S : n > 0}
Simulated(w, contract, key, forward, amount) ==
  Positive({Output(w, i, forward, amount) :
              i \in Registered(w, w.wiring[contract].deployment, key)})

(* Trades, and the two tokens a V2 or V3 trade moves.                      *)
Underlying(weth, c) == IF c = Native THEN weth ELSE c
Path(weth, t)       == <<Underlying(weth, t.currency_in), Underlying(weth, t.currency_out)>>
token_path(weth, a, b) == /\ a # Erc20Zero /\ b # Erc20Zero
                          /\ Underlying(weth, a) # Underlying(weth, b)
Forward(path) == path[1] < path[2]

-----------------------------------------------------------------------------
(* Uniswap V2.                                                             *)
\* MUTANT of V2Connect: does not ask the router for its factory.
V2ConnectUnchecked(w) == {w.wiring["router02"].weth}
(* Connecting yields the wrapped native token that the router names.       *)
V2Connect(w) == When(w.wiring["router02"].deployment = V2Factory, w.wiring["router02"].weth)

V2ValidatePool(p) ==
  /\ p.chain = ChainId
  /\ p.deployment = V2Factory
  /\ 0 < p.tokens[1] /\ p.tokens[1] < p.tokens[2]
  /\ Canonical(p)

V2ValidateTrade(weth, p, t) ==
  /\ t.chain = ChainId
  /\ V2ValidatePool(p)
  /\ t.amount_in > 0
  /\ token_path(weth, t.currency_in, t.currency_out)
  /\ p.tokens = Sorted(Path(weth, t)[1], Path(weth, t)[2])

V2LoadPool(w, id) ==
  LET p == Claim[id]
  IN  When(/\ id \in w.deployed
           /\ p.deployment = V2Factory
           /\ 0 < p.tokens[1] /\ p.tokens[1] < p.tokens[2]
           /\ Registered(w, V2Factory, Key(p)) = {id}
           /\ V2ValidatePool(p), p)

V2Quote(w, weth, p, t) ==
  IF V2ValidateTrade(weth, p, t) /\ V2LoadPool(w, p.id) = {p}
  THEN Simulated(w, "router02", Key(p), Forward(Path(weth, t)), t.amount_in)
  ELSE {}

-----------------------------------------------------------------------------
(* Uniswap V3.                                                             *)
V3Connect(w) ==
  When(/\ w.wiring["swapRouter"].deployment = V3Factory
       /\ w.wiring["quoterV2"] = w.wiring["swapRouter"], w.wiring["swapRouter"].weth)

V3ValidatePool(p) ==
  /\ p.chain = ChainId
  /\ p.deployment = V3Factory
  /\ 0 < p.tokens[1] /\ p.tokens[1] < p.tokens[2] /\ p.spacing > 0
  /\ Canonical(p)

V3ValidateTrade(weth, p, t) ==
  /\ t.chain = ChainId
  /\ V3ValidatePool(p)
  /\ t.amount_in \in 1..MaxInt256
  /\ token_path(weth, t.currency_in, t.currency_out)
  /\ p.tokens = Sorted(Path(weth, t)[1], Path(weth, t)[2])

V3LoadPool(w, id) ==
  LET p == Claim[id]
  IN  When(/\ id \in w.deployed
           /\ V3ValidatePool(p)
           /\ Registered(w, V3Factory, Key(p)) = {id}, p)

V3Quote(w, weth, p, t) ==
  IF V3ValidateTrade(weth, p, t) /\ V3LoadPool(w, p.id) = {p}
  THEN Simulated(w, "quoterV2", Key(p), Forward(Path(weth, t)), t.amount_in)
  ELSE {}

-----------------------------------------------------------------------------
(* Uniswap V4.  A pool is its key; key is also what stands for its id.    *)
\* MUTANT of V4Connect: checks the router, not the quoter.
V4ConnectRouterOnly(w) == w.wiring["universalRouter"].deployment = PoolManager
V4Connect(w) == \A c \in {"universalRouter", "quoter", "stateView"} :
                  w.wiring[c].deployment = PoolManager

validate_key(p) ==
  /\ p.tokens[1] < p.tokens[2]
  /\ p.spacing \in 1..MaxSpacing
  /\ p.fee \in 0..MaxFee \/ (p.fee = DynamicFee /\ p.hooks # "none")

V4ValidateTrade(p, t) ==
  /\ t.chain = ChainId /\ p.chain = ChainId
  /\ p.deployment = PoolManager
  /\ validate_key(p)
  /\ t.currency_in # Erc20Zero /\ t.currency_out # Erc20Zero
  /\ p.tokens = Sorted(t.currency_in, t.currency_out)
  /\ t.amount_in \in 1..MaxUint128

V4Pool(key) == [id |-> "key", chain |-> ChainId, deployment |-> PoolManager,
                kind |-> "V4", tokens |-> key.tokens, fee |-> key.fee,
                spacing |-> key.spacing, hooks |-> key.hooks]

(* The state view knows a pool's price from its initialization on.         *)
V4LoadPool(w, key) ==
  When(/\ validate_key(key)
       /\ Registered(w, w.wiring["stateView"].deployment, key) # {}, V4Pool(key))

V4Quote(w, p, t) ==
  IF V4ValidateTrade(p, t) /\ V4LoadPool(w, Key(p)) # {}
  THEN Simulated(w, "quoter", Key(p), t.currency_in < t.currency_out, t.amount_in)
  ELSE {}
=============================================================================
