--------------------------- MODULE DirectSwapProofs ---------------------------
(***************************************************************************)
(* Proofs about swaps with Uniswap's own routers, for any pools, genuine   *)
(* or forged, any trades and any states of the chain: a quote is that of   *)
(* the genuine pool, and a swap that is done has moved exactly what the    *)
(* trade said, to the recipient that it named.                             *)
(***************************************************************************)
EXTENDS DirectSwapInvariant, SequenceTheorems, TLAPS

-----------------------------------------------------------------------------
(***************************************************************************)
(* Balances.                                                               *)
(***************************************************************************)
Balances == [Accounts -> [Tokens -> Int]]
Part(a, x, to, c, n) == IF a = to /\ x = c THEN n ELSE 0

LEMMA MoveAt ==
  ASSUME NEW b \in Balances, NEW from \in Accounts, NEW to \in Accounts, from # to,
         NEW c \in Tokens, NEW n \in Int
  PROVE  /\ Move(b, from, to, c, n) \in Balances
         /\ \A a \in Accounts, x \in Tokens :
              Move(b, from, to, c, n)[a][x] = (b[a][x] + Part(a, x, to, c, n)) - Part(a, x, from, c, n)
<1> DEFINE less == [b[from] EXCEPT ![c] = b[from][c] - n]
           more == [b[to] EXCEPT ![c] = b[to][c] + n]
<1>1. b[from] \in [Tokens -> Int] /\ b[to] \in [Tokens -> Int]
  BY DEF Balances
<1>2. less \in [Tokens -> Int] /\ more \in [Tokens -> Int]
  BY <1>1
<1>3. Move(b, from, to, c, n) = [[b EXCEPT ![from] = less] EXCEPT ![to] = more]
  BY <1>1 DEF Move, Balances
<1>4. Move(b, from, to, c, n) \in Balances
  BY <1>2, <1>3 DEF Balances
<1>5. ASSUME NEW a \in Accounts, NEW x \in Tokens
      PROVE  Move(b, from, to, c, n)[a][x] = (b[a][x] + Part(a, x, to, c, n)) - Part(a, x, from, c, n)
  <2>1. b[a][x] \in Int
    BY DEF Balances
  <2>2. CASE a = from
    <3>1. Move(b, from, to, c, n)[a] = less
      BY <1>3, <2>2 DEF Balances
    <3>2. less[x] = IF x = c THEN b[from][c] - n ELSE b[from][x]
      BY <1>1
    <3> QED BY <2>1, <2>2, <3>1, <3>2 DEF Part
  <2>3. CASE a = to
    <3>1. Move(b, from, to, c, n)[a] = more
      BY <1>2, <1>3, <2>3 DEF Balances
    <3>2. more[x] = IF x = c THEN b[to][c] + n ELSE b[to][x]
      BY <1>1
    <3> QED BY <2>1, <2>3, <3>1, <3>2 DEF Part
  <2>4. CASE a # from /\ a # to
    <3>1. Move(b, from, to, c, n)[a] = b[a]
      BY <1>3, <2>4 DEF Balances
    <3> QED BY <2>1, <2>4, <3>1 DEF Part
  <2> QED BY <2>2, <2>3, <2>4
<1> QED BY <1>4, <1>5

LEMMA SameBalances ==
  ASSUME NEW b \in Balances, NEW d \in Balances,
         \A a \in Accounts, x \in Tokens : b[a][x] = d[a][x]
  PROVE  b = d
<1>1. \A a \in Accounts : b[a] = d[a]
  BY DEF Balances
<1> QED BY <1>1 DEF Balances

LEMMA NothingAt ==
  /\ Nothing \in Balances
  /\ \A a \in Accounts, x \in Tokens : Nothing[a][x] = 0
BY DEF Nothing, Balances

(* A ledger, account by account.                                           *)
LEMMA LedgerAt ==
  ASSUME Trade.sender = "wallet", Trade.currency_in \in Tokens, Native \in Tokens,
         NEW to \in Accounts \ {"pool"}, NEW c \in Tokens,
         NEW paid \in Int, NEW spent \in Int, NEW held \in Int
  PROVE  /\ Ledger(to, c, paid, spent, held) \in Balances
         /\ \A a \in Accounts, x \in Tokens :
              Ledger(to, c, paid, spent, held)[a][x] =
                ((Part(a, x, "pool", Trade.currency_in, spent)
                    - Part(a, x, "wallet", Trade.currency_in, spent))
                 + (Part(a, x, to, c, paid) - Part(a, x, "pool", c, paid)))
                + (Part(a, x, "router", Native, held) - Part(a, x, "wallet", Native, held))
<1> DEFINE b1 == Move(Nothing, "wallet", "pool", Trade.currency_in, spent)
           b2 == Move(b1, "pool", to, c, paid)
           b3 == Move(b2, "wallet", "router", Native, held)
<1>0. /\ "wallet" \in Accounts /\ "pool" \in Accounts /\ "router" \in Accounts
      /\ to \in Accounts /\ "wallet" # "pool" /\ "wallet" # "router" /\ to # "pool"
  BY DEF Accounts
<1>1. /\ b1 \in Balances
      /\ \A a \in Accounts, x \in Tokens :
           b1[a][x] = (Nothing[a][x] + Part(a, x, "pool", Trade.currency_in, spent))
                        - Part(a, x, "wallet", Trade.currency_in, spent)
  <2>1. PICK i \in Tokens : i = Trade.currency_in
    OBVIOUS
  <2>2. /\ Move(Nothing, "wallet", "pool", i, spent) \in Balances
        /\ \A a \in Accounts, x \in Tokens :
             Move(Nothing, "wallet", "pool", i, spent)[a][x] =
               (Nothing[a][x] + Part(a, x, "pool", i, spent)) - Part(a, x, "wallet", i, spent)
    BY <1>0, MoveAt, NothingAt
  <2> QED BY <2>1, <2>2
<1> HIDE DEF b1
<1>2. /\ b2 \in Balances
      /\ \A a \in Accounts, x \in Tokens :
           b2[a][x] = (b1[a][x] + Part(a, x, to, c, paid)) - Part(a, x, "pool", c, paid)
  BY <1>0, <1>1, MoveAt
<1> HIDE DEF b2
<1>3. /\ b3 \in Balances
      /\ \A a \in Accounts, x \in Tokens :
           b3[a][x] = (b2[a][x] + Part(a, x, "router", Native, held))
                        - Part(a, x, "wallet", Native, held)
  BY <1>0, <1>2, MoveAt
<1> HIDE DEF b3
<1>4. Ledger(to, c, paid, spent, held) = b3
  BY DEF Ledger, b1, b2, b3
<1>5. \A t, y : \A a \in Accounts, x \in Tokens, n \in Int : Part(a, x, t, y, n) \in Int
  BY DEF Part
<1>6. ASSUME NEW a \in Accounts, NEW x \in Tokens
      PROVE  b3[a][x] =
                ((Part(a, x, "pool", Trade.currency_in, spent)
                    - Part(a, x, "wallet", Trade.currency_in, spent))
                 + (Part(a, x, to, c, paid) - Part(a, x, "pool", c, paid)))
                + (Part(a, x, "router", Native, held) - Part(a, x, "wallet", Native, held))
  <2>1. b1[a][x] = Part(a, x, "pool", Trade.currency_in, spent)
                     - Part(a, x, "wallet", Trade.currency_in, spent)
    BY <1>1, <1>5, NothingAt
  <2>2. b2[a][x] = (b1[a][x] + Part(a, x, to, c, paid)) - Part(a, x, "pool", c, paid)
    BY <1>2
  <2>3. b3[a][x] = (b2[a][x] + Part(a, x, "router", Native, held))
                     - Part(a, x, "wallet", Native, held)
    BY <1>3
  <2> QED BY <1>5, <2>1, <2>2, <2>3
<1> QED BY <1>3, <1>4, <1>6

-----------------------------------------------------------------------------
(***************************************************************************)
(* Quotes and plans.                                                       *)
(***************************************************************************)
LEMMA OutputType ==
  ASSUME NEW w \in Worlds, NEW i \in w.deployed, NEW forward, NEW n \in Nat
  PROVE  Output(w, i, forward, n) \in Nat
<1>1. i \in Ids /\ w.rate[i] \in Nat
  BY DirectSwapAssumption DEF World
<1>2. n * w.rate[i] \in Nat
  BY <1>1
<1>3. w.rate[i] # 0 => n \div w.rate[i] \in Nat
  BY <1>1
<1> QED BY <1>2, <1>3 DEF Output

(* What a contract of the periphery simulates.                             *)
LEMMA SimulatedSound ==
  ASSUME NEW w \in Worlds, NEW contract, NEW key, NEW forward, NEW amount \in Nat,
         NEW n \in Simulated(w, contract, key, forward, amount)
  PROVE  /\ n \in Nat \ {0}
         /\ \E i \in w.deployed \cap Genuine :
              /\ Claim[i].deployment = w.wiring[contract].deployment /\ Key(Claim[i]) = key
              /\ n = Output(w, i, forward, amount)
<1>1. n > 0 /\ \E i \in Registered(w, w.wiring[contract].deployment, key) :
                 n = Output(w, i, forward, amount)
  BY DEF Simulated, Positive
<1>2. PICK i \in w.deployed \cap Genuine :
        /\ Claim[i].deployment = w.wiring[contract].deployment /\ Key(Claim[i]) = key
        /\ n = Output(w, i, forward, amount)
  BY <1>1 DEF Registered
<1>3. n \in Nat
  BY <1>2, OutputType
<1> QED BY <1>1, <1>2, <1>3

(* A quote comes from the deployment that the pool names.                  *)
LEMMA QuoteSound ==
  ASSUME NEW w \in Worlds, NEW p \in Offered, NEW t \in Trades, NEW n \in Quotes(w, p, t)
  PROVE  /\ n \in Nat \ {0}
         /\ p.deployment \in {V2Factory, V3Factory, PoolManager}
         /\ \E i \in w.deployed \cap Genuine :
              /\ Key(Claim[i]) = Key(p) /\ Claim[i].deployment = p.deployment
              /\ n = Output(w, i, IF p.kind = "V4" THEN t.currency_in < t.currency_out
                                  ELSE Forward(Path(Weth, t)), t.amount_in)
<1>1. t.amount_in \in Nat
  BY DirectSwapAssumption
<1>2. CASE p.kind = "V2"
  <2>1. PICK weth \in V2Connect(w) : n \in V2Quote(w, weth, p, t)
    BY <1>2 DEF Quotes
  <2>2. w.wiring["router02"].deployment = V2Factory /\ weth = w.wiring["router02"].weth
    BY <2>1 DEF V2Connect, When
  <2>3. weth = Weth
    BY <2>2, DirectSwapAssumption
  <2>4. p.deployment = V2Factory
    BY <2>1 DEF V2Quote, V2ValidateTrade, V2ValidatePool
  <2>5. n \in Simulated(w, "router02", Key(p), Forward(Path(weth, t)), t.amount_in)
    BY <2>1 DEF V2Quote
  <2> QED BY <1>1, <1>2, <2>2, <2>3, <2>4, <2>5, SimulatedSound
<1>3. CASE p.kind = "V3"
  <2>1. PICK weth \in V3Connect(w) : n \in V3Quote(w, weth, p, t)
    BY <1>3 DEF Quotes
  <2>2. w.wiring["quoterV2"].deployment = V3Factory /\ weth = w.wiring["swapRouter"].weth
    BY <2>1 DEF V3Connect, When
  <2>3. weth = Weth
    BY <2>2, DirectSwapAssumption
  <2>4. p.deployment = V3Factory
    BY <2>1 DEF V3Quote, V3ValidateTrade, V3ValidatePool
  <2>5. n \in Simulated(w, "quoterV2", Key(p), Forward(Path(weth, t)), t.amount_in)
    BY <2>1 DEF V3Quote
  <2> QED BY <1>1, <1>3, <2>2, <2>3, <2>4, <2>5, SimulatedSound
<1>4. CASE p.kind = "V4"
  <2>1. V4Connect(w) /\ n \in V4Quote(w, p, t)
    BY <1>4 DEF Quotes
  <2>2. w.wiring["quoter"].deployment = PoolManager
    BY <2>1 DEF V4Connect
  <2>3. p.deployment = PoolManager
    BY <2>1 DEF V4Quote, V4ValidateTrade
  <2>4. n \in Simulated(w, "quoter", Key(p), t.currency_in < t.currency_out, t.amount_in)
    BY <2>1 DEF V4Quote
  <2> QED BY <1>1, <1>4, <2>2, <2>3, <2>4, SimulatedSound
<1> QED BY <1>2, <1>3, <1>4, DirectSwapAssumption

(* What a plan consists of, and of which trades there are plans.           *)
CallsOf(p, t, m) == CASE p.kind = "V2" -> V2SwapCalldata(t, m)
                      [] p.kind = "V3" -> V3SwapCalldata(t, m)
                      [] p.kind = "V4" -> V4Commands(t, m)

LEMMA PlanSound ==
  ASSUME NEW p \in Offered, NEW t \in Trades, NEW m, NEW w \in Worlds,
         NEW b \in BuildSwap(w, p, t, m)
  PROVE  /\ b.calls = CallsOf(p, t, m)
         /\ b.value    = IF t.currency_in = Native THEN t.amount_in ELSE 0
         /\ b.approval = IF t.currency_in = Native THEN 0 ELSE t.amount_in
         /\ t.currency_in \in Tokens /\ t.currency_out \in Tokens
         /\ t.currency_in # t.currency_out /\ t.amount_in \in Nat \ {0}
         /\ p.kind # "V4" => Underlying(Weth, t.currency_in) # Underlying(Weth, t.currency_out)
         /\ p.kind = "V4" => t.recipient \notin {"one", "two"}
<1>1. /\ t.currency_in \in Tokens \union {Erc20Zero} /\ t.currency_out \in Tokens \union {Erc20Zero}
      /\ t.amount_in \in Nat /\ Tokens \subseteq Nat
  BY DirectSwapAssumption
<1>2. CASE p.kind = "V2"
  <2>1. PICK weth \in V2Connect(w) :
          b \in When(V2ValidateTrade(weth, p, t), PlanOf(t, V2SwapCalldata(t, m)))
    BY <1>2 DEF BuildSwap, V2BuildSwap
  <2>2. weth = Weth
    BY <2>1, DirectSwapAssumption DEF V2Connect, When
  <2>3. V2ValidateTrade(weth, p, t) /\ b = PlanOf(t, V2SwapCalldata(t, m))
    BY <2>1 DEF When
  <2>4. /\ t.amount_in > 0 /\ t.currency_in # Erc20Zero /\ t.currency_out # Erc20Zero
        /\ Underlying(Weth, t.currency_in) # Underlying(Weth, t.currency_out)
    BY <2>2, <2>3 DEF V2ValidateTrade, token_path
  <2>5. t.currency_in # t.currency_out
    BY <2>4
  <2>6. b.calls = CallsOf(p, t, m)
    BY <1>2, <2>3 DEF PlanOf, CallsOf
  <2> QED BY <1>1, <1>2, <2>3, <2>4, <2>5, <2>6 DEF PlanOf
<1>3. CASE p.kind = "V3"
  <2>1. PICK weth \in V3Connect(w) :
          b \in When(V3ValidateTrade(weth, p, t), PlanOf(t, V3SwapCalldata(t, m)))
    BY <1>3 DEF BuildSwap, V3BuildSwap
  <2>2. weth = Weth
    BY <2>1, DirectSwapAssumption DEF V3Connect, When
  <2>3. V3ValidateTrade(weth, p, t) /\ b = PlanOf(t, V3SwapCalldata(t, m))
    BY <2>1 DEF When
  <2>4. /\ t.amount_in \in 1..MaxInt256 /\ t.currency_in # Erc20Zero /\ t.currency_out # Erc20Zero
        /\ Underlying(Weth, t.currency_in) # Underlying(Weth, t.currency_out)
    BY <2>2, <2>3 DEF V3ValidateTrade, token_path
  <2>5. t.currency_in # t.currency_out /\ t.amount_in \in Nat \ {0}
    BY <1>1, <2>4
  <2>6. b.calls = CallsOf(p, t, m)
    BY <1>3, <2>3 DEF PlanOf, CallsOf
  <2> QED BY <1>1, <1>3, <2>3, <2>4, <2>5, <2>6 DEF PlanOf
<1>4. CASE p.kind = "V4"
  <2>1. /\ V4ValidateTrade(p, t) /\ t.recipient \notin {"one", "two"}
        /\ b = PlanOf(t, V4Commands(t, m))
    BY <1>4 DEF BuildSwap, V4BuildSwap, When
  <2>2. /\ p.tokens = Sorted(t.currency_in, t.currency_out) /\ p.tokens[1] < p.tokens[2]
        /\ t.amount_in \in 1..MaxUint128 /\ t.currency_in # Erc20Zero /\ t.currency_out # Erc20Zero
    BY <2>1 DEF V4ValidateTrade, validate_key
  <2>3. t.currency_in # t.currency_out /\ t.amount_in \in Nat \ {0}
    <3>1. t.amount_in \in Nat \ {0}
      BY <1>1, <2>2
    <3>2. t.currency_in \in Nat
      BY <1>1, <2>2
    <3>3. ASSUME t.currency_in = t.currency_out PROVE FALSE
      <4>1. p.tokens = <<t.currency_in, t.currency_in>>
        BY <2>2, <3>3 DEF Sorted
      <4>2. t.currency_in < t.currency_in
        BY <2>2, <4>1
      <4> QED BY <3>2, <4>2
    <3> QED BY <3>1, <3>3
  <2>4. b.calls = CallsOf(p, t, m)
    BY <1>4, <2>1 DEF PlanOf, CallsOf
  <2> QED BY <1>1, <1>4, <2>1, <2>2, <2>3, <2>4 DEF PlanOf
<1> QED BY <1>2, <1>3, <1>4, DirectSwapAssumption

-----------------------------------------------------------------------------
(***************************************************************************)
(* What each call of a plan does to a ledger.                              *)
(***************************************************************************)
Tradeable == /\ Trade.sender = "wallet" /\ Trade.recipient \in Accounts \ {"router", "pool"}
             /\ Trade.currency_in \in Tokens /\ Trade.currency_out \in Tokens
             /\ Trade.currency_in # Trade.currency_out /\ Trade.amount_in \in Nat \ {0}
             /\ Native \in Tokens /\ Weth \in Tokens

LEMMA AccountsApart ==
  /\ "wallet" \in Accounts /\ "pool" \in Accounts /\ "router" \in Accounts
  /\ "wallet" # "pool" /\ "wallet" # "router" /\ "router" # "pool"
BY DEF Accounts

LEMMA PartType ==
  \A a, x, t, y : \A n \in Int : Part(a, x, t, y, n) \in Int
BY DEF Part

LEMMA LedgerType ==
  ASSUME Tradeable, NEW to \in Accounts \ {"pool"}, NEW c \in Tokens,
         NEW paid \in Int, NEW spent \in Int
  PROVE  /\ \A held \in Int : Ledger(to, c, paid, spent, held) \in Balances
         /\ Ledger(to, c, paid, spent, 0) \in Balances
<1>1. \A held \in Int : Ledger(to, c, paid, spent, held) \in Balances
  BY LedgerAt DEF Tradeable
<1>2. 0 \in Int
  OBVIOUS
<1> QED BY <1>1, <1>2

(* The input is taken from the value or from the sender, the output paid.  *)
LEMMA SwapLedger ==
  ASSUME Tradeable, NEW to \in Accounts \ {"pool"}, NEW c \in Tokens,
         NEW spent \in Int, NEW paid \in Int
  PROVE  LET native == Trade.currency_in = Native IN
         Move(Move(Move(Nothing, "wallet", "router", Native, Value),
                   IF native THEN "router" ELSE "wallet", "pool", Trade.currency_in, spent),
              "pool", to, c, paid)
         = Ledger(to, c, paid, spent, IF native THEN Trade.amount_in - spent ELSE 0)
<1>1. PICK i \in Tokens : i = Trade.currency_in
  BY DEF Tradeable
<1>2. PICK v \in Int : v = Value
  BY DEF Tradeable, Value
<1>3. PICK payer \in Accounts : payer = IF i = Native THEN "router" ELSE "wallet"
  BY AccountsApart
<1>4. PICK rest \in Int : rest = IF i = Native THEN Trade.amount_in - spent ELSE 0
  BY DEF Tradeable
<1>5. PICK b1 \in Balances :
        /\ b1 = Move(Nothing, "wallet", "router", Native, v)
        /\ \A a \in Accounts, x \in Tokens :
             b1[a][x] = (Nothing[a][x] + Part(a, x, "router", Native, v)) - Part(a, x, "wallet", Native, v)
  <2>1. PICK n \in Tokens : n = Native
    BY DEF Tradeable
  <2>2. /\ Move(Nothing, "wallet", "router", n, v) \in Balances
        /\ \A a \in Accounts, x \in Tokens :
             Move(Nothing, "wallet", "router", n, v)[a][x] =
               (Nothing[a][x] + Part(a, x, "router", n, v)) - Part(a, x, "wallet", n, v)
    BY AccountsApart, NothingAt, MoveAt
  <2> QED BY <2>1, <2>2
<1>6. PICK b2 \in Balances :
        /\ b2 = Move(b1, payer, "pool", i, spent)
        /\ \A a \in Accounts, x \in Tokens :
             b2[a][x] = (b1[a][x] + Part(a, x, "pool", i, spent)) - Part(a, x, payer, i, spent)
  <2>1. PICK pool \in Accounts : pool = "pool" /\ payer # pool
    BY <1>3, AccountsApart
  <2>2. /\ Move(b1, payer, pool, i, spent) \in Balances
        /\ \A a \in Accounts, x \in Tokens :
             Move(b1, payer, pool, i, spent)[a][x] =
               (b1[a][x] + Part(a, x, pool, i, spent)) - Part(a, x, payer, i, spent)
    BY <2>1, MoveAt
  <2> QED BY <2>1, <2>2
<1>7. PICK b3 \in Balances :
        /\ b3 = Move(b2, "pool", to, c, paid)
        /\ \A a \in Accounts, x \in Tokens :
             b3[a][x] = (b2[a][x] + Part(a, x, to, c, paid)) - Part(a, x, "pool", c, paid)
  <2>1. PICK pool \in Accounts : pool = "pool" /\ pool # to
    BY AccountsApart
  <2>2. /\ Move(b2, pool, to, c, paid) \in Balances
        /\ \A a \in Accounts, x \in Tokens :
             Move(b2, pool, to, c, paid)[a][x] =
               (b2[a][x] + Part(a, x, to, c, paid)) - Part(a, x, pool, c, paid)
    BY <2>1, MoveAt
  <2> QED BY <2>1, <2>2
<1>8. PICK l \in Balances :
        /\ l = Ledger(to, c, paid, spent, rest)
        /\ \A a \in Accounts, x \in Tokens :
             l[a][x] = ((Part(a, x, "pool", i, spent) - Part(a, x, "wallet", i, spent))
                          + (Part(a, x, to, c, paid) - Part(a, x, "pool", c, paid)))
                       + (Part(a, x, "router", Native, rest) - Part(a, x, "wallet", Native, rest))
  BY <1>1, LedgerAt DEF Tradeable
<1>9. ASSUME NEW a \in Accounts, NEW x \in Tokens
      PROVE  b3[a][x] = l[a][x]
  <2>1. b3[a][x] = (((((0 + Part(a, x, "router", Native, v)) - Part(a, x, "wallet", Native, v))
                      + Part(a, x, "pool", i, spent)) - Part(a, x, payer, i, spent))
                    + Part(a, x, to, c, paid)) - Part(a, x, "pool", c, paid)
    BY <1>5, <1>6, <1>7, NothingAt
  <2>2. CASE i = Native
    <3>1. v = Trade.amount_in /\ payer = "router" /\ rest = v - spent
      BY <1>1, <1>2, <1>3, <1>4, <2>2 DEF Value
    <3>2. /\ Part(a, x, "router", Native, rest)
               = Part(a, x, "router", Native, v) - Part(a, x, "router", Native, spent)
          /\ Part(a, x, "wallet", Native, rest)
               = Part(a, x, "wallet", Native, v) - Part(a, x, "wallet", Native, spent)
      BY <3>1 DEF Part
    <3> QED BY <1>8, <2>1, <2>2, <3>1, <3>2, PartType
  <2>3. CASE i # Native
    <3>1. v = 0 /\ payer = "wallet" /\ rest = 0
      BY <1>1, <1>2, <1>3, <1>4, <2>3 DEF Value
    <3>2. /\ Part(a, x, "router", Native, v) = 0 /\ Part(a, x, "wallet", Native, v) = 0
          /\ Part(a, x, "router", Native, rest) = 0 /\ Part(a, x, "wallet", Native, rest) = 0
      BY <3>1 DEF Part
    <3> QED BY <1>8, <2>1, <3>1, <3>2, PartType
  <2> QED BY <2>2, <2>3
<1>10. b3 = l
  BY <1>9, SameBalances
<1> QED BY <1>1, <1>2, <1>3, <1>4, <1>5, <1>6, <1>7, <1>8, <1>10

(* What is left of the value goes back to the sender.                      *)
LEMMA RefundLedger ==
  ASSUME Tradeable, NEW to \in Accounts \ {"pool", "router"}, NEW c \in Tokens,
         NEW paid \in Int, NEW spent \in Int, NEW held \in Int
  PROVE  /\ Ledger(to, c, paid, spent, held)["router"][Native] = held
         /\ Move(Ledger(to, c, paid, spent, held), "router", "wallet", Native, held)
              = Ledger(to, c, paid, spent, 0)
<1>1. PICK i \in Tokens : i = Trade.currency_in
  BY DEF Tradeable
<1>2. PICK l \in Balances :
        /\ l = Ledger(to, c, paid, spent, held)
        /\ \A a \in Accounts, x \in Tokens :
             l[a][x] = ((Part(a, x, "pool", i, spent) - Part(a, x, "wallet", i, spent))
                          + (Part(a, x, to, c, paid) - Part(a, x, "pool", c, paid)))
                       + (Part(a, x, "router", Native, held) - Part(a, x, "wallet", Native, held))
  BY <1>1, LedgerAt DEF Tradeable
<1>3. PICK e \in Balances :
        /\ e = Ledger(to, c, paid, spent, 0)
        /\ \A a \in Accounts, x \in Tokens :
             e[a][x] = ((Part(a, x, "pool", i, spent) - Part(a, x, "wallet", i, spent))
                          + (Part(a, x, to, c, paid) - Part(a, x, "pool", c, paid)))
                       + (Part(a, x, "router", Native, 0) - Part(a, x, "wallet", Native, 0))
  BY <1>1, LedgerAt DEF Tradeable
<1>4. PICK b \in Balances :
        /\ b = Move(l, "router", "wallet", Native, held)
        /\ \A a \in Accounts, x \in Tokens :
             b[a][x] = (l[a][x] + Part(a, x, "wallet", Native, held)) - Part(a, x, "router", Native, held)
  <2>1. PICK n \in Tokens : n = Native
    BY DEF Tradeable
  <2>2. /\ Move(l, "router", "wallet", n, held) \in Balances
        /\ \A a \in Accounts, x \in Tokens :
             Move(l, "router", "wallet", n, held)[a][x] =
               (l[a][x] + Part(a, x, "wallet", n, held)) - Part(a, x, "router", n, held)
    BY AccountsApart, MoveAt
  <2> QED BY <2>1, <2>2
<1>5. l["router"][Native] = held
  <2>1. /\ Part("router", Native, "pool", i, spent) = 0 /\ Part("router", Native, "wallet", i, spent) = 0
        /\ Part("router", Native, to, c, paid) = 0 /\ Part("router", Native, "pool", c, paid) = 0
        /\ Part("router", Native, "router", Native, held) = held
        /\ Part("router", Native, "wallet", Native, held) = 0
    BY AccountsApart DEF Part
  <2> QED BY <1>2, <2>1, AccountsApart DEF Tradeable
<1>6. ASSUME NEW a \in Accounts, NEW x \in Tokens
      PROVE  b[a][x] = e[a][x]
  <2>1. Part(a, x, "router", Native, 0) = 0 /\ Part(a, x, "wallet", Native, 0) = 0
    BY DEF Part
  <2> QED BY <1>2, <1>3, <1>4, <2>1, PartType
<1>7. b = e
  BY <1>6, SameBalances
<1> QED BY <1>2, <1>3, <1>4, <1>5, <1>7

(* The output that the router was paid goes on to the recipient, as it is  *)
(* or unwrapped.                                                           *)
LEMMA SweepLedger ==
  ASSUME Tradeable, NEW to \in Accounts \ {"pool", "router"}, NEW c \in Tokens, c # Native,
         NEW paid \in Int, NEW spent \in Int, NEW held \in Int, c # Trade.currency_in
  PROVE  /\ Ledger("router", c, paid, spent, held)["router"][c] = paid
         /\ Move(Ledger("router", c, paid, spent, held), "router", to, c, paid)
              = Ledger(to, c, paid, spent, held)
<1>1. PICK i \in Tokens : i = Trade.currency_in
  BY DEF Tradeable
<1>2. PICK l \in Balances :
        /\ l = Ledger("router", c, paid, spent, held)
        /\ \A a \in Accounts, x \in Tokens :
             l[a][x] = ((Part(a, x, "pool", i, spent) - Part(a, x, "wallet", i, spent))
                          + (Part(a, x, "router", c, paid) - Part(a, x, "pool", c, paid)))
                       + (Part(a, x, "router", Native, held) - Part(a, x, "wallet", Native, held))
  BY <1>1, AccountsApart, LedgerAt DEF Tradeable
<1>3. PICK e \in Balances :
        /\ e = Ledger(to, c, paid, spent, held)
        /\ \A a \in Accounts, x \in Tokens :
             e[a][x] = ((Part(a, x, "pool", i, spent) - Part(a, x, "wallet", i, spent))
                          + (Part(a, x, to, c, paid) - Part(a, x, "pool", c, paid)))
                       + (Part(a, x, "router", Native, held) - Part(a, x, "wallet", Native, held))
  BY <1>1, LedgerAt DEF Tradeable
<1>4. PICK b \in Balances :
        /\ b = Move(l, "router", to, c, paid)
        /\ \A a \in Accounts, x \in Tokens :
             b[a][x] = (l[a][x] + Part(a, x, to, c, paid)) - Part(a, x, "router", c, paid)
  BY AccountsApart, MoveAt
<1>5. l["router"][c] = paid
  <2>1. /\ Part("router", c, "pool", i, spent) = 0 /\ Part("router", c, "wallet", i, spent) = 0
        /\ Part("router", c, "router", c, paid) = paid /\ Part("router", c, "pool", c, paid) = 0
        /\ Part("router", c, "router", Native, held) = 0
        /\ Part("router", c, "wallet", Native, held) = 0
    BY AccountsApart DEF Part
  <2> QED BY <1>2, <2>1, AccountsApart
<1>6. \A a \in Accounts, x \in Tokens : b[a][x] = e[a][x]
  BY <1>2, <1>3, <1>4, PartType
<1>7. b = e
  BY <1>6, SameBalances
<1> QED BY <1>2, <1>3, <1>4, <1>5, <1>7

LEMMA UnwrapLedger ==
  ASSUME Tradeable, NEW to \in Accounts \ {"pool", "router"}, Trade.currency_in # Weth,
         NEW paid \in Int, NEW spent \in Int, NEW held \in Int
  PROVE  /\ Ledger("router", Weth, paid, spent, held)["router"][Weth] = paid
         /\ Move(Move(Ledger("router", Weth, paid, spent, held), "router", "pool", Weth, paid),
                 "pool", to, Native, paid)
              = Ledger(to, Native, paid, spent, held)
<1>1. PICK i \in Tokens : i = Trade.currency_in /\ i # Weth
  BY DEF Tradeable
<1>2. PICK w \in Tokens : w = Weth /\ w # Native
  BY DEF Tradeable, Weth, Native
<1>3. PICK n \in Tokens : n = Native
  BY DEF Tradeable
<1>4. PICK l \in Balances :
        /\ l = Ledger("router", w, paid, spent, held)
        /\ \A a \in Accounts, x \in Tokens :
             l[a][x] = ((Part(a, x, "pool", i, spent) - Part(a, x, "wallet", i, spent))
                          + (Part(a, x, "router", w, paid) - Part(a, x, "pool", w, paid)))
                       + (Part(a, x, "router", Native, held) - Part(a, x, "wallet", Native, held))
  BY <1>1, AccountsApart, LedgerAt DEF Tradeable
<1>5. PICK e \in Balances :
        /\ e = Ledger(to, n, paid, spent, held)
        /\ \A a \in Accounts, x \in Tokens :
             e[a][x] = ((Part(a, x, "pool", i, spent) - Part(a, x, "wallet", i, spent))
                          + (Part(a, x, to, n, paid) - Part(a, x, "pool", n, paid)))
                       + (Part(a, x, "router", Native, held) - Part(a, x, "wallet", Native, held))
  BY <1>1, LedgerAt DEF Tradeable
<1>6. PICK b1 \in Balances :
        /\ b1 = Move(l, "router", "pool", w, paid)
        /\ \A a \in Accounts, x \in Tokens :
             b1[a][x] = (l[a][x] + Part(a, x, "pool", w, paid)) - Part(a, x, "router", w, paid)
  BY AccountsApart, MoveAt
<1>7. PICK b2 \in Balances :
        /\ b2 = Move(b1, "pool", to, n, paid)
        /\ \A a \in Accounts, x \in Tokens :
             b2[a][x] = (b1[a][x] + Part(a, x, to, n, paid)) - Part(a, x, "pool", n, paid)
  BY AccountsApart, MoveAt
<1>8. l["router"][w] = paid
  <2>1. /\ Part("router", w, "pool", i, spent) = 0 /\ Part("router", w, "wallet", i, spent) = 0
        /\ Part("router", w, "router", w, paid) = paid /\ Part("router", w, "pool", w, paid) = 0
        /\ Part("router", w, "router", Native, held) = 0
        /\ Part("router", w, "wallet", Native, held) = 0
    BY <1>2, AccountsApart DEF Part
  <2> QED BY <1>4, <2>1, AccountsApart
<1>9. \A a \in Accounts, x \in Tokens : b2[a][x] = e[a][x]
  BY <1>4, <1>5, <1>6, <1>7, PartType
<1>10. b2 = e
  BY <1>9, SameBalances
<1> QED BY <1>2, <1>3, <1>4, <1>5, <1>6, <1>7, <1>8, <1>10

(* V4: the value is sent, the debt settled, the credit taken.              *)
LEMMA SentLedger ==
  ASSUME Tradeable, NEW to \in Accounts \ {"pool"}, NEW c \in Tokens
  PROVE  Move(Nothing, "wallet", "router", Native, Value) = Ledger(to, c, 0, 0, Value)
<1>1. PICK i \in Tokens : i = Trade.currency_in
  BY DEF Tradeable
<1>2. PICK v \in Int : v = Value
  BY DEF Tradeable, Value
<1>3. PICK n \in Tokens : n = Native
  BY DEF Tradeable
<1>4. PICK e \in Balances :
        /\ e = Ledger(to, c, 0, 0, v)
        /\ \A a \in Accounts, x \in Tokens :
             e[a][x] = ((Part(a, x, "pool", i, 0) - Part(a, x, "wallet", i, 0))
                          + (Part(a, x, to, c, 0) - Part(a, x, "pool", c, 0)))
                       + (Part(a, x, "router", Native, v) - Part(a, x, "wallet", Native, v))
  BY <1>1, LedgerAt DEF Tradeable
<1>5. PICK b \in Balances :
        /\ b = Move(Nothing, "wallet", "router", n, v)
        /\ \A a \in Accounts, x \in Tokens :
             b[a][x] = (Nothing[a][x] + Part(a, x, "router", n, v)) - Part(a, x, "wallet", n, v)
  BY AccountsApart, NothingAt, MoveAt
<1>6. \A a, x, t, y : Part(a, x, t, y, 0) = 0
  BY DEF Part
<1>7. \A a \in Accounts, x \in Tokens : b[a][x] = e[a][x]
  BY <1>3, <1>4, <1>5, <1>6, NothingAt, PartType
<1>8. b = e
  BY <1>7, SameBalances
<1> QED BY <1>2, <1>3, <1>4, <1>5, <1>8

LEMMA SettleLedger ==
  ASSUME Tradeable, NEW to \in Accounts \ {"pool"}, NEW c \in Tokens, NEW spent \in Int
  PROVE  LET native == Trade.currency_in = Native IN
         Move(Ledger(to, c, 0, 0, Value), IF native THEN "router" ELSE "wallet", "pool",
              Trade.currency_in, spent)
         = Ledger(to, c, 0, spent, IF native THEN Trade.amount_in - spent ELSE 0)
<1>1. PICK i \in Tokens : i = Trade.currency_in
  BY DEF Tradeable
<1>2. PICK b \in Balances :
        /\ b = Move(Nothing, "wallet", "router", Native, Value)
        /\ b = Ledger(to, c, 0, 0, Value)
  <2>1. PICK v \in Int : v = Value
    BY DEF Tradeable, Value
  <2>2. PICK n \in Tokens : n = Native
    BY DEF Tradeable
  <2>3. Move(Nothing, "wallet", "router", n, v) \in Balances
    BY AccountsApart, NothingAt, MoveAt
  <2> QED BY <2>1, <2>2, <2>3, SentLedger
<1>3. PICK payer \in Accounts : payer = (IF i = Native THEN "router" ELSE "wallet") /\ payer # "pool"
  BY AccountsApart
<1>4. PICK d \in Balances : d = Move(b, payer, "pool", i, spent)
  BY <1>3, AccountsApart, MoveAt
<1>5. Move(d, "pool", to, c, 0) = d
  <2>1. PICK e \in Balances :
          /\ e = Move(d, "pool", to, c, 0)
          /\ \A a \in Accounts, x \in Tokens :
               e[a][x] = (d[a][x] + Part(a, x, to, c, 0)) - Part(a, x, "pool", c, 0)
    BY AccountsApart, MoveAt
  <2>2. \A a \in Accounts, x \in Tokens : d[a][x] \in Int
    BY DEF Balances
  <2>3. \A a, x, t, y : Part(a, x, t, y, 0) = 0
    BY DEF Part
  <2>4. \A a \in Accounts, x \in Tokens : e[a][x] = d[a][x]
    BY <2>1, <2>2, <2>3
  <2> QED BY <2>1, <2>4, SameBalances
<1>6. Move(d, "pool", to, c, 0)
        = Ledger(to, c, 0, spent, IF i = Native THEN Trade.amount_in - spent ELSE 0)
  <2>1. 0 \in Int
    OBVIOUS
  <2> QED BY <1>1, <1>2, <1>3, <1>4, <2>1, SwapLedger
<1> QED BY <1>1, <1>2, <1>3, <1>4, <1>5, <1>6

LEMMA TakeLedger ==
  ASSUME Tradeable, NEW to \in Accounts \ {"pool"}, NEW c \in Tokens,
         NEW paid \in Int, NEW spent \in Int, NEW held \in Int
  PROVE  Move(Ledger(to, c, 0, spent, held), "pool", to, c, paid) = Ledger(to, c, paid, spent, held)
<1>1. PICK i \in Tokens : i = Trade.currency_in
  BY DEF Tradeable
<1>2. PICK l \in Balances :
        /\ l = Ledger(to, c, 0, spent, held)
        /\ \A a \in Accounts, x \in Tokens :
             l[a][x] = ((Part(a, x, "pool", i, spent) - Part(a, x, "wallet", i, spent))
                          + (Part(a, x, to, c, 0) - Part(a, x, "pool", c, 0)))
                       + (Part(a, x, "router", Native, held) - Part(a, x, "wallet", Native, held))
  BY <1>1, LedgerAt DEF Tradeable
<1>3. PICK e \in Balances :
        /\ e = Ledger(to, c, paid, spent, held)
        /\ \A a \in Accounts, x \in Tokens :
             e[a][x] = ((Part(a, x, "pool", i, spent) - Part(a, x, "wallet", i, spent))
                          + (Part(a, x, to, c, paid) - Part(a, x, "pool", c, paid)))
                       + (Part(a, x, "router", Native, held) - Part(a, x, "wallet", Native, held))
  BY <1>1, LedgerAt DEF Tradeable
<1>4. PICK b \in Balances :
        /\ b = Move(l, "pool", to, c, paid)
        /\ \A a \in Accounts, x \in Tokens :
             b[a][x] = (l[a][x] + Part(a, x, to, c, paid)) - Part(a, x, "pool", c, paid)
  BY AccountsApart, MoveAt
<1>5. \A a, x, t, y : Part(a, x, t, y, 0) = 0
  BY DEF Part
<1>6. \A a \in Accounts, x \in Tokens : b[a][x] = e[a][x]
  BY <1>2, <1>3, <1>4, <1>5, PartType
<1> QED BY <1>2, <1>3, <1>4, <1>6, SameBalances

(* Nothing is held at the end: what was spent and what was paid.           *)
LEMMA EndLedger ==
  ASSUME Tradeable, NEW to \in Accounts \ {"pool"}, NEW c \in Tokens,
         NEW paid \in Int, NEW spent \in Int
  PROVE  Ledger(to, c, paid, spent, 0)
           = Move(Move(Nothing, Trade.sender, "pool", Trade.currency_in, spent), "pool", to, c, paid)
<1>1. PICK i \in Tokens : i = Trade.currency_in
  BY DEF Tradeable
<1>2. PICK n \in Tokens : n = Native
  BY DEF Tradeable
<1>3. PICK b1 \in Balances : b1 = Move(Nothing, "wallet", "pool", i, spent)
  BY AccountsApart, NothingAt, MoveAt
<1>4. PICK b2 \in Balances : b2 = Move(b1, "pool", to, c, paid)
  BY AccountsApart, MoveAt
<1>5. PICK e \in Balances :
        /\ e = Move(b2, "wallet", "router", n, 0)
        /\ \A a \in Accounts, x \in Tokens :
             e[a][x] = (b2[a][x] + Part(a, x, "router", n, 0)) - Part(a, x, "wallet", n, 0)
  BY AccountsApart, MoveAt
<1>6. \A a, x, t, y : Part(a, x, t, y, 0) = 0
  BY DEF Part
<1>7. \A a \in Accounts, x \in Tokens : b2[a][x] \in Int
  BY DEF Balances
<1>8. \A a \in Accounts, x \in Tokens : e[a][x] = b2[a][x]
  BY <1>5, <1>6, <1>7
<1>9. e = b2
  BY <1>8, SameBalances
<1>10. Trade.sender = "wallet"
  BY DEF Tradeable
<1> QED BY <1>1, <1>2, <1>3, <1>4, <1>5, <1>9, <1>10 DEF Ledger

-----------------------------------------------------------------------------
(***************************************************************************)
(* The invariant, up to the plan.                                          *)
(***************************************************************************)
LEMMA Frame ==
  /\ UNCHANGED order => UNCHANGED <<Pool, Trade>>
  /\ UNCHANGED quote => UNCHANGED Quoted
  /\ UNCHANGED plan => UNCHANGED Plan
BY DEF Pool, Trade, Quoted, Plan

LEMMA QuotedSound ==
  ASSUME QuoteRight, quote # {}
  PROVE  /\ Quoted \in quote /\ Quoted.world \in Worlds
         /\ Pool \in Offered /\ Trade \in Trades
<1>1. Quoted \in quote
  BY DEF Quoted
<1> QED BY <1>1 DEF QuoteRight

(* The plan that is carried out.                                           *)
Minimum == minimum_amount_out(Quoted.amount_out, Plan.slippage)

LEMMA PlanFacts ==
  ASSUME QuoteRight, PlanRight, plan # {}
  PROVE  /\ Tradeable /\ Pool \in Offered
         /\ Plan.calls = CallsOf(Pool, Trade, Minimum)
         /\ Plan.value = Value
         /\ Plan.approval = IF Trade.currency_in = Native THEN 0 ELSE Trade.amount_in
         /\ Pool.kind # "V4" =>
              Underlying(Weth, Trade.currency_in) # Underlying(Weth, Trade.currency_out)
         /\ Pool.kind = "V4" => Trade.recipient \notin {"one", "two"}
<1>1. Plan \in plan
  BY DEF Plan
<1>2. quote # {}
  BY <1>1 DEF PlanRight
<1>3. PICK b \in BuildSwap(Quoted.world, Pool, Trade, Minimum) :
        Plan.calls = b.calls /\ Plan.value = b.value /\ Plan.approval = b.approval
  BY <1>1 DEF PlanRight, Minimum
<1>4. Quoted.world \in Worlds /\ Pool \in Offered /\ Trade \in Trades
  BY <1>2, QuotedSound
<1> DEFINE m == Minimum
<1>5. b \in BuildSwap(Quoted.world, Pool, Trade, m)
  BY <1>3
<1> HIDE DEF m
<1>6. /\ b.calls = CallsOf(Pool, Trade, m)
      /\ b.value    = IF Trade.currency_in = Native THEN Trade.amount_in ELSE 0
      /\ b.approval = IF Trade.currency_in = Native THEN 0 ELSE Trade.amount_in
      /\ Trade.currency_in \in Tokens /\ Trade.currency_out \in Tokens
      /\ Trade.currency_in # Trade.currency_out /\ Trade.amount_in \in Nat \ {0}
      /\ Pool.kind # "V4" =>
           Underlying(Weth, Trade.currency_in) # Underlying(Weth, Trade.currency_out)
      /\ Pool.kind = "V4" => Trade.recipient \notin {"one", "two"}
  BY <1>4, <1>5, PlanSound
<1>7. /\ Trade.sender = "wallet" /\ Trade.recipient \in Accounts \ {"router", "pool"}
      /\ Native \in Tokens /\ Weth \in Tokens
  BY <1>4, DirectSwapAssumption
<1> QED BY <1>3, <1>4, <1>6, <1>7 DEF Tradeable, Value, m

LEMMA InitInv == Init => LedgerInvariant
<1> SUFFICES ASSUME Init PROVE LedgerInvariant
  OBVIOUS
<1>1. TypeOK
  BY NothingAt DEF Init, TypeOK, Balances
<1> QED BY <1>1 DEF Init, LedgerInvariant, QuoteRight, PlanRight, Stage, LandsWithRecipient

LEMMA AskInv ==
  ASSUME LedgerInvariant, NEW p \in Offered, NEW t \in Trades, Ask(p, t)
  PROVE  LedgerInvariant'
<1>1. /\ phase = "ask" /\ plan = {} /\ next = 1 /\ bal = Nothing
      /\ UNCHANGED <<world, plan, next, flow, bal>>
      /\ world \in Worlds /\ flow \in [spent : Nat, paid : Nat] /\ bal \in [Accounts -> [Tokens -> Int]]
  BY DEF LedgerInvariant, Stage, Ask, TypeOK
<1>2. /\ order' = {[pool |-> p, trade |-> t]}
      /\ quote' = {[amount_out |-> n, world |-> world] : n \in Quotes(world, p, t)}
      /\ phase' = IF Quotes(world, p, t) = {} THEN "refused" ELSE "quoted"
  BY DEF Ask
<1>3. Pool' = p /\ Trade' = t
  <2>1. (CHOOSE o \in order' : TRUE) = [pool |-> p, trade |-> t]
    BY <1>2
  <2>2. [pool |-> p, trade |-> t].pool = p /\ [pool |-> p, trade |-> t].trade = t
    OBVIOUS
  <2> QED BY <2>1, <2>2 DEF Pool, Trade
<1>4. QuoteRight'
  BY <1>1, <1>2, <1>3 DEF QuoteRight
<1>5. \A n \in Quotes(world, p, t) : n \in Nat \ {0}
  BY <1>1, QuoteSound
<1>6. TypeOK'
  BY <1>1, <1>2, <1>5 DEF TypeOK
<1>7. Stage' /\ PlanRight'
  <2>1. PlanRight'
    BY <1>1 DEF PlanRight
  <2>2. quote' = {} => phase' = "refused"
    BY <1>2
  <2>3. phase' \in {"refused", "quoted"}
    BY <1>2
  <2> QED BY <1>1, <2>1, <2>2, <2>3 DEF Stage
<1>8. phase' \in {"refused", "quoted"}
  BY <1>2
<1> QED BY <1>4, <1>6, <1>7, <1>8 DEF LedgerInvariant, LandsWithRecipient

LEMMA MarketInv ==
  ASSUME LedgerInvariant, Market
  PROVE  LedgerInvariant'
<1>1. /\ world' \in Worlds /\ next = 1 /\ phase \in {"quoted", "built"}
      /\ UNCHANGED <<phase, order, quote, plan, next, flow, bal>>
  BY DEF Market
<1>2. UNCHANGED <<Pool, Trade, Quoted, Plan>>
  BY <1>1, Frame
<1>3. TypeOK'
  BY <1>1 DEF LedgerInvariant, TypeOK
<1>4. QuoteRight'
  BY <1>1, <1>2 DEF LedgerInvariant, QuoteRight
<1>5. PlanRight'
  BY <1>1, <1>2 DEF LedgerInvariant, PlanRight
<1>6. Stage'
  BY <1>1, <1>2 DEF LedgerInvariant, Stage
<1> QED BY <1>1, <1>3, <1>4, <1>5, <1>6 DEF LedgerInvariant, LandsWithRecipient

LEMMA CallsNonEmpty ==
  ASSUME NEW p \in Offered, NEW t, NEW m
  PROVE  Len(CallsOf(p, t, m)) \in Nat \ {0}
<1>1. CASE p.kind = "V2"
  BY <1>1 DEF CallsOf, V2SwapCalldata, Call
<1>2. CASE p.kind = "V3"
  BY <1>2 DEF CallsOf, V3SwapCalldata, Call
<1>3. CASE p.kind = "V4"
  BY <1>3 DEF CallsOf, V4Commands, Call
<1> QED BY <1>1, <1>2, <1>3, DirectSwapAssumption

LEMMA BuildInv ==
  ASSUME LedgerInvariant, NEW s \in Slippages, Build(s)
  PROVE  LedgerInvariant'
<1> DEFINE m == minimum_amount_out(Quoted.amount_out, s)
           built == BuildSwap(Quoted.world, Pool, Trade, m)
<1>1. /\ phase = "quoted" /\ next = 1 /\ bal = Nothing /\ quote # {}
      /\ UNCHANGED <<world, order, quote, next, flow, bal>>
      /\ plan' = {[calls |-> p.calls, value |-> p.value, approval |-> p.approval,
                   slippage |-> s] : p \in built}
      /\ phase' = IF built = {} THEN "refused" ELSE "built"
  BY DEF Build, LedgerInvariant, Stage
<1> HIDE DEF m
<1>2. UNCHANGED <<Pool, Trade, Quoted>>
  BY <1>1, Frame
<1>3. Quoted.world \in Worlds /\ Pool \in Offered /\ Trade \in Trades /\ QuoteRight
  BY <1>1, QuotedSound DEF LedgerInvariant
<1>4. ASSUME NEW b \in built
      PROVE  /\ b.value \in Nat /\ b.approval \in Nat
             /\ b.calls = CallsOf(Pool, Trade, m)
  BY <1>3, PlanSound
<1>5. TypeOK'
  <2>1. \A p \in plan' : p.value \in Nat /\ p.approval \in Nat
    BY <1>1, <1>4
  <2> QED BY <1>1, <2>1 DEF LedgerInvariant, TypeOK
<1>6. QuoteRight'
  BY <1>1, <1>2, <1>3 DEF QuoteRight
<1>7. ASSUME NEW p \in plan'
      PROVE  /\ quote' # {} /\ p.calls = CallsOf(Pool, Trade, m)
             /\ \E b \in BuildSwap(Quoted.world, Pool, Trade,
                                 minimum_amount_out(Quoted.amount_out, p.slippage))' :
                  p.calls = b.calls /\ p.value = b.value /\ p.approval = b.approval
  <2>1. PICK b \in built : p = [calls |-> b.calls, value |-> b.value, approval |-> b.approval,
                                slippage |-> s]
    BY <1>1, <1>7
  <2>2. b \in BuildSwap(Quoted.world, Pool, Trade,
                      minimum_amount_out(Quoted.amount_out, p.slippage))
    BY <2>1 DEF m
  <2>3. b \in BuildSwap(Quoted.world, Pool, Trade,
                      minimum_amount_out(Quoted.amount_out, p.slippage))'
    BY <1>2, <2>2
  <2> QED BY <1>1, <1>4, <2>1, <2>3
<1>8. PlanRight'
  BY <1>7 DEF PlanRight
<1>9. Stage'
  <2>1. CASE built = {}
    <3>1. phase' = "refused"
      BY <1>1, <2>1
    <3> QED BY <1>1, <3>1 DEF Stage
  <2>2. CASE built # {}
    <3>1. phase' = "built" /\ plan' # {}
      BY <1>1, <2>2
    <3>2. Plan' \in plan'
      BY <3>1 DEF Plan
    <3>3. Plan'.calls = CallsOf(Pool, Trade, m)
      BY <1>7, <3>2
    <3>4. 1 \in 1..Len(Plan'.calls)
      BY <1>3, <3>3, CallsNonEmpty
    <3> QED BY <1>1, <3>1, <3>4 DEF Stage
  <2> QED BY <2>1, <2>2
<1>10. phase' \in {"refused", "built"} /\ next' = 1
  BY <1>1
<1> QED BY <1>5, <1>6, <1>8, <1>9, <1>10 DEF LedgerInvariant, LandsWithRecipient

-----------------------------------------------------------------------------
(***************************************************************************)
(* The calls of a plan, one by one.                                        *)
(***************************************************************************)
LEMMA Appended ==
  ASSUME NEW a, NEW b, NEW c, NEW d
  PROVE  /\ <<a>> \o <<>> = <<a>> /\ <<a, b>> \o <<>> = <<a, b>>
         /\ <<a, b, c>> \o <<>> = <<a, b, c>>
         /\ <<a>> \o <<b>> = <<a, b>> /\ <<a, b>> \o <<c>> = <<a, b, c>>
         /\ <<a, b, c>> \o <<d>> = <<a, b, c, d>>
<1> DEFINE S == {a, b, c, d}
<1>0. a \in S /\ b \in S /\ c \in S /\ d \in S
  OBVIOUS
<1> HIDE DEF S
<1>1. /\ <<a>> \o <<>> = <<a>> /\ <<a, b>> \o <<>> = <<a, b>>
      /\ <<a, b, c>> \o <<>> = <<a, b, c>>
  BY <1>0, ConcatEmptySeq
<1>2. <<a>> \o <<b>> = <<a, b>>
  <2>1. <<a>> \o <<b>> \in Seq(S) /\ <<a, b>> \in Seq(S)
    BY <1>0
  <2>2. PICK s \in Seq(S) : s = <<a>> \o <<b>>
    BY <2>1, Zenon
  <2>3. PICK t \in Seq(S) : t = <<a, b>>
    BY <2>1, Zenon
  <2>4. Len(s) = 2 /\ Len(t) = 2
    BY <1>0, <2>2, <2>3
  <2>5. s[1] = t[1] /\ s[2] = t[2]
    BY <1>0, <2>2, <2>3
  <2>6. \A x \in 1..Len(s) : s[x] = t[x]
    BY <2>4, <2>5
  <2>7. s = t
    BY <2>4, <2>6, SeqEqual
  <2> QED BY <2>2, <2>3, <2>7
<1>3. <<a, b>> \o <<c>> = <<a, b, c>>
  <2>1. <<a, b>> \o <<c>> \in Seq(S) /\ <<a, b, c>> \in Seq(S)
    BY <1>0
  <2>2. PICK s \in Seq(S) : s = <<a, b>> \o <<c>>
    BY <2>1, Zenon
  <2>3. PICK t \in Seq(S) : t = <<a, b, c>>
    BY <2>1, Zenon
  <2>4. Len(s) = 3 /\ Len(t) = 3
    BY <1>0, <2>2, <2>3
  <2>5. s[1] = t[1] /\ s[2] = t[2] /\ s[3] = t[3]
    BY <1>0, <2>2, <2>3
  <2>6. \A x \in 1..Len(s) : s[x] = t[x]
    BY <2>4, <2>5
  <2>7. s = t
    BY <2>4, <2>6, SeqEqual
  <2> QED BY <2>2, <2>3, <2>7
<1>4. <<a, b, c>> \o <<d>> = <<a, b, c, d>>
  <2>1. <<a, b, c>> \o <<d>> \in Seq(S) /\ <<a, b, c, d>> \in Seq(S)
    BY <1>0
  <2>2. PICK s \in Seq(S) : s = <<a, b, c>> \o <<d>>
    BY <2>1, Zenon
  <2>3. PICK t \in Seq(S) : t = <<a, b, c, d>>
    BY <2>1, Zenon
  <2>4. Len(s) = 4 /\ Len(t) = 4
    BY <1>0, <2>2, <2>3
  <2>5. s[1] = t[1] /\ s[2] = t[2] /\ s[3] = t[3] /\ s[4] = t[4]
    BY <1>0, <2>2, <2>3
  <2>6. \A x \in 1..Len(s) : s[x] = t[x]
    BY <2>4, <2>5
  <2>7. s = t
    BY <2>4, <2>6, SeqEqual
  <2> QED BY <2>2, <2>3, <2>7
<1> QED BY <1>1, <1>2, <1>3, <1>4

LEMMA V3Calls ==
  ASSUME NEW t, NEW m, t.currency_in = Native => t.currency_out # Native
  PROVE  V3SwapCalldata(t, m) =
           IF t.currency_out = Native
           THEN <<Call("exactInputSingle", m, "router"), Call("unwrapWETH9", m, t.recipient)>>
           ELSE IF t.recipient \in {"one", "two"}
           THEN IF t.currency_in = Native
                THEN <<Call("exactInputSingle", m, "router"), Call("sweepToken", m, t.recipient),
                       Call("refundETH", 0, t.sender)>>
                ELSE <<Call("exactInputSingle", m, "router"), Call("sweepToken", m, t.recipient)>>
           ELSE IF t.currency_in = Native
                THEN <<Call("exactInputSingle", m, t.recipient), Call("refundETH", 0, t.sender)>>
                ELSE <<Call("exactInputSingle", m, t.recipient)>>
<1>1. \A a, b, c : /\ (<<a>> \o <<>>) \o <<>> = <<a>>
                   /\ (<<a>> \o <<b>>) \o <<>> = <<a, b>>
                   /\ (<<a>> \o <<>>) \o <<b>> = <<a, b>>
                   /\ (<<a>> \o <<b>>) \o <<c>> = <<a, b, c>>
  <2> TAKE a, b, c
  <2> QED BY Appended
<1>2. CASE t.currency_out = Native
  BY <1>1, <1>2 DEF V3SwapCalldata
<1>3. CASE t.currency_out # Native
  <2>1. CASE t.recipient \in {"one", "two"}
    BY <1>1, <1>3, <2>1 DEF V3SwapCalldata
  <2>2. CASE t.recipient \notin {"one", "two"}
    BY <1>1, <1>3, <2>2 DEF V3SwapCalldata
  <2> QED BY <2>1, <2>2
<1> QED BY <1>2, <1>3

LEMMA V4Calls ==
  ASSUME NEW t, NEW m
  PROVE  V4Commands(t, m) =
           IF t.currency_in = Native
           THEN <<Call("SWAP_EXACT_IN_SINGLE", m, "router"), Call("SETTLE_ALL", 0, "pool"),
                  Call("TAKE", 0, t.recipient), Call("SWEEP", 0, "one")>>
           ELSE <<Call("SWAP_EXACT_IN_SINGLE", m, "router"), Call("SETTLE_ALL", 0, "pool"),
                  Call("TAKE", 0, t.recipient)>>
<1>1. \A a, b, c, d : /\ <<a, b, c>> \o <<>> = <<a, b, c>>
                      /\ <<a, b, c>> \o <<d>> = <<a, b, c, d>>
  <2> TAKE a, b, c, d
  <2> QED BY Appended
<1> QED BY <1>1 DEF V4Commands

LEMMA CallFields ==
  \A op, minimum, to : /\ Call(op, minimum, to).op = op
                       /\ Call(op, minimum, to).minimum = minimum
                       /\ Call(op, minimum, to).to = to
BY DEF Call

LEMMA SwappedType ==
  ASSUME world \in Worlds, NEW spent \in Nat, NEW paid \in Swapped(spent)
  PROVE  paid \in Nat
<1>1. PICK d, k, f, i : i \in Registered(world, d, k) /\ paid = Output(world, i, f, spent)
  BY DEF Swapped
<1>2. i \in world.deployed
  BY <1>1 DEF Registered
<1> QED BY <1>1, <1>2, OutputType

(* What a call has to do for the invariant: leave the ledger of its stage, *)
(* or, if it is the last one, that of a swap that is done.                 *)
LEMMA StepInv ==
  ASSUME LedgerInvariant, Step, flow' \in [spent : Nat, paid : Nat], bal' \in Balances,
         flow'.spent \in 1..Trade.amount_in, flow'.paid >= Minimum,
         next # Len(Plan.calls) => Underway',
         next = Len(Plan.calls) =>
           bal' = Ledger(Trade.recipient, Trade.currency_out, flow'.paid, flow'.spent, 0)
  PROVE  LedgerInvariant'
<1>1. /\ phase = "built" /\ next' = next + 1 /\ UNCHANGED <<world, order, quote, plan>>
      /\ phase' = IF next = Len(Plan.calls) THEN "done" ELSE phase
  BY DEF Step
<1>2. UNCHANGED <<Pool, Trade, Quoted, Plan>>
  BY <1>1, Frame
<1>3. quote # {} /\ plan # {} /\ next \in 1..Len(Plan.calls) /\ QuoteRight /\ PlanRight
  BY <1>1 DEF LedgerInvariant, Stage
<1>4. Tradeable /\ Pool \in Offered /\ Plan.calls = CallsOf(Pool, Trade, Minimum)
  BY <1>3, PlanFacts
<1>5. Len(Plan.calls) \in Nat
  <2> DEFINE t == Trade
             m == Minimum
  <2>1. Plan.calls = CallsOf(Pool, t, m)
    BY <1>4
  <2> HIDE DEF t, m
  <2> QED BY <1>4, <2>1, CallsNonEmpty
<1>6. TypeOK'
  BY <1>1, <1>3, <1>5 DEF LedgerInvariant, TypeOK, Balances
<1>7. QuoteRight' /\ PlanRight'
  BY <1>1, <1>2, <1>3 DEF QuoteRight, PlanRight
<1>8. Stage'
  BY <1>1, <1>2, <1>3, <1>5 DEF Stage
<1>9. FlowRight'
  BY <1>2 DEF FlowRight, Minimum
<1>10. phase' = "built" => Underway'
  BY <1>1
<1>11. LandsWithRecipient'
  <2>1. CASE next # Len(Plan.calls)
    BY <1>1, <2>1 DEF LandsWithRecipient
  <2>2. CASE next = Len(Plan.calls)
    <3>1. PICK s, p \in Int : s = flow'.spent /\ p = flow'.paid
      OBVIOUS
    <3>2. PICK r \in Accounts \ {"pool"} : r = Trade.recipient
      BY <1>4 DEF Tradeable
    <3>3. PICK c \in Tokens : c = Trade.currency_out
      BY <1>4 DEF Tradeable
    <3>4. bal' = Move(Move(Nothing, Trade.sender, "pool", Trade.currency_in, s), "pool", r, c, p)
      BY <1>4, <2>2, <3>1, <3>2, <3>3, EndLedger
    <3> QED BY <1>2, <3>1, <3>2, <3>3, <3>4 DEF LandsWithRecipient, Minimum
  <2> QED BY <2>1, <2>2
<1> QED BY <1>6, <1>7, <1>8, <1>9, <1>10, <1>11 DEF LedgerInvariant

LEMMA StepFacts ==
  ASSUME LedgerInvariant, Step
  PROVE  /\ next' = next + 1 /\ UNCHANGED <<Pool, Trade, Quoted, Plan>>
         /\ Tradeable /\ Pool \in Offered /\ Plan.value = Value
         /\ Plan.calls = CallsOf(Pool, Trade, Minimum)
         /\ Pool.kind # "V4" =>
              Underlying(Weth, Trade.currency_in) # Underlying(Weth, Trade.currency_out)
         /\ Pool.kind = "V4" => Trade.recipient \notin {"one", "two"}
         /\ next \in 1..Len(Plan.calls) /\ world \in Worlds
         /\ flow \in [spent : Nat, paid : Nat] /\ bal \in Balances
         /\ next = 1 => bal = Nothing
         /\ next > 1 => FlowRight /\ Underway
<1>1. phase = "built" /\ next' = next + 1 /\ UNCHANGED <<world, order, quote, plan>>
  BY DEF Step
<1>2. plan # {} /\ QuoteRight /\ PlanRight /\ next \in 1..Len(Plan.calls)
      /\ (next = 1 => bal = Nothing) /\ (next > 1 => FlowRight /\ Underway)
  BY <1>1 DEF LedgerInvariant, Stage
<1>3. world \in Worlds /\ flow \in [spent : Nat, paid : Nat] /\ bal \in Balances
  BY DEF LedgerInvariant, TypeOK, Balances
<1> QED BY <1>1, <1>2, <1>3, PlanFacts, Frame

(* The first call: the value is sent, and the pool swaps.                  *)
LEMMA FirstCall ==
  ASSUME LedgerInvariant, Step, next = 1, Current.op \in SwapCalls
  PROVE  \E spent \in 1..Trade.amount_in, paid \in Nat :
           LET native == Trade.currency_in = Native
               sent   == Move(Nothing, "wallet", "router", Native, Value)
           IN  /\ flow' = [spent |-> spent, paid |-> paid] /\ paid >= Current.minimum
               /\ Pool.kind = "V2" => spent = Trade.amount_in
               /\ bal' = IF Current.op = "SWAP_EXACT_IN_SINGLE" THEN sent
                         ELSE Move(Move(sent, IF native THEN "router" ELSE "wallet", "pool",
                                        Trade.currency_in, spent),
                                   "pool", IF Current.op = "exactInputSingle"
                                           THEN Alias(Current.to) ELSE Current.to, PaidIn, paid)
<1>1. PICK spent \in 1..Trade.amount_in : \E paid \in Swapped(spent) : Swap(spent, paid)
  BY DEF Step, SwapCalls, SettleAll, Take, UnwrapWETH9, SweepToken, ReturnNative
<1>2. PICK paid \in Swapped(spent) : Swap(spent, paid)
  BY <1>1
<1>3. spent \in Nat /\ paid \in Nat
  BY StepFacts, SwappedType DEF Tradeable
<1>4. Trade.sender = "wallet" /\ bal = Nothing /\ Plan.value = Value
  BY StepFacts DEF Tradeable
<1>5. Paid = Move(Nothing, "wallet", "router", Native, Value)
  BY <1>4 DEF Paid
<1> QED BY <1>2, <1>3, <1>4, <1>5 DEF Swap

LEMMA V2Step ==
  ASSUME LedgerInvariant, Step, Pool.kind = "V2"
  PROVE  LedgerInvariant'
<1> DEFINE t == Trade
           op == IF t.currency_in = Native THEN "swapExactETHForTokens"
                 ELSE IF t.currency_out = Native THEN "swapExactTokensForETH"
                 ELSE "swapExactTokensForTokens"
<1>1. Plan.calls = <<Call(op, Minimum, t.recipient)>>
  BY StepFacts DEF CallsOf, V2SwapCalldata
<1>2. next = 1 /\ Len(Plan.calls) = 1 /\ Current = Call(op, Minimum, t.recipient)
  BY <1>1, StepFacts DEF Current
<1>3. /\ Current.op \in {"swapExactETHForTokens", "swapExactTokensForETH", "swapExactTokensForTokens"}
      /\ Current.to = t.recipient /\ Current.minimum = Minimum
  BY <1>2, CallFields
<1>4. PaidIn = t.currency_out /\ Current.op \in SwapCalls
  BY <1>3 DEF PaidIn, SwapCalls
<1>5. PICK spent \in 1..Trade.amount_in, paid \in Nat :
        /\ flow' = [spent |-> spent, paid |-> paid] /\ paid >= Minimum /\ spent = Trade.amount_in
        /\ bal' = Move(Move(Move(Nothing, "wallet", "router", Native, Value),
                            IF Trade.currency_in = Native THEN "router" ELSE "wallet", "pool",
                            Trade.currency_in, spent),
                       "pool", t.recipient, t.currency_out, paid)
  BY <1>2, <1>3, <1>4, FirstCall
<1>6. Tradeable /\ spent \in Int /\ paid \in Int /\ spent \in Nat
  BY StepFacts DEF Tradeable
<1>7. PICK to \in Accounts \ {"pool"} : to = t.recipient
  BY <1>6 DEF Tradeable
<1>8. PICK c \in Tokens : c = t.currency_out
  BY <1>6 DEF Tradeable
<1>9. Trade.amount_in - spent = 0
  BY <1>5, <1>6
<1>10. bal' = Ledger(to, c, paid, spent, 0)
  BY <1>5, <1>6, <1>7, <1>8, <1>9, SwapLedger
<1>11. Ledger(to, c, paid, spent, 0) \in Balances
  BY <1>6, LedgerType
<1>12. flow'.spent = spent /\ flow'.paid = paid /\ flow' \in [spent : Nat, paid : Nat]
  BY <1>5, <1>6
<1> QED BY <1>2, <1>5, <1>7, <1>8, <1>10, <1>11, <1>12, StepInv

(* The calls after the swap, each an action of its own.                    *)
LEMMA LaterCall ==
  ASSUME Step
  PROVE  /\ Current.op = "SETTLE_ALL" => SettleAll
         /\ Current.op = "TAKE" => Take
         /\ Current.op = "unwrapWETH9" => UnwrapWETH9
         /\ Current.op = "sweepToken" => SweepToken
         /\ Current.op \in {"refundETH", "SWEEP"} => ReturnNative
<1>1. Current.op \in SwapCalls \/ SettleAll \/ Take \/ UnwrapWETH9 \/ SweepToken \/ ReturnNative
  BY DEF Step, Swap
<1> QED BY <1>1 DEF SwapCalls, SettleAll, Take, UnwrapWETH9, SweepToken, ReturnNative

(* The refund ends a plan, in V3 as in V4.                                 *)
LastCall == next = Len(Plan.calls)

LEMMA RefundStep ==
  ASSUME LedgerInvariant, Step, next \in Nat \ {0, 1}, LastCall, Current.op \in {"refundETH", "SWEEP"},
         bal = Ledger(Trade.recipient, Trade.currency_out, flow.paid, flow.spent, Rest)
  PROVE  LedgerInvariant'
<1>0. next > 1
  OBVIOUS
<1>1. ReturnNative /\ Tradeable /\ flow \in [spent : Nat, paid : Nat] /\ FlowRight
  BY <1>0, LaterCall, StepFacts
<1>2. PICK to \in Accounts \ {"pool", "router"} : to = Trade.recipient
  BY <1>1 DEF Tradeable
<1>3. PICK c \in Tokens : c = Trade.currency_out
  BY <1>1 DEF Tradeable
<1>4. PICK spent, paid \in Int : spent = flow.spent /\ paid = flow.paid
  BY <1>1
<1>5. PICK held \in Int : held = Rest
  BY <1>1, <1>4 DEF Rest, Tradeable
<1>6. /\ bal["router"][Native] = held
      /\ Move(bal, "router", "wallet", Native, held) = Ledger(to, c, paid, spent, 0)
  BY <1>1, <1>2, <1>3, <1>4, <1>5, RefundLedger
<1>7. Left(Native) = held
  <2>1. next # 1
    OBVIOUS
  <2> QED BY <1>6, <2>1 DEF Left, Paid
<1>8. bal' = Ledger(to, c, paid, spent, 0) /\ UNCHANGED flow
  BY <1>1, <1>6, <1>7 DEF ReturnNative, Tradeable
<1>9. Ledger(to, c, paid, spent, 0) \in Balances
  BY <1>1, LedgerType
<1>10. flow' = flow /\ flow'.spent \in 1..Trade.amount_in /\ flow'.paid >= Minimum
  BY <1>1, <1>8 DEF FlowRight, Minimum
<1>11. bal' = Ledger(Trade.recipient, Trade.currency_out, flow'.paid, flow'.spent, 0)
       /\ bal' \in Balances
  BY <1>2, <1>3, <1>4, <1>8, <1>9
<1> QED BY <1>1, <1>10, <1>11, StepInv DEF LastCall

LEMMA V4Step ==
  ASSUME LedgerInvariant, Step, Pool.kind = "V4"
  PROVE  LedgerInvariant'
<1> DEFINE calls == Plan.calls
           native == Trade.currency_in = Native
           L(paid, spent, held) == Ledger(Trade.recipient, Trade.currency_out, paid, spent, held)
<1>1. calls = IF native
              THEN <<Call("SWAP_EXACT_IN_SINGLE", Minimum, "router"), Call("SETTLE_ALL", 0, "pool"),
                     Call("TAKE", 0, Trade.recipient), Call("SWEEP", 0, "one")>>
              ELSE <<Call("SWAP_EXACT_IN_SINGLE", Minimum, "router"), Call("SETTLE_ALL", 0, "pool"),
                     Call("TAKE", 0, Trade.recipient)>>
  BY StepFacts, V4Calls DEF CallsOf
<1>2. /\ Len(calls) = IF native THEN 4 ELSE 3
      /\ calls[1] = Call("SWAP_EXACT_IN_SINGLE", Minimum, "router")
      /\ calls[2] = Call("SETTLE_ALL", 0, "pool")
      /\ calls[3] = Call("TAKE", 0, Trade.recipient)
      /\ native => calls[4] = Call("SWEEP", 0, "one")
  BY <1>1
<1> HIDE DEF calls
<1>3. /\ Tradeable /\ flow \in [spent : Nat, paid : Nat] /\ next' = next + 1
      /\ UNCHANGED <<Pool, Trade, Quoted, Plan>>
      /\ next \in 1..Len(calls) /\ Trade.recipient \notin {"one", "two"}
      /\ next > 1 => FlowRight /\ Underway
  BY StepFacts DEF calls
<1>4. Current = calls[next] /\ Value \in Int
  BY <1>3 DEF Current, Value, calls, Tradeable
<1>5. PICK to \in Accounts \ {"pool", "router"} : to = Trade.recipient
  BY <1>3 DEF Tradeable
<1>6. PICK c \in Tokens : c = Trade.currency_out
  BY <1>3 DEF Tradeable
<1>7. next \in 1..4 /\ (next = 4 => native)
  BY <1>2, <1>3
<1>8. CASE next = 1
  <2>1. Current.op = "SWAP_EXACT_IN_SINGLE" /\ Current.minimum = Minimum
    BY <1>2, <1>4, <1>8, CallFields
  <2>2. PICK spent \in 1..Trade.amount_in, paid \in Nat :
          /\ flow' = [spent |-> spent, paid |-> paid] /\ paid >= Minimum
          /\ bal' = Move(Nothing, "wallet", "router", Native, Value)
    BY <1>8, <2>1, FirstCall DEF SwapCalls
  <2>3. spent \in Nat
    BY <1>3 DEF Tradeable
  <2>4. bal' = Ledger(to, c, 0, 0, Value)
    BY <1>3, <2>2, SentLedger
  <2>5. bal' \in Balances
    <3>1. 0 \in Int
      OBVIOUS
    <3>2. \A held \in Int : Ledger(to, c, 0, 0, held) \in Balances
      BY <1>3, <3>1, LedgerType
    <3> QED BY <1>4, <2>4, <3>2
  <2>6. Underway'
    <3>1. next' = 2
      BY <1>3, <1>8
    <3>2. bal' = Ledger(Trade.recipient, Trade.currency_out, 0, 0, Value)'
      BY <1>3, <1>5, <1>6, <2>4 DEF Ledger, Value
    <3> QED BY <1>3, <3>1, <3>2 DEF Underway, Ledger
  <2>7. flow' \in [spent : Nat, paid : Nat] /\ flow'.spent = spent /\ flow'.paid = paid
    BY <2>2, <2>3
  <2> QED BY <1>2, <1>8, <2>2, <2>5, <2>6, <2>7, StepInv DEF calls
<1>9. CASE next = 2
  <2>1. SettleAll /\ FlowRight /\ bal = L(0, 0, Value)
    <3>1. Current.op = "SETTLE_ALL"
      BY <1>2, <1>4, <1>9, CallFields
    <3> QED BY <1>3, <1>9, <3>1, LaterCall DEF Underway
  <2>2. PICK spent \in Int : spent = flow.spent
    BY <1>3
  <2>3. bal' = Ledger(to, c, 0, spent, Rest)
    <3>1. bal' = Move(Ledger(to, c, 0, 0, Value), IF native THEN "router" ELSE "wallet", "pool",
                      Trade.currency_in, spent)
      BY <1>3, <1>5, <1>6, <2>1, <2>2 DEF SettleAll, Tradeable
    <3> QED BY <1>3, <2>2, <3>1, SettleLedger DEF Rest
  <2>4. bal' \in Balances
    <3>1. Rest \in Int
      BY <1>3 DEF Rest, Tradeable
    <3>2. 0 \in Int
      OBVIOUS
    <3> QED BY <1>3, <2>3, <3>1, <3>2, LedgerType
  <2>5. flow' = flow
    BY <2>1 DEF SettleAll
  <2>6. Underway'
    <3>1. next' = 3
      BY <1>3, <1>9
    <3>2. bal' = Ledger(Trade.recipient, Trade.currency_out, 0, flow.spent, Rest)'
      BY <1>3, <1>5, <1>6, <2>2, <2>3, <2>5 DEF Ledger, Rest
    <3> QED BY <1>3, <3>1, <3>2 DEF Underway, Ledger
  <2> QED BY <1>2, <1>3, <1>9, <2>1, <2>4, <2>5, <2>6, StepInv DEF calls, FlowRight, Minimum
<1>10. CASE next = 3
  <2>1. Take /\ FlowRight /\ bal = L(0, flow.spent, Rest) /\ Current.to = Trade.recipient
    <3>1. Current.op = "TAKE" /\ Current.to = Trade.recipient
      BY <1>2, <1>4, <1>10, CallFields
    <3> QED BY <1>3, <1>10, <3>1, LaterCall DEF Underway
  <2>2. PICK spent, paid \in Int : spent = flow.spent /\ paid = flow.paid
    BY <1>3
  <2>3. PICK held \in Int : held = Rest
    BY <1>3 DEF Rest, Tradeable
  <2>4. bal' = Ledger(to, c, paid, spent, held)
    <3>1. Alias(Current.to) = to
      BY <1>3, <1>5, <2>1 DEF Alias
    <3>2. bal' = Move(Ledger(to, c, 0, spent, held), "pool", to, c, paid)
      BY <1>5, <1>6, <2>1, <2>2, <2>3, <3>1 DEF Take
    <3> QED BY <1>3, <3>2, TakeLedger
  <2>5. bal' \in Balances
    BY <1>3, <2>4, LedgerType
  <2>6. flow' = flow
    BY <2>1 DEF Take
  <2>7. Underway'
    <3>1. next' = 4
      BY <1>3, <1>10
    <3>2. bal' = Ledger(Trade.recipient, Trade.currency_out, flow.paid, flow.spent, Rest)'
      BY <1>3, <1>5, <1>6, <2>2, <2>3, <2>4, <2>6 DEF Ledger, Rest
    <3> QED BY <1>3, <3>1, <3>2 DEF Underway, Ledger
  <2>8. ~native => Rest = 0
    BY DEF Rest
  <2>9. next = Len(calls) =>
          bal' = Ledger(Trade.recipient, Trade.currency_out, flow'.paid, flow'.spent, 0)
    BY <1>2, <1>5, <1>6, <1>10, <2>2, <2>3, <2>4, <2>6, <2>8
  <2> QED BY <1>3, <2>1, <2>5, <2>6, <2>7, <2>9, StepInv DEF calls, FlowRight, Minimum
<1>11. CASE next = 4
  <2>1. Current.op = "SWEEP"
    BY <1>2, <1>4, <1>7, <1>11, CallFields
  <2>2. bal = Ledger(Trade.recipient, Trade.currency_out, flow.paid, flow.spent, Rest)
    BY <1>3, <1>11 DEF Underway
  <2> QED BY <1>2, <1>7, <1>11, <2>1, <2>2, RefundStep DEF calls, LastCall
<1> QED BY <1>7, <1>8, <1>9, <1>10, <1>11

(* After the second call of V3 at the latest the output is where it should *)
(* be, and only native input has anything left to return.                  *)
LEMMA V3Delivered ==
  ASSUME LedgerInvariant, Step, Pool.kind = "V3", next \in {1, 2},
         flow' \in [spent : Nat, paid : Nat], flow'.spent \in 1..Trade.amount_in,
         flow'.paid >= Minimum,
         next = 1 => Plan.calls[1].to # "router",
         NEW rest \in Int, rest = IF Trade.currency_in = Native
                                  THEN Trade.amount_in - flow'.spent ELSE 0,
         bal' = Ledger(Trade.recipient, Trade.currency_out, flow'.paid, flow'.spent, rest),
         LastCall => Trade.currency_in # Native
  PROVE  LedgerInvariant'
<1>1. /\ Tradeable /\ next' = next + 1 /\ UNCHANGED <<Pool, Trade, Quoted, Plan>>
  BY StepFacts
<1>2. PICK to \in Accounts \ {"pool"} : to = Trade.recipient
  BY <1>1 DEF Tradeable
<1>3. PICK c \in Tokens : c = Trade.currency_out
  BY <1>1 DEF Tradeable
<1>4. PICK spent, paid \in Int : spent = flow'.spent /\ paid = flow'.paid
  OBVIOUS
<1>5. bal' = Ledger(to, c, paid, spent, rest)
  BY <1>2, <1>3, <1>4
<1>6. bal' \in Balances
  <2>1. \A held \in Int : Ledger(to, c, paid, spent, held) \in Balances
    BY <1>1, LedgerType
  <2> QED BY <1>5, <2>1
<1>7. Underway'
  <2>1. Rest' = rest
    BY <1>1 DEF Rest
  <2>2. bal' = Ledger(Trade.recipient, Trade.currency_out, flow.paid, flow.spent, Rest)'
    BY <1>1, <1>2, <1>3, <1>4, <1>5, <2>1 DEF Ledger
  <2>3. (next' = 2 => Plan'.calls[1].to # "router") /\ Pool'.kind = "V3"
    BY <1>1
  <2> QED BY <2>2, <2>3 DEF Underway
<1>8. LastCall => bal' = Ledger(Trade.recipient, Trade.currency_out, flow'.paid, flow'.spent, 0)
  OBVIOUS
<1> QED BY <1>6, <1>7, <1>8, StepInv DEF LastCall

LEMMA V3Step ==
  ASSUME LedgerInvariant, Step, Pool.kind = "V3"
  PROVE  LedgerInvariant'
<1> DEFINE calls == Plan.calls
           native == Trade.currency_in = Native
           wraps == Trade.currency_out = Native
           aliased == Trade.recipient \in {"one", "two"}
           relay == wraps \/ aliased
           rest(spent) == IF native THEN Trade.amount_in - spent ELSE 0
<1>1. /\ Tradeable /\ flow \in [spent : Nat, paid : Nat] /\ next' = next + 1
      /\ UNCHANGED <<Pool, Trade, Quoted, Plan>> /\ next \in 1..Len(calls)
      /\ next > 1 => FlowRight /\ Underway
      /\ Underlying(Weth, Trade.currency_in) # Underlying(Weth, Trade.currency_out)
      /\ calls = CallsOf(Pool, Trade, Minimum)
  BY StepFacts
<1>2. calls = IF wraps
              THEN <<Call("exactInputSingle", Minimum, "router"),
                     Call("unwrapWETH9", Minimum, Trade.recipient)>>
              ELSE IF aliased
              THEN IF native
                   THEN <<Call("exactInputSingle", Minimum, "router"),
                          Call("sweepToken", Minimum, Trade.recipient),
                          Call("refundETH", 0, Trade.sender)>>
                   ELSE <<Call("exactInputSingle", Minimum, "router"),
                          Call("sweepToken", Minimum, Trade.recipient)>>
              ELSE IF native
                   THEN <<Call("exactInputSingle", Minimum, Trade.recipient),
                          Call("refundETH", 0, Trade.sender)>>
                   ELSE <<Call("exactInputSingle", Minimum, Trade.recipient)>>
  BY <1>1, V3Calls DEF CallsOf, Tradeable
<1>3. native => ~wraps
  BY <1>1 DEF Tradeable
<1>4. /\ Len(calls) = (IF relay THEN 2 ELSE 1) + (IF native THEN 1 ELSE 0)
      /\ calls[1] = Call("exactInputSingle", Minimum, IF relay THEN "router" ELSE Trade.recipient)
      /\ wraps => calls[2] = Call("unwrapWETH9", Minimum, Trade.recipient)
      /\ aliased /\ ~wraps => calls[2] = Call("sweepToken", Minimum, Trade.recipient)
      /\ native => calls[Len(calls)] = Call("refundETH", 0, Trade.sender)
  <2>1. CASE wraps
    BY <1>2, <1>3, <2>1
  <2>2. CASE ~wraps /\ aliased
    BY <1>2, <2>2
  <2>3. CASE ~wraps /\ ~aliased
    BY <1>2, <2>3
  <2> QED BY <2>1, <2>2, <2>3
<1> HIDE DEF calls
<1>5. Current = calls[next] /\ (LastCall <=> next = Len(calls))
  BY DEF Current, calls, LastCall
<1>6. PICK to \in Accounts \ {"pool", "router"} : to = Trade.recipient
  BY <1>1 DEF Tradeable
<1>7. PICK out \in Tokens : out = Trade.currency_out
  BY <1>1 DEF Tradeable
<1>8. PICK c \in Tokens : c = Path(Weth, Trade)[2] /\ c = (IF wraps THEN Weth ELSE out)
  BY <1>1, <1>7 DEF Path, Underlying, Tradeable
<1>9. next \in 1..3 /\ (next = 2 => relay \/ native) /\ (next = 3 => relay /\ native)
  BY <1>1, <1>4
<1>10. calls[1].to = IF relay THEN "router" ELSE Trade.recipient
  BY <1>4, CallFields
<1>11. Trade.recipient # "router"
  BY <1>1 DEF Tradeable
<1>12. CASE next = 1
  <2>1. /\ Current.op = "exactInputSingle" /\ Current.minimum = Minimum
        /\ Current.to = IF relay THEN "router" ELSE Trade.recipient
    BY <1>4, <1>5, <1>12, CallFields
  <2>2. PaidIn = c
    BY <1>8, <2>1 DEF PaidIn
  <2>3. PICK at \in Accounts \ {"pool"} : at = Alias(Current.to)
                                          /\ at = (IF relay THEN "router" ELSE to)
    BY <1>6, <2>1, AccountsApart DEF Alias
  <2>4. PICK spent \in 1..Trade.amount_in, paid \in Nat :
          /\ flow' = [spent |-> spent, paid |-> paid] /\ paid >= Minimum
          /\ bal' = Move(Move(Move(Nothing, "wallet", "router", Native, Value),
                              IF native THEN "router" ELSE "wallet", "pool",
                              Trade.currency_in, spent),
                         "pool", at, c, paid)
    BY <1>12, <2>1, <2>2, <2>3, FirstCall DEF SwapCalls
  <2>5. spent \in Nat /\ spent \in Int /\ paid \in Int
    BY <1>1 DEF Tradeable
  <2>6. PICK left \in Int : left = rest(spent)
    BY <1>1, <2>5 DEF Tradeable
  <2>7. bal' = Ledger(at, c, paid, spent, left)
    BY <1>1, <2>4, <2>5, <2>6, SwapLedger
  <2>8. flow' \in [spent : Nat, paid : Nat] /\ flow'.spent = spent /\ flow'.paid = paid
    BY <2>4, <2>5
  <2>9. CASE relay
    <3>1. bal' \in Balances
      BY <1>1, <2>5, <2>7, LedgerType
    <3>2. next # Len(calls)
      BY <1>4, <1>12, <2>9
    <3>3. Underway'
      <4>1. next' = 2 /\ Plan'.calls[1].to = "router"
        BY <1>1, <1>10, <1>12, <2>9 DEF calls
      <4>2. Rest' = left
        BY <1>1, <2>6, <2>8 DEF Rest
      <4>3. bal' = Ledger("router", Path(Weth, Trade)[2], flow.paid, flow.spent, Rest)'
        BY <1>1, <1>8, <2>3, <2>7, <2>8, <2>9, <4>2 DEF Ledger, Path
      <4> QED BY <1>1, <4>1, <4>3 DEF Underway
    <3> QED BY <2>4, <2>8, <3>1, <3>2, <3>3, StepInv DEF calls
  <2>10. CASE ~relay
    <3>1. Plan.calls[1].to # "router"
      BY <1>10, <1>11, <2>10 DEF calls
    <3>2. LastCall => ~native
      BY <1>4, <1>5, <1>12
    <3>3. bal' = Ledger(Trade.recipient, Trade.currency_out, flow'.paid, flow'.spent, left)
      BY <1>6, <1>7, <1>8, <2>3, <2>7, <2>8, <2>10
    <3>4. left = IF Trade.currency_in = Native THEN Trade.amount_in - flow'.spent ELSE 0
      BY <2>6, <2>8
    <3> QED BY <1>12, <2>4, <2>8, <3>1, <3>2, <3>3, <3>4, V3Delivered
  <2> QED BY <2>9, <2>10
<1>13. CASE next = 2 /\ relay
  <2>1. FlowRight /\ bal = Ledger("router", Path(Weth, Trade)[2], flow.paid, flow.spent, Rest)
    BY <1>1, <1>10, <1>13 DEF Underway, calls
  <2>2. PICK spent, paid \in Int : spent = flow.spent /\ paid = flow.paid
    BY <1>1
  <2>3. PICK left \in Int : left = rest(spent) /\ left = Rest
    BY <1>1, <2>2 DEF Rest, Tradeable
  <2>4. bal = Ledger("router", c, paid, spent, left)
    BY <1>8, <2>1, <2>2, <2>3
  <2>5. Paid = bal
    BY <1>13 DEF Paid
  <2>6. bal' = Ledger(to, out, paid, spent, left) /\ UNCHANGED flow
    <3>1. CASE wraps
      <4>1. Current.op = "unwrapWETH9" /\ Current.to = to
        BY <1>4, <1>5, <1>6, <1>13, <3>1, CallFields
      <4>2. UnwrapWETH9
        BY <4>1, LaterCall
      <4>3. Trade.currency_in # Weth /\ out = Native /\ c = Weth
        BY <1>1, <1>7, <1>8, <3>1 DEF Underlying
      <4>4. /\ bal["router"][Weth] = paid
            /\ Move(Move(bal, "router", "pool", Weth, paid), "pool", to, Native, paid)
                 = Ledger(to, Native, paid, spent, left)
        BY <1>1, <2>4, <4>3, UnwrapLedger
      <4>5. Left(Weth) = paid
        BY <2>5, <4>4 DEF Left
      <4> QED BY <4>1, <4>2, <4>3, <4>4, <4>5 DEF UnwrapWETH9
    <3>2. CASE ~wraps
      <4>1. Current.op = "sweepToken" /\ Current.to = to
        BY <1>4, <1>5, <1>6, <1>13, <3>2, CallFields
      <4>2. SweepToken
        BY <4>1, LaterCall
      <4>3. out # Native /\ out # Trade.currency_in /\ c = out
        BY <1>1, <1>7, <1>8, <3>2 DEF Tradeable
      <4>4. /\ bal["router"][out] = paid
            /\ Move(bal, "router", to, out, paid) = Ledger(to, out, paid, spent, left)
        BY <1>1, <2>4, <4>3, SweepLedger
      <4>5. Left(out) = paid
        BY <2>5, <4>4 DEF Left
      <4> QED BY <1>7, <4>1, <4>2, <4>4, <4>5 DEF SweepToken
    <3> QED BY <3>1, <3>2
  <2>7. LastCall => ~native
    BY <1>3, <1>4, <1>5, <1>13
  <2>8. /\ flow' = flow /\ flow'.spent \in 1..Trade.amount_in /\ flow'.paid >= Minimum
        /\ flow' \in [spent : Nat, paid : Nat]
    BY <1>1, <2>1, <2>6 DEF FlowRight, Minimum
  <2>9. bal' = Ledger(Trade.recipient, Trade.currency_out, flow'.paid, flow'.spent, left)
    BY <1>6, <1>7, <2>2, <2>6
  <2>10. left = IF Trade.currency_in = Native THEN Trade.amount_in - flow'.spent ELSE 0
    BY <2>2, <2>3, <2>6
  <2> QED BY <1>13, <2>6, <2>7, <2>8, <2>9, <2>10, V3Delivered
<1>14. CASE (next = 2 /\ ~relay) \/ next = 3
  <2>1. next = Len(calls) /\ native /\ next \in Nat \ {0, 1} /\ next > 1
    BY <1>4, <1>9, <1>14
  <2>2. Current.op = "refundETH"
    BY <1>4, <1>5, <2>1, CallFields
  <2>3. bal = Ledger(Trade.recipient, Trade.currency_out, flow.paid, flow.spent, Rest)
    <3>1. next # 2 \/ Plan.calls[1].to # "router"
      BY <1>10, <1>11, <1>14 DEF calls
    <3>2. Underway
      BY <1>1, <2>1
    <3> QED BY <3>1, <3>2 DEF Underway
  <2> QED BY <1>5, <2>1, <2>2, <2>3, RefundStep
<1> QED BY <1>9, <1>12, <1>13, <1>14

-----------------------------------------------------------------------------
(***************************************************************************)
(* The theorems.                                                           *)
(***************************************************************************)
LEMMA StutterInv ==
  ASSUME LedgerInvariant, UNCHANGED vars
  PROVE  LedgerInvariant'
<1>1. UNCHANGED <<phase, world, order, quote, plan, next, flow, bal>>
  BY DEF vars
<1>2. UNCHANGED <<Pool, Trade, Quoted, Plan>>
  BY <1>1, Frame
<1>3. TypeOK'
  BY <1>1 DEF LedgerInvariant, TypeOK
<1>4. QuoteRight' /\ PlanRight'
  BY <1>1, <1>2 DEF LedgerInvariant, QuoteRight, PlanRight
<1>5. Stage'
  BY <1>1, <1>2 DEF LedgerInvariant, Stage
<1>6. FlowRight <=> FlowRight'
  BY <1>1, <1>2 DEF FlowRight
<1>7. Underway <=> Underway'
  BY <1>1, <1>2 DEF Underway, Ledger, Value, Rest
<1>8. LandsWithRecipient'
  BY <1>1, <1>2 DEF LedgerInvariant, LandsWithRecipient
<1> QED BY <1>1, <1>3, <1>4, <1>5, <1>6, <1>7, <1>8 DEF LedgerInvariant

LEMMA NextInv == LedgerInvariant /\ [Next]_vars => LedgerInvariant'
<1> SUFFICES ASSUME LedgerInvariant, [Next]_vars PROVE LedgerInvariant'
  OBVIOUS
<1>1. ASSUME NEW p \in Offered, NEW t \in Trades, Ask(p, t) PROVE LedgerInvariant'
  BY <1>1, AskInv
<1>2. CASE Market
  BY <1>2, MarketInv
<1>3. ASSUME NEW s \in Slippages, Build(s) PROVE LedgerInvariant'
  BY <1>3, BuildInv
<1>4. CASE Step
  <2>1. Pool.kind \in {"V2", "V3", "V4"}
    BY <1>4, StepFacts, DirectSwapAssumption
  <2> QED BY <1>4, <2>1, V2Step, V3Step, V4Step
<1>5. CASE Revert
  <2>1. /\ phase = "built" /\ phase' = "reverted" /\ bal' = Nothing
        /\ UNCHANGED <<world, order, quote, plan, next, flow>>
    BY <1>5 DEF Revert
  <2>2. UNCHANGED <<Pool, Trade, Quoted, Plan>>
    BY <2>1, Frame
  <2>3. TypeOK'
    BY <2>1, NothingAt DEF LedgerInvariant, TypeOK, Balances
  <2>4. QuoteRight' /\ PlanRight'
    BY <2>1, <2>2 DEF LedgerInvariant, QuoteRight, PlanRight
  <2>5. Stage'
    BY <2>1 DEF LedgerInvariant, Stage
  <2> QED BY <2>1, <2>3, <2>4, <2>5 DEF LedgerInvariant, LandsWithRecipient
<1>6. CASE Again
  <2>1. /\ phase' = "ask" /\ order' = {} /\ quote' = {} /\ plan' = {} /\ next' = 1
        /\ flow' = [spent |-> 0, paid |-> 0] /\ bal' = Nothing /\ UNCHANGED world
    BY <1>6 DEF Again
  <2>2. TypeOK'
    BY <2>1, NothingAt DEF LedgerInvariant, TypeOK, Balances
  <2> QED BY <2>1, <2>2 DEF LedgerInvariant, QuoteRight, PlanRight, Stage, LandsWithRecipient
<1>7. CASE UNCHANGED vars
  BY <1>7, StutterInv
<1> QED BY <1>1, <1>2, <1>3, <1>4, <1>5, <1>6, <1>7 DEF Next

(* Through every quote, plan and call of a swap, whatever the pools, the   *)
(* trades and the moves of the chain: quotes and plans go back to the      *)
(* order, and the money is where the calls made so far have put it.        *)
THEOREM InvariantHolds == Spec => []LedgerInvariant
<1>1. Init => LedgerInvariant
  BY InitInv
<1>2. LedgerInvariant /\ [Next]_vars => LedgerInvariant'
  BY NextInv
<1> QED BY <1>1, <1>2, PTL DEF Spec

(* Whatever pools are offered, forged ones and those of forks included, an *)
(* adapter quotes only what the genuine pool of that identity would pay in *)
(* the deployment through which the swap goes (quote and connect in        *)
(* src/src/uniswap/v2.rs, v3.rs, v4.rs).                                   *)
THEOREM QuotedPoolIsRealHolds == Spec => []QuotedPoolIsReal
<1>1. QuoteRight => QuotedPoolIsReal
  <2> SUFFICES ASSUME QuoteRight, NEW q \in quote
               PROVE  LET forward == IF Pool.kind = "V4" THEN Trade.currency_in < Trade.currency_out
                                     ELSE Forward(Path(Weth, Trade))
                      IN  \E i \in q.world.deployed \cap Genuine :
                            /\ Key(Claim[i]) = Key(Pool) /\ Claim[i].deployment = Pool.deployment
                            /\ Claim[i].deployment \in {V2Factory, V3Factory, PoolManager}
                            /\ q.amount_out = Output(q.world, i, forward, Trade.amount_in)
    BY DEF QuotedPoolIsReal
  <2>1. PICK w \in Worlds, p \in Offered, t \in Trades : w = q.world /\ p = Pool /\ t = Trade
    BY DEF QuoteRight
  <2>2. q.amount_out \in Quotes(w, p, t)
    BY <2>1 DEF QuoteRight
  <2> QED BY <2>1, <2>2, QuoteSound
<1>2. LedgerInvariant => QuotedPoolIsReal
  BY <1>1 DEF LedgerInvariant
<1> QED BY <1>2, InvariantHolds, PTL

(* A swap with Uniswap's own routers that is done has moved exactly what   *)
(* the trade said: the sender lost what the pool took, at most the input;  *)
(* the recipient, be its address one of the routers' aliases, gained the   *)
(* output, at least the minimum; and the router kept nothing (build_swap   *)
(* and swap_calldata in src/src/uniswap/v2.rs, v3.rs, v4.rs).              *)
THEOREM LandsWithRecipientHolds == Spec => []LandsWithRecipient
<1>1. LedgerInvariant => LandsWithRecipient
  BY DEF LedgerInvariant
<1> QED BY <1>1, InvariantHolds, PTL
=============================================================================
