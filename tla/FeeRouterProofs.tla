--------------------------- MODULE FeeRouterProofs ---------------------------
(***************************************************************************)
(* Proofs about the FeeRouter contract, for every set of tokens, accounts, *)
(* requests and balances: its inductive invariant, and from it that a swap *)
(* never spends what the router held and charges the fee that was shown.   *)
(* The arithmetic of fees and minimums comes first.                        *)
(***************************************************************************)
EXTENDS FeeRouterInvariant, TLAPS

-----------------------------------------------------------------------------
(***************************************************************************)
(* The SDK's split multiplication computes exactly what the contract's     *)
(* mulDiv does, for every amount the machine word holds.                   *)
(***************************************************************************)

(* Division with remainder.                                                *)
LEMMA Division ==
  ASSUME NEW a \in Nat, NEW b \in Nat \ {0}
  PROVE  /\ a \div b \in Nat /\ a % b \in 0..b - 1
         /\ a = b * (a \div b) + (a % b)
  OBVIOUS

LEMMA Monotone ==
  ASSUME NEW a \in Nat, NEW b \in Nat, NEW c \in Nat, b <= c
  PROVE  a * b <= a * c
  OBVIOUS

(* Quotient and remainder are the only such pair.                          *)
LEMMA DivisionUnique ==
  ASSUME NEW a \in Nat, NEW b \in Nat \ {0}, NEW q \in Nat, NEW r \in 0..b - 1,
         a = b * q + r
  PROVE  a \div b = q /\ a % b = r
  BY Division

(* The split product overflows nowhere, and is the exact quotient.         *)
THEOREM SplitIsExact ==
  ASSUME NEW whole \in U256, NEW rate \in Rates
  PROVE  PerBps(whole, rate) = mulDiv(whole, rate)
<1> USE FeeMathAssumption DEF U256, Rates
<1> DEFINE q == whole \div BPS
           r == whole % BPS
           d == (r * rate) \div BPS
           e == (r * rate) % BPS
<1>1. q \in Nat /\ r \in 0..BPS - 1 /\ whole = BPS * q + r
  <2>1. whole \in Nat /\ BPS \in Nat \ {0}
    OBVIOUS
  <2> QED BY <2>1, Division, Zenon
<1> HIDE DEF q, r
<1>2. r * rate \in Nat /\ r * rate <= r * BPS /\ r * BPS <= BPS * BPS
  <2>1. r * rate <= r * BPS
    BY <1>1, Monotone
  <2>2. BPS * r <= BPS * BPS
    BY <1>1, Monotone
  <2> QED BY <1>1, <2>1, <2>2
<1>3. d \in Nat /\ e \in 0..BPS - 1 /\ r * rate = BPS * d + e
  BY <1>2, Division
<1> HIDE DEF d, e
<1>4. d <= r
  <2>1. SUFFICES ASSUME d >= r + 1 PROVE FALSE
    BY <1>1, <1>3
  <2>2. BPS * (r + 1) <= BPS * d
    BY <1>1, <1>3, <2>1, Monotone
  <2>3. BPS * (r + 1) = r * BPS + BPS
    BY <1>1
  <2> QED BY <1>1, <1>2, <1>3, <2>2, <2>3
<1>5. q * rate \in Nat /\ q * rate <= BPS * q
  <2>1. q * rate <= q * BPS
    BY <1>1, Monotone
  <2> QED BY <1>1, <2>1
<1>6. whole * rate = BPS * (q * rate + d) + e
  <2>1. (BPS * q + r) * rate = BPS * (q * rate) + r * rate
    BY <1>1
  <2>2. BPS * (q * rate + d) = BPS * (q * rate) + BPS * d
    BY <1>3, <1>5
  <2> QED BY <1>1, <1>2, <1>3, <1>5, <2>1, <2>2
<1>7. mulDiv(whole, rate) = q * rate + d
  <2>1. whole * rate \in Nat /\ q * rate + d \in Nat
    BY <1>3, <1>5
  <2> QED BY <1>3, <1>6, <2>1, DivisionUnique DEF mulDiv
<1>8. /\ Wrap(q * rate) = q * rate /\ Wrap(r * rate) = r * rate
      /\ Wrap(q * rate + d) = q * rate + d
  <2>1. \A n \in 0..Width - 1 : Wrap(n) = n
    BY DEF Wrap
  <2>2. q * rate \in U256 /\ r * rate \in U256 /\ q * rate + d \in U256
    BY <1>1, <1>2, <1>3, <1>4, <1>5
  <2> QED BY <2>1, <2>2
<1> QED BY <1>7, <1>8 DEF PerBps, q, r, d

(* The fee the SDK shows is the fee the contract charges at that rate.     *)
THEOREM FeesAgree ==
  \A whole \in U256, rate \in Rates :
    calculate_fee(whole, rate) = mulDiv(whole, rate)
BY SplitIsExact DEF calculate_fee

(* The minimum output is a floor of the quote, never above it.             *)
THEOREM MinimumIsFloor ==
  \A quoted \in U256, slippage \in Rates :
    /\ BPS * minimum_amount_out(quoted, slippage) <= quoted * (BPS - slippage)
    /\ quoted * (BPS - slippage) < BPS * (minimum_amount_out(quoted, slippage) + 1)
    /\ minimum_amount_out(quoted, slippage) <= quoted
<1> USE FeeMathAssumption DEF U256, Rates
<1> SUFFICES ASSUME NEW quoted \in U256, NEW slippage \in Rates
             PROVE  LET m == minimum_amount_out(quoted, slippage)
                        k == BPS - slippage
                    IN  /\ BPS * m <= quoted * k
                        /\ quoted * k < BPS * (m + 1)
                        /\ m <= quoted
  OBVIOUS
<1> DEFINE k == BPS - slippage
           m == (quoted * k) \div BPS
           e == (quoted * k) % BPS
<1>1. k \in 0..BPS /\ quoted * k \in Nat
  OBVIOUS
<1>2. minimum_amount_out(quoted, slippage) = m
  BY <1>1, SplitIsExact DEF minimum_amount_out, mulDiv
<1>3. m \in Nat /\ e \in 0..BPS - 1 /\ quoted * k = BPS * m + e
  BY <1>1, Division
<1>4. BPS * (m + 1) = BPS * m + BPS
  BY <1>3
<1>5. m <= quoted
  <2>1. SUFFICES ASSUME m >= quoted + 1 PROVE FALSE
    BY <1>3
  <2>2. BPS * (quoted + 1) <= BPS * m
    BY <1>3, <2>1, Monotone
  <2>3. quoted * k <= quoted * BPS
    BY <1>1, Monotone
  <2>4. BPS * (quoted + 1) = quoted * BPS + BPS
    OBVIOUS
  <2> QED BY <1>1, <1>3, <2>2, <2>3, <2>4
<1> QED BY <1>1, <1>2, <1>3, <1>4, <1>5

-----------------------------------------------------------------------------
(***************************************************************************)
(* Transfers between holders.                                              *)
(***************************************************************************)
(* A transfer between two holders moves n of one token and nothing else.   *)
LEMMA Transfers ==
  ASSUME NEW b \in Ledgers, NEW t \in Tokens, NEW from \in Holders, NEW to \in Holders,
         from # to, NEW n \in Nat, n <= b[t][from]
  PROVE  /\ Pays(b, t, from, to, n) \in Ledgers
         /\ \A u \in Tokens, h \in Holders :
              Pays(b, t, from, to, n)[u][h] =
                CASE u = t /\ h = from -> b[u][h] - n
                  [] u = t /\ h = to   -> b[u][h] + n
                  [] OTHER             -> b[u][h]
<1>1. b[t] \in [Holders -> Nat]
  BY DEF Ledgers
<1> QED BY <1>1 DEF Pays, Moved, Earns, Loses, Ledgers

(* What the router itself has after paying, and after being paid.          *)
LEMMA RouterPays ==
  ASSUME NEW b \in Ledgers, NEW t \in Tokens, NEW to \in Holders \ {Router},
         NEW n \in Nat, n <= b[t][Router]
  PROVE  /\ Pays(b, t, Router, to, n) \in Ledgers
         /\ \A u \in Tokens : Pays(b, t, Router, to, n)[u][Router] =
              IF u = t THEN b[u][Router] - n ELSE b[u][Router]
<1>1. Router \in Holders
  BY DEF Holders
<1> QED BY <1>1, Transfers

LEMMA RouterReceives ==
  ASSUME NEW b \in Ledgers, NEW t \in Tokens, NEW from \in Holders \ {Router},
         NEW n \in Nat, n <= b[t][from]
  PROVE  /\ Pays(b, t, from, Router, n) \in Ledgers
         /\ \A u \in Tokens : Pays(b, t, from, Router, n)[u][Router] =
              IF u = t THEN b[u][Router] + n ELSE b[u][Router]
<1>1. Router \in Holders
  BY DEF Holders
<1> QED BY <1>1, Transfers

LEMMA BalanceType ==
  ASSUME NEW b \in Ledgers, NEW t \in Tokens, NEW h \in Holders
  PROVE  b[t][h] \in Nat
BY DEF Ledgers

LEMMA FeeType ==
  ASSUME NEW n \in Nat, NEW rate \in Rates
  PROVE  mulDiv(n, rate) \in Nat
<1>1. n * rate \in Nat /\ BPS \in Nat \ {0}
  BY FeeMathAssumption DEF Rates
<1> QED BY <1>1, Division DEF mulDiv

(* The request of the running transaction, and its hop.                    *)
LEMMA RunningRequest ==
  ASSUME TypeOK, pc # "idle"
  PROVE  /\ Req \in Requests /\ call = {Req}
         /\ Req.caller \in Holders \ {Router} /\ Req.recipient \in Holders \ {Router}
         /\ Req.tokenIn \in Tokens /\ Req.tokenOut \in Tokens
         /\ Req.amountIn \in U256 \ {0} /\ Req.amountIn \in Nat
         /\ Req.expected \subseteq Rates
         /\ Fee \in Nat
<1>1. PICK r \in Requests : call = {r}
  BY DEF TypeOK
<1>2. Req = r
  BY <1>1 DEF Req
<1>3. r \in RequestType
  BY FeeRouterAssumption
<1>4. r.amountIn \in Nat /\ start.feeBps \in Rates
  BY <1>3, FeeMathAssumption DEF RequestType, U256, TypeOK
<1>5. Fee \in Nat
  BY <1>2, <1>4, FeeType DEF Fee
<1> QED BY <1>1, <1>2, <1>3, <1>4, <1>5, FeeRouterAssumption DEF RequestType, Holders

LEMMA RunningHop ==
  ASSUME TypeOK, pc # "idle", MoreHops
  PROVE  Hop.tokenIn \in Tokens /\ Hop.tokenOut \in Tokens /\ Hop.tokenIn # Hop.tokenOut
<1>1. Req \in RequestType
  BY RunningRequest, FeeRouterAssumption
<1>2. Req.hops \in Seq(Hops) /\ hop \in 1..Len(Req.hops)
  BY <1>1 DEF RequestType, MoreHops, TypeOK
<1>3. Hop \in Hops
  BY <1>2 DEF Hop
<1> QED BY <1>3 DEF Hops
(* The wrapped-native contract swaps amount of one currency for the other. *)
LEMMA WrapsNative ==
  ASSUME NEW b \in Ledgers, NEW n \in Nat, n <= b[Native][Router]
  PROVE  /\ deposit(b, n) \in Ledgers
         /\ deposit(b, n)[Native][Router] = b[Native][Router] - n
         /\ deposit(b, n)[Wrapped][Router] = b[Wrapped][Router] + n
         /\ \A t \in Tokens \ {Native, Wrapped} : deposit(b, n)[t][Router] = b[t][Router]
<1> DEFINE p == Pays(b, Native, Router, World, n)
<1>1. /\ p \in Ledgers /\ Native \in Tokens /\ Wrapped \in Tokens /\ Native # Wrapped
      /\ Router \in Holders
      /\ \A u \in Tokens : p[u][Router] = IF u = Native THEN b[u][Router] - n ELSE b[u][Router]
  BY RouterPays, FeeRouterAssumption DEF Holders
<1>2. p[Wrapped] \in [Holders -> Nat]
  BY <1>1 DEF Ledgers
<1>3. deposit(b, n) = [p EXCEPT ![Wrapped] = [p[Wrapped] EXCEPT ![Router] = p[Wrapped][Router] + n]]
  BY DEF deposit, Earns
<1> HIDE DEF p
<1> DEFINE w == [p[Wrapped] EXCEPT ![Router] = p[Wrapped][Router] + n]
<1>4. w \in [Holders -> Nat] /\ w[Router] = b[Wrapped][Router] + n
  <2>1. p[Wrapped][Router] = b[Wrapped][Router] /\ b[Wrapped][Router] \in Nat
    BY <1>1, BalanceType
  <2> QED BY <1>1, <1>2, <2>1
<1>5. deposit(b, n) = [p EXCEPT ![Wrapped] = w]
  BY <1>3
<1> HIDE DEF w
<1> QED BY <1>1, <1>4, <1>5 DEF Ledgers

LEMMA UnwrapsNative ==
  ASSUME NEW b \in Ledgers, NEW n \in Nat, n <= b[Native][World], n <= b[Wrapped][Router]
  PROVE  /\ withdraw(b, n) \in Ledgers
         /\ withdraw(b, n)[Native][Router] = b[Native][Router] + n
         /\ withdraw(b, n)[Wrapped][Router] = b[Wrapped][Router] - n
         /\ \A t \in Tokens \ {Native, Wrapped} : withdraw(b, n)[t][Router] = b[t][Router]
<1> DEFINE p == Pays(b, Native, World, Router, n)
<1>1. /\ p \in Ledgers /\ Native \in Tokens /\ Wrapped \in Tokens /\ Native # Wrapped
      /\ Router \in Holders
      /\ \A u \in Tokens : p[u][Router] = IF u = Native THEN b[u][Router] + n ELSE b[u][Router]
  BY RouterReceives, FeeRouterAssumption DEF Holders
<1>2. p[Wrapped] \in [Holders -> Nat]
  BY <1>1 DEF Ledgers
<1>3. withdraw(b, n) = [p EXCEPT ![Wrapped] = [p[Wrapped] EXCEPT ![Router] = p[Wrapped][Router] - n]]
  BY DEF withdraw, Loses
<1> HIDE DEF p
<1> DEFINE w == [p[Wrapped] EXCEPT ![Router] = p[Wrapped][Router] - n]
<1>4. w \in [Holders -> Nat] /\ w[Router] = b[Wrapped][Router] - n
  <2>1. p[Wrapped][Router] = b[Wrapped][Router] /\ b[Wrapped][Router] \in Nat
    BY <1>1, BalanceType
  <2> QED BY <1>1, <1>2, <2>1
<1>5. withdraw(b, n) = [p EXCEPT ![Wrapped] = w]
  BY <1>3
<1> HIDE DEF w
<1> QED BY <1>1, <1>4, <1>5 DEF Ledgers

(* Of the operators on the transaction, only its variables matter.         *)
LEMMA SameRequest ==
  ASSUME call' = call, start' = start
  PROVE  Req' = Req /\ Fee' = Fee /\ \A t : Reserved(t)' = Reserved(t)
<1>1. Req' = Req
  BY DEF Req
<1>2. Fee' = Fee
  BY <1>1 DEF Fee
<1> QED BY <1>1, <1>2 DEF Reserved

LEMMA SameHop ==
  ASSUME call' = call, hop' = hop
  PROVE  Hop' = Hop /\ MoreHops' = MoreHops
<1>1. Req' = Req
  BY DEF Req
<1> QED BY <1>1 DEF Hop, MoreHops

LEMMA SameTransaction ==
  ASSUME UNCHANGED transaction
  PROVE  /\ call' = call /\ hop' = hop /\ currency' = currency /\ amount' = amount
         /\ before' = before /\ start' = start
         /\ Req' = Req /\ Hop' = Hop /\ MoreHops' = MoreHops
         /\ \A t : Reserved(t)' = Reserved(t) /\ Carried(t)' = Carried(t)
<1>1. /\ call' = call /\ hop' = hop /\ currency' = currency /\ amount' = amount
      /\ before' = before /\ start' = start
  BY DEF transaction
<1> QED BY <1>1, SameRequest, SameHop DEF Carried

LEMMA ReservedType ==
  ASSUME TypeOK, pc # "idle", NEW t \in Tokens
  PROVE  Reserved(t) \in Nat /\ Carried(t) \in Nat
<1>1. start.bal[t][Router] \in Nat
  BY BalanceType DEF TypeOK, Holders
<1> QED BY <1>1, RunningRequest DEF Reserved, Carried, TypeOK

-----------------------------------------------------------------------------
(***************************************************************************)
(* The initial states, and one lemma per action.                           *)
(***************************************************************************)

LEMMA InitInvariant == Init => IInv
<1> SUFFICES ASSUME Init PROVE IInv
  OBVIOUS
<1>1. TypeOK
  BY FeeRouterAssumption, FeeMathAssumption DEF Init, TypeOK, Rates, None
<1> QED BY <1>1 DEF Init, IInv, NothingStanding, OnlyThisHop, TermsKept, HopUnderWay,
                    Accounting

LEMMA CallStep ==
  ASSUME IInv, NEW req \in Requests, Call(req)
  PROVE  IInv'
<1> DEFINE fee == mulDiv(req.amountIn, feeBps)
<1>1. /\ req \in RequestType /\ req.amountIn \in Nat /\ req.tokenIn \in Tokens
      /\ req.caller \in Holders \ {Router}
  BY FeeRouterAssumption, FeeMathAssumption DEF RequestType, U256, Holders
<1>2. fee \in Nat
  BY <1>1, FeeType DEF IInv, TypeOK
<1>3. /\ Req' = req /\ Fee' = fee /\ start'.bal = bal /\ pc' = "route"
      /\ amount' = req.amountIn - fee /\ amount' \in Nat /\ currency' = req.tokenIn
  <2>1. Req' = req
    BY DEF Call, Req
  <2>2. start'.bal = bal /\ start'.feeBps = feeBps
    BY DEF Call
  <2> QED BY <1>1, <1>2, <2>1, <2>2 DEF Call, Fee
<1>4. /\ bal' \in Ledgers
      /\ \A t \in Tokens : bal'[t][Router] =
           IF t = req.tokenIn THEN bal[t][Router] + req.amountIn ELSE bal[t][Router]
  BY <1>1, RouterReceives DEF Call, Pay, IInv, TypeOK
<1>5. TypeOK'
  <2>1. call' = {req} /\ start' = [bal |-> bal, feeBps |-> feeBps, gifts |-> gifts]
    BY DEF Call
  <2>2. calls' \in 0..MaxCalls
    BY FeeRouterAssumption DEF Call, IInv, TypeOK
  <2> QED BY <1>1, <1>3, <1>4, <2>1, <2>2 DEF Call, IInv, TypeOK
<1>6. NothingStanding' /\ OnlyThisHop' /\ HopUnderWay'
  BY <1>3 DEF Call, IInv, NothingStanding, OnlyThisHop, HopUnderWay
<1>7. TermsKept'
  BY <1>3 DEF Call, FeeAgreed, TermsKept
<1>8. Accounting'
  <2>1. SUFFICES ASSUME NEW t \in Tokens
                 PROVE  bal'[t][Router] >= Reserved(t)' + Carried(t)'
    BY <1>3 DEF Accounting
  <2>2. bal[t][Router] \in Nat
    BY BalanceType DEF IInv, TypeOK, Holders
  <2> HIDE DEF fee
  <2> QED BY <1>1, <1>2, <1>3, <1>4, <2>2 DEF Reserved, Carried
<1> QED BY <1>5, <1>6, <1>7, <1>8 DEF IInv

LEMMA ConvertStep ==
  ASSUME IInv, Convert
  PROVE  IInv'
<1>1. /\ TypeOK /\ pc = "route" /\ pc' = pc /\ amount' = amount /\ call' = call
      /\ start' = start /\ hop' = hop /\ before' = before /\ currency' = Needed
  BY DEF Convert, IInv
<1>2. /\ \A t \in Tokens : Reserved(t) \in Nat /\ Reserved(t)' = Reserved(t)
      /\ \A t \in Tokens : bal[t][Router] \in Nat /\ bal[t][Router] >= Reserved(t) + Carried(t)
      /\ Req' = Req /\ amount \in Nat /\ Native \in Tokens /\ Wrapped \in Tokens
      /\ Native # Wrapped
  BY <1>1, ReservedType, SameRequest, BalanceType, FeeRouterAssumption
  DEF IInv, Accounting, TypeOK, Holders
<1>3. Needed \in Tokens
  BY FeeRouterAssumption DEF Convert
<1>4. /\ bal' \in Ledgers
      /\ \A t \in Tokens : bal'[t][Router] >= Reserved(t)' + Carried(t)'
  <2>1. CASE currency = Native /\ Needed = Wrapped
    <3>1. amount <= bal[Native][Router]
      <4>1. bal[Native][Router] >= Reserved(Native) + amount
        BY <1>2, <2>1 DEF Carried
      <4> QED BY <1>2, <4>1
    <3>2. /\ bal' \in Ledgers
          /\ bal'[Native][Router] = bal[Native][Router] - amount
          /\ bal'[Wrapped][Router] = bal[Wrapped][Router] + amount
          /\ \A t \in Tokens \ {Native, Wrapped} : bal'[t][Router] = bal[t][Router]
      <4>1. bal' = deposit(bal, amount)
        BY <1>2, <2>1 DEF Convert
      <4>2. bal \in Ledgers
        BY <1>1 DEF TypeOK
      <4> QED BY <1>2, <3>1, <4>1, <4>2, WrapsNative
    <3> QED BY <1>1, <1>2, <2>1, <3>2 DEF Carried
  <2>2. CASE currency = Wrapped /\ Needed = Native
    <3>1. amount <= bal[Wrapped][Router]
      <4>1. bal[Wrapped][Router] >= Reserved(Wrapped) + amount
        BY <1>2, <2>2 DEF Carried
      <4> QED BY <1>2, <4>1
    <3>2. /\ bal' \in Ledgers
          /\ bal'[Native][Router] = bal[Native][Router] + amount
          /\ bal'[Wrapped][Router] = bal[Wrapped][Router] - amount
          /\ \A t \in Tokens \ {Native, Wrapped} : bal'[t][Router] = bal[t][Router]
      <4>1. /\ amount <= bal[Native][World]
            /\ bal' = withdraw(bal, amount)
        BY <1>2, <2>2 DEF Convert
      <4>2. bal \in Ledgers
        BY <1>1 DEF TypeOK
      <4> QED BY <1>2, <3>1, <4>1, <4>2, UnwrapsNative
    <3> QED BY <1>1, <1>2, <2>2, <3>2 DEF Carried
  <2> QED BY <2>1, <2>2 DEF Convert
<1>5. TypeOK'
  BY <1>1, <1>3, <1>4 DEF Convert, TypeOK
<1>6. NothingStanding' /\ OnlyThisHop' /\ TermsKept' /\ HopUnderWay'
  BY <1>1, <1>2 DEF Convert, IInv, NothingStanding, OnlyThisHop, TermsKept, HopUnderWay
<1>7. Accounting'
  BY <1>1, <1>4 DEF Accounting
<1> QED BY <1>5, <1>6, <1>7 DEF IInv

LEMMA BeginHopStep ==
  ASSUME IInv, BeginHop
  PROVE  IInv'
<1>1. /\ TypeOK /\ pc = "route" /\ pc' = "venue" /\ amount' = amount /\ call' = call
      /\ start' = start /\ hop' = hop /\ before' = bal /\ bal' = bal
      /\ currency' = currency /\ MoreHops /\ currency = Hop.tokenIn
  BY DEF BeginHop, IInv, Needed
<1>2. /\ Req' = Req /\ Hop' = Hop /\ MoreHops' = MoreHops
      /\ \A t : Reserved(t)' = Reserved(t) /\ Carried(t)' = Carried(t)
  BY <1>1, SameRequest, SameHop DEF Carried
<1>3. TypeOK'
  BY <1>1 DEF BeginHop, TypeOK
<1>4. NothingStanding' /\ OnlyThisHop'
  <2>1. allowance = None /\ pendingUnlock = 0 /\ entered = 2
    BY <1>1 DEF IInv, NothingStanding, TypeOK
  <2>2. CASE Hop.version = "V4"
    BY <1>1, <1>2, <2>1, <2>2 DEF BeginHop, NothingStanding, OnlyThisHop, None
  <2>3. CASE Hop.version # "V4"
    BY <1>1, <1>2, <2>1, <2>3 DEF BeginHop, NothingStanding, OnlyThisHop, None
  <2> QED BY <2>2, <2>3
<1>5. TermsKept' /\ HopUnderWay'
  BY <1>1, <1>2 DEF BeginHop, IInv, TermsKept, HopUnderWay
<1>6. Accounting'
  <2>1. \A t \in Tokens : bal[t][Router] \in Nat /\ bal[t][Router] >= Reserved(t) + Carried(t)
    BY <1>1, BalanceType DEF IInv, Accounting, TypeOK, Holders
  <2> QED BY <1>1, <1>2, <2>1 DEF Accounting
<1> QED BY <1>3, <1>4, <1>5, <1>6 DEF IInv

(* A trade takes only the hop's input from the router.                     *)
LEMMA TradeMoves ==
  ASSUME TypeOK, pc # "idle", MoreHops, NEW spent \in Nat, NEW out \in Nat,
         Trade(spent, out)
  PROVE  /\ bal' \in Ledgers
         /\ \A t \in Tokens : t # Hop.tokenIn => bal'[t][Router] >= bal[t][Router]
<1> DEFINE in == Hop.tokenIn
           o == Hop.tokenOut
           p == Pays(bal, in, Router, World, spent)
<1>1. /\ bal \in Ledgers /\ in \in Tokens /\ o \in Tokens /\ in # o
      /\ Router \in Holders /\ World \in Holders /\ Router # World
  BY RunningHop, FeeRouterAssumption DEF TypeOK, Holders
<1>2. spent <= bal[in][Router] /\ out <= bal[o][World] /\ bal' = Pays(p, o, World, Router, out)
  BY DEF Trade
<1> HIDE DEF in, o
<1>3. /\ p \in Ledgers
      /\ p[o][World] = bal[o][World]
      /\ \A t \in Tokens : t # in => p[t][Router] = bal[t][Router]
  BY <1>1, <1>2, Transfers
<1> HIDE DEF p
<1>4. /\ bal' \in Ledgers
      /\ \A t \in Tokens : bal'[t][Router] = IF t = o THEN p[t][Router] + out ELSE p[t][Router]
  BY <1>1, <1>2, <1>3, RouterReceives
<1>5. \A t \in Tokens : p[t][Router] \in Nat
  BY <1>1, <1>3, BalanceType
<1> QED BY <1>3, <1>4, <1>5 DEF in

LEMMA SwapV2V3Step ==
  ASSUME IInv, SwapV2V3
  PROVE  IInv'
<1>1. PICK spent \in 0..allowance[Hop.tokenIn], out \in 0..bal[Hop.tokenOut][World] :
           Trade(spent, out)
  BY DEF SwapV2V3
<1>2. /\ TypeOK /\ pc = "venue" /\ MoreHops /\ currency = Hop.tokenIn /\ currency \in Tokens
      /\ Hop.version # "V4" /\ pendingUnlock = 0 /\ pc' = "measure"
      /\ UNCHANGED <<feeBps, entered, pendingUnlock, transaction, gifts, calls>>
  BY <1>1 DEF SwapV2V3, Trade, IInv, HopUnderWay, OnlyThisHop, TypeOK
<1>3. spent \in Nat /\ out \in Nat
  BY <1>2, RunningHop, BalanceType DEF TypeOK, Holders
<1>4. /\ bal' \in Ledgers
      /\ \A t \in Tokens : t # currency => bal'[t][Router] >= bal[t][Router]
  BY <1>1, <1>2, <1>3, TradeMoves
<1>5. allowance' = None
  BY <1>2 DEF SwapV2V3, ApproveZero, None, IInv, NothingStanding, TypeOK
<1>6. TypeOK'
  BY <1>2, <1>4, <1>5 DEF TypeOK, None, transaction
<1>7. NothingStanding' /\ OnlyThisHop' /\ TermsKept' /\ HopUnderWay'
  BY <1>2, <1>5, SameTransaction
  DEF IInv, NothingStanding, OnlyThisHop, TermsKept, HopUnderWay
<1>8. Accounting'
  <2>1. \A t \in Tokens : /\ before[t][Router] >= Reserved(t) + Carried(t)
                          /\ t # currency => bal[t][Router] >= before[t][Router]
                          /\ bal[t][Router] \in Nat /\ before[t][Router] \in Nat
                          /\ bal'[t][Router] \in Nat
    BY <1>2, <1>4, BalanceType DEF IInv, Accounting, TypeOK, Holders
  <2> QED BY <1>2, <1>4, <2>1, SameTransaction DEF Accounting
<1> QED BY <1>6, <1>7, <1>8 DEF IInv

LEMMA UnlockCallbackStep ==
  ASSUME IInv, UnlockCallback
  PROVE  IInv'
<1>1. /\ TypeOK /\ pc = "venue" /\ pc' = "callback" /\ MoreHops /\ currency = Hop.tokenIn
      /\ pendingUnlock # 0 /\ pendingUnlock' = 0 /\ bal' = bal
      /\ UNCHANGED <<feeBps, entered, allowance, transaction, gifts, calls>>
  BY DEF UnlockCallback, Awaited, IInv, NothingStanding, HopUnderWay
<1>2. allowance = None
  BY <1>1 DEF IInv, OnlyThisHop, TypeOK
<1>3. TypeOK'
  BY <1>1 DEF TypeOK, transaction
<1>4. NothingStanding' /\ OnlyThisHop' /\ TermsKept' /\ HopUnderWay'
  BY <1>1, <1>2, SameTransaction
  DEF IInv, NothingStanding, OnlyThisHop, TermsKept, HopUnderWay
<1>5. Accounting'
  BY <1>1, SameTransaction DEF IInv, Accounting
<1> QED BY <1>3, <1>4, <1>5 DEF IInv

LEMMA SettleAndTakeStep ==
  ASSUME IInv, SettleAndTake
  PROVE  IInv'
<1>1. PICK spent \in 0..amount, out \in 1..bal[Hop.tokenOut][World] : Trade(spent, out)
  BY DEF SettleAndTake
<1>2. /\ TypeOK /\ pc = "callback" /\ MoreHops /\ currency = Hop.tokenIn /\ currency \in Tokens
      /\ pendingUnlock = 0 /\ allowance = None /\ pc' = "measure"
      /\ UNCHANGED <<feeBps, entered, pendingUnlock, allowance, transaction, gifts, calls>>
  BY <1>1 DEF SettleAndTake, Trade, IInv, HopUnderWay, NothingStanding, TypeOK
<1>3. spent \in Nat /\ out \in Nat
  BY <1>2, RunningHop, BalanceType DEF TypeOK, Holders
<1>4. /\ bal' \in Ledgers
      /\ \A t \in Tokens : t # currency => bal'[t][Router] >= bal[t][Router]
  BY <1>1, <1>2, <1>3, TradeMoves
<1>5. TypeOK'
  BY <1>2, <1>4 DEF TypeOK, transaction
<1>6. NothingStanding' /\ OnlyThisHop' /\ TermsKept' /\ HopUnderWay'
  BY <1>2, SameTransaction
  DEF IInv, NothingStanding, OnlyThisHop, TermsKept, HopUnderWay
<1>7. Accounting'
  <2>1. \A t \in Tokens : /\ before[t][Router] >= Reserved(t) + Carried(t)
                          /\ t # currency => bal[t][Router] >= before[t][Router]
                          /\ bal[t][Router] \in Nat /\ before[t][Router] \in Nat
                          /\ bal'[t][Router] \in Nat
    BY <1>2, <1>4, BalanceType DEF IInv, Accounting, TypeOK, Holders
  <2> QED BY <1>2, <1>4, <2>1, SameTransaction DEF Accounting
<1> QED BY <1>5, <1>6, <1>7 DEF IInv

LEMMA MeasureStep ==
  ASSUME IInv, Measure
  PROVE  IInv'
<1> DEFINE in == Hop.tokenIn
           o == Hop.tokenOut
           rest == Unspent(in)
<1>1. /\ TypeOK /\ pc = "measure" /\ pc' = "route" /\ pendingUnlock = 0 /\ allowance = None
      /\ currency = in /\ currency' = o /\ hop' = hop + 1 /\ amount' = bal[o][Router] - before[o][Router]
      /\ call' = call /\ start' = start
      /\ UNCHANGED <<feeBps, entered, pendingUnlock, allowance, before, gifts, calls>>
  BY DEF Measure, Output, IInv, HopUnderWay, NothingStanding
<1>2. /\ in \in Tokens /\ o \in Tokens /\ in # o
      /\ bal \in Ledgers /\ before \in Ledgers /\ amount \in Nat
      /\ Req.caller \in Holders \ {Router} /\ Req' = Req
      /\ \A t \in Tokens : /\ Reserved(t)' = Reserved(t) /\ Reserved(t) \in Nat
                           /\ bal[t][Router] \in Nat /\ before[t][Router] \in Nat
  BY <1>1, RunningHop, RunningRequest, SameRequest, ReservedType, BalanceType
  DEF IInv, HopUnderWay, TypeOK, Holders
<1>3. /\ bal[in][Router] <= before[in][Router]
      /\ before[in][Router] - bal[in][Router] <= amount
      /\ bal[o][Router] > before[o][Router]
      /\ rest = amount - (before[in][Router] - bal[in][Router])
      /\ rest <= bal[in][Router] /\ bal' = Pays(bal, in, Router, Req.caller, rest)
  BY DEF Measure, Pay, Unspent
<1>4. \A t \in Tokens : /\ before[t][Router] >= Reserved(t) + Carried(t)
                        /\ t # in => bal[t][Router] >= before[t][Router]
  BY <1>1 DEF IInv, Accounting
<1> HIDE DEF in, o, rest
<1>5. rest \in Nat /\ amount' \in Nat
  BY <1>1, <1>2, <1>3
<1>6. /\ bal' \in Ledgers
      /\ \A t \in Tokens : bal'[t][Router] =
           IF t = in THEN bal[t][Router] - rest ELSE bal[t][Router]
  BY <1>2, <1>3, <1>5, RouterPays
<1>7. TypeOK'
  BY <1>1, <1>2, <1>5, <1>6 DEF TypeOK
<1>8. NothingStanding' /\ OnlyThisHop' /\ TermsKept' /\ HopUnderWay'
  BY <1>1, <1>2 DEF IInv, NothingStanding, OnlyThisHop, TermsKept, HopUnderWay
<1>9. Accounting'
  <2>1. SUFFICES ASSUME NEW t \in Tokens
                 PROVE  bal'[t][Router] >= Reserved(t) + Carried(t)'
    BY <1>1, <1>2 DEF Accounting
  <2>2. CASE t = in
    <3>1. before[t][Router] >= Reserved(t) + amount
      BY <1>1, <1>4, <2>2 DEF Carried
    <3>2. Carried(t)' = 0
      BY <1>1, <1>2, <2>2 DEF Carried
    <3> QED BY <1>2, <1>3, <1>6, <2>2, <3>1, <3>2
  <2>3. CASE t = o
    <3>1. before[t][Router] >= Reserved(t)
      BY <1>1, <1>2, <1>4, <2>3 DEF Carried
    <3>2. Carried(t)' = amount'
      BY <1>1, <2>3 DEF Carried
    <3> QED BY <1>1, <1>2, <1>6, <2>3, <3>1, <3>2
  <2>4. CASE t # in /\ t # o
    <3>1. before[t][Router] >= Reserved(t) /\ bal[t][Router] >= before[t][Router]
      BY <1>1, <1>2, <1>4, <2>4 DEF Carried
    <3>2. Carried(t)' = 0
      BY <1>1, <2>4 DEF Carried
    <3> QED BY <1>2, <1>6, <2>4, <3>1, <3>2
  <2> QED BY <2>2, <2>3, <2>4
<1> QED BY <1>7, <1>8, <1>9 DEF IInv

LEMMA PayOutputStep ==
  ASSUME IInv, PayOutput
  PROVE  IInv'
<1>1. /\ TypeOK /\ pc = "route" /\ pc' = "fee" /\ amount \in Nat /\ currency \in Tokens
      /\ amount <= bal[currency][Router]
      /\ bal' = Pays(bal, currency, Router, Req.recipient, amount)
      /\ UNCHANGED <<feeBps, entered, pendingUnlock, allowance, transaction, gifts, calls>>
  BY DEF PayOutput, Pay, IInv, TypeOK
<1>2. /\ bal \in Ledgers /\ Req.recipient \in Holders \ {Router}
      /\ \A t \in Tokens : Reserved(t) \in Nat /\ bal[t][Router] \in Nat
  BY <1>1, RunningRequest, ReservedType, BalanceType DEF TypeOK, Holders
<1>3. /\ bal' \in Ledgers
      /\ \A t \in Tokens : bal'[t][Router] =
           IF t = currency THEN bal[t][Router] - amount ELSE bal[t][Router]
  BY <1>1, <1>2, RouterPays
<1>4. TypeOK'
  BY <1>1, <1>3 DEF TypeOK, transaction
<1>5. NothingStanding' /\ OnlyThisHop' /\ TermsKept' /\ HopUnderWay'
  BY <1>1, SameTransaction DEF IInv, NothingStanding, OnlyThisHop, TermsKept, HopUnderWay
<1>6. Accounting'
  <2>1. SUFFICES ASSUME NEW t \in Tokens PROVE bal'[t][Router] >= Reserved(t)
    BY <1>1, SameTransaction DEF Accounting
  <2>2. bal[t][Router] >= Reserved(t) + Carried(t)
    BY <1>1 DEF IInv, Accounting
  <2> QED BY <1>1, <1>2, <1>3, <2>2 DEF Carried
<1> QED BY <1>4, <1>5, <1>6 DEF IInv

(* The end of a transaction restores what holds between transactions.      *)
LEMMA EndStep ==
  ASSUME IInv, End, bal' \in Ledgers, feeBps' \in Rates, entered' = 1,
         pendingUnlock' = 0, allowance' = None, UNCHANGED <<gifts, calls>>
  PROVE  IInv'
<1>1. TypeOK'
  BY FeeRouterAssumption, FeeMathAssumption DEF End, IInv, TypeOK, Rates, None
<1> QED BY <1>1 DEF End, IInv, NothingStanding, OnlyThisHop, TermsKept, HopUnderWay,
                    Accounting

LEMMA PayFeeStep ==
  ASSUME IInv, PayFee
  PROVE  IInv' /\ \A t \in Tokens : bal'[t][Router] >= start.bal[t][Router]
<1>1. /\ TypeOK /\ pc = "fee" /\ bal \in Ledgers /\ feeBps \in Rates
      /\ pendingUnlock = 0 /\ allowance = None
      /\ Fee <= bal[Req.tokenIn][Router]
      /\ bal' = Pays(bal, Req.tokenIn, Router, FeeRecipient, Fee)
      /\ entered' = 1 /\ End
      /\ UNCHANGED <<feeBps, pendingUnlock, allowance, gifts, calls>>
  BY DEF PayFee, Pay, IInv, TypeOK, NothingStanding
<1>2. /\ Fee \in Nat /\ Req.tokenIn \in Tokens /\ FeeRecipient \in Holders \ {Router}
      /\ \A t \in Tokens : bal[t][Router] \in Nat /\ start.bal[t][Router] \in Nat
  BY <1>1, RunningRequest, BalanceType, FeeRouterAssumption DEF TypeOK, Holders
<1>3. /\ bal' \in Ledgers
      /\ \A t \in Tokens : bal'[t][Router] =
           IF t = Req.tokenIn THEN bal[t][Router] - Fee ELSE bal[t][Router]
  BY <1>1, <1>2, RouterPays
<1>4. \A t \in Tokens : bal'[t][Router] >= start.bal[t][Router]
  <2>1. \A t \in Tokens : bal[t][Router] >= Reserved(t)
    BY <1>1 DEF IInv, Accounting
  <2> QED BY <1>2, <1>3, <2>1 DEF Reserved
<1>5. IInv'
  BY <1>1, <1>3, EndStep
<1> QED BY <1>4, <1>5

LEMMA RevertStep ==
  ASSUME IInv, Revert
  PROVE  IInv'
BY EndStep DEF Revert, IInv, TypeOK

(* Outside a swap only: the lock is free.                                  *)
LEMMA RescueStep ==
  ASSUME IInv, Rescue
  PROVE  IInv'
<1>1. PICK t \in Tokens : \E n \in 1..bal[t][Router] : Pay(t, Router, FeeRecipient, n)
  BY DEF Rescue
<1>n. PICK n \in 1..bal[t][Router] : Pay(t, Router, FeeRecipient, n)
  BY <1>1
<1>2. /\ TypeOK /\ pc = "idle" /\ pc' = "idle" /\ bal \in Ledgers
      /\ UNCHANGED <<feeBps, entered, pendingUnlock, allowance, pc, transaction, gifts, calls>>
  BY DEF Rescue, LockFree, IInv, NothingStanding, TypeOK
<1>3. n \in Nat /\ n <= bal[t][Router] /\ FeeRecipient \in Holders \ {Router}
  BY <1>n, <1>2, BalanceType, FeeRouterAssumption DEF Pay, Holders
<1>4. bal' \in Ledgers
  BY <1>n, <1>2, <1>3, RouterPays DEF Pay
<1>5. TypeOK'
  BY <1>2, <1>4 DEF TypeOK, transaction
<1> QED BY <1>2, <1>5 DEF IInv, NothingStanding, OnlyThisHop, TermsKept, HopUnderWay,
                         Accounting

LEMMA SetFeeBpsStep ==
  ASSUME IInv, SetFeeBps
  PROVE  IInv'
<1>1. /\ TypeOK /\ pc = "idle" /\ pc' = "idle" /\ feeBps' \in Rates
      /\ UNCHANGED <<bal, entered, pendingUnlock, allowance, pc, transaction, gifts, calls>>
  BY FeeMathAssumption
  DEF SetFeeBps, FeeBpsValid, Rates, LockFree, IInv, NothingStanding, TypeOK
<1>2. TypeOK'
  BY <1>1 DEF TypeOK, transaction
<1> QED BY <1>1, <1>2 DEF IInv, NothingStanding, OnlyThisHop, TermsKept, HopUnderWay,
                         Accounting

LEMMA GiftStep ==
  ASSUME IInv, Gift
  PROVE  IInv'
<1>1. PICK t \in Tokens : Pay(t, World, Router, 1)
  BY DEF Gift
<1>2. /\ TypeOK /\ pc # "measure" /\ pc' = pc /\ bal \in Ledgers /\ gifts' \in 0..MaxGifts
      /\ UNCHANGED <<feeBps, entered, pendingUnlock, allowance, pc, transaction, calls>>
  BY FeeRouterAssumption DEF Gift, IInv, TypeOK
<1>3. /\ bal' \in Ledgers
      /\ \A u \in Tokens : bal[u][Router] \in Nat /\ bal'[u][Router] \in Nat
                          /\ bal'[u][Router] >= bal[u][Router]
  <2>1. World \in Holders \ {Router} /\ 1 <= bal[t][World]
    BY <1>1, FeeRouterAssumption DEF Pay, Holders
  <2>2. /\ bal' \in Ledgers
        /\ \A u \in Tokens : bal'[u][Router] =
             IF u = t THEN bal[u][Router] + 1 ELSE bal[u][Router]
    BY <1>1, <1>2, <2>1, RouterReceives DEF Pay
  <2>3. \A u \in Tokens : bal[u][Router] \in Nat
    BY <1>2, BalanceType DEF Holders
  <2> QED BY <2>2, <2>3
<1>4. TypeOK'
  BY <1>2, <1>3 DEF TypeOK, transaction
<1>5. NothingStanding' /\ OnlyThisHop' /\ TermsKept' /\ HopUnderWay'
  BY <1>2, SameTransaction DEF IInv, NothingStanding, OnlyThisHop, TermsKept, HopUnderWay
<1>6. Accounting'
  <2>1. CASE pc = "idle"
    BY <1>2, <2>1 DEF Accounting
  <2>2. CASE pc # "idle"
    <3>1. \A u \in Tokens : /\ Reserved(u) \in Nat /\ Carried(u) \in Nat
                            /\ Reserved(u)' = Reserved(u) /\ Carried(u)' = Carried(u)
                            /\ before[u][Router] \in Nat /\ before' = before
      BY <1>2, <2>2, ReservedType, SameTransaction, BalanceType DEF TypeOK, Holders
    <3>2. currency' = currency
      BY <1>2, SameTransaction
    <3> QED BY <1>2, <1>3, <3>1, <3>2 DEF IInv, Accounting
  <2> QED BY <2>1, <2>2
<1> QED BY <1>4, <1>5, <1>6 DEF IInv

LEMMA StutterStep ==
  ASSUME IInv, UNCHANGED vars
  PROVE  IInv'
<1>1. /\ UNCHANGED <<bal, feeBps, entered, pendingUnlock, allowance, pc, gifts, calls>>
      /\ UNCHANGED transaction
  BY DEF vars
<1>2. TypeOK'
  BY <1>1 DEF IInv, TypeOK, transaction
<1> QED BY <1>1, <1>2, SameTransaction
        DEF IInv, NothingStanding, OnlyThisHop, TermsKept, HopUnderWay, Accounting

LEMMA NextStep == IInv /\ [Next]_vars => IInv'
<1> SUFFICES ASSUME IInv, [Next]_vars PROVE IInv'
  OBVIOUS
<1>1. ASSUME NEW req \in Requests, Call(req) PROVE IInv'
  BY <1>1, CallStep
<1>2. CASE Convert        BY <1>2, ConvertStep
<1>3. CASE BeginHop       BY <1>3, BeginHopStep
<1>4. CASE SwapV2V3       BY <1>4, SwapV2V3Step
<1>5. CASE UnlockCallback BY <1>5, UnlockCallbackStep
<1>6. CASE SettleAndTake  BY <1>6, SettleAndTakeStep
<1>7. CASE Measure        BY <1>7, MeasureStep
<1>8. CASE PayOutput      BY <1>8, PayOutputStep
<1>9. CASE PayFee         BY <1>9, PayFeeStep
<1>10. CASE Revert        BY <1>10, RevertStep
<1>11. CASE Rescue        BY <1>11, RescueStep
<1>12. CASE SetFeeBps     BY <1>12, SetFeeBpsStep
<1>13. CASE Gift          BY <1>13, GiftStep
<1>14. CASE UNCHANGED vars BY <1>14, StutterStep
<1> QED BY <1>1, <1>2, <1>3, <1>4, <1>5, <1>6, <1>7, <1>8, <1>9, <1>10, <1>11, <1>12,
           <1>13, <1>14 DEF Next

-----------------------------------------------------------------------------
(***************************************************************************)
(* The theorems.                                                           *)
(***************************************************************************)

(* At every step of every swap the router's account holds what it held     *)
(* before, the reserved fee and what the route carries (_executeHop).      *)
THEOREM AccountingHolds == Spec => []IInv
BY InitInvariant, NextStep, PTL DEF Spec

(* Every value stays of its type; the fee never exceeds BPS (setFeeBps).   *)
THEOREM TypeCorrect == Spec => []TypeOK
<1>1. IInv => TypeOK
  BY DEF IInv
<1> QED BY <1>1, AccountingHolds, PTL

(* No lock, awaited callback or allowance outlives its hop or its          *)
(* transaction (nonReentrant, unlockCallback, _approve).                   *)
THEOREM StandingHolds == Spec => []NothingStanding
<1>1. IInv => NothingStanding
  BY DEF IInv
<1> QED BY <1>1, AccountingHolds, PTL

(* "Existing router balances and the fee are never route input."           *)
THEOREM RouterKeeps == Spec => RouterKeepsItsOwn
<1>1. IInv /\ [Next]_vars =>
        [PayFee => \A t \in Tokens : bal'[t][Router] >= start.bal[t][Router]]_vars
  BY PayFeeStep
<1> QED BY <1>1, AccountingHolds, PTL DEF Spec, RouterKeepsItsOwn

(* The fee paid is the one the SDK computed at the rate it named, to the   *)
(* unit (swapWithFee, calculate_fee).                                      *)
THEOREM FeeQuoted == Spec => []FeeAsQuoted
<1>1. IInv => FeeAsQuoted
  <2>1. SUFFICES ASSUME IInv, pc = "fee", NEW rate \in Req.expected
                 PROVE  Fee = calculate_fee(Req.amountIn, rate)
    BY DEF FeeAsQuoted
  <2>2. rate = start.feeBps /\ rate \in Rates /\ Req.amountIn \in U256
    BY <2>1, RunningRequest DEF IInv, TermsKept
  <2> QED BY <2>2, FeesAgree DEF Fee
<1> QED BY <1>1, AccountingHolds, PTL

-----------------------------------------------------------------------------
(***************************************************************************)
(* What a swap owes to whom: the account of the router is exact when       *)
(* nobody sends it anything, and no user pays more than he offered.        *)
(***************************************************************************)

(* A trade is between the router and the pools.                            *)
LEMMA TradeOthers ==
  ASSUME TypeOK, pc # "idle", MoreHops, NEW spent \in Nat, NEW out \in Nat,
         Trade(spent, out)
  PROVE  /\ \A t \in Tokens, a \in Accounts : bal'[t][a] = bal[t][a]
         /\ \A t \in Tokens \ {Hop.tokenIn, Hop.tokenOut} : bal'[t][Router] = bal[t][Router]
<1> DEFINE in == Hop.tokenIn
           o == Hop.tokenOut
           p == Pays(bal, in, Router, World, spent)
<1>1. /\ bal \in Ledgers /\ in \in Tokens /\ o \in Tokens /\ in # o
      /\ Router \in Holders /\ World \in Holders /\ Router # World
      /\ \A a \in Accounts : a \in Holders /\ a # Router /\ a # World
  BY RunningHop, FeeRouterAssumption DEF TypeOK, Holders
<1>2. spent <= bal[in][Router] /\ out <= bal[o][World] /\ bal' = Pays(p, o, World, Router, out)
  BY DEF Trade
<1> HIDE DEF in, o
<1>3. /\ p \in Ledgers
      /\ p[o][World] = bal[o][World]
      /\ \A t \in Tokens, a \in Accounts : p[t][a] = bal[t][a]
      /\ \A t \in Tokens : t # in => p[t][Router] = bal[t][Router]
  BY <1>1, <1>2, Transfers
<1> HIDE DEF p
<1>4. /\ \A t \in Tokens, a \in Accounts : bal'[t][a] = p[t][a]
      /\ \A t \in Tokens : t # o => bal'[t][Router] = p[t][Router]
  BY <1>1, <1>2, <1>3, Transfers
<1> QED BY <1>3, <1>4 DEF in, o

(* Wrapping and unwrapping are between the router and the wrapped-native   *)
(* contract.                                                               *)
LEMMA WrapOthers ==
  ASSUME NEW b \in Ledgers, NEW n \in Nat
  PROVE  /\ n <= b[Native][Router] =>
              \A t \in Tokens, a \in Accounts : deposit(b, n)[t][a] = b[t][a]
         /\ n <= b[Native][World] =>
              \A t \in Tokens, a \in Accounts : withdraw(b, n)[t][a] = b[t][a]
<1> DEFINE p == Pays(b, Native, Router, World, n)
           q == Pays(b, Native, World, Router, n)
<1>1. /\ Native \in Tokens /\ Wrapped \in Tokens
      /\ Router \in Holders /\ World \in Holders /\ Router # World
      /\ \A a \in Accounts : a \in Holders /\ a # Router /\ a # World
  BY FeeRouterAssumption DEF Holders
<1>2. deposit(b, n) = [p EXCEPT ![Wrapped] = [p[Wrapped] EXCEPT ![Router] = p[Wrapped][Router] + n]]
  BY DEF deposit, Earns
<1>3. withdraw(b, n) = [q EXCEPT ![Wrapped] = [q[Wrapped] EXCEPT ![Router] = q[Wrapped][Router] - n]]
  BY DEF withdraw, Loses
<1>4. n <= b[Native][Router] =>
        p \in Ledgers /\ \A t \in Tokens, a \in Accounts : p[t][a] = b[t][a]
  BY <1>1, Transfers
<1>5. n <= b[Native][World] =>
        q \in Ledgers /\ \A t \in Tokens, a \in Accounts : q[t][a] = b[t][a]
  BY <1>1, Transfers
<1> HIDE DEF p, q
<1>6. ASSUME NEW l \in Ledgers, NEW k, NEW m,
             m = [l EXCEPT ![Wrapped] = [l[Wrapped] EXCEPT ![Router] = k]]
      PROVE  \A t \in Tokens, a \in Accounts : m[t][a] = l[t][a]
  BY <1>1, <1>6 DEF Ledgers
<1>7. ASSUME n <= b[Native][Router]
      PROVE  \A t \in Tokens, a \in Accounts : deposit(b, n)[t][a] = b[t][a]
  <2> DEFINE k == p[Wrapped][Router] + n
  <2>1. deposit(b, n) = [p EXCEPT ![Wrapped] = [p[Wrapped] EXCEPT ![Router] = k]]
    BY <1>2
  <2> HIDE DEF k
  <2> QED BY <1>4, <1>6, <1>7, <2>1
<1>8. ASSUME n <= b[Native][World]
      PROVE  \A t \in Tokens, a \in Accounts : withdraw(b, n)[t][a] = b[t][a]
  <2> DEFINE k == q[Wrapped][Router] - n
  <2>1. withdraw(b, n) = [q EXCEPT ![Wrapped] = [q[Wrapped] EXCEPT ![Router] = k]]
    BY <1>3
  <2> HIDE DEF k
  <2>2. q \in Ledgers /\ \A t \in Tokens, a \in Accounts : q[t][a] = b[t][a]
    BY <1>5, <1>8
  <2>3. \A t \in Tokens, a \in Accounts : withdraw(b, n)[t][a] = q[t][a]
    BY <1>6, <2>1, <2>2
  <2> QED BY <2>2, <2>3
<1> QED BY <1>7, <1>8

(* The accounts stay kept when no account is touched.                      *)
LEMMA SameAccounts ==
  ASSUME IInv, SInv, pc # "idle", pc' = pc \/ pc' # "fee", call' = call, start' = start,
         \A t \in Tokens, a \in Accounts : bal'[t][a] = bal[t][a]
  PROVE  AccountsKept'
<1>1. Req' = Req
  BY SameRequest
<1>2. \A t \in Tokens, a \in Accounts : Offered(t, a)' = Offered(t, a) /\ Owed(t, a)' = Owed(t, a)
  BY <1>1 DEF Offered, Owed
<1>3. \A t \in Tokens, a \in Accounts :
        bal[t][a] + Offered(t, a) >= start.bal[t][a] + (IF pc = "fee" THEN Owed(t, a) ELSE 0)
  BY DEF SInv, AccountsKept
<1>4. SUFFICES ASSUME NEW t \in Tokens, NEW a \in Accounts
               PROVE  bal'[t][a] + Offered(t, a)'
                        >= start'.bal[t][a] + (IF pc' = "fee" THEN Owed(t, a)' ELSE 0)
  BY DEF AccountsKept
<1>5. CASE pc' = "fee" <=> pc = "fee"
  BY <1>2, <1>3, <1>5
<1>6. CASE pc' # "fee" /\ pc = "fee"
  <2>1. /\ bal[t][a] \in Nat /\ start.bal[t][a] \in Nat
        /\ Offered(t, a) \in Nat /\ Owed(t, a) \in Nat
    BY RunningRequest, BalanceType, FeeRouterAssumption, FeeMathAssumption
    DEF IInv, TypeOK, Holders, Offered, Owed, RequestType, U256
  <2> QED BY <1>2, <1>3, <1>6, <2>1
<1> QED BY <1>5, <1>6

LEMMA CallSettles ==
  ASSUME IInv, SInv, NEW req \in Requests, Call(req)
  PROVE  SInv'
<1> DEFINE fee == mulDiv(req.amountIn, feeBps)
<1>1. /\ req \in RequestType /\ req.amountIn \in Nat /\ req.tokenIn \in Tokens
      /\ req.caller \in Holders \ {Router} /\ Router \in Holders
      /\ \A a \in Accounts : a \in Holders /\ a # Router
  BY FeeRouterAssumption, FeeMathAssumption DEF RequestType, U256, Holders
<1>2. fee \in Nat
  BY <1>1, FeeType DEF IInv, TypeOK
<1>3. /\ Req' = req /\ Fee' = fee /\ start'.bal = bal /\ pc' = "route"
      /\ start'.gifts = gifts /\ gifts' = gifts
      /\ amount' = req.amountIn - fee /\ currency' = req.tokenIn
  <2>1. Req' = req
    BY DEF Call, Req
  <2>2. start'.bal = bal /\ start'.feeBps = feeBps /\ start'.gifts = gifts
    BY DEF Call
  <2> QED BY <2>1, <2>2 DEF Call, Fee
<1>4. /\ req.amountIn <= bal[req.tokenIn][req.caller] /\ bal \in Ledgers
      /\ bal' = Pays(bal, req.tokenIn, req.caller, Router, req.amountIn)
  BY DEF Call, Pay, IInv, TypeOK
<1>5. /\ \A t \in Tokens : bal'[t][Router] =
           IF t = req.tokenIn THEN bal[t][Router] + req.amountIn ELSE bal[t][Router]
      /\ \A t \in Tokens, a \in Accounts : bal'[t][a] =
           IF t = req.tokenIn /\ a = req.caller THEN bal[t][a] - req.amountIn ELSE bal[t][a]
  BY <1>1, <1>4, Transfers
<1>6. \A t \in Tokens, h \in Holders : bal[t][h] \in Nat
  BY <1>4, BalanceType
<1> HIDE DEF fee
<1>7. GiftsKept'
  BY <1>3 DEF GiftsKept, IInv, TypeOK
<1>8. ExactAccounting'
  <2>1. SUFFICES ASSUME NEW t \in Tokens
                 PROVE  bal'[t][Router] = Reserved(t)' + Carried(t)'
    BY <1>3 DEF ExactAccounting
  <2> QED BY <1>1, <1>2, <1>3, <1>5, <1>6 DEF Reserved, Carried
<1>9. AccountsKept'
  <2>1. SUFFICES ASSUME NEW t \in Tokens, NEW a \in Accounts
                 PROVE  bal'[t][a] + Offered(t, a)' >= start'.bal[t][a]
    <3>1. \A t \in Tokens, a \in Accounts : start'.bal[t][a] \in Nat
      BY <1>1, <1>3, <1>6
    <3> QED BY <1>3, <2>1, <3>1 DEF AccountsKept
  <2> QED BY <1>1, <1>3, <1>5, <1>6 DEF Offered
<1> QED BY <1>7, <1>8, <1>9 DEF SInv

(* A step that is no gift.                                                 *)
LEMMA SettlesIf ==
  ASSUME IInv, SInv, pc # "idle", gifts' = gifts, start' = start, AccountsKept',
         ExactAccounting => ExactAccounting'
  PROVE  SInv'
BY DEF SInv, GiftsKept, NoGifts

LEMMA ConvertSettles ==
  ASSUME IInv, SInv, Convert
  PROVE  SInv'
<1>1. /\ TypeOK /\ pc = "route" /\ pc' = pc /\ amount' = amount /\ call' = call
      /\ start' = start /\ hop' = hop /\ before' = before /\ currency' = Needed
      /\ gifts' = gifts /\ bal \in Ledgers /\ amount \in Nat
  BY DEF Convert, IInv, TypeOK
<1>2. /\ \A t \in Tokens : Reserved(t) \in Nat /\ Reserved(t)' = Reserved(t)
      /\ \A t \in Tokens : bal[t][Router] \in Nat /\ bal[t][Router] >= Reserved(t) + Carried(t)
      /\ Native \in Tokens /\ Wrapped \in Tokens /\ Native # Wrapped
  BY <1>1, ReservedType, SameRequest, BalanceType, FeeRouterAssumption
  DEF IInv, Accounting, Holders
<1>3. CASE currency = Native /\ Needed = Wrapped
  <2>1. amount <= bal[Native][Router] /\ bal' = deposit(bal, amount)
    <3>1. bal[Native][Router] >= Reserved(Native) + amount
      BY <1>2, <1>3 DEF Carried
    <3>2. bal' = deposit(bal, amount)
      BY <1>2, <1>3 DEF Convert
    <3> QED BY <1>1, <1>2, <3>1, <3>2
  <2>2. \A t \in Tokens, a \in Accounts : bal'[t][a] = bal[t][a]
    BY <1>1, <2>1, WrapOthers
  <2>3. /\ bal'[Native][Router] = bal[Native][Router] - amount
        /\ bal'[Wrapped][Router] = bal[Wrapped][Router] + amount
        /\ \A t \in Tokens \ {Native, Wrapped} : bal'[t][Router] = bal[t][Router]
    BY <1>1, <2>1, WrapsNative
  <2>4. AccountsKept'
    BY <1>1, <2>2, SameAccounts
  <2>5. ASSUME ExactAccounting PROVE ExactAccounting'
    BY <1>1, <1>2, <1>3, <2>3, <2>5 DEF ExactAccounting, Carried
  <2> QED BY <1>1, <2>4, <2>5, SettlesIf
<1>4. CASE currency = Wrapped /\ Needed = Native
  <2>1. /\ amount <= bal[Wrapped][Router] /\ amount <= bal[Native][World]
        /\ bal' = withdraw(bal, amount)
    <3>1. bal[Wrapped][Router] >= Reserved(Wrapped) + amount
      BY <1>2, <1>4 DEF Carried
    <3>2. amount <= bal[Native][World] /\ bal' = withdraw(bal, amount)
      BY <1>2, <1>4 DEF Convert
    <3> QED BY <1>1, <1>2, <3>1, <3>2
  <2>2. \A t \in Tokens, a \in Accounts : bal'[t][a] = bal[t][a]
    BY <1>1, <2>1, WrapOthers
  <2>3. /\ bal'[Native][Router] = bal[Native][Router] + amount
        /\ bal'[Wrapped][Router] = bal[Wrapped][Router] - amount
        /\ \A t \in Tokens \ {Native, Wrapped} : bal'[t][Router] = bal[t][Router]
    BY <1>1, <2>1, UnwrapsNative
  <2>4. AccountsKept'
    BY <1>1, <2>2, SameAccounts
  <2>5. ASSUME ExactAccounting PROVE ExactAccounting'
    BY <1>1, <1>2, <1>4, <2>3, <2>5 DEF ExactAccounting, Carried
  <2> QED BY <1>1, <2>4, <2>5, SettlesIf
<1> QED BY <1>3, <1>4 DEF Convert

LEMMA BeginHopSettles ==
  ASSUME IInv, SInv, BeginHop
  PROVE  SInv'
<1>1. /\ pc = "route" /\ pc' = "venue" /\ amount' = amount /\ call' = call
      /\ start' = start /\ hop' = hop /\ before' = bal /\ bal' = bal
      /\ currency' = currency /\ gifts' = gifts
  BY DEF BeginHop
<1>2. \A t : Reserved(t)' = Reserved(t) /\ Carried(t)' = Carried(t)
  BY <1>1, SameRequest DEF Carried
<1>3. AccountsKept'
  BY <1>1, SameAccounts
<1>4. ASSUME ExactAccounting PROVE ExactAccounting'
  BY <1>1, <1>2, <1>4 DEF ExactAccounting
<1> QED BY <1>1, <1>3, <1>4, SettlesIf

(* Both venues leave the account to Measure.                               *)
LEMMA TradeSettles ==
  ASSUME IInv, SInv, pc \in {"venue", "callback"}, MoreHops,
         NEW spent \in Nat, NEW out \in Nat, Trade(spent, out),
         UNCHANGED <<transaction, gifts>>
  PROVE  SInv'
<1>1. /\ TypeOK /\ pc # "idle" /\ pc # "fee" /\ pc' = "measure" /\ gifts' = gifts
      /\ start' = start /\ before' = before /\ call' = call
      /\ Hop' = Hop /\ \A t : Reserved(t)' = Reserved(t) /\ Carried(t)' = Carried(t)
  BY SameTransaction DEF IInv, Trade
<1>2. /\ \A t \in Tokens, a \in Accounts : bal'[t][a] = bal[t][a]
      /\ \A t \in Tokens \ {Hop.tokenIn, Hop.tokenOut} : bal'[t][Router] = bal[t][Router]
  BY <1>1, TradeOthers
<1>3. AccountsKept'
  BY <1>1, <1>2, SameAccounts
<1>4. ASSUME ExactAccounting PROVE ExactAccounting'
  BY <1>1, <1>2, <1>4 DEF ExactAccounting
<1> QED BY <1>1, <1>3, <1>4, SettlesIf

LEMMA SwapV2V3Settles ==
  ASSUME IInv, SInv, SwapV2V3
  PROVE  SInv'
<1>1. PICK spent \in 0..allowance[Hop.tokenIn], out \in 0..bal[Hop.tokenOut][World] :
           Trade(spent, out)
  BY DEF SwapV2V3
<1>2. TypeOK /\ pc = "venue" /\ MoreHops /\ UNCHANGED <<transaction, gifts>>
  BY DEF SwapV2V3, IInv, HopUnderWay
<1>3. spent \in Nat /\ out \in Nat
  BY <1>2, RunningHop, BalanceType DEF TypeOK, Holders
<1> QED BY <1>1, <1>2, <1>3, TradeSettles

LEMMA SettleAndTakeSettles ==
  ASSUME IInv, SInv, SettleAndTake
  PROVE  SInv'
<1>1. PICK spent \in 0..amount, out \in 1..bal[Hop.tokenOut][World] : Trade(spent, out)
  BY DEF SettleAndTake
<1>2. TypeOK /\ pc = "callback" /\ MoreHops /\ UNCHANGED <<transaction, gifts>>
  BY DEF SettleAndTake, IInv, HopUnderWay
<1>3. spent \in Nat /\ out \in Nat
  BY <1>2, RunningHop, BalanceType DEF TypeOK, Holders
<1> QED BY <1>1, <1>2, <1>3, TradeSettles

LEMMA UnlockCallbackSettles ==
  ASSUME IInv, SInv, UnlockCallback
  PROVE  SInv'
<1>1. /\ pc = "venue" /\ pc' = "callback" /\ bal' = bal /\ gifts' = gifts
      /\ start' = start /\ before' = before /\ call' = call
      /\ \A t : Reserved(t)' = Reserved(t) /\ Carried(t)' = Carried(t)
  BY SameTransaction DEF UnlockCallback, Awaited, IInv, NothingStanding
<1>2. AccountsKept'
  BY <1>1, SameAccounts
<1>3. ASSUME ExactAccounting PROVE ExactAccounting'
  BY <1>1, <1>3 DEF ExactAccounting
<1> QED BY <1>1, <1>2, <1>3, SettlesIf

LEMMA MeasureSettles ==
  ASSUME IInv, SInv, Measure
  PROVE  SInv'
<1> DEFINE in == Hop.tokenIn
           o == Hop.tokenOut
           rest == Unspent(in)
<1>1. /\ TypeOK /\ pc = "measure" /\ pc' = "route" /\ MoreHops
      /\ currency = in /\ currency' = o /\ amount' = bal[o][Router] - before[o][Router]
      /\ call' = call /\ start' = start /\ before' = before /\ gifts' = gifts
  BY DEF Measure, Output, IInv, HopUnderWay
<1>2. /\ in \in Tokens /\ o \in Tokens /\ in # o /\ amount \in Nat
      /\ bal \in Ledgers /\ Req.caller \in Accounts /\ Req.caller \in Holders \ {Router}
      /\ \A a \in Accounts : a \in Holders /\ a # Router
      /\ \A t \in Tokens : /\ Reserved(t)' = Reserved(t) /\ Reserved(t) \in Nat
                           /\ bal[t][Router] \in Nat /\ before[t][Router] \in Nat
  <2>1. Req.caller \in Accounts
    BY <1>1, RunningRequest, FeeRouterAssumption DEF RequestType
  <2> QED BY <1>1, <2>1, RunningHop, RunningRequest, SameRequest, ReservedType, BalanceType,
             FeeRouterAssumption
          DEF TypeOK, Holders
<1>3. /\ bal[in][Router] <= before[in][Router]
      /\ before[in][Router] - bal[in][Router] <= amount
      /\ rest = amount - (before[in][Router] - bal[in][Router])
      /\ rest <= bal[in][Router] /\ bal' = Pays(bal, in, Router, Req.caller, rest)
  BY DEF Measure, Pay, Unspent
<1> HIDE DEF in, o, rest
<1>4. rest \in Nat
  BY <1>2, <1>3
<1>5. /\ \A t \in Tokens : bal'[t][Router] =
           IF t = in THEN bal[t][Router] - rest ELSE bal[t][Router]
      /\ \A t \in Tokens, a \in Accounts : bal'[t][a] =
           IF t = in /\ a = Req.caller THEN bal[t][a] + rest ELSE bal[t][a]
  <2>1. Router \in Holders
    BY DEF Holders
  <2> QED BY <1>2, <1>3, <1>4, <2>1, Transfers
<1>6. ASSUME ExactAccounting PROVE ExactAccounting'
  <2>1. \A t \in Tokens : /\ before[t][Router] = Reserved(t) + Carried(t)
                          /\ t \notin {in, o} => bal[t][Router] = before[t][Router]
    BY <1>1, <1>6 DEF ExactAccounting, in, o
  <2>2. \A t \in Tokens : /\ Carried(t) = IF t = in THEN amount ELSE 0
                          /\ Carried(t)' = IF t = o THEN amount' ELSE 0
    BY <1>1 DEF Carried
  <2>3. \A t \in Tokens : bal'[t][Router] = Reserved(t) + Carried(t)'
    BY <1>1, <1>2, <1>3, <1>5, <2>1, <2>2
  <2> QED BY <1>1, <1>2, <2>3 DEF ExactAccounting
<1>7. AccountsKept'
  <2>1. Req' = Req /\ \A t \in Tokens, a \in Accounts : Offered(t, a)' = Offered(t, a)
    BY <1>1, SameRequest DEF Offered
  <2>2. SUFFICES ASSUME NEW t \in Tokens, NEW a \in Accounts
                 PROVE  bal'[t][a] + Offered(t, a) >= start.bal[t][a]
    <3>1. \A t \in Tokens, a \in Accounts : start.bal[t][a] \in Nat
      BY <1>1, BalanceType DEF TypeOK, Holders
    <3> QED BY <1>1, <2>1, <2>2, <3>1 DEF AccountsKept
  <2>3. /\ bal[t][a] \in Nat /\ start.bal[t][a] \in Nat /\ Offered(t, a) \in Nat
        /\ bal[t][a] + Offered(t, a) >= start.bal[t][a]
    BY <1>1, RunningRequest, BalanceType DEF TypeOK, Holders, Offered, SInv, AccountsKept
  <2> QED BY <1>2, <1>4, <1>5, <2>3
<1> QED BY <1>1, <1>6, <1>7, SettlesIf

LEMMA PayOutputSettles ==
  ASSUME IInv, SInv, PayOutput
  PROVE  SInv'
<1>1. /\ TypeOK /\ pc = "route" /\ pc' = "fee" /\ amount \in Nat /\ currency \in Tokens
      /\ currency = Req.tokenOut /\ amount >= Req.minimum
      /\ amount <= bal[currency][Router]
      /\ bal' = Pays(bal, currency, Router, Req.recipient, amount)
      /\ gifts' = gifts /\ start' = start /\ call' = call
      /\ Req' = Req /\ \A t : Reserved(t)' = Reserved(t)
  BY SameTransaction DEF PayOutput, Pay, Needed, Enough, IInv, TypeOK
<1>2. /\ bal \in Ledgers /\ Req.recipient \in Accounts /\ Req.recipient \in Holders \ {Router}
      /\ Req.minimum \in Nat /\ Router \in Holders
      /\ \A a \in Accounts : a \in Holders /\ a # Router
      /\ \A t \in Tokens : Reserved(t) \in Nat /\ bal[t][Router] \in Nat
  <2>1. Req.recipient \in Accounts /\ Req.minimum \in Nat
    BY <1>1, RunningRequest, FeeRouterAssumption, FeeMathAssumption DEF RequestType, U256
  <2> QED BY <1>1, <2>1, RunningRequest, ReservedType, BalanceType, FeeRouterAssumption
          DEF TypeOK, Holders
<1>3. /\ \A t \in Tokens : bal'[t][Router] =
           IF t = currency THEN bal[t][Router] - amount ELSE bal[t][Router]
      /\ \A t \in Tokens, a \in Accounts : bal'[t][a] =
           IF t = currency /\ a = Req.recipient THEN bal[t][a] + amount ELSE bal[t][a]
  BY <1>1, <1>2, Transfers
<1>4. ASSUME ExactAccounting PROVE ExactAccounting'
  <2>1. \A t \in Tokens : bal[t][Router] = Reserved(t) + Carried(t)
    BY <1>1, <1>4 DEF ExactAccounting
  <2>2. \A t \in Tokens : Carried(t) = IF t = currency THEN amount ELSE 0
    BY DEF Carried
  <2>3. \A t \in Tokens : bal'[t][Router] = Reserved(t)
    BY <1>1, <1>2, <1>3, <2>1, <2>2
  <2> QED BY <1>1, <2>3 DEF ExactAccounting
<1>5. AccountsKept'
  <2>1. \A t \in Tokens, a \in Accounts : Offered(t, a)' = Offered(t, a) /\ Owed(t, a)' = Owed(t, a)
    BY <1>1 DEF Offered, Owed
  <2>2. SUFFICES ASSUME NEW t \in Tokens, NEW a \in Accounts
                 PROVE  bal'[t][a] + Offered(t, a) >= start.bal[t][a] + Owed(t, a)
    BY <1>1, <2>1 DEF AccountsKept
  <2>3. /\ bal[t][a] \in Nat /\ start.bal[t][a] \in Nat /\ Offered(t, a) \in Nat
        /\ Owed(t, a) \in Nat
    BY <1>1, <1>2, RunningRequest, BalanceType DEF TypeOK, Holders, Offered, Owed
  <2>4. bal[t][a] + Offered(t, a) >= start.bal[t][a]
    BY <1>1, <2>3 DEF SInv, AccountsKept
  <2> QED BY <1>1, <1>2, <1>3, <2>3, <2>4 DEF Owed
<1> QED BY <1>1, <1>4, <1>5, SettlesIf

LEMMA GiftSettles ==
  ASSUME IInv, SInv, Gift
  PROVE  SInv'
<1>1. PICK t \in Tokens : Pay(t, World, Router, 1)
  BY DEF Gift
<1>2. /\ TypeOK /\ pc' = pc /\ bal \in Ledgers /\ gifts' = gifts + 1 /\ gifts \in Nat
      /\ call' = call /\ start' = start /\ start.gifts \in Nat
  BY FeeRouterAssumption, SameTransaction DEF Gift, IInv, TypeOK
<1>3. \A u \in Tokens, a \in Accounts : bal'[u][a] = bal[u][a]
  <2>1. /\ World \in Holders /\ Router \in Holders /\ World # Router /\ 1 <= bal[t][World]
        /\ \A a \in Accounts : a \in Holders /\ a # Router /\ a # World
    BY <1>1, FeeRouterAssumption DEF Pay, Holders
  <2> QED BY <1>1, <1>2, <2>1, Transfers DEF Pay
<1>4. CASE pc = "idle"
  BY <1>2, <1>4 DEF SInv, GiftsKept, AccountsKept
<1>5. CASE pc # "idle"
  <2>1. AccountsKept'
    BY <1>2, <1>3, <1>5, SameAccounts
  <2>2. GiftsKept' /\ ~NoGifts'
    BY <1>2, <1>5 DEF SInv, GiftsKept, NoGifts
  <2> QED BY <2>1, <2>2 DEF SInv
<1> QED BY <1>4, <1>5

(* Between transactions nothing is owed.                                   *)
LEMMA IdleSettles ==
  ASSUME pc' = "idle"
  PROVE  SInv'
BY DEF SInv, GiftsKept, AccountsKept

LEMMA NextSettles == IInv /\ SInv /\ [Next]_vars => SInv'
<1> SUFFICES ASSUME IInv, SInv, [Next]_vars PROVE SInv'
  OBVIOUS
<1>1. ASSUME NEW req \in Requests, Call(req) PROVE SInv'
  BY <1>1, CallSettles
<1>2. CASE Convert \/ BeginHop \/ SwapV2V3 \/ UnlockCallback \/ SettleAndTake
  BY <1>2, ConvertSettles, BeginHopSettles, SwapV2V3Settles, UnlockCallbackSettles,
     SettleAndTakeSettles
<1>3. CASE Measure \/ PayOutput \/ Gift
  BY <1>3, MeasureSettles, PayOutputSettles, GiftSettles
<1>4. CASE PayFee \/ Revert \/ Rescue \/ SetFeeBps
  <2>1. pc' = "idle"
    BY <1>4 DEF PayFee, Revert, End, Rescue, SetFeeBps, LockFree, IInv, NothingStanding
  <2> QED BY <2>1, IdleSettles
<1>5. CASE UNCHANGED vars
  <2>1. /\ UNCHANGED <<pc, gifts, bal, start, call, currency, amount, hop, before>>
    BY <1>5 DEF vars, transaction
  <2>2. CASE pc = "idle"
    BY <2>1, <2>2, IdleSettles
  <2>3. CASE pc # "idle"
    <3>1. AccountsKept'
      BY <2>1, <2>3, SameAccounts
    <3>2. ASSUME ExactAccounting PROVE ExactAccounting'
      BY <2>1, <3>2, SameRequest, SameHop DEF ExactAccounting, Carried
    <3> QED BY <2>1, <2>3, <3>1, <3>2, SettlesIf
  <2> QED BY <2>2, <2>3
<1> QED BY <1>1, <1>2, <1>3, <1>4, <1>5 DEF Next

(* The accounts of the router and of the users throughout a swap.          *)
THEOREM SettlementHolds == Spec => []SettlementInvariant
<1>1. Init => IInv /\ SInv
  BY InitInvariant DEF Init, SInv, GiftsKept, AccountsKept
<1>2. IInv /\ SInv /\ [Next]_vars => IInv' /\ SInv'
  BY NextStep, NextSettles
<1> QED BY <1>1, <1>2, PTL DEF Spec, SettlementInvariant

LEMMA PayFeeExact ==
  ASSUME IInv, SInv, PayFee, NoGifts
  PROVE  \A t \in Tokens : bal'[t][Router] = start.bal[t][Router]
<1>1. /\ TypeOK /\ pc = "fee" /\ bal \in Ledgers
      /\ Fee <= bal[Req.tokenIn][Router]
      /\ bal' = Pays(bal, Req.tokenIn, Router, FeeRecipient, Fee)
  BY DEF PayFee, Pay, IInv, TypeOK
<1>2. /\ Fee \in Nat /\ Req.tokenIn \in Tokens /\ FeeRecipient \in Holders \ {Router}
      /\ \A t \in Tokens : start.bal[t][Router] \in Nat
  BY <1>1, RunningRequest, BalanceType, FeeRouterAssumption DEF TypeOK, Holders
<1>3. \A t \in Tokens : bal'[t][Router] =
        IF t = Req.tokenIn THEN bal[t][Router] - Fee ELSE bal[t][Router]
  BY <1>1, <1>2, RouterPays
<1>4. \A t \in Tokens : bal[t][Router] = Reserved(t)
  BY <1>1 DEF SInv, ExactAccounting
<1> QED BY <1>2, <1>3, <1>4 DEF Reserved

(* A swap that others left alone leaves none of a user's money behind:     *)
(* what the venue did not spend is refunded, the fee and the whole output  *)
(* are paid out (_executeHop, _swap).                                      *)
THEOREM NothingStrandedHolds == Spec => NothingStranded
<1>1. IInv /\ SInv /\ [Next]_vars =>
        [PayFee /\ gifts = start.gifts =>
           \A t \in Tokens : bal'[t][Router] = start.bal[t][Router]]_vars
  BY PayFeeExact DEF NoGifts
<1> QED BY <1>1, SettlementHolds, PTL DEF Spec, SettlementInvariant, NothingStranded

-----------------------------------------------------------------------------
(***************************************************************************)
(* The refinement: seen from one whole transaction to the next, the        *)
(* contract is FairExchange.  Every step of a swap but the last stutters.  *)
(***************************************************************************)

LEMMA PaysTransfers ==
  ASSUME NEW b \in Ledgers, NEW t \in Tokens, NEW from \in Holders, NEW to \in Holders,
         from # to, NEW n \in Nat
  PROVE  Pays(b, t, from, to, n) = [b EXCEPT ![t][from] = @ - n, ![t][to] = @ + n]
<1>1. b[t] \in [Holders -> Nat]
  BY DEF Ledgers
<1> QED BY <1>1 DEF Pays, Moved, Earns, Loses, Ledgers

LEMMA SameMulDiv == \A n, rate : Promise!mulDiv(n, rate) = mulDiv(n, rate)
BY DEF Promise!mulDiv, mulDiv

LEMMA InitMaps == Init => Promise!Init
BY FeeRouterAssumption DEF Init, Promise!Init, Promise!Rates, Rates, Ledgers, Holders

(* Inside a transaction the mapped state is that of its start.             *)
LEMMA InsideMaps ==
  ASSUME pc # "idle", pc' # "idle", call' = call, start' = start
  PROVE  UNCHANGED Promise!vars
BY DEF Promise!vars

LEMMA CallMaps ==
  ASSUME IInv, NEW req \in Requests, Call(req)
  PROVE  Promise!Next
<1>1. /\ pc = "idle" /\ pc' # "idle" /\ call = {} /\ call' = {req}
      /\ start'.bal = bal /\ start'.feeBps = feeBps
  BY DEF Call, IInv, TypeOK
<1>2. Promise!Ask(req)
  BY <1>1 DEF Promise!Ask
<1> QED BY <1>2 DEF Promise!Next

LEMMA PayFeeMaps ==
  ASSUME IInv, SInv, PayFee
  PROVE  Promise!Next
<1>1. /\ TypeOK /\ pc = "fee" /\ pc' = "idle" /\ call' = {} /\ feeBps' = feeBps
      /\ bal \in Ledgers /\ Fee <= bal[Req.tokenIn][Router]
      /\ bal' = Pays(bal, Req.tokenIn, Router, FeeRecipient, Fee)
  BY DEF PayFee, Pay, End, IInv, TypeOK
<1>2. /\ Req \in Requests /\ call = {Req} /\ Fee \in Nat /\ Req.tokenIn \in Tokens
      /\ Req.amountIn \in Nat /\ Req.minimum \in Nat
      /\ feeBps = start.feeBps /\ Req.expected \subseteq {feeBps}
      /\ FeeRecipient \in Holders /\ Router \in Holders /\ FeeRecipient # Router
      /\ \A a \in Accounts : a \in Holders /\ a # Router
  <2>1. Req.minimum \in Nat
    BY <1>1, RunningRequest, FeeRouterAssumption, FeeMathAssumption DEF RequestType, U256
  <2> QED BY <1>1, <2>1, RunningRequest, FeeRouterAssumption DEF IInv, TermsKept, Holders
<1>3. Fee = mulDiv(Req.amountIn, start.feeBps)
  BY DEF Fee
<1> DEFINE gain(t, a) == IF a = FeeRecipient /\ t = Req.tokenIn THEN Fee ELSE 0
<1>4. \A t \in Tokens, a \in Accounts : bal'[t][a] = bal[t][a] + gain(t, a)
  <2>1. \A t \in Tokens, a \in Accounts : bal[t][a] \in Nat
    BY <1>1, <1>2, BalanceType
  <2>2. \A t \in Tokens, a \in Accounts : bal'[t][a] =
          IF t = Req.tokenIn /\ a = FeeRecipient THEN bal[t][a] + Fee ELSE bal[t][a]
    BY <1>1, <1>2, Transfers
  <2> QED BY <1>2, <2>1, <2>2
<1>5. ASSUME NEW t \in Tokens, NEW a \in Accounts
      PROVE  bal'[t][a] + Offered(t, a) >= start.bal[t][a] + (Owed(t, a) + gain(t, a))
  <2>1. bal[t][a] + Offered(t, a) >= start.bal[t][a] + Owed(t, a)
    BY <1>1 DEF SInv, AccountsKept
  <2>2. /\ bal[t][a] \in Nat /\ start.bal[t][a] \in Nat
        /\ Offered(t, a) \in Nat /\ Owed(t, a) \in Nat /\ gain(t, a) \in Nat
    BY <1>1, <1>2, BalanceType DEF TypeOK, Holders, Offered, Owed
  <2>3. bal'[t][a] = bal[t][a] + gain(t, a)
    BY <1>4
  <2> HIDE DEF gain
  <2> QED BY <2>1, <2>2, <2>3
<1>6. \A t \in Tokens : bal'[t][Router] >= start.bal[t][Router]
  BY PayFeeStep
<1>7. Promise!Swap(Req)
  <2>1. SUFFICES ASSUME NEW t \in Tokens, NEW a \in Accounts
                 PROVE  bal'[t][a] + Promise!Amount(a = Req.caller /\ t = Req.tokenIn, Req.amountIn)
                          >= start.bal[t][a]
                             + (Promise!Amount(a = Req.recipient /\ t = Req.tokenOut, Req.minimum)
                                + Promise!Amount(a = FeeRecipient /\ t = Req.tokenIn,
                                                 mulDiv(Req.amountIn, start.feeBps)))
    BY <1>1, <1>2, <1>6, SameMulDiv DEF Promise!Swap
  <2>2. Promise!Amount(a = Req.caller /\ t = Req.tokenIn, Req.amountIn) = Offered(t, a)
    BY DEF Promise!Amount, Offered
  <2>3. Promise!Amount(a = Req.recipient /\ t = Req.tokenOut, Req.minimum) = Owed(t, a)
    BY DEF Promise!Amount, Owed
  <2>4. Promise!Amount(a = FeeRecipient /\ t = Req.tokenIn,
                       mulDiv(Req.amountIn, start.feeBps)) = gain(t, a)
    BY <1>3 DEF Promise!Amount
  <2> HIDE DEF gain
  <2> QED BY <1>5, <2>2, <2>3, <2>4
<1> QED BY <1>2, <1>7 DEF Promise!Next

LEMMA RevertMaps ==
  ASSUME IInv, Revert
  PROVE  Promise!Next
<1>1. pc # "idle" /\ pc' = "idle" /\ call # {} /\ call' = {}
  BY DEF Revert, End, IInv, TypeOK
<1>2. Promise!Refuse
  BY <1>1 DEF Revert, Promise!Refuse
<1> QED BY <1>2 DEF Promise!Next

LEMMA RescueMaps ==
  ASSUME IInv, Rescue
  PROVE  Promise!Next
<1>1. PICK t \in Tokens : \E n \in 1..bal[t][Router] : Pay(t, Router, FeeRecipient, n)
  BY DEF Rescue
<1>2. PICK n \in 1..bal[t][Router] : Pay(t, Router, FeeRecipient, n)
  BY <1>1
<1>3. /\ pc = "idle" /\ pc' = "idle" /\ call = {} /\ call' = {} /\ feeBps' = feeBps
      /\ bal \in Ledgers
  BY DEF Rescue, LockFree, IInv, NothingStanding, TypeOK, transaction
<1>4. bal' = [bal EXCEPT ![t][Router] = @ - n, ![t][FeeRecipient] = @ + n]
  <2>1. /\ Router \in Holders /\ FeeRecipient \in Holders /\ Router # FeeRecipient
        /\ bal[t][Router] \in Nat
    BY <1>3, BalanceType, FeeRouterAssumption DEF Holders
  <2>2. n \in Nat
    BY <2>1
  <2> QED BY <1>2, <1>3, <2>1, <2>2, PaysTransfers DEF Pay
<1>5. Promise!Transfer(Router, FeeRecipient)
  BY <1>3, <1>4 DEF Promise!Transfer
<1> QED BY <1>5 DEF Promise!Next

LEMMA GiftMaps ==
  ASSUME IInv, Gift, pc = "idle"
  PROVE  Promise!Next
<1>1. PICK t \in Tokens : Pay(t, World, Router, 1)
  BY DEF Gift
<1>2. PICK n \in Nat : n = 1
  OBVIOUS
<1>3. /\ pc' = "idle" /\ call = {} /\ call' = {} /\ feeBps' = feeBps /\ bal \in Ledgers
  BY DEF Gift, IInv, TypeOK, transaction
<1>4. /\ n \in 1..bal[t][World]
      /\ bal' = [bal EXCEPT ![t][World] = @ - n, ![t][Router] = @ + n]
  <2>1. /\ Router \in Holders /\ World \in Holders /\ Router # World /\ bal[t][World] \in Nat
    BY <1>3, BalanceType, FeeRouterAssumption DEF Holders
  <2>2. n <= bal[t][World] /\ bal' = Pays(bal, t, World, Router, n)
    BY <1>1, <1>2 DEF Pay
  <2>3. bal' = [bal EXCEPT ![t][World] = @ - n, ![t][Router] = @ + n]
    BY <1>3, <2>1, <2>2, PaysTransfers
  <2> QED BY <1>2, <2>1, <2>2, <2>3
<1>5. Promise!Transfer(World, Router)
  BY <1>3, <1>4 DEF Promise!Transfer
<1> QED BY <1>5 DEF Promise!Next

LEMMA SetFeeBpsMaps ==
  ASSUME IInv, SetFeeBps
  PROVE  Promise!Next
<1>1. /\ pc = "idle" /\ pc' = "idle" /\ call = {} /\ call' = {} /\ bal' = bal
      /\ feeBps' \in Rates
  BY FeeMathAssumption
  DEF SetFeeBps, FeeBpsValid, Rates, LockFree, IInv, NothingStanding, TypeOK, transaction
<1>2. Promise!SetFee
  BY <1>1 DEF Promise!SetFee, Promise!Rates, Rates
<1> QED BY <1>2 DEF Promise!Next

LEMMA NextMaps == IInv /\ SInv /\ [Next]_vars => [Promise!Next]_(Promise!vars)
<1> SUFFICES ASSUME IInv, SInv, [Next]_vars PROVE Promise!Next \/ UNCHANGED Promise!vars
  OBVIOUS
<1>1. ASSUME NEW req \in Requests, Call(req) PROVE Promise!Next
  BY <1>1, CallMaps
<1>2. CASE Convert \/ BeginHop \/ SwapV2V3 \/ UnlockCallback \/ SettleAndTake \/ Measure \/ PayOutput
  <2>1. pc # "idle" /\ pc' # "idle" /\ call' = call /\ start' = start
    BY <1>2 DEF Convert, BeginHop, SwapV2V3, UnlockCallback, SettleAndTake, Trade, Measure,
                PayOutput, transaction, IInv, NothingStanding
  <2> QED BY <2>1, InsideMaps
<1>3. CASE PayFee \/ Revert \/ Rescue \/ SetFeeBps
  BY <1>3, PayFeeMaps, RevertMaps, RescueMaps, SetFeeBpsMaps
<1>4. CASE Gift
  <2>1. CASE pc = "idle"
    BY <1>4, <2>1, GiftMaps
  <2>2. CASE pc # "idle"
    BY <1>4, <2>2, InsideMaps DEF Gift, transaction
  <2> QED BY <2>1, <2>2
<1>5. CASE UNCHANGED vars
  BY <1>5 DEF vars, transaction, Promise!vars
<1> QED BY <1>1, <1>2, <1>3, <1>4, <1>5 DEF Next

(* The contract keeps the promise of FairExchange: a swap takes no more    *)
(* than its input and only from its caller, pays the minimum and the fee,  *)
(* and leaves what the router and everyone else hold.                      *)
THEOREM FeeRouterImplementsFairExchange == Spec => ImplementsFairExchange
<1>1. IInv /\ SInv /\ [Next]_vars => [Promise!Next]_(Promise!vars)
  BY NextMaps
<1> QED BY <1>1, InitMaps, SettlementHolds, PTL
        DEF Spec, SettlementInvariant, ImplementsFairExchange, Promise!Spec
=============================================================================
