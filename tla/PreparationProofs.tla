-------------------------- MODULE PreparationProofs --------------------------
(***************************************************************************)
(* What a trader shows belongs to one block, the best funding route wins,  *)
(* and what was shown is what lands, proved for any pools, chains, blocks  *)
(* and changes that a caller makes to a prepared swap.                     *)
(***************************************************************************)
EXTENDS PreparationInvariant, WellFoundedInduction, TLAPS

-----------------------------------------------------------------------------
(***************************************************************************)
(* Amounts in basis points.                                                *)
(***************************************************************************)
(* Division with remainder.                                                *)
LEMMA Division ==
  ASSUME NEW a \in Nat, NEW b \in Nat \ {0}
  PROVE  /\ a \div b \in Nat /\ a % b \in 0..b - 1
         /\ a = b * (a \div b) + (a % b)
  OBVIOUS

LEMMA Monotone ==
  ASSUME NEW a \in Nat, NEW b \in Nat, NEW c \in Nat, b <= c
  PROVE  a * b <= a * c
  OBVIOUS

(* Quotient and remainder are the only such pair.                          *)
LEMMA DivisionUnique ==
  ASSUME NEW a \in Nat, NEW b \in Nat \ {0}, NEW q \in Nat, NEW r \in 0..b - 1,
         a = b * q + r
  PROVE  a \div b = q /\ a % b = r
  BY Division

(* The split product overflows nowhere, and is the exact quotient.         *)
LEMMA SplitIsExact ==
  ASSUME NEW amount \in U256, NEW rate \in Rates
  PROVE  PerBps(amount, rate) = mulDiv(amount, rate)
<1> USE FeeMathAssumption DEF U256, Rates
<1> DEFINE q == amount \div BPS
           r == amount % BPS
           d == (r * rate) \div BPS
           e == (r * rate) % BPS
<1>1. q \in Nat /\ r \in 0..BPS - 1 /\ amount = BPS * q + r
  BY Division
<1> HIDE DEF q, r
<1>2. r * rate \in Nat /\ r * rate <= r * BPS /\ r * BPS <= BPS * BPS
  <2>1. r * rate <= r * BPS
    BY <1>1, Monotone
  <2>2. BPS * r <= BPS * BPS
    BY <1>1, Monotone
  <2> QED BY <1>1, <2>1, <2>2
<1>3. d \in Nat /\ e \in 0..BPS - 1 /\ r * rate = BPS * d + e
  BY <1>2, Division
<1> HIDE DEF d, e
<1>4. d <= r
  <2>1. SUFFICES ASSUME d >= r + 1 PROVE FALSE
    BY <1>1, <1>3
  <2>2. BPS * (r + 1) <= BPS * d
    BY <1>1, <1>3, <2>1, Monotone
  <2>3. BPS * (r + 1) = r * BPS + BPS
    BY <1>1
  <2> QED BY <1>1, <1>2, <1>3, <2>2, <2>3
<1>5. q * rate \in Nat /\ q * rate <= BPS * q
  <2>1. q * rate <= q * BPS
    BY <1>1, Monotone
  <2> QED BY <1>1, <2>1
<1>6. amount * rate = BPS * (q * rate + d) + e
  <2>1. (BPS * q + r) * rate = BPS * (q * rate) + r * rate
    BY <1>1
  <2>2. BPS * (q * rate + d) = BPS * (q * rate) + BPS * d
    BY <1>3, <1>5
  <2> QED BY <1>1, <1>2, <1>3, <1>5, <2>1, <2>2
<1>7. mulDiv(amount, rate) = q * rate + d
  <2>1. amount * rate \in Nat /\ q * rate + d \in Nat
    BY <1>3, <1>5
  <2> QED BY <1>3, <1>6, <2>1, DivisionUnique DEF mulDiv
<1>8. /\ Wrap(q * rate) = q * rate /\ Wrap(r * rate) = r * rate
      /\ Wrap(q * rate + d) = q * rate + d
  <2>1. \A n \in 0..Width - 1 : Wrap(n) = n
    BY DEF Wrap
  <2>2. q * rate \in U256 /\ r * rate \in U256 /\ q * rate + d \in U256
    BY <1>1, <1>2, <1>3, <1>4, <1>5
  <2> QED BY <2>1, <2>2
<1> QED BY <1>7, <1>8 DEF PerBps, q, r, d

(* The fee the SDK shows is the fee the contract charges at that rate.     *)
LEMMA FeesAgree ==
  \A amount \in U256, rate \in Rates :
    calculate_fee(amount, rate) = mulDiv(amount, rate)
BY SplitIsExact DEF calculate_fee

-----------------------------------------------------------------------------
(***************************************************************************)
(* Induction.  The model computes along a route by recursive functions; a  *)
(* set of naturals takes the place of the induction hypothesis.            *)
(***************************************************************************)
Below == {ss \in Nat \X Nat : ss[1] < ss[2]}
LEMMA BelowWF == IsWellFoundedOn(Below, Nat)
  BY NatLessThanWellFounded DEF OpToRel, Below

LEMMA Least ==
  ASSUME NEW T \in SUBSET Nat, T # {}
  PROVE  \E m \in T : \A k \in T : ~(k < m)
<1>1. \A x, y \in Nat : x < y => <<x, y>> \in Below
  BY DEF Below
<1>2. \E x \in T : \A y \in T : ~(<<y, x>> \in Below)
  BY BelowWF, WFMin
<1> QED BY <1>1, <1>2

LEMMA Induction ==
  ASSUME NEW L \in Nat, NEW T \in SUBSET (0..L), 0 \in T,
         \A n \in T : n < L => n + 1 \in T
  PROVE  T = 0..L
<1> DEFINE U == {n \in 0..L : n \notin T}
<1> SUFFICES ASSUME U # {} PROVE FALSE
  OBVIOUS
<1>1. PICK m \in U : \A k \in U : ~(k < m)
  <2>1. U \in SUBSET Nat
    OBVIOUS
  <2> HIDE DEF U
  <2> QED BY <2>1, Least
<1>2. m \in 1..L /\ m - 1 \in 0..L /\ m - 1 < m
  OBVIOUS
<1>3. m - 1 \in T
  BY <1>1, <1>2
<1> QED BY <1>1, <1>2, <1>3

-----------------------------------------------------------------------------
(***************************************************************************)
(* A route, hop by hop: the amounts a new quote gives, and what is paid.   *)
(***************************************************************************)
HopQuotes(w, h, trade, S) ==
  UNION {HopQuote(w, h, [trade EXCEPT !.amount_in = a]) : a \in S}
Paid(w, e, x) == The({Output(w, i, e.tokenIn < e.tokenOut, x) :
                        i \in Registered(w, Manager(e.key.kind), e.key)})

(* A new quote, and a payment, hop by hop.                                 *)
Requoting(f, w, quote, fee) ==
  /\ f[0] = {amount_after_fee(fee, quote.trade.amount_in)}
  /\ \A n \in 1..Len(quote.hops) :
       f[n] = HopQuotes(w, quote.hops[n], quote.trade, f[n - 1])
Paying(f, w, hops, amount) ==
  /\ f[0] = amount_after_fee(w.fee, amount)
  /\ \A n \in 1..Len(hops) : f[n] = Paid(w, hops[n], f[n - 1])

(* The best of candidates and the pools of tiers, one after the other.     *)
Preferred(c, n, b) == IF c[n] # {} /\ (b = 0 \/ Better(The(c[n]), The(c[b]))) THEN n ELSE b
Choosing(f, c) ==
  f[0] = 0 /\ \A n \in 1..Len(c) : f[n] = Preferred(c, n, f[n - 1])
Searched(w, tier, failed) == IF tier \in failed THEN {} ELSE TierPools(w, tier)
With(s, pools) == s \o (IF pools = {} THEN <<>> ELSE <<The(pools)>>)
Gathering(f, w, failed) ==
  /\ f[0] = <<>>
  /\ \A n \in 1..Len(Tiers) : f[n] = With(f[n - 1], Searched(w, Tiers[n], failed))

LEMMA RequoteSteps ==
  ASSUME NEW w, NEW quote, NEW fee, Len(quote.hops) \in Nat
  PROVE  \E f : Requoting(f, w, quote, fee) /\ Requote(w, quote, fee) = f[Len(quote.hops)]
<1> DEFINE L == Len(quote.hops)
           base == {amount_after_fee(fee, quote.trade.amount_in)}
           Step(n, S) == HopQuotes(w, quote.hops[n], quote.trade, S)
           Upto(k, g) == g = [n \in 0..k |-> IF n = 0 THEN base ELSE Step(n, g[n - 1])]
           T == {k \in 0..L : \E g : Upto(k, g)}
<1>1. 0 \in T
  <2>1. Upto(0, [n \in 0..0 |-> base])
    OBVIOUS
  <2> HIDE DEF Upto
  <2> QED BY <2>1
<1>2. ASSUME NEW k \in T, k < L PROVE k + 1 \in T
  <2>1. PICK g : Upto(k, g)
    OBVIOUS
  <2> HIDE DEF Step, base
  <2> DEFINE h == [n \in 0..k + 1 |-> IF n = k + 1 THEN Step(k + 1, g[k]) ELSE g[n]]
  <2>2. \A n \in 0..k : g[n] = IF n = 0 THEN base ELSE Step(n, g[n - 1])
    BY <2>1
  <2>3. \A n \in 0..k : h[n] = g[n]
    OBVIOUS
  <2>4. h[k + 1] = Step(k + 1, h[k])
    BY <2>3
  <2>5. \A n \in 0..k + 1 : h[n] = IF n = 0 THEN base ELSE Step(n, h[n - 1])
    <3> SUFFICES ASSUME NEW n \in 0..k + 1
                 PROVE  h[n] = IF n = 0 THEN base ELSE Step(n, h[n - 1])
      OBVIOUS
    <3>1. CASE n = k + 1
      BY <2>4, <3>1
    <3>2. CASE n \in 1..k
      <4>1. n - 1 \in 0..k
        BY <3>2
      <4> QED BY <2>2, <2>3, <3>2, <4>1
    <3>3. CASE n = 0
      BY <2>2, <2>3, <3>3
    <3> QED BY <3>1, <3>2, <3>3
  <2>6. Upto(k + 1, h)
    BY <2>5
  <2>7. k + 1 \in 0..L
    BY <1>2
  <2> HIDE DEF Upto, h
  <2> QED BY <2>6, <2>7
<1>3. \E g : Upto(L, g)
  <2>1. T \in SUBSET (0..L)
    OBVIOUS
  <2>2. T = 0..L
    <3> HIDE DEF T
    <3> QED BY <1>1, <1>2, <2>1, Induction
  <2> HIDE DEF Upto
  <2> QED BY <2>2
<1> DEFINE out == CHOOSE out : Upto(L, out)
<1>4. Upto(L, out)
  BY <1>3
<1>5. Requote(w, quote, fee) = out[L]
  BY DEF Requote, HopQuotes
<1>6. /\ out[0] = base
      /\ \A n \in 1..L : out[n] = Step(n, out[n - 1])
  <2>1. PICK g : g = out
    OBVIOUS
  <2>2. g = [n \in 0..L |-> IF n = 0 THEN base ELSE Step(n, g[n - 1])]
    BY <1>4, <2>1
  <2>3. L \in Nat
    OBVIOUS
  <2> HIDE DEF base, Step, out, L, Upto, T
  <2>4. 0 \in 0..L /\ \A n \in 1..L : n \in 0..L /\ n # 0
    BY <2>3
  <2>5. g[0] = base /\ \A n \in 1..L : g[n] = Step(n, g[n - 1])
    BY <2>2, <2>4
  <2> QED BY <2>1, <2>5
<1> QED BY <1>5, <1>6 DEF Requoting

LEMMA RouteSteps ==
  ASSUME NEW w, NEW hops, NEW amount, Len(hops) \in Nat
  PROVE  \E f : Paying(f, w, hops, amount) /\ RouteOutput(w, hops, amount) = f[Len(hops)]
<1> DEFINE L == Len(hops)
           base == amount_after_fee(w.fee, amount)
           Step(n, x) == Paid(w, hops[n], x)
           Upto(k, g) == g = [n \in 0..k |-> IF n = 0 THEN base ELSE Step(n, g[n - 1])]
           T == {k \in 0..L : \E g : Upto(k, g)}
<1>1. 0 \in T
  <2>1. Upto(0, [n \in 0..0 |-> base])
    OBVIOUS
  <2> HIDE DEF Upto
  <2> QED BY <2>1
<1>2. ASSUME NEW k \in T, k < L PROVE k + 1 \in T
  <2>1. PICK g : Upto(k, g)
    OBVIOUS
  <2> HIDE DEF Step, base
  <2> DEFINE h == [n \in 0..k + 1 |-> IF n = k + 1 THEN Step(k + 1, g[k]) ELSE g[n]]
  <2>2. \A n \in 0..k : g[n] = IF n = 0 THEN base ELSE Step(n, g[n - 1])
    BY <2>1
  <2>3. \A n \in 0..k : h[n] = g[n]
    OBVIOUS
  <2>4. h[k + 1] = Step(k + 1, h[k])
    BY <2>3
  <2>5. \A n \in 0..k + 1 : h[n] = IF n = 0 THEN base ELSE Step(n, h[n - 1])
    <3> SUFFICES ASSUME NEW n \in 0..k + 1
                 PROVE  h[n] = IF n = 0 THEN base ELSE Step(n, h[n - 1])
      OBVIOUS
    <3>1. CASE n = k + 1
      BY <2>4, <3>1
    <3>2. CASE n \in 1..k
      <4>1. n - 1 \in 0..k
        BY <3>2
      <4> QED BY <2>2, <2>3, <3>2, <4>1
    <3>3. CASE n = 0
      BY <2>2, <2>3, <3>3
    <3> QED BY <3>1, <3>2, <3>3
  <2>6. Upto(k + 1, h)
    BY <2>5
  <2>7. k + 1 \in 0..L
    BY <1>2
  <2> HIDE DEF Upto, h
  <2> QED BY <2>6, <2>7
<1>3. \E g : Upto(L, g)
  <2>1. T \in SUBSET (0..L)
    OBVIOUS
  <2>2. T = 0..L
    <3> HIDE DEF T
    <3> QED BY <1>1, <1>2, <2>1, Induction
  <2> HIDE DEF Upto
  <2> QED BY <2>2
<1> DEFINE out == CHOOSE out : Upto(L, out)
<1>4. Upto(L, out)
  BY <1>3
<1>5. RouteOutput(w, hops, amount) = out[L]
  BY DEF RouteOutput, Paid
<1>6. /\ out[0] = base
      /\ \A n \in 1..L : out[n] = Step(n, out[n - 1])
  <2>1. PICK g : g = out
    OBVIOUS
  <2>2. g = [n \in 0..L |-> IF n = 0 THEN base ELSE Step(n, g[n - 1])]
    BY <1>4, <2>1
  <2>3. L \in Nat
    OBVIOUS
  <2> HIDE DEF base, Step, out, L, Upto, T
  <2>4. 0 \in 0..L /\ \A n \in 1..L : n \in 0..L /\ n # 0
    BY <2>3
  <2>5. g[0] = base /\ \A n \in 1..L : g[n] = Step(n, g[n - 1])
    BY <2>2, <2>4
  <2> QED BY <2>1, <2>5
<1> QED BY <1>5, <1>6 DEF Paying

LEMMA BestSteps ==
  ASSUME NEW candidates, Len(candidates) \in Nat
  PROVE  \E f : Choosing(f, candidates) /\ Best(candidates) = f[Len(candidates)]
<1> DEFINE L == Len(candidates)
           base == 0
           Step(n, b) == Preferred(candidates, n, b)
           Upto(k, g) == g = [n \in 0..k |-> IF n = 0 THEN base ELSE Step(n, g[n - 1])]
           T == {k \in 0..L : \E g : Upto(k, g)}
<1>1. 0 \in T
  <2>1. Upto(0, [n \in 0..0 |-> base])
    OBVIOUS
  <2> HIDE DEF Upto
  <2> QED BY <2>1
<1>2. ASSUME NEW k \in T, k < L PROVE k + 1 \in T
  <2>1. PICK g : Upto(k, g)
    OBVIOUS
  <2> HIDE DEF Step, base
  <2> DEFINE h == [n \in 0..k + 1 |-> IF n = k + 1 THEN Step(k + 1, g[k]) ELSE g[n]]
  <2>2. \A n \in 0..k : g[n] = IF n = 0 THEN base ELSE Step(n, g[n - 1])
    BY <2>1
  <2>3. \A n \in 0..k : h[n] = g[n]
    OBVIOUS
  <2>4. h[k + 1] = Step(k + 1, h[k])
    BY <2>3
  <2>5. \A n \in 0..k + 1 : h[n] = IF n = 0 THEN base ELSE Step(n, h[n - 1])
    <3> SUFFICES ASSUME NEW n \in 0..k + 1
                 PROVE  h[n] = IF n = 0 THEN base ELSE Step(n, h[n - 1])
      OBVIOUS
    <3>1. CASE n = k + 1
      BY <2>4, <3>1
    <3>2. CASE n \in 1..k
      <4>1. n - 1 \in 0..k
        BY <3>2
      <4> QED BY <2>2, <2>3, <3>2, <4>1
    <3>3. CASE n = 0
      BY <2>2, <2>3, <3>3
    <3> QED BY <3>1, <3>2, <3>3
  <2>6. Upto(k + 1, h)
    BY <2>5
  <2>7. k + 1 \in 0..L
    BY <1>2
  <2> HIDE DEF Upto, h
  <2> QED BY <2>6, <2>7
<1>3. \E g : Upto(L, g)
  <2>1. T \in SUBSET (0..L)
    OBVIOUS
  <2>2. T = 0..L
    <3> HIDE DEF T
    <3> QED BY <1>1, <1>2, <2>1, Induction
  <2> HIDE DEF Upto
  <2> QED BY <2>2
<1> DEFINE out == CHOOSE out : Upto(L, out)
<1>4. Upto(L, out)
  BY <1>3
<1>5. Best(candidates) = out[L]
  BY DEF Best, Preferred
<1>6. /\ out[0] = base
      /\ \A n \in 1..L : out[n] = Step(n, out[n - 1])
  <2>1. PICK g : g = out
    OBVIOUS
  <2>2. g = [n \in 0..L |-> IF n = 0 THEN base ELSE Step(n, g[n - 1])]
    BY <1>4, <2>1
  <2>3. L \in Nat
    OBVIOUS
  <2> HIDE DEF base, Step, out, L, Upto, T
  <2>4. 0 \in 0..L /\ \A n \in 1..L : n \in 0..L /\ n # 0
    BY <2>3
  <2>5. g[0] = base /\ \A n \in 1..L : g[n] = Step(n, g[n - 1])
    BY <2>2, <2>4
  <2> QED BY <2>1, <2>5
<1> QED BY <1>5, <1>6 DEF Choosing

LEMMA FundingSteps ==
  ASSUME NEW w, NEW failed, Len(Tiers) \in Nat
  PROVE  \E f : Gathering(f, w, failed) /\ FundingPools(w, failed) = f[Len(Tiers)]
<1> DEFINE L == Len(Tiers)
           base == <<>>
           Step(n, s) == With(s, Searched(w, Tiers[n], failed))
           Upto(k, g) == g = [n \in 0..k |-> IF n = 0 THEN base ELSE Step(n, g[n - 1])]
           T == {k \in 0..L : \E g : Upto(k, g)}
<1>1. 0 \in T
  <2>1. Upto(0, [n \in 0..0 |-> base])
    OBVIOUS
  <2> HIDE DEF Upto
  <2> QED BY <2>1
<1>2. ASSUME NEW k \in T, k < L PROVE k + 1 \in T
  <2>1. PICK g : Upto(k, g)
    OBVIOUS
  <2> HIDE DEF Step, base
  <2> DEFINE h == [n \in 0..k + 1 |-> IF n = k + 1 THEN Step(k + 1, g[k]) ELSE g[n]]
  <2>2. \A n \in 0..k : g[n] = IF n = 0 THEN base ELSE Step(n, g[n - 1])
    BY <2>1
  <2>3. \A n \in 0..k : h[n] = g[n]
    OBVIOUS
  <2>4. h[k + 1] = Step(k + 1, h[k])
    BY <2>3
  <2>5. \A n \in 0..k + 1 : h[n] = IF n = 0 THEN base ELSE Step(n, h[n - 1])
    <3> SUFFICES ASSUME NEW n \in 0..k + 1
                 PROVE  h[n] = IF n = 0 THEN base ELSE Step(n, h[n - 1])
      OBVIOUS
    <3>1. CASE n = k + 1
      BY <2>4, <3>1
    <3>2. CASE n \in 1..k
      <4>1. n - 1 \in 0..k
        BY <3>2
      <4> QED BY <2>2, <2>3, <3>2, <4>1
    <3>3. CASE n = 0
      BY <2>2, <2>3, <3>3
    <3> QED BY <3>1, <3>2, <3>3
  <2>6. Upto(k + 1, h)
    BY <2>5
  <2>7. k + 1 \in 0..L
    BY <1>2
  <2> HIDE DEF Upto, h
  <2> QED BY <2>6, <2>7
<1>3. \E g : Upto(L, g)
  <2>1. T \in SUBSET (0..L)
    OBVIOUS
  <2>2. T = 0..L
    <3> HIDE DEF T
    <3> QED BY <1>1, <1>2, <2>1, Induction
  <2> HIDE DEF Upto
  <2> QED BY <2>2
<1> DEFINE out == CHOOSE out : Upto(L, out)
<1>4. Upto(L, out)
  BY <1>3
<1>5. FundingPools(w, failed) = out[L]
  BY DEF FundingPools, With, Searched
<1>6. /\ out[0] = base
      /\ \A n \in 1..L : out[n] = Step(n, out[n - 1])
  <2>1. PICK g : g = out
    OBVIOUS
  <2>2. g = [n \in 0..L |-> IF n = 0 THEN base ELSE Step(n, g[n - 1])]
    BY <1>4, <2>1
  <2>3. L \in Nat
    OBVIOUS
  <2> HIDE DEF base, Step, out, L, Upto, T
  <2>4. 0 \in 0..L /\ \A n \in 1..L : n \in 0..L /\ n # 0
    BY <2>3
  <2>5. g[0] = base /\ \A n \in 1..L : g[n] = Step(n, g[n - 1])
    BY <2>2, <2>4
  <2> QED BY <2>1, <2>5
<1> QED BY <1>5, <1>6 DEF Gathering

-----------------------------------------------------------------------------
(***************************************************************************)
(* Amounts.                                                                *)
(***************************************************************************)
LEMMA Quotient ==
  ASSUME NEW a \in Nat, NEW b \in Nat, a <= BPS * b
  PROVE  a \div BPS <= b
<1> USE FeeMathAssumption
<1>1. a \div BPS \in Nat /\ a % BPS \in Nat /\ a = BPS * (a \div BPS) + (a % BPS)
  BY Division
<1> SUFFICES ASSUME b + 1 <= a \div BPS PROVE FALSE
  BY <1>1
<1>2. BPS * (b + 1) <= BPS * (a \div BPS)
  BY <1>1, Monotone
<1>3. BPS * (b + 1) = BPS * b + BPS
  OBVIOUS
<1> QED BY <1>1, <1>2, <1>3

LEMMA Wrapped ==
  ASSUME NEW n \in Nat
  PROVE  Wrap(n) \in Nat /\ Wrap(n) <= n
<1>1. Width \in Nat \ {0}
  <2>1. BPS * BPS \in Nat
    BY FeeMathAssumption
  <2> QED BY <2>1, FeeMathAssumption
<1>2. n % Width \in Nat /\ n = Width * (n \div Width) + (n % Width) /\ n \div Width \in Nat
  BY <1>1, Division
<1>3. PICK c \in Nat : c = Width * (n \div Width)
  BY <1>1, <1>2
<1>4. n = c + Wrap(n) /\ Wrap(n) \in Nat
  BY <1>2, <1>3 DEF Wrap
<1> QED BY <1>4

(* The minimum of a quote of any size is not above it.                     *)
LEMMA MinimumAtMost ==
  ASSUME NEW q \in Nat, NEW s \in Rates
  PROVE  minimum_amount_out(q, s) \in Nat /\ minimum_amount_out(q, s) <= q
<1> USE FeeMathAssumption DEF Rates
<1> DEFINE rate == BPS - s
           x == q \div BPS
           y == q % BPS
<1>1. rate \in Nat /\ rate <= BPS /\ x \in Nat /\ y \in Nat /\ q = BPS * x + y
  BY Division
<1> HIDE DEF x, y, rate
<1>2. x * rate \in Nat /\ x * rate <= BPS * x
  <2>1. x * rate <= x * BPS
    BY <1>1, Monotone
  <2> QED BY <1>1, <2>1
<1>3. y * rate \in Nat /\ y * rate <= BPS * y
  <2>1. y * rate <= y * BPS
    BY <1>1, Monotone
  <2> QED BY <1>1, <2>1
<1>4. Wrap(x * rate) \in Nat /\ Wrap(x * rate) <= BPS * x
  BY <1>1, <1>2, Wrapped
<1>5. Wrap(y * rate) \in Nat /\ Wrap(y * rate) <= BPS * y
  BY <1>1, <1>3, Wrapped
<1>6. Wrap(y * rate) \div BPS \in Nat /\ Wrap(y * rate) \div BPS <= y
  BY <1>1, <1>5, Quotient, Division
<1>7. PICK m \in Nat : m = Wrap(x * rate) + Wrap(y * rate) \div BPS
  BY <1>4, <1>6
<1>8. m <= q
  BY <1>1, <1>4, <1>6, <1>7
<1>9. Wrap(m) \in Nat /\ Wrap(m) <= q
  BY <1>1, <1>8, Wrapped
<1>10. minimum_amount_out(q, s) = Wrap(m)
  BY <1>7 DEF minimum_amount_out, PerBps, x, y, rate
<1> QED BY <1>9, <1>10

(* What the fee leaves of an amount.                                       *)
LEMMA NetOfFee ==
  ASSUME NEW amount \in U256, NEW fee \in Rates
  PROVE  amount_after_fee(fee, amount) \in Nat
<1> USE FeeMathAssumption DEF U256, Rates
<1>1. calculate_fee(amount, fee) = (amount * fee) \div BPS
  BY FeesAgree DEF mulDiv
<1>2. amount * fee \in Nat /\ amount * fee <= BPS * amount
  <2>1. amount * fee <= amount * BPS
    BY Monotone
  <2> QED BY <2>1
<1>3. (amount * fee) \div BPS \in Nat /\ (amount * fee) \div BPS <= amount
  BY <1>2, Quotient, Division
<1> QED BY <1>1, <1>3 DEF amount_after_fee

-----------------------------------------------------------------------------
(***************************************************************************)
(* Quotes.                                                                 *)
(***************************************************************************)
LEMMA OutputType ==
  ASSUME NEW w \in Worlds, NEW i \in w.deployed, NEW forward, NEW n \in Nat
  PROVE  Output(w, i, forward, n) \in Nat
<1>1. w.rate[i] \in Nat
  BY PreparationAssumption
<1>2. n * w.rate[i] \in Nat
  BY <1>1
<1>3. w.rate[i] # 0 => n \div w.rate[i] \in Nat
  BY <1>1
<1> QED BY <1>2, <1>3 DEF Output

(* A hop's quote is what the pool pays that the hop's deployment made.     *)
Apart(h) == /\ h.pool.kind \in Kinds
            /\ h.pool.kind # "V4" => Native # h.currency_in /\ Native # h.currency_out
TradeFields == {"chain", "amount_in", "sender", "recipient", "currency_in", "currency_out"}

LEMMA OverFields ==
  ASSUME NEW t, DOMAIN t = TradeFields, NEW h, NEW n
  PROVE  /\ Over(t, h, n).currency_in = h.currency_in
         /\ Over(t, h, n).currency_out = h.currency_out
         /\ Over(t, h, n).amount_in = n /\ DOMAIN Over(t, h, n) = TradeFields
BY DEF Over, TradeFields

LEMMA HopQuoteSound ==
  ASSUME NEW w \in Worlds, NEW h, Apart(h), NEW t, DOMAIN t = TradeFields,
         t.amount_in \in Nat, NEW n \in HopQuote(w, h, t)
  PROVE  /\ n \in Nat
         /\ \E i \in Registered(w, h.pool.deployment, Key(h.pool)) :
              n = Output(w, i, h.currency_in < h.currency_out, t.amount_in)
<1> DEFINE o == Over(t, h, t.amount_in)
<1>0. /\ o.currency_in = h.currency_in /\ o.currency_out = h.currency_out
      /\ o.amount_in = t.amount_in
  BY OverFields
<1> HIDE DEF o
<1>1. \E c \in Periphery :
        /\ w.wiring[c].deployment = h.pool.deployment
        /\ n \in Simulated(w, c, Key(h.pool), h.currency_in < h.currency_out, t.amount_in)
  <2>1. CASE h.pool.kind = "V2"
    <3>1. PICK weth \in V2Connect(w) : n \in V2Quote(w, weth, h.pool, o)
      BY <2>1 DEF HopQuote, o
    <3>2. w.wiring["router02"].deployment = V2Factory
      BY <3>1 DEF V2Connect, When
    <3>3. h.pool.deployment = V2Factory
      BY <3>1 DEF V2Quote, V2ValidateTrade, V2ValidatePool
    <3>4. n \in Simulated(w, "router02", Key(h.pool), Forward(Path(weth, o)), o.amount_in)
      BY <3>1 DEF V2Quote
    <3>5. Path(weth, o) = <<h.currency_in, h.currency_out>>
      BY <1>0, <2>1 DEF Path, Underlying, Apart
    <3>6. Forward(Path(weth, o)) = (h.currency_in < h.currency_out)
      BY <3>5 DEF Forward
    <3> QED BY <1>0, <3>2, <3>3, <3>4, <3>6 DEF Periphery
  <2>2. CASE h.pool.kind = "V3"
    <3>1. PICK weth \in V3Connect(w) : n \in V3Quote(w, weth, h.pool, o)
      BY <2>2 DEF HopQuote, o
    <3>2. w.wiring["quoterV2"].deployment = V3Factory
      BY <3>1 DEF V3Connect, When
    <3>3. h.pool.deployment = V3Factory
      BY <3>1 DEF V3Quote, V3ValidateTrade, V3ValidatePool
    <3>4. n \in Simulated(w, "quoterV2", Key(h.pool), Forward(Path(weth, o)), o.amount_in)
      BY <3>1 DEF V3Quote
    <3>5. Path(weth, o) = <<h.currency_in, h.currency_out>>
      BY <1>0, <2>2 DEF Path, Underlying, Apart
    <3>6. Forward(Path(weth, o)) = (h.currency_in < h.currency_out)
      BY <3>5 DEF Forward
    <3> QED BY <1>0, <3>2, <3>3, <3>4, <3>6 DEF Periphery
  <2>3. CASE h.pool.kind = "V4"
    <3>1. V4Connect(w) /\ n \in V4Quote(w, h.pool, o)
      BY <2>3 DEF HopQuote, o
    <3>2. w.wiring["quoter"].deployment = PoolManager
      BY <3>1 DEF V4Connect
    <3>3. h.pool.deployment = PoolManager
      BY <3>1 DEF V4Quote, V4ValidateTrade
    <3>4. n \in Simulated(w, "quoter", Key(h.pool), o.currency_in < o.currency_out, o.amount_in)
      BY <3>1 DEF V4Quote
    <3> QED BY <1>0, <3>2, <3>3, <3>4 DEF Periphery
  <2> QED BY <2>1, <2>2, <2>3 DEF Apart, Kinds
<1>2. PICK i \in Registered(w, h.pool.deployment, Key(h.pool)) :
        n = Output(w, i, h.currency_in < h.currency_out, t.amount_in)
  BY <1>1 DEF Simulated, Positive
<1>3. i \in w.deployed
  BY DEF Registered
<1> QED BY <1>2, <1>3, OutputType

(* A deployment has one pool of an identity.                               *)
LEMMA OnePool ==
  ASSUME NEW w, NEW deployment, NEW key, NEW i \in Registered(w, deployment, key)
  PROVE  Registered(w, deployment, key) = {i}
BY PreparationAssumption DEF Registered

LEMMA TheOnly == \A x : The({x}) = x
BY DEF The

(* A hop of a plan, and the route hop it stands for.                       *)
Encodes(h, e) == /\ Apart(h) /\ h.pool.deployment = Manager(h.pool.kind)
                 /\ e.key = Key(h.pool)
                 /\ e.tokenIn = h.currency_in /\ e.tokenOut = h.currency_out
                 /\ DOMAIN e = {"pool", "key", "tokenIn", "tokenOut", "hookData"}

LEMMA HopPays ==
  ASSUME NEW w \in Worlds, NEW h, NEW e, Encodes(h, e), NEW t, DOMAIN t = TradeFields,
         t.amount_in \in Nat, NEW n \in HopQuote(w, h, t)
  PROVE  n \in Nat /\ n = Paid(w, e, t.amount_in)
<1>1. Apart(h) /\ h.pool.deployment = Manager(h.pool.kind) /\ e.key = Key(h.pool)
      /\ e.tokenIn = h.currency_in /\ e.tokenOut = h.currency_out
  BY DEF Encodes
<1>2. e.key.kind = h.pool.kind
  BY <1>1 DEF Key
<1>3. PICK i \in Registered(w, h.pool.deployment, Key(h.pool)) :
        n = Output(w, i, h.currency_in < h.currency_out, t.amount_in)
  BY <1>1, HopQuoteSound
<1>4. Registered(w, Manager(e.key.kind), e.key) = {i}
  BY <1>1, <1>2, <1>3, OnePool
<1>5. {Output(w, j, e.tokenIn < e.tokenOut, t.amount_in) :
         j \in Registered(w, Manager(e.key.kind), e.key)} = {n}
  BY <1>1, <1>3, <1>4
<1>6. n \in Nat
  BY <1>1, HopQuoteSound
<1> QED BY <1>5, <1>6, TheOnly DEF Paid

(* A new quote of a route is what the route pays in that state.            *)
LEMMA RequoteIsRoute ==
  ASSUME NEW w \in Worlds, NEW quote, Len(quote.hops) \in Nat,
         DOMAIN quote.trade = TradeFields, quote.trade.amount_in \in U256,
         NEW e, Len(e) = Len(quote.hops),
         \A n \in 1..Len(e) : Encodes(quote.hops[n], e[n]),
         NEW m \in Requote(w, quote, w.fee)
  PROVE  m \in Nat /\ m = RouteOutput(w, e, quote.trade.amount_in)
<1>0. PICK fee, amount : fee = w.fee /\ amount = quote.trade.amount_in
  OBVIOUS
<1>1. PICK f : Requoting(f, w, quote, fee) /\ Requote(w, quote, fee) = f[Len(quote.hops)]
  BY RequoteSteps
<1>2. PICK g : Paying(g, w, e, amount) /\ RouteOutput(w, e, amount) = g[Len(e)]
  BY RouteSteps
<1> DEFINE T == {n \in 0..Len(e) : \A a \in f[n] : a \in Nat /\ a = g[n]}
<1>3. 0 \in T
  <2>1. w.fee \in Rates
    BY PreparationAssumption
  <2>2. amount_after_fee(w.fee, quote.trade.amount_in) \in Nat
    BY <2>1, NetOfFee
  <2> QED BY <1>0, <1>1, <1>2, <2>2 DEF Requoting, Paying
<1>4. ASSUME NEW n \in T, n < Len(e) PROVE n + 1 \in T
  <2>1. n \in 0..Len(e) /\ n + 1 \in 1..Len(e) /\ (n + 1) - 1 = n /\ n + 1 \in 0..Len(e)
    BY <1>4
  <2>2. ASSUME NEW b \in f[n + 1] PROVE b \in Nat /\ b = g[n + 1]
    <3>1. PICK a \in f[n] :
            b \in HopQuote(w, quote.hops[n + 1], [quote.trade EXCEPT !.amount_in = a])
      BY <1>0, <1>1, <2>1, <2>2 DEF HopQuotes, Requoting
    <3>2. a \in Nat /\ a = g[n]
      BY <1>4, <3>1
    <3> DEFINE t == [quote.trade EXCEPT !.amount_in = a]
    <3>3. t.amount_in = a /\ DOMAIN t = TradeFields
      BY DEF TradeFields
    <3>4. PICK h, d : h = quote.hops[n + 1] /\ d = e[n + 1] /\ Encodes(h, d)
      BY <2>1
    <3>5. b \in HopQuote(w, h, t)
      BY <3>1, <3>4
    <3> HIDE DEF t
    <3>6. b \in Nat /\ b = Paid(w, d, t.amount_in)
      BY <3>2, <3>3, <3>4, <3>5, HopPays
    <3>7. g[n + 1] = Paid(w, d, g[n])
      BY <1>2, <2>1, <3>4 DEF Paying
    <3> QED BY <3>2, <3>3, <3>6, <3>7
  <2> QED BY <2>1, <2>2
<1>5. T = 0..Len(e)
  <2>1. T \in SUBSET (0..Len(e))
    OBVIOUS
  <2> HIDE DEF T
  <2> QED BY <1>3, <1>4, <2>1, Induction
<1>6. Len(e) \in T
  BY <1>5
<1> QED BY <1>0, <1>1, <1>2, <1>6

(* What building a swap checks, and what the plan says.                    *)
LEMMA PlanSays ==
  ASSUME NEW r, NEW quote, NEW limits, NEW plan \in build_swap(r, quote, limits)
  PROVE  /\ quote.block = r.block /\ limits \in Rates
         /\ plan.expectedFeeBps = r.fee /\ plan.recipient = quote.trade.recipient
         /\ plan.amountIn = quote.trade.amount_in
         /\ plan.minimumAmountOut = minimum_amount_out(quote.amount_out, limits)
         /\ plan.hops = [n \in DOMAIN quote.hops |-> The(encode_hop(quote.hops[n]))]
         /\ \A n \in DOMAIN quote.hops : encode_hop(quote.hops[n]) # {}
         /\ build_swap(r, quote, limits) = {plan}
BY DEF build_swap, When

LEMMA EncodeHop ==
  ASSUME NEW h, h.pool.kind \in Kinds, encode_hop(h) # {}
  PROVE  Encodes(h, The(encode_hop(h)))
<1>1. /\ h.pool.deployment = Manager(h.pool.kind)
      /\ h.pool.kind # "V4" => Native \notin {h.currency_in, h.currency_out}
      /\ encode_hop(h) = {[pool |-> h.pool.id, key |-> Key(h.pool), tokenIn |-> h.currency_in,
                           tokenOut |-> h.currency_out, hookData |-> h.hook_data]}
  BY DEF encode_hop, When
<1>2. The(encode_hop(h)) = [pool |-> h.pool.id, key |-> Key(h.pool), tokenIn |-> h.currency_in,
                            tokenOut |-> h.currency_out, hookData |-> h.hook_data]
  BY <1>1, TheOnly
<1> QED BY <1>1, <1>2 DEF Encodes, Apart

LEMMA PlanEncodes ==
  ASSUME NEW r, NEW quote, NEW limits, NEW plan \in build_swap(r, quote, limits),
         NEW S, quote.hops \in Seq(S),
         \A n \in DOMAIN quote.hops : quote.hops[n].pool.kind \in Kinds
  PROVE  /\ Len(plan.hops) = Len(quote.hops) /\ Len(quote.hops) \in Nat
         /\ \A n \in 1..Len(plan.hops) : Encodes(quote.hops[n], plan.hops[n])
<1>1. PICK L \in Nat : L = Len(quote.hops) /\ DOMAIN quote.hops = 1..L
  OBVIOUS
<1>2. /\ plan.hops = [n \in 1..L |-> The(encode_hop(quote.hops[n]))]
      /\ \A n \in 1..L : encode_hop(quote.hops[n]) # {}
  BY <1>1, PlanSays
<1>3. Len(plan.hops) = L
  <2>1. plan.hops \in Seq({The(encode_hop(quote.hops[n])) : n \in 1..L}) /\ DOMAIN plan.hops = 1..L
    BY <1>2
  <2> QED BY <2>1
<1>4. \A n \in 1..L : Encodes(quote.hops[n], plan.hops[n])
  BY <1>1, <1>2, EncodeHop
<1> QED BY <1>1, <1>3, <1>4

-----------------------------------------------------------------------------
(***************************************************************************)
(* The search for a funding hop, and the best of its candidates.           *)
(***************************************************************************)
LEMMA TheIn == \A S : S # {} => The(S) \in S
BY DEF The

LEMMA BestIsBest ==
  ASSUME NEW c, Len(c) \in Nat, \A n \in 1..Len(c) : c[n] \subseteq Nat
  PROVE  /\ Best(c) \in 0..Len(c)
         /\ Best(c) # 0 => /\ c[Best(c)] # {}
                           /\ \A n \in 1..Len(c) : c[n] # {} => The(c[n]) <= The(c[Best(c)])
<1>1. PICK f : Choosing(f, c) /\ Best(c) = f[Len(c)]
  BY BestSteps
<1> DEFINE Right(n, b) == /\ b \in 0..n
                          /\ b = 0 => \A k \in 1..n : c[k] = {}
                          /\ b # 0 => /\ c[b] # {}
                                      /\ \A k \in 1..n : c[k] # {} => The(c[k]) <= The(c[b])
           T == {n \in 0..Len(c) : Right(n, f[n])}
<1>2. 0 \in T
  BY <1>1 DEF Choosing
<1>3. \A n \in 1..Len(c) : c[n] # {} => The(c[n]) \in Nat
  BY TheIn
<1>4. ASSUME NEW n \in T, n < Len(c) PROVE n + 1 \in T
  <2>1. n \in Nat /\ n + 1 \in 1..Len(c) /\ (n + 1) - 1 = n /\ n + 1 \in 0..Len(c)
    BY <1>4
  <2>2. PICK a, b : a = f[n] /\ b = f[n + 1] /\ b = Preferred(c, n + 1, a)
    BY <1>1, <2>1 DEF Choosing
  <2>3. Right(n, a)
    BY <2>2
  <2>4. ASSUME NEW k \in 1..n + 1 PROVE k \in 1..n \/ k = n + 1
    BY <2>1
  <2>5. CASE c[n + 1] = {}
    <3>1. b = a
      BY <2>2, <2>5 DEF Preferred
    <3>2. a # 0 => \A k \in 1..n + 1 : c[k] # {} => The(c[k]) <= The(c[a])
      BY <2>3, <2>4, <2>5
    <3>3. a = 0 => \A k \in 1..n + 1 : c[k] = {}
      BY <2>3, <2>4, <2>5
    <3>4. b \in 0..n + 1
      BY <2>1, <2>3, <3>1
    <3>5. Right(n + 1, b)
      BY <2>3, <3>1, <3>2, <3>3, <3>4
    <3> HIDE DEF Right
    <3> QED BY <2>1, <2>2, <3>5
  <2>6. CASE c[n + 1] # {} /\ (a = 0 \/ The(c[n + 1]) > The(c[a]))
    <3>1. b = n + 1 /\ b \in 0..n + 1
      BY <2>1, <2>2, <2>6 DEF Preferred, Better
    <3>2. ASSUME NEW k \in 1..n + 1, c[k] # {} PROVE The(c[k]) <= The(c[b])
      <4>1. The(c[n + 1]) \in Nat /\ The(c[k]) \in Nat
        BY <1>3, <2>1, <2>6, <3>2
      <4>2. CASE k = n + 1
        BY <3>1, <4>1, <4>2
      <4>3. CASE k \in 1..n
        <5>1. a # 0
          BY <2>3, <3>2, <4>3
        <5>2. The(c[k]) <= The(c[a]) /\ c[a] # {} /\ a \in 1..Len(c)
          BY <2>1, <2>3, <3>2, <4>3, <5>1
        <5>3. The(c[a]) \in Nat /\ The(c[n + 1]) > The(c[a])
          BY <1>3, <2>6, <5>1, <5>2
        <5> QED BY <3>1, <4>1, <5>2, <5>3
      <4> QED BY <2>4, <4>2, <4>3
    <3>3. Right(n + 1, b)
      BY <2>1, <2>6, <3>1, <3>2
    <3> HIDE DEF Right
    <3> QED BY <2>1, <2>2, <3>3
  <2>7. CASE c[n + 1] # {} /\ ~(a = 0 \/ The(c[n + 1]) > The(c[a]))
    <3>1. b = a /\ a # 0
      BY <2>2, <2>7 DEF Preferred, Better
    <3>2. ASSUME NEW k \in 1..n + 1, c[k] # {} PROVE The(c[k]) <= The(c[b])
      <4>1. a \in 1..Len(c) /\ c[a] # {}
        BY <2>1, <2>3, <3>1
      <4>2. The(c[n + 1]) \in Nat /\ The(c[a]) \in Nat
        BY <1>3, <2>1, <2>7, <4>1
      <4>3. CASE k = n + 1
        BY <2>7, <3>1, <4>2, <4>3
      <4>4. CASE k \in 1..n
        BY <2>3, <3>1, <3>2, <4>4
      <4> QED BY <2>4, <4>3, <4>4
    <3>3. b \in 0..n + 1 /\ c[b] # {}
      BY <2>1, <2>3, <3>1
    <3>4. Right(n + 1, b)
      BY <3>1, <3>2, <3>3
    <3> HIDE DEF Right
    <3> QED BY <2>1, <2>2, <3>4
  <2> QED BY <2>5, <2>6, <2>7
<1>5. T = 0..Len(c)
  <2>1. T \in SUBSET (0..Len(c))
    OBVIOUS
  <2> HIDE DEF T
  <2> QED BY <1>2, <1>4, <2>1, Induction
<1>6. Len(c) \in T
  BY <1>5
<1> QED BY <1>1, <1>6

(* A tier has one pool of two tokens.                                      *)
LEMMA TierPool ==
  ASSUME NEW w \in Worlds, NEW tier, NEW p \in TierPools(w, tier)
  PROVE  /\ TierPools(w, tier) = {p}
         /\ \E i \in w.deployed \cap Genuine :
              /\ p = Claim[i] /\ i \in Ids /\ p.deployment = V3Factory /\ p.kind = "V3"
              /\ p.tokens = Sorted(FundingTrade.currency_in, FundingTrade.currency_out)
              /\ V3ValidatePool(p)
<1>1. ASSUME NEW q \in TierPools(w, tier)
      PROVE  \E i \in w.deployed \cap Genuine :
               /\ q = Claim[i] /\ q.deployment = V3Factory /\ q.fee = tier
               /\ q.tokens = Sorted(FundingTrade.currency_in, FundingTrade.currency_out)
               /\ V3ValidatePool(q)
  BY <1>1 DEF TierPools, V3LoadPool, When
<1>2. PICK i \in w.deployed \cap Genuine :
        /\ p = Claim[i] /\ p.deployment = V3Factory /\ p.fee = tier
        /\ p.tokens = Sorted(FundingTrade.currency_in, FundingTrade.currency_out)
        /\ V3ValidatePool(p)
  BY <1>1
<1>3. ASSUME NEW q \in TierPools(w, tier) PROVE q = p
  <2>1. PICK j \in w.deployed \cap Genuine :
          /\ q = Claim[j] /\ q.deployment = V3Factory /\ q.fee = tier
          /\ q.tokens = Sorted(FundingTrade.currency_in, FundingTrade.currency_out)
    BY <1>1, <1>3
  <2>2. Claim[i].kind = "V3" /\ Claim[j].kind = "V3"
    BY <1>2, <2>1, PreparationAssumption
  <2>3. Key(Claim[i]) = Key(Claim[j])
    BY <1>2, <2>1, <2>2 DEF Key
  <2> QED BY <1>2, <2>1, <2>3, PreparationAssumption
<1> QED BY <1>2, <1>3, PreparationAssumption

TierSet == {Tiers[k] : k \in DOMAIN Tiers}
FirstTiers(n) == {Tiers[k] : k \in 1..n}
AllClaims == {Claim[i] : i \in Ids}

LEMMA AppendOne ==
  ASSUME NEW S, NEW s \in Seq(S), NEW x \in S
  PROVE  /\ s \o <<x>> \in Seq(S)
         /\ \A n \in DOMAIN s : n \in DOMAIN (s \o <<x>>) /\ (s \o <<x>>)[n] = s[n]
         /\ Len(s) + 1 \in DOMAIN (s \o <<x>>) /\ (s \o <<x>>)[Len(s) + 1] = x
         /\ \A n \in DOMAIN (s \o <<x>>) : n \in DOMAIN s \/ n = Len(s) + 1
OBVIOUS

(* The search finds, tier by tier, every pool of those that did not fail.  *)
Found(s, w, tiers, failed) ==
  /\ \A n \in DOMAIN s : \E tier \in TierSet : s[n] \in TierPools(w, tier)
  /\ \A tier \in tiers \ failed : \A pool \in TierPools(w, tier) : \E n \in DOMAIN s : s[n] = pool

LEMMA FundingPoolsFound ==
  ASSUME NEW w \in Worlds, NEW failed
  PROVE  FundingPools(w, failed) \in Seq(AllClaims)
         /\ Found(FundingPools(w, failed), w, TierSet, failed)
<1>0. PICK L \in Nat : L = Len(Tiers) /\ DOMAIN Tiers = 1..L
  BY PreparationAssumption
<1>1. PICK f : Gathering(f, w, failed) /\ FundingPools(w, failed) = f[L]
  BY <1>0, FundingSteps
<1> DEFINE T == {n \in 0..L : /\ f[n] \in Seq(AllClaims)
                              /\ Found(f[n], w, FirstTiers(n), failed)}
<1>2. 0 \in T
  <2>1. PICK s : s = f[0] /\ s = <<>>
    BY <1>1 DEF Gathering
  <2>2. s \in Seq(AllClaims) /\ DOMAIN s = {}
    BY <2>1
  <2>3. Found(s, w, FirstTiers(0), failed)
    BY <2>2 DEF Found, FirstTiers
  <2>4. f[0] \in Seq(AllClaims) /\ Found(f[0], w, FirstTiers(0), failed)
    BY <2>1, <2>2, <2>3
  <2>5. 0 \in 0..L
    OBVIOUS
  <2> QED BY <2>4, <2>5
<1>3. ASSUME NEW n \in T, n < L PROVE n + 1 \in T
  <2>1. n \in Nat /\ n + 1 \in 1..L /\ (n + 1) - 1 = n /\ n + 1 \in 0..L
    BY <1>3
  <2>2. PICK s, r, tier : /\ s = f[n] /\ r = f[n + 1] /\ tier = Tiers[n + 1]
                          /\ r = With(s, Searched(w, tier, failed))
    BY <1>0, <1>1, <2>1 DEF Gathering
  <2>3. s \in Seq(AllClaims) /\ Found(s, w, FirstTiers(n), failed)
    BY <2>2
  <2>4. tier \in TierSet
    BY <1>0, <2>1, <2>2 DEF TierSet
  <2>5. FirstTiers(n + 1) = FirstTiers(n) \union {tier}
    BY <2>1, <2>2 DEF FirstTiers
  <2>6. CASE Searched(w, tier, failed) = {}
    <3>1. r = s
      BY <2>2, <2>3, <2>6 DEF With
    <3>2. tier \in failed \/ TierPools(w, tier) = {}
      BY <2>6 DEF Searched
    <3>3. Found(r, w, FirstTiers(n) \union {tier}, failed)
      BY <2>3, <3>1, <3>2 DEF Found
    <3> QED BY <2>1, <2>2, <2>3, <2>5, <3>1, <3>3
  <2>7. CASE Searched(w, tier, failed) # {}
    <3>1. PICK p : p \in TierPools(w, tier) /\ p = The(Searched(w, tier, failed))
      BY <2>7, TheIn DEF Searched
    <3>2. TierPools(w, tier) = {p} /\ p \in AllClaims
      BY <3>1, TierPool DEF AllClaims
    <3>3. r = s \o <<p>>
      BY <2>2, <2>7, <3>1 DEF With
    <3>4. /\ r \in Seq(AllClaims) /\ \A m \in DOMAIN s : m \in DOMAIN r /\ r[m] = s[m]
          /\ Len(s) + 1 \in DOMAIN r /\ r[Len(s) + 1] = p
          /\ \A m \in DOMAIN r : m \in DOMAIN s \/ m = Len(s) + 1
      BY <2>3, <3>2, <3>3, AppendOne
    <3>5. Found(r, w, FirstTiers(n) \union {tier}, failed)
      BY <2>3, <2>4, <3>2, <3>4 DEF Found
    <3> QED BY <2>1, <2>2, <2>5, <3>4, <3>5
  <2> QED BY <2>6, <2>7
<1>4. T = 0..L
  <2>1. T \in SUBSET (0..L)
    OBVIOUS
  <2> HIDE DEF T
  <2> QED BY <1>2, <1>3, <2>1, Induction
<1>5. L \in T
  <2> HIDE DEF T
  <2> QED BY <1>4
<1>6. TierSet = FirstTiers(L)
  BY <1>0 DEF TierSet, FirstTiers
<1> QED BY <1>1, <1>5, <1>6

-----------------------------------------------------------------------------
(***************************************************************************)
(* A quote that is prepared is a new quote of the same route.              *)
(***************************************************************************)
LEMMA SameOver ==
  ASSUME NEW w, NEW h, NEW t, NEW u, DOMAIN t = TradeFields, DOMAIN u = TradeFields,
         \A x \in {"chain", "amount_in", "sender", "recipient"} : t[x] = u[x]
  PROVE  HopQuote(w, h, t) = HopQuote(w, h, u)
<1>1. t.amount_in = u.amount_in /\ t.chain = u.chain /\ t.sender = u.sender
      /\ t.recipient = u.recipient
  OBVIOUS
<1>2. Over(t, h, t.amount_in) = Over(u, h, u.amount_in)
  BY <1>1 DEF Over, TradeFields
<1> QED BY <1>2 DEF HopQuote

LEMMA RequoteOne ==
  ASSUME NEW w, NEW quote, NEW fee, NEW h, quote.hops = <<h>>
  PROVE  Requote(w, quote, fee) =
           HopQuote(w, h, [quote.trade EXCEPT !.amount_in =
                                      amount_after_fee(fee, quote.trade.amount_in)])
<1>1. Len(quote.hops) = 1 /\ quote.hops[1] = h
  OBVIOUS
<1>2. PICK f : Requoting(f, w, quote, fee) /\ Requote(w, quote, fee) = f[1]
  <2>1. Len(quote.hops) \in Nat
    BY <1>1
  <2>2. PICK f : Requoting(f, w, quote, fee) /\ Requote(w, quote, fee) = f[Len(quote.hops)]
    BY <2>1, RequoteSteps
  <2> QED BY <1>1, <2>2
<1>3. /\ f[0] = {amount_after_fee(fee, quote.trade.amount_in)}
      /\ f[1] = HopQuotes(w, h, quote.trade, f[0])
  <2>1. 1 \in 1..Len(quote.hops) /\ 1 - 1 = 0
    BY <1>1
  <2> QED BY <1>1, <1>2, <2>1 DEF Requoting
<1> QED BY <1>2, <1>3 DEF HopQuotes

LEMMA RequoteTwo ==
  ASSUME NEW w, NEW quote, NEW fee, NEW g, NEW h, quote.hops = <<g, h>>
  PROVE  Requote(w, quote, fee) =
           HopQuotes(w, h, quote.trade,
                     HopQuote(w, g, [quote.trade EXCEPT !.amount_in =
                                        amount_after_fee(fee, quote.trade.amount_in)]))
<1>1. Len(quote.hops) = 2 /\ quote.hops[1] = g /\ quote.hops[2] = h
  OBVIOUS
<1>2. PICK f : Requoting(f, w, quote, fee) /\ Requote(w, quote, fee) = f[2]
  <2>1. Len(quote.hops) \in Nat
    BY <1>1
  <2>2. PICK f : Requoting(f, w, quote, fee) /\ Requote(w, quote, fee) = f[Len(quote.hops)]
    BY <2>1, RequoteSteps
  <2> QED BY <1>1, <2>2
<1>3. /\ f[0] = {amount_after_fee(fee, quote.trade.amount_in)}
      /\ f[1] = HopQuotes(w, g, quote.trade, f[0])
      /\ f[2] = HopQuotes(w, h, quote.trade, f[1])
  <2>1. 1 \in 1..Len(quote.hops) /\ 1 - 1 = 0 /\ 2 \in 1..Len(quote.hops) /\ 2 - 1 = 1
    BY <1>1
  <2> QED BY <1>1, <1>2, <2>1 DEF Requoting
<1>4. f[1] = HopQuote(w, g, [quote.trade EXCEPT !.amount_in =
                                amount_after_fee(fee, quote.trade.amount_in)])
  BY <1>3 DEF HopQuotes
<1> QED BY <1>2, <1>3, <1>4

(* The quote a trader makes of these hops.                                 *)
QuoteOf(hops, n) == [hops |-> hops, trade |-> TradeOf(Ask, Hop), block |-> Block,
                     amount_out |-> n]

LEMMA TradeShape == /\ DOMAIN TradeOf(Ask, Hop) = TradeFields
                    /\ TradeOf(Ask, Hop).amount_in = Ask.amount_in
                    /\ TradeOf(Ask, Hop).recipient = Wallet
BY DEF TradeOf, TradeFields

LEMMA OverSame ==
  ASSUME NEW w, NEW h, NEW t, DOMAIN t = TradeFields, NEW u, DOMAIN u = TradeFields,
         \A x \in {"chain", "sender", "recipient"} : t[x] = u[x], NEW n
  PROVE  HopQuote(w, h, [t EXCEPT !.amount_in = n]) = HopQuote(w, h, Over(u, h, n))
<1>1. PICK a, b : a = [t EXCEPT !.amount_in = n] /\ b = Over(u, h, n)
  OBVIOUS
<1>2. DOMAIN a = TradeFields /\ a.amount_in = n /\ \A x \in {"chain", "sender", "recipient"} : a[x] = t[x]
  BY <1>1 DEF TradeFields
<1>3. DOMAIN b = TradeFields /\ b.amount_in = n /\ \A x \in {"chain", "sender", "recipient"} : b[x] = u[x]
  BY <1>1 DEF TradeFields, Over
<1>4. \A x \in {"chain", "amount_in", "sender", "recipient"} : a[x] = b[x]
  BY <1>2, <1>3
<1>5. HopQuote(w, h, a) = HopQuote(w, h, b)
  BY <1>2, <1>3, <1>4, SameOver
<1> QED BY <1>1, <1>5

LEMMA QuoteFields ==
  ASSUME NEW hops, NEW n
  PROVE  /\ QuoteOf(hops, n).hops = hops /\ QuoteOf(hops, n).trade = TradeOf(Ask, Hop)
         /\ QuoteOf(hops, n).block = Block /\ QuoteOf(hops, n).amount_out = n
         /\ DOMAIN QuoteOf(hops, n) = {"hops", "trade", "block", "amount_out"}
BY DEF QuoteOf

LEMMA DirectQuote ==
  ASSUME NEW w, NEW n
  PROVE  Requote(w, QuoteOf(<<Hop>>, n), Fee) =
           HopQuote(w, Hop, Over(TradeOf(Ask, Hop), Hop, amount_after_fee(Fee, Ask.amount_in)))
<1>1. PICK h, t, x, fee : h = Hop /\ t = TradeOf(Ask, Hop) /\ fee = Fee
                          /\ x = amount_after_fee(fee, Ask.amount_in)
  OBVIOUS
<1>2. PICK q : q = QuoteOf(<<Hop>>, n)
  OBVIOUS
<1>3. q.hops = <<h>> /\ q.trade = t
  BY <1>1, <1>2, QuoteFields
<1>4. DOMAIN t = TradeFields /\ t.amount_in = Ask.amount_in
  BY <1>1, TradeShape
<1>5. Requote(w, q, fee) = HopQuote(w, h, [t EXCEPT !.amount_in = x])
  <2>1. Requote(w, q, fee) = HopQuote(w, h, [q.trade EXCEPT !.amount_in =
                                                amount_after_fee(fee, q.trade.amount_in)])
    BY <1>3, RequoteOne
  <2> QED BY <1>1, <1>3, <1>4, <2>1
<1>6. HopQuote(w, h, [t EXCEPT !.amount_in = x]) = HopQuote(w, h, Over(t, h, x))
  BY <1>4, OverSame
<1> QED BY <1>1, <1>2, <1>5, <1>6

LEMMA FundedQuote ==
  ASSUME NEW w, w = At(Block), NEW n, NEW pool
  PROVE  Requote(w, QuoteOf(<<FundingHop(pool), Hop>>, n), Fee) = Candidate(pool)
<1>1. PICK g, h, t, x, fee : g = FundingHop(pool) /\ h = Hop /\ t = TradeOf(Ask, Hop) /\ fee = Fee
                             /\ x = amount_after_fee(fee, Ask.amount_in)
  OBVIOUS
<1>2. PICK q, u : q = QuoteOf(<<FundingHop(pool), Hop>>, n) /\ u = FundingTrade
  OBVIOUS
<1>3. q.hops = <<g, h>> /\ q.trade = t
  BY <1>1, <1>2, QuoteFields
<1>4. DOMAIN t = TradeFields /\ t.amount_in = Ask.amount_in
  BY <1>1, TradeShape
<1>5. Requote(w, q, fee) = HopQuotes(w, h, t, HopQuote(w, g, [t EXCEPT !.amount_in = x]))
  <2>1. Requote(w, q, fee) =
          HopQuotes(w, h, q.trade,
                    HopQuote(w, g, [q.trade EXCEPT !.amount_in =
                                       amount_after_fee(fee, q.trade.amount_in)]))
    BY <1>3, RequoteTwo
  <2> QED BY <1>1, <1>3, <1>4, <2>1
<1>6. /\ DOMAIN u = TradeFields /\ u.amount_in = x
      /\ \A f \in {"chain", "sender", "recipient"} : t[f] = u[f]
  BY <1>1, <1>2, <1>4 DEF FundingTrade, TradeFields
<1>7. HopQuote(w, g, [t EXCEPT !.amount_in = x]) = HopQuote(w, g, u)
  <2>1. PICK v : v = [t EXCEPT !.amount_in = x]
    OBVIOUS
  <2>2. DOMAIN v = TradeFields /\ \A f \in {"chain", "amount_in", "sender", "recipient"} : v[f] = u[f]
    BY <1>4, <1>6, <2>1 DEF TradeFields
  <2>3. HopQuote(w, g, v) = HopQuote(w, g, u)
    BY <1>6, <2>2, SameOver
  <2> QED BY <2>1, <2>3
<1>8. \A y : HopQuote(w, h, [t EXCEPT !.amount_in = y]) = HopQuote(w, h, Over(u, h, y))
  BY <1>4, <1>6, OverSame
<1>9. HopQuotes(w, h, t, HopQuote(w, g, u)) =
        UNION {HopQuote(w, h, Over(u, h, y)) : y \in HopQuote(w, g, u)}
  <2>1. PICK S : S = HopQuote(w, g, u)
    OBVIOUS
  <2>2. ASSUME NEW z PROVE z \in HopQuotes(w, h, t, S)
                             <=> z \in UNION {HopQuote(w, h, Over(u, h, y)) : y \in S}
    <3>1. z \in HopQuotes(w, h, t, S)
            <=> \E y \in S : z \in HopQuote(w, h, [t EXCEPT !.amount_in = y])
      BY DEF HopQuotes
    <3>2. z \in UNION {HopQuote(w, h, Over(u, h, y)) : y \in S}
            <=> \E y \in S : z \in HopQuote(w, h, Over(u, h, y))
      OBVIOUS
    <3>3. \A y \in S : z \in HopQuote(w, h, [t EXCEPT !.amount_in = y])
                        <=> z \in HopQuote(w, h, Over(u, h, y))
      BY <1>8
    <3> QED BY <3>1, <3>2, <3>3
  <2>3. HopQuotes(w, h, t, S) = UNION {HopQuote(w, h, Over(u, h, y)) : y \in S}
    BY <2>2
  <2> QED BY <2>1, <2>3
<1>10. Candidate(pool) = UNION {HopQuote(w, h, Over(u, h, y)) : y \in HopQuote(w, g, u)}
  BY <1>1, <1>2 DEF Candidate
<1> QED BY <1>1, <1>2, <1>5, <1>7, <1>9, <1>10

-----------------------------------------------------------------------------
(***************************************************************************)
(* What preparation returns is right, and would land.                      *)
(***************************************************************************)
LEMMA ClientIs ==
  ASSUME ChainRight, router # {}
  PROVE  /\ Block \in DOMAIN blocks /\ At(Block) \in Worlds
         /\ Fee = At(Block).fee /\ The(router) = ClientAt(Block)
<1>1. The(router) \in router
  BY TheIn
<1>2. PICK b \in DOMAIN blocks : The(router) = [block |-> b, fee |-> At(b).fee]
  BY <1>1 DEF ChainRight
<1>3. Block = b /\ Fee = At(b).fee
  BY <1>2 DEF Block, Fee
<1>4. At(b) \in Worlds
  BY DEF ChainRight, At
<1> QED BY <1>2, <1>3, <1>4 DEF ClientAt

LEMMA SeqOfItself ==
  ASSUME NEW S, NEW s \in Seq(S)
  PROVE  s \in Seq({s[n] : n \in DOMAIN s})
OBVIOUS

LEMMA PreparedRight ==
  ASSUME ChainRight, router # {}, Ask.amount_in \in U256, Ask.limits \in Rates,
         NEW hops, NEW S, hops \in Seq(S), \A n \in DOMAIN hops : hops[n].pool.kind \in Kinds,
         NEW amounts, NEW funding,
         \A n \in amounts : n \in Nat /\ n \in Requote(At(Block), QuoteOf(hops, n), Fee),
         NEW p \in PreparedSwaps(hops, amounts, funding)
  PROVE  /\ PlanRight(p) /\ QuoteRight(p)
         /\ p.quote.amount_out \in amounts /\ p.quote = QuoteOf(hops, p.quote.amount_out)
         /\ p.funding = funding /\ p.quote.block = Block
<1>1. PICK n, q, plan :
        /\ n \in amounts /\ q = QuoteOf(hops, n) /\ plan \in build_swap(The(router), q, Ask.limits)
        /\ p = [quote |-> q, plan |-> plan, funding |-> funding, limits |-> Ask.limits,
                fee_amount |-> calculate_fee(q.trade.amount_in, Fee)]
  BY DEF PreparedSwaps, QuoteOf
<1>2. /\ p.quote = q /\ p.plan = plan /\ p.funding = funding /\ p.limits = Ask.limits
      /\ p.fee_amount = calculate_fee(q.trade.amount_in, Fee)
      /\ DOMAIN p = {"quote", "plan", "funding", "limits", "fee_amount"}
  BY <1>1
<1>3. /\ q.hops = hops /\ q.block = Block /\ q.amount_out = n /\ q.trade = TradeOf(Ask, Hop)
      /\ DOMAIN q = {"hops", "trade", "block", "amount_out"}
  BY <1>1, QuoteFields
<1>4. /\ DOMAIN q.trade = TradeFields /\ q.trade.amount_in = Ask.amount_in
      /\ q.trade.recipient = Wallet
  BY <1>3, TradeShape
<1>5. /\ Block \in DOMAIN blocks /\ Fee = At(Block).fee /\ The(router) = ClientAt(Block)
  BY ClientIs
<1>6. build_swap(ClientAt(Block), q, Ask.limits) = {plan}
  <2>1. PICK r, l : r = The(router) /\ l = Ask.limits
    OBVIOUS
  <2>2. plan \in build_swap(r, q, l)
    BY <1>1, <2>1
  <2>3. build_swap(r, q, l) = {plan}
    BY <2>2, PlanSays
  <2> QED BY <1>5, <2>1, <2>3
<1>7. hops \in Seq({hops[k] : k \in DOMAIN hops})
  BY SeqOfItself
<1>8. PlanRight(p)
  <2>1. q.amount_out \in Nat
    BY <1>1, <1>3
  <2> QED BY <1>2, <1>3, <1>4, <1>5, <1>6, <1>7, <2>1 DEF PlanRight, TradeFields
<1>9. QuoteRight(p)
  BY <1>1, <1>2, <1>3, <1>5 DEF QuoteRight
<1> QED BY <1>1, <1>2, <1>3, <1>8, <1>9

(* What is right is in one block, and lands there.                         *)
InOneBlock(p) ==
  /\ p.quote.amount_out = RouteOutput(At(p.quote.block), p.plan.hops, p.quote.trade.amount_in)
  /\ p.plan.expectedFeeBps = At(p.quote.block).fee
  /\ p.fee_amount = mulDiv(p.quote.trade.amount_in, At(p.quote.block).fee)

LEMMA PlanIs ==
  ASSUME ChainRight, NEW p, PlanRight(p)
  PROVE  /\ p.quote.block \in DOMAIN blocks /\ At(p.quote.block) \in Worlds
         /\ At(p.quote.block).fee \in Rates /\ DOMAIN p.quote.trade = TradeFields
         /\ p.quote.trade.amount_in \in U256 /\ p.limits \in Rates
         /\ p.plan \in build_swap(ClientAt(p.quote.block), p.quote, p.limits)
         /\ p.plan.expectedFeeBps = At(p.quote.block).fee
         /\ p.plan.amountIn = p.quote.trade.amount_in /\ p.plan.recipient = Wallet
         /\ p.plan.minimumAmountOut = minimum_amount_out(p.quote.amount_out, p.limits)
<1>1. PICK q, b, limits, plan : q = p.quote /\ b = q.block /\ limits = p.limits /\ plan = p.plan
  OBVIOUS
<1>2. /\ b \in DOMAIN blocks /\ DOMAIN q.trade = TradeFields /\ q.trade.amount_in \in U256
      /\ limits \in Rates /\ q.trade.recipient = Wallet
      /\ plan \in build_swap(ClientAt(b), q, limits)
  BY <1>1 DEF PlanRight, TradeFields
<1>3. At(b) \in Worlds
  BY <1>2 DEF ChainRight, At
<1>4. At(b).fee \in Rates
  BY <1>3, PreparationAssumption
<1>5. /\ plan.expectedFeeBps = ClientAt(b).fee /\ plan.recipient = q.trade.recipient
      /\ plan.amountIn = q.trade.amount_in
      /\ plan.minimumAmountOut = minimum_amount_out(q.amount_out, limits)
  <2>1. PICK r : r = ClientAt(b)
    OBVIOUS
  <2>2. plan \in build_swap(r, q, limits)
    BY <1>2, <2>1
  <2>3. /\ plan.expectedFeeBps = r.fee /\ plan.recipient = q.trade.recipient
        /\ plan.amountIn = q.trade.amount_in
        /\ plan.minimumAmountOut = minimum_amount_out(q.amount_out, limits)
    BY <2>2 DEF build_swap, When
  <2> QED BY <2>1, <2>3
<1>6. ClientAt(b).fee = At(b).fee
  BY DEF ClientAt
<1> QED BY <1>1, <1>2, <1>3, <1>4, <1>5, <1>6

(* The fee amount that is shown is what the contract takes.                *)
LEMMA FeeShown ==
  ASSUME ChainRight, NEW p, PlanRight(p), QuoteRight(p)
  PROVE  p.fee_amount = mulDiv(p.quote.trade.amount_in, At(p.quote.block).fee)
<1>1. p.quote.trade.amount_in \in U256 /\ At(p.quote.block).fee \in Rates
  BY PlanIs
<1>2. p.fee_amount = calculate_fee(p.quote.trade.amount_in, At(p.quote.block).fee)
  BY DEF QuoteRight
<1> QED BY <1>1, <1>2, FeesAgree

LEMMA PlanRouted ==
  ASSUME ChainRight, NEW p, PlanRight(p), NEW w \in Worlds, NEW n \in Requote(w, p.quote, w.fee)
  PROVE  n \in Nat /\ n = RouteOutput(w, p.plan.hops, p.quote.trade.amount_in)
<1>1. PICK q, e, r : q = p.quote /\ e = p.plan.hops /\ r = ClientAt(q.block)
  OBVIOUS
<1>2. p.plan \in build_swap(r, q, p.limits) /\ DOMAIN q.trade = TradeFields
      /\ q.trade.amount_in \in U256
  BY <1>1, PlanIs
<1>3. PICK S : q.hops \in Seq(S) /\ \A k \in DOMAIN q.hops : q.hops[k].pool.kind \in Kinds
  BY <1>1 DEF PlanRight
<1>4. /\ Len(e) = Len(q.hops) /\ Len(q.hops) \in Nat
      /\ \A k \in 1..Len(e) : Encodes(q.hops[k], e[k])
  BY <1>1, <1>2, <1>3, PlanEncodes
<1>5. n \in Requote(w, q, w.fee)
  BY <1>1
<1> QED BY <1>1, <1>2, <1>4, <1>5, RequoteIsRoute

LEMMA RightLands ==
  ASSUME ChainRight, NEW p, PlanRight(p), QuoteRight(p)
  PROVE  InOneBlock(p) /\ Lands(p) /\ p.quote.amount_out \in Nat
<1>1. /\ p.quote.block \in DOMAIN blocks /\ At(p.quote.block) \in Worlds /\ p.limits \in Rates
      /\ p.plan.expectedFeeBps = At(p.quote.block).fee
      /\ p.plan.amountIn = p.quote.trade.amount_in
      /\ p.plan.minimumAmountOut = minimum_amount_out(p.quote.amount_out, p.limits)
      /\ p.fee_amount = mulDiv(p.quote.trade.amount_in, At(p.quote.block).fee)
  BY PlanIs, FeeShown
<1>2. PICK w, n : w = At(p.quote.block) /\ n = p.quote.amount_out
  OBVIOUS
<1>3. n \in Requote(w, p.quote, w.fee)
  BY <1>2 DEF QuoteRight
<1>4. n \in Nat /\ n = RouteOutput(w, p.plan.hops, p.quote.trade.amount_in)
  BY <1>1, <1>2, <1>3, PlanRouted
<1>5. minimum_amount_out(n, p.limits) \in Nat /\ minimum_amount_out(n, p.limits) <= n
  BY <1>1, <1>4, MinimumAtMost
<1> QED BY <1>1, <1>2, <1>4, <1>5 DEF InOneBlock, Lands

-----------------------------------------------------------------------------
(***************************************************************************)
(* The best funding route wins.                                            *)
(***************************************************************************)
LEMMA QuoteIsNat ==
  ASSUME NEW w \in Worlds, NEW h, h.pool.kind \in Kinds, NEW t, DOMAIN t = TradeFields,
         t.amount_in \in Nat
  PROVE  HopQuote(w, h, t) \subseteq Nat
<1> SUFFICES ASSUME NEW n \in HopQuote(w, h, t) PROVE n \in Nat
  OBVIOUS
<1>1. PICK o : o = Over(t, h, t.amount_in) /\ o.amount_in = t.amount_in
  BY OverFields
<1>2. ASSUME NEW c, NEW key, NEW forward, n \in Simulated(w, c, key, forward, o.amount_in)
      PROVE  n \in Nat
  <2>1. PICK i \in w.deployed : n = Output(w, i, forward, o.amount_in)
    BY <1>2 DEF Simulated, Positive, Registered
  <2> QED BY <1>1, <2>1, OutputType
<1>3. CASE h.pool.kind = "V2"
  <2>1. PICK weth \in V2Connect(w) : n \in V2Quote(w, weth, h.pool, o)
    BY <1>1, <1>3 DEF HopQuote
  <2> QED BY <1>2, <2>1 DEF V2Quote
<1>4. CASE h.pool.kind = "V3"
  <2>1. PICK weth \in V3Connect(w) : n \in V3Quote(w, weth, h.pool, o)
    BY <1>1, <1>4 DEF HopQuote
  <2> QED BY <1>2, <2>1 DEF V3Quote
<1>5. CASE h.pool.kind = "V4"
  <2>1. n \in V4Quote(w, h.pool, o)
    BY <1>1, <1>5 DEF HopQuote
  <2> QED BY <1>2, <2>1 DEF V4Quote
<1> QED BY <1>3, <1>4, <1>5 DEF Kinds

LEMMA FundingTradeShape ==
  /\ DOMAIN FundingTrade = TradeFields
  /\ FundingTrade.amount_in = amount_after_fee(Fee, Ask.amount_in)
<1>1. PICK t : t = TradeOf(Ask, Hop) /\ DOMAIN t = TradeFields /\ t.amount_in = Ask.amount_in
  BY TradeShape
<1> QED BY <1>1 DEF FundingTrade, TradeFields

LEMMA NetIsNat ==
  ASSUME ChainRight, router # {}, Ask.amount_in \in U256
  PROVE  amount_after_fee(Fee, Ask.amount_in) \in Nat
<1>1. Fee \in Rates
  BY ClientIs, PreparationAssumption
<1> QED BY <1>1, NetOfFee

LEMMA CandidateIsNat ==
  ASSUME ChainRight, router # {}, Ask.amount_in \in U256, Hop.pool.kind \in Kinds,
         NEW pool, pool.kind \in Kinds
  PROVE  Candidate(pool) \subseteq Nat
<1> SUFFICES ASSUME NEW n \in Candidate(pool) PROVE n \in Nat
  OBVIOUS
<1>1. PICK w, g, h, t : /\ w = At(Block) /\ g = FundingHop(pool) /\ h = Hop /\ t = FundingTrade
                        /\ w \in Worlds
  BY ClientIs
<1>2. DOMAIN t = TradeFields /\ t.amount_in \in Nat
  BY <1>1, FundingTradeShape, NetIsNat
<1>3. PICK first \in HopQuote(w, g, t) : n \in HopQuote(w, h, Over(t, h, first))
  BY <1>1 DEF Candidate
<1>4. g.pool.kind \in Kinds
  BY <1>1 DEF FundingHop
<1>5. first \in Nat
  BY <1>1, <1>2, <1>3, <1>4, QuoteIsNat
<1>6. PICK u : u = Over(t, h, first) /\ DOMAIN u = TradeFields /\ u.amount_in = first
  BY <1>2, OverFields
<1>7. n \in HopQuote(w, h, u)
  BY <1>3, <1>6
<1> QED BY <1>1, <1>5, <1>6, <1>7, QuoteIsNat

LEMMA CandidatePays ==
  ASSUME ChainRight, router # {}, Ask.amount_in \in U256, NEW pool,
         NEW d, Encodes(FundingHop(pool), d), NEW e, Encodes(Hop, e), NEW m \in Candidate(pool)
  PROVE  m = RouteOutput(At(Block), <<d, e>>, Ask.amount_in)
<1>1. PICK w, q, g, h, route :
        /\ w = At(Block) /\ g = FundingHop(pool) /\ h = Hop
        /\ q = QuoteOf(<<g, h>>, m) /\ route = <<d, e>>
  OBVIOUS
<1>2. w \in Worlds /\ Fee = w.fee
  BY <1>1, ClientIs
<1>3. m \in Requote(w, q, w.fee)
  BY <1>1, <1>2, FundedQuote
<1>4. /\ q.hops = <<g, h>> /\ DOMAIN q.trade = TradeFields
      /\ q.trade.amount_in = Ask.amount_in
  BY <1>1, QuoteFields, TradeShape
<1>5. /\ Len(q.hops) = 2 /\ Len(route) = 2 /\ q.hops[1] = g /\ q.hops[2] = h
      /\ route[1] = d /\ route[2] = e
  BY <1>1, <1>4
<1>6. \A n \in 1..Len(route) : Encodes(q.hops[n], route[n])
  <2>1. \A n \in 1..2 : n = 1 \/ n = 2
    OBVIOUS
  <2> QED BY <1>1, <1>5, <2>1
<1>7. Len(q.hops) \in Nat /\ Len(route) = Len(q.hops) /\ q.trade.amount_in \in U256
  BY <1>4, <1>5
<1>8. m = RouteOutput(w, route, q.trade.amount_in)
  BY <1>2, <1>3, <1>4, <1>6, <1>7, RequoteIsRoute
<1> QED BY <1>1, <1>4, <1>8

Through(first, i) == [first EXCEPT !.pool = i, !.key = Key(Claim[i])]
Rivals(w, first, report) ==
  {i \in w.deployed \cap Genuine :
     /\ Claim[i].deployment = V3Factory /\ Claim[i].tokens = first.key.tokens
     /\ Claim[i].fee \in {Tiers[n] : n \in DOMAIN Tiers} \ report.failed
     /\ Claim[i] \notin report.quote_failures}
BestFor(p) ==
  \A report \in p.funding : \A i \in Rivals(At(p.quote.block), p.plan.hops[1], report) :
    p.quote.amount_out >= RouteOutput(At(p.quote.block),
                                      <<Through(p.plan.hops[1], i), p.plan.hops[2]>>,
                                      p.quote.trade.amount_in)

LEMMA BestFundingIs == BestFunding <=> \A p \in shown : BestFor(p)
BY DEF BestFunding, BestFor, Rivals, Through, At

(* A pool that could have funded the swap was found.                       *)
LEMMA RivalFound ==
  ASSUME NEW w \in Worlds, NEW i \in w.deployed \cap Genuine,
         Claim[i].deployment = V3Factory,
         Claim[i].tokens = Sorted(FundingTrade.currency_in, FundingTrade.currency_out),
         0 < Claim[i].tokens[1], Claim[i].tokens[1] < Claim[i].tokens[2]
  PROVE  Claim[i] \in TierPools(w, Claim[i].fee) /\ Claim[i].kind = "V3"
<1>1. /\ Claim[i].id = i /\ Claim[i].kind = "V3" /\ Claim[i].chain = ChainId
      /\ Claim[i].spacing > 0
  BY PreparationAssumption
<1>2. Canonical(Claim[i])
  BY <1>1 DEF Canonical
<1>3. V3ValidatePool(Claim[i])
  BY <1>1, <1>2 DEF V3ValidatePool
<1>4. Registered(w, V3Factory, Key(Claim[i])) = {i}
  <2>1. i \in Registered(w, V3Factory, Key(Claim[i]))
    BY DEF Registered
  <2> QED BY <2>1, OnePool
<1>5. V3LoadPool(w, i) = {Claim[i]}
  BY <1>3, <1>4 DEF V3LoadPool, When
<1> QED BY <1>1, <1>5 DEF TierPools

(* What all the candidates have in common.                                 *)
LEMMA SameHop ==
  ASSUME NEW pool, pool.kind = "V3", pool.deployment = V3Factory,
         NEW e, Encodes(FundingHop(pool), e), NEW i \in Ids,
         Claim[i].kind = "V3", Claim[i].deployment = V3Factory
  PROVE  Encodes(FundingHop(Claim[i]), Through(e, i))
<1>1. PICK g, h, d, in, out :
        /\ g = FundingHop(pool) /\ h = FundingHop(Claim[i]) /\ d = Through(e, i)
        /\ in = FundingTrade.currency_in /\ out = FundingTrade.currency_out
  OBVIOUS
<1>2. /\ g.pool = pool /\ g.currency_in = in /\ g.currency_out = out
      /\ h.pool = Claim[i] /\ h.currency_in = in /\ h.currency_out = out
  BY <1>1 DEF FundingHop
<1>3. /\ d.key = Key(Claim[i]) /\ d.tokenIn = e.tokenIn /\ d.tokenOut = e.tokenOut
      /\ DOMAIN d = {"pool", "key", "tokenIn", "tokenOut", "hookData"}
  BY <1>1 DEF Through, Encodes
<1>4. /\ Apart(g) /\ g.pool.deployment = Manager(g.pool.kind)
      /\ e.tokenIn = g.currency_in /\ e.tokenOut = g.currency_out
  BY <1>1 DEF Encodes
<1>5. Apart(h)
  BY <1>2, <1>4 DEF Apart
<1>6. h.pool.deployment = Manager(h.pool.kind)
  BY <1>2, <1>4
<1>7. Encodes(h, d)
  BY <1>2, <1>3, <1>4, <1>5, <1>6 DEF Encodes
<1> QED BY <1>1, <1>7

(* What a search brings together.                                          *)
Candidates(pools, lost) == [n \in DOMAIN pools |-> IF n \in lost THEN {} ELSE Candidate(pools[n])]
Report(pools, failed, c) ==
  [failed |-> failed, quote_failures |-> {pools[n] : n \in {m \in DOMAIN pools : c[m] = {}}}]
Funded(pool) == <<FundingHop(pool), Hop>>
FundedBy(p, pools, failed, lost) ==
  LET c == Candidates(pools, lost)
      b == Best(c)
  IN  b # 0 /\ p \in PreparedSwaps(Funded(pools[b]), c[b], {Report(pools, failed, c)})

LEMMA FundingBest ==
  ASSUME ChainRight, router # {}, Ask.amount_in \in U256, Ask.limits \in Rates,
         Hop.pool.kind \in Kinds,
         NEW pools \in Seq(AllClaims), NEW failed, Found(pools, At(Block), TierSet, failed),
         NEW lost, NEW p, FundedBy(p, pools, failed, lost)
  PROVE  PlanRight(p) /\ QuoteRight(p) /\ BestFor(p)
<1>a. PICK c, b, report, pool, hops, amounts, funding :
        /\ c = Candidates(pools, lost) /\ b = Best(c) /\ b # 0
        /\ report = Report(pools, failed, c) /\ pool = pools[b]
        /\ hops = Funded(pool) /\ amounts = c[b] /\ funding = {report}
        /\ p \in PreparedSwaps(hops, amounts, funding)
  BY DEF FundedBy
<1>0. /\ c = [n \in DOMAIN pools |-> IF n \in lost THEN {} ELSE Candidate(pools[n])]
      /\ report.failed = failed
      /\ report.quote_failures = {pools[n] : n \in {m \in DOMAIN pools : c[m] = {}}}
  BY <1>a DEF Candidates, Report
<1>1. PICK L \in Nat : L = Len(pools) /\ DOMAIN pools = 1..L
  OBVIOUS
<1>2. c \in Seq({c[n] : n \in DOMAIN pools}) /\ Len(c) = L /\ DOMAIN c = 1..L
  BY <1>0, <1>1
<1>3. ASSUME NEW n \in 1..L
      PROVE  /\ pools[n] \in AllClaims /\ pools[n].kind = "V3" /\ pools[n].deployment = V3Factory
             /\ pools[n].tokens = Sorted(FundingTrade.currency_in, FundingTrade.currency_out)
             /\ 0 < pools[n].tokens[1] /\ pools[n].tokens[1] < pools[n].tokens[2]
             /\ c[n] \subseteq Candidate(pools[n]) /\ c[n] \subseteq Nat
  <2>1. PICK found, tier, w : found = pools[n] /\ w = At(Block) /\ found \in TierPools(w, tier)
    BY <1>1, <1>3 DEF Found
  <2>2. w \in Worlds
    BY <2>1, ClientIs
  <2>3. /\ found.kind = "V3" /\ found.deployment = V3Factory /\ V3ValidatePool(found)
        /\ found.tokens = Sorted(FundingTrade.currency_in, FundingTrade.currency_out)
    BY <2>1, <2>2, TierPool
  <2>4. 0 < found.tokens[1] /\ found.tokens[1] < found.tokens[2]
    BY <2>3 DEF V3ValidatePool
  <2>5. c[n] \subseteq Candidate(found)
    BY <1>0, <1>1, <1>3, <2>1
  <2>6. Candidate(found) \subseteq Nat
    <3>1. found.kind \in Kinds
      BY <2>3 DEF Kinds
    <3> QED BY <3>1, CandidateIsNat
  <2>7. found \in AllClaims
    BY <1>1, <1>3, <2>1
  <2> QED BY <2>1, <2>3, <2>4, <2>5, <2>6, <2>7
<1>4. b \in 1..L /\ \A n \in 1..L : c[n] # {} => The(c[n]) <= The(c[b])
  <2>1. b \in 0..L /\ \A n \in 1..L : c[n] # {} => The(c[n]) <= The(c[b])
    BY <1>2, <1>3, <1>a, BestIsBest
  <2> QED BY <1>a, <2>1
<1>5. PICK g, h : g = FundingHop(pool) /\ h = Hop /\ hops = <<g, h>>
  BY <1>a DEF Funded
<1>6. hops \in Seq({g, h}) /\ DOMAIN hops = 1..2 /\ hops[1] = g /\ hops[2] = h
  BY <1>5
<1>7. /\ g.pool = pool /\ pool.kind = "V3" /\ pool.kind \in Kinds /\ pool.deployment = V3Factory
      /\ g.currency_in = FundingTrade.currency_in /\ g.currency_out = FundingTrade.currency_out
  BY <1>3, <1>4, <1>5, <1>a DEF FundingHop, Kinds
<1>8. \A n \in DOMAIN hops : hops[n].pool.kind \in Kinds
  <2>1. \A n \in 1..2 : n = 1 \/ n = 2
    OBVIOUS
  <2> QED BY <1>5, <1>6, <1>7, <2>1
<1>9. \A n \in amounts : n \in Nat /\ n \in Requote(At(Block), QuoteOf(hops, n), Fee)
  <2>1. ASSUME NEW n \in amounts
        PROVE  n \in Nat /\ n \in Requote(At(Block), QuoteOf(hops, n), Fee)
    <3>1. n \in Candidate(pool) /\ n \in Nat
      BY <1>3, <1>4, <1>a
    <3>2. hops = <<FundingHop(pool), Hop>>
      BY <1>5
    <3> QED BY <3>1, <3>2, FundedQuote
  <2> QED BY <2>1
<1>10. /\ PlanRight(p) /\ QuoteRight(p) /\ p.quote.amount_out \in amounts
       /\ p.quote = QuoteOf(hops, p.quote.amount_out) /\ p.funding = funding
       /\ p.quote.block = Block
  <2>1. PICK S : S = {g, h}
    OBVIOUS
  <2>2. hops \in Seq(S)
    BY <1>6, <2>1
  <2> QED BY <1>8, <1>9, <1>a, <2>2, PreparedRight
<1>11. PICK m, e : /\ m = p.quote.amount_out /\ e = p.plan.hops /\ m \in amounts
  BY <1>10
<1>12. p.quote.hops = hops /\ p.quote.trade.amount_in = Ask.amount_in
  <2>1. QuoteOf(hops, m).hops = hops /\ QuoteOf(hops, m).trade = TradeOf(Ask, Hop)
    BY QuoteFields
  <2>2. p.quote.hops = hops /\ p.quote.trade = TradeOf(Ask, Hop)
    BY <1>10, <1>11, <2>1
  <2> QED BY <2>2, TradeShape
<1>13. Encodes(g, e[1]) /\ Encodes(h, e[2])
  <2>1. PICK q, r : q = p.quote /\ r = ClientAt(q.block)
    OBVIOUS
  <2>2. p.plan \in build_swap(r, q, p.limits) /\ q.hops = hops
    BY <1>10, <1>12, <2>1, PlanIs
  <2>3. q.hops \in Seq({g, h}) /\ \A n \in DOMAIN q.hops : q.hops[n].pool.kind \in Kinds
    BY <1>6, <1>8, <2>2
  <2>4. Len(e) = 2 /\ \A n \in 1..Len(e) : Encodes(hops[n], e[n])
    <3>1. PICK l, plan : l = p.limits /\ plan = p.plan
      OBVIOUS
    <3>2. plan \in build_swap(r, q, l) /\ e = plan.hops
      BY <1>11, <2>2, <3>1
    <3>3. Len(plan.hops) = Len(q.hops) /\ \A n \in 1..Len(plan.hops) : Encodes(q.hops[n], plan.hops[n])
      BY <2>3, <3>2, PlanEncodes
    <3>4. Len(hops) = 2
      BY <1>5
    <3> QED BY <2>2, <3>2, <3>3, <3>4
  <2>5. 1 \in 1..Len(e) /\ 2 \in 1..Len(e)
    BY <2>4
  <2> QED BY <1>6, <2>4, <2>5
<1>14. \A x \in amounts : x = m
  <2>1. \A x \in amounts : x = RouteOutput(At(Block), <<e[1], e[2]>>, Ask.amount_in)
    <3> SUFFICES ASSUME NEW x \in amounts
                 PROVE  x = RouteOutput(At(Block), <<e[1], e[2]>>, Ask.amount_in)
      OBVIOUS
    <3>1. x \in Candidate(pool)
      BY <1>3, <1>4, <1>a
    <3>2. PICK d1, d2 : d1 = e[1] /\ d2 = e[2]
      OBVIOUS
    <3>3. Encodes(FundingHop(pool), d1) /\ Encodes(Hop, d2)
      BY <1>5, <1>13, <3>2
    <3> QED BY <3>1, <3>2, <3>3, CandidatePays
  <2> QED BY <1>11, <2>1
<1>15. The(c[b]) = m /\ m \in Nat
  BY <1>3, <1>4, <1>11, <1>14, <1>a, TheIn
<1>16. BestFor(p)
  <2> SUFFICES ASSUME NEW i \in Rivals(At(Block), e[1], report)
               PROVE  m >= RouteOutput(At(Block), <<Through(e[1], i), e[2]>>, Ask.amount_in)
    BY <1>10, <1>11, <1>12, <1>a DEF BestFor
  <2>1. PICK w, rival, d : w = At(Block) /\ rival = Claim[i] /\ d = e[1] /\ w \in Worlds
    BY ClientIs
  <2>2. /\ i \in w.deployed \cap Genuine /\ i \in Ids
        /\ rival.deployment = V3Factory /\ rival.tokens = d.key.tokens
        /\ rival.fee \in TierSet \ failed /\ rival \notin report.quote_failures
    BY <1>0, <2>1, PreparationAssumption DEF Rivals, TierSet
  <2>3. d.key.tokens = pool.tokens
    <3>1. d.key = Key(pool)
      BY <1>5, <1>7, <1>13, <2>1 DEF Encodes
    <3> QED BY <1>7, <3>1 DEF Key
  <2>4. rival \in TierPools(w, rival.fee) /\ rival.kind = "V3"
    <3>1. /\ rival.tokens = Sorted(FundingTrade.currency_in, FundingTrade.currency_out)
          /\ 0 < rival.tokens[1] /\ rival.tokens[1] < rival.tokens[2]
      BY <1>3, <1>4, <1>a, <2>2, <2>3
    <3> QED BY <2>1, <2>2, <3>1, RivalFound
  <2>5. PICK n \in 1..L : pools[n] = rival
    BY <1>1, <2>1, <2>2, <2>4 DEF Found
  <2>6. c[n] # {}
    BY <1>0, <1>1, <2>2, <2>5
  <2>7. PICK x \in c[n] : x = The(c[n]) /\ x <= m /\ x \in Candidate(rival)
    <3>1. The(c[n]) \in c[n]
      BY <2>6, TheIn
    <3>2. The(c[n]) <= The(c[b])
      BY <1>4, <2>6
    <3> QED BY <1>3, <1>15, <2>5, <3>1, <3>2
  <2>8. Encodes(FundingHop(rival), Through(d, i))
    <3>1. Encodes(FundingHop(pool), d)
      BY <1>5, <1>13, <2>1
    <3> QED BY <1>7, <2>1, <2>2, <2>4, <3>1, SameHop
  <2>9. PICK d1, d2 : d1 = Through(d, i) /\ d2 = e[2]
    OBVIOUS
  <2>10. x = RouteOutput(At(Block), <<d1, d2>>, Ask.amount_in)
    <3>1. Encodes(FundingHop(rival), d1) /\ Encodes(Hop, d2)
      BY <1>5, <1>13, <2>8, <2>9
    <3> QED BY <2>7, <3>1, CandidatePays
  <2>11. x \in Nat
    BY <1>3, <2>7
  <2> QED BY <1>15, <2>1, <2>7, <2>9, <2>10, <2>11
<1> QED BY <1>10, <1>16

-----------------------------------------------------------------------------
(***************************************************************************)
(* Blocks that come change nothing of what is right.                       *)
(***************************************************************************)
Grows == blocks' = blocks \/ \E w \in Worlds : blocks' = Append(blocks, w)

LEMMA BlockStays ==
  ASSUME blocks \in Seq(Worlds), Grows, NEW b \in DOMAIN blocks
  PROVE  b \in DOMAIN blocks' /\ At(b)' = At(b) /\ ClientAt(b)' = ClientAt(b)
<1>1. b \in DOMAIN blocks' /\ blocks'[b] = blocks[b]
  BY DEF Grows
<1> QED BY <1>1 DEF At, ClientAt

LEMMA PlanStays ==
  ASSUME blocks \in Seq(Worlds), Grows, NEW p, PlanRight(p)
  PROVE  PlanRight(p)'
<1>1. p.quote.block \in DOMAIN blocks
  BY DEF PlanRight
<1>2. PICK b : b = p.quote.block
  OBVIOUS
<1>3. b \in DOMAIN blocks' /\ At(b)' = At(b) /\ ClientAt(b)' = ClientAt(b)
  BY <1>1, <1>2, BlockStays
<1> QED BY <1>2, <1>3 DEF PlanRight

LEMMA QuoteStays ==
  ASSUME blocks \in Seq(Worlds), Grows, NEW p, PlanRight(p), QuoteRight(p)
  PROVE  QuoteRight(p)'
<1>1. p.quote.block \in DOMAIN blocks
  BY DEF PlanRight
<1>2. PICK b : b = p.quote.block
  OBVIOUS
<1>3. b \in DOMAIN blocks' /\ At(b)' = At(b)
  BY <1>1, <1>2, BlockStays
<1> QED BY <1>2, <1>3 DEF QuoteRight

LEMMA LandsStays ==
  ASSUME blocks \in Seq(Worlds), Grows, NEW p, Lands(p)
  PROVE  Lands(p)'
<1>1. PICK b : b = p.quote.block /\ b \in DOMAIN blocks
  BY DEF Lands
<1>2. b \in DOMAIN blocks' /\ At(b)' = At(b)
  BY <1>1, BlockStays
<1> QED BY <1>1, <1>2 DEF Lands

LEMMA BestStays ==
  ASSUME blocks \in Seq(Worlds), Grows, NEW p, PlanRight(p), BestFor(p)
  PROVE  BestFor(p)'
<1>1. PICK b : b = p.quote.block /\ b \in DOMAIN blocks
  BY DEF PlanRight
<1>2. At(b)' = At(b)
  BY <1>1, BlockStays
<1> QED BY <1>1, <1>2 DEF BestFor

LEMMA ShownStays ==
  ASSUME IInv, Grows, shown' = shown
  PROVE  ShownRight' /\ BestFunding'
<1>1. blocks \in Seq(Worlds)
  BY DEF IInv, ChainRight
<1>2. \A p \in shown : PlanRight(p) /\ QuoteRight(p) /\ BestFor(p)
  BY BestFundingIs DEF IInv, ShownRight
<1>3. \A p \in shown : PlanRight(p)' /\ QuoteRight(p)' /\ BestFor(p)'
  BY <1>1, <1>2, PlanStays, QuoteStays, BestStays
<1>4. ShownRight'
  BY <1>3 DEF ShownRight
<1>5. \A p \in shown' : BestFor(p)'
  BY <1>3
<1>6. BestFunding'
  BY <1>5 DEF BestFunding, BestFor, Rivals, Through, At
<1> QED BY <1>4, <1>6

LEMMA HandedStays ==
  ASSUME IInv, Grows, UNCHANGED <<method, shown, handed>>,
         method = "submit_prepared" => router' = router,
         pc = "refused" => pc' = "refused"
  PROVE  HandedRight'
<1>1. blocks \in Seq(Worlds) /\ HandedRight
  BY DEF IInv, ChainRight
<1>2. CASE method = "submit_prepared" /\ pc' # "refused"
  <2>1. PICK p \in handed, s \in shown : /\ handed = {p} /\ PlanRight(p)
                                         /\ p.quote.block = Block /\ p.limits = s.limits
    BY <1>1, <1>2 DEF HandedRight
  <2>2. PlanRight(p)'
    BY <1>1, <2>1, PlanStays
  <2>3. Block' = Block
    BY <1>2 DEF Block
  <2> QED BY <1>2, <2>1, <2>2, <2>3 DEF HandedRight
<1>3. CASE ~(method = "submit_prepared" /\ pc' # "refused")
  BY <1>1, <1>3 DEF HandedRight
<1> QED BY <1>2, <1>3

LEMMA CurrentStays ==
  ASSUME IInv, Grows, UNCHANGED <<pc, method, shown, handed, current>>
  PROVE  CurrentRight'
<1>1. blocks \in Seq(Worlds) /\ CurrentRight
  BY DEF IInv, ChainRight
<1>2. \A p \in current : Lands(p) => Lands(p)'
  BY <1>1, LandsStays
<1> QED BY <1>1, <1>2 DEF CurrentRight, Unwritten

LEMMA ChainStays ==
  ASSUME ChainRight, Grows, router' = router, pc' # "idle" => pc # "idle"
  PROVE  ChainRight'
<1>1. blocks' \in Seq(Worlds) /\ blocks' # <<>>
  BY DEF ChainRight, Grows
<1>2. ASSUME NEW r \in router PROVE \E b \in DOMAIN blocks' : r = [block |-> b, fee |-> At(b)'.fee]
  <2>1. PICK b \in DOMAIN blocks : r = [block |-> b, fee |-> At(b).fee]
    BY <1>2 DEF ChainRight
  <2>2. b \in DOMAIN blocks' /\ At(b)' = At(b)
    BY BlockStays DEF ChainRight
  <2> QED BY <2>1, <2>2
<1> QED BY <1>1, <1>2 DEF ChainRight

(* The request and what was found for it.                                  *)
Asked == \E a \in ask : ask = {a} /\ a.amount_in \in U256 /\ a.limits \in Rates
Selects == hop # {} /\ Hop.pool.kind \in Kinds
Searching == \E s \in search : /\ search = {s} /\ s.pools \in Seq(AllClaims)
                               /\ Found(s.pools, At(Block), TierSet, s.failed)
LEMMA AskRightIs ==
  AskRight <=> /\ pc \notin {"idle", "ready", "refused"} => Asked
               /\ pc \in {"fund", "quote", "rank"} => Selects
               /\ pc = "rank" => Searching
BY DEF AskRight, Asked, Selects, Searching, Found, AllClaims, TierSet

LEMMA AskedIs ==
  ASSUME Asked
  PROVE  ask = {Ask} /\ Ask.amount_in \in U256 /\ Ask.limits \in Rates
BY TheOnly DEF Asked, Ask

LEMMA SameTierPools ==
  ASSUME UNCHANGED <<router, ask, hop>>
  PROVE  \A w, tier : TierPools(w, tier)' = TierPools(w, tier)
<1>1. Ask' = Ask /\ Hop' = Hop /\ Fee' = Fee
  BY DEF Ask, Hop, Fee
<1>2. FundingTrade' = FundingTrade
  BY <1>1 DEF FundingTrade, TradeOf
<1> QED BY <1>2 DEF TierPools

LEMMA AskStays ==
  ASSUME IInv, Grows, UNCHANGED <<pc, router, ask, hop, search>>
  PROVE  AskRight'
<1>1. pc \notin {"idle", "ready", "refused"} => Asked'
  BY AskRightIs DEF IInv, Asked
<1>2. pc \in {"fund", "quote", "rank"} => Selects'
  BY AskRightIs DEF IInv, Selects, Hop
<1>3. ASSUME pc = "rank" PROVE Searching'
  <2>1. PICK s \in search : /\ search = {s} /\ s.pools \in Seq(AllClaims)
                            /\ Found(s.pools, At(Block), TierSet, s.failed)
    BY <1>3, AskRightIs DEF IInv, Searching
  <2>2. Block \in DOMAIN blocks /\ blocks \in Seq(Worlds)
    BY <1>3, ClientIs DEF IInv, ChainRight
  <2>3. PICK b : b = Block /\ b = Block' /\ At(b)' = At(b)
    BY <2>2, BlockStays DEF Block
  <2>4. Found(s.pools, At(b), TierSet, s.failed)'
    BY <2>1, <2>3, SameTierPools DEF Found
  <2> QED BY <2>1, <2>3, <2>4 DEF Searching
<1>4. pc' = pc
  OBVIOUS
<1> QED BY <1>1, <1>2, <1>3, <1>4 DEF AskRight, Asked, Selects, Searching, Found, AllClaims, TierSet

-----------------------------------------------------------------------------
(***************************************************************************)
(* The steps.                                                              *)
(***************************************************************************)
(* Nothing has landed before the swap is mined, and then the quote's block *)
(* stays what it is.                                                       *)
LEMMA LandedStays ==
  ASSUME IInv, Grows, UNCHANGED <<method, shown, handed, landed>>
  PROVE  LandsAsShown'
<1> SUFFICES ASSUME NEW l \in landed, method = "submit_prepared"
             PROVE  LandsAsShown'
  BY DEF LandsAsShown
<1>1. pc = "landed"
  BY DEF IInv, Stage
<1>2. PICK h : h = The(handed) /\ PlanRight(h)
  BY <1>1, TheOnly DEF IInv, HandedRight
<1>3. PICK b : b = h.quote.block /\ b \in DOMAIN blocks
  BY <1>2 DEF PlanRight
<1>4. blocks'[b] = blocks[b]
  BY <1>3, BlockStays DEF IInv, ChainRight, At
<1> QED BY <1>2, <1>3, <1>4 DEF IInv, LandsAsShown

LEMMA NothingLanded ==
  ASSUME landed' = {}
  PROVE  LandsAsShown'
BY DEF LandsAsShown

LEMMA InitRight == Init => IInv
<1> SUFFICES ASSUME Init PROVE IInv
  OBVIOUS
<1>1. PICK w \in Worlds : blocks = <<w>>
  BY DEF Init
<1>2. ChainRight
  BY <1>1 DEF Init, ChainRight
<1>3. Stage /\ AskRight /\ ShownRight /\ HandedRight /\ CurrentRight
  BY DEF Init, Stage, Steps, Preparing, AskRight, ShownRight, HandedRight, CurrentRight
<1>4. BestFunding /\ LandsAsShown
  BY DEF Init, BestFunding, LandsAsShown
<1> QED BY <1>2, <1>3, <1>4 DEF IInv

LEMMA NewBlockKeeps ==
  ASSUME IInv, NewBlock
  PROVE  IInv'
<1>1. Grows /\ UNCHANGED <<pc, method, refreshing, router, ask, hop, search, shown, handed,
                           current, landed>>
  BY DEF NewBlock, Grows, call
<1>2. ChainRight'
  BY <1>1, ChainStays DEF IInv
<1>3. Stage'
  BY <1>1 DEF IInv, Stage
<1>4. ShownRight' /\ BestFunding'
  BY <1>1, ShownStays
<1>5. HandedRight'
  BY <1>1, HandedStays
<1>6. CurrentRight'
  BY <1>1, CurrentStays
<1>7. AskRight'
  BY <1>1, AskStays
<1>8. LandsAsShown'
  BY <1>1, LandedStays
<1> QED BY <1>2, <1>3, <1>4, <1>5, <1>6, <1>7, <1>8 DEF IInv

LEMMA ConnectRight ==
  ASSUME ChainRight, blocks' = blocks, router' = connect(Latest)
  PROVE  ChainRight'
<1>1. Latest \in DOMAIN blocks
  BY DEF ChainRight, Latest
<1>2. PICK b \in DOMAIN blocks : router' = {[block |-> b, fee |-> At(b).fee]}
  BY <1>1 DEF connect
<1>3. At(b)' = At(b)
  BY DEF At
<1> QED BY <1>2, <1>3 DEF ChainRight

LEMMA ConnectKeeps ==
  ASSUME IInv, Connect
  PROVE  IInv'
<1>1. Grows /\ UNCHANGED <<blocks, method, refreshing, ask, hop, search, shown, handed,
                           current, landed>>
  BY DEF Connect, Grows
<1>2. pc' = (IF pc = "idle" THEN "ready" ELSE pc) /\ (pc = "idle" \/ (pc = "shown" /\ method = "prepare"))
  BY DEF Connect
<1>3. method = "prepare"
  BY <1>2 DEF IInv, Stage
<1>4. ChainRight'
  BY ConnectRight, <1>1 DEF Connect, IInv
<1>5. Stage'
  BY <1>1, <1>2 DEF IInv, Stage, Steps, Preparing
<1>6. ShownRight' /\ BestFunding'
  BY <1>1, ShownStays
<1>7. HandedRight'
  BY <1>1, <1>2, <1>3, HandedStays
<1>8. CurrentRight'
  BY <1>2 DEF CurrentRight
<1>9. AskRight'
  <2>1. pc = "shown" => Asked'
    BY <1>1, AskRightIs DEF IInv, Asked
  <2> QED BY <1>2, <2>1 DEF AskRight, Asked
<1>10. LandsAsShown'
  BY <1>1, LandedStays
<1> QED BY <1>4, <1>5, <1>6, <1>7, <1>8, <1>9, <1>10 DEF IInv

LEMMA RequestKeeps ==
  ASSUME IInv, NEW a, a.amount_in \in U256, NEW m, Request(a, m)
  PROVE  IInv'
<1>1. /\ Grows /\ pc = "ready" /\ m \in {"prepare", "submit"} /\ ask' = {a} /\ method' = m
      /\ pc' = IF validate_request(a, Fee) THEN "resolve" ELSE "refused"
      /\ UNCHANGED <<blocks, refreshing, router, hop, search, shown, handed, current, landed>>
  BY DEF Request, Grows
<1>2. ~refreshing /\ shown = {} /\ handed = {} /\ landed = {}
  BY <1>1 DEF IInv, Stage
<1>3. ChainRight'
  BY <1>1, ChainStays DEF IInv
<1>4. Stage'
  BY <1>1, <1>2 DEF Stage, Steps, Preparing
<1>5. pc' # "refused" => Asked'
  BY <1>1 DEF Asked, validate_request
<1>6. AskRight'
  BY <1>1, <1>5 DEF AskRight, Asked
<1>7. ShownRight' /\ BestFunding'
  BY <1>1, ShownStays
<1>8. HandedRight' /\ CurrentRight'
  BY <1>1, <1>2 DEF HandedRight, CurrentRight
<1>9. LandsAsShown'
  BY <1>1, <1>2, NothingLanded
<1> QED BY <1>3, <1>4, <1>6, <1>7, <1>8, <1>9 DEF IInv

(* A pool that was loaded is of a kind that a quote knows.                 *)
LEMMA SelectedKind ==
  ASSUME NEW w \in Worlds, NEW a, NEW p \in Selected(w, a)
  PROVE  p.kind \in Kinds
<1>1. CASE a.v4
  <2>1. p = V4Pool(Key(Claim[a.pair]))
    BY <1>1 DEF Selected, prepare_v4_swap, V4LoadPool, When
  <2> QED BY <2>1 DEF V4Pool, Kinds
<1>2. CASE ~a.v4
  <2>1. p \in UNION {V2LoadPool(w, a.pair) : weth \in V2Connect(w)}
        \/ p \in UNION {V3LoadPool(w, a.pair) : weth \in V3Connect(w)}
    BY <1>2 DEF Selected, prepare_swap
  <2>2. p = Claim[a.pair] /\ a.pair \in w.deployed
    BY <2>1 DEF V2LoadPool, V3LoadPool, When
  <2> QED BY <2>2, PreparationAssumption
<1> QED BY <1>1, <1>2

LEMMA ResolveKeeps ==
  ASSUME IInv, NEW ok \in BOOLEAN, Resolve(ok)
  PROVE  IInv'
<1> DEFINE hops == UNION {HopThrough(p, Ask) : p \in Selected(At(Block), Ask)}
<1>1. /\ Grows /\ pc = "resolve" /\ hop' \subseteq hops /\ pc' \in {"refused", "fund", "quote"}
      /\ pc' # "refused" => hop' # {}
      /\ UNCHANGED <<blocks, method, refreshing, router, ask, search, shown, handed, current, landed>>
  BY DEF Resolve, Grows
<1>2. ASSUME NEW h \in hops PROVE h.pool.kind \in Kinds
  <2>1. PICK p \in Selected(At(Block), Ask) : h \in HopThrough(p, Ask)
    BY <1>2
  <2>2. h.pool = p
    <3>1. PICK d : h = [pool |-> p, currency_in |-> d[1], currency_out |-> d[2],
                        hook_data |-> IF Ask.v4 THEN Ask.hook_data ELSE ""]
      BY <2>1 DEF HopThrough
    <3> QED BY <3>1
  <2>3. At(Block) \in Worlds
    BY <1>1, ClientIs DEF IInv, ChainRight
  <2>4. PICK w, a : w = At(Block) /\ a = Ask
    OBVIOUS
  <2>5. p.kind \in Kinds
    BY <2>1, <2>3, <2>4, SelectedKind
  <2> QED BY <2>2, <2>5
<1> HIDE DEF hops
<1>3. ChainRight'
  BY <1>1, ChainStays DEF IInv
<1>4. Stage'
  BY <1>1 DEF IInv, Stage, Steps, Preparing
<1>5. Asked'
  BY <1>1, AskRightIs DEF IInv, Asked
<1>6. pc' # "refused" => Selects'
  BY <1>1, <1>2, TheIn DEF Selects, Hop
<1>7. AskRight'
  BY <1>1, <1>5, <1>6 DEF AskRight, Asked, Selects
<1>8. ShownRight' /\ BestFunding'
  BY <1>1, ShownStays
<1>9. HandedRight' /\ CurrentRight'
  BY <1>1, HandedStays DEF CurrentRight
<1>10. LandsAsShown'
  BY <1>1, LandedStays
<1> QED BY <1>3, <1>4, <1>7, <1>8, <1>9, <1>10 DEF IInv

(* What is prepared is shown, handed to execution, or sent.                *)
LEMMA FinishKeeps ==
  ASSUME IInv, pc \in {"quote", "rank"}, NEW hops, NEW amounts, NEW funding,
         finish_preparation(hops, amounts, funding),
         \A p \in PreparedSwaps(hops, amounts, funding) :
           PlanRight(p) /\ QuoteRight(p) /\ BestFor(p),
         UNCHANGED <<blocks, method, refreshing, router, ask, hop, search, landed>>
  PROVE  IInv'
<1>1. PICK prepared : prepared = PreparedSwaps(hops, amounts, funding)
  OBVIOUS
<1>2. /\ Grows /\ blocks \in Seq(Worlds)
      /\ \A p \in prepared : PlanRight(p) /\ QuoteRight(p) /\ BestFor(p)
  BY <1>1 DEF Grows, IInv, ChainRight
<1>3. method \in {"prepare", "submit"} /\ landed' = {} /\ (refreshing => method = "submit")
  BY DEF IInv, Stage, Preparing
<1>4. \A p \in prepared : PlanRight(p)' /\ QuoteRight(p)' /\ BestFor(p)' /\ Lands(p)'
  BY <1>2, PlanStays, QuoteStays, BestStays, LandsStays, RightLands DEF IInv
<1>5. PICK ready \in BOOLEAN :
        /\ ready => prepared # {}
        /\ IF refreshing THEN /\ current' = (IF ready THEN prepared ELSE {})
                              /\ UNCHANGED <<shown, handed>>
           ELSE /\ shown' = prepared /\ UNCHANGED current
                /\ handed' = IF method = "submit" THEN prepared ELSE {}
        /\ pc' = IF ~ready THEN "refused" ELSE IF refreshing THEN "send"
                 ELSE IF method = "submit" THEN "allowance" ELSE "shown"
  <2>1. PICK ready : ready = (prepared # {} /\ (refreshing => same_intent(The(handed), The(prepared))))
    OBVIOUS
  <2> QED BY <1>1, <2>1 DEF finish_preparation
<1>6. ChainRight'
  BY <1>2, ChainStays DEF IInv
<1>7. AskRight'
  <2>1. Asked'
    BY AskRightIs DEF IInv, Asked
  <2> QED BY <1>5, <2>1 DEF AskRight, Asked
<1>8. LandsAsShown'
  BY <1>3, NothingLanded
<1>9. CASE refreshing
  <2>1. /\ current' = (IF ready THEN prepared ELSE {}) /\ UNCHANGED <<shown, handed>>
        /\ pc' = IF ready THEN "send" ELSE "refused"
    BY <1>5, <1>9
  <2>2. Stage'
    BY <1>3, <1>5, <1>9, <2>1 DEF IInv, Stage, Steps, Preparing
  <2>3. ShownRight' /\ BestFunding'
    BY <1>2, <2>1, ShownStays
  <2>4. HandedRight'
    BY <1>2, <2>1, HandedStays
  <2>5. CurrentRight'
    BY <1>3, <1>4, <1>9, <2>1 DEF CurrentRight
  <2> QED BY <1>6, <1>7, <1>8, <2>2, <2>3, <2>4, <2>5 DEF IInv
<1>10. CASE ~refreshing
  <2>1. /\ shown' = prepared /\ UNCHANGED current
        /\ handed' = IF method = "submit" THEN prepared ELSE {}
        /\ pc' = IF ~ready THEN "refused" ELSE IF method = "submit" THEN "allowance" ELSE "shown"
    BY <1>5, <1>10
  <2>2. Stage'
    BY <1>3, <1>5, <1>10, <2>1 DEF Stage, Steps, Preparing
  <2>3. ShownRight'
    BY <1>4, <2>1 DEF ShownRight
  <2>4. BestFunding'
    <3>1. \A p \in shown' : BestFor(p)'
      BY <1>4, <2>1
    <3> QED BY <3>1 DEF BestFunding, BestFor, Rivals, Through, At
  <2>5. HandedRight'
    BY <1>3, <2>1 DEF HandedRight
  <2>6. CurrentRight'
    BY <2>1 DEF CurrentRight
  <2> QED BY <1>6, <1>7, <1>8, <2>2, <2>3, <2>4, <2>5, <2>6 DEF IInv
<1> QED BY <1>9, <1>10

LEMMA prepare_poolKeeps ==
  ASSUME IInv, NEW ok \in BOOLEAN, prepare_pool(ok)
  PROVE  IInv'
<1>1. PICK hops, amounts, funding :
        /\ hops = <<Hop>> /\ funding = {}
        /\ amounts = (IF ok THEN HopQuote(At(Block), Hop,
                                          Over(TradeOf(Ask, Hop), Hop,
                                               amount_after_fee(Fee, Ask.amount_in)))
                      ELSE {})
  OBVIOUS
<1>2. /\ pc = "quote" /\ finish_preparation(hops, amounts, funding)
      /\ UNCHANGED <<blocks, method, refreshing, router, ask, hop, search, landed>>
  BY <1>1 DEF prepare_pool
<1>3. /\ ChainRight /\ router # {} /\ Ask.amount_in \in U256 /\ Ask.limits \in Rates
      /\ Hop.pool.kind \in Kinds
  BY <1>2, AskRightIs, AskedIs DEF IInv, ChainRight, Selects
<1>4. PICK S : hops \in Seq(S) /\ \A n \in DOMAIN hops : hops[n].pool.kind \in Kinds
  <2>1. PICK h : h = Hop /\ hops = <<h>>
    BY <1>1
  <2>2. hops \in Seq({h}) /\ DOMAIN hops = {1} /\ hops[1] = h
    BY <2>1
  <2> QED BY <1>3, <2>1, <2>2
<1>5. \A n \in amounts : n \in Nat /\ n \in Requote(At(Block), QuoteOf(hops, n), Fee)
  <2>1. PICK w, h, t, x : /\ w = At(Block) /\ h = Hop /\ t = TradeOf(Ask, Hop)
                          /\ x = amount_after_fee(Fee, Ask.amount_in)
    OBVIOUS
  <2>2. w \in Worlds /\ x \in Nat /\ DOMAIN t = TradeFields /\ h.pool.kind \in Kinds
    BY <1>3, <2>1, ClientIs, NetIsNat, TradeShape
  <2>3. PICK u : u = Over(t, h, x) /\ DOMAIN u = TradeFields /\ u.amount_in = x
    BY <2>2, OverFields
  <2>4. HopQuote(w, h, u) \subseteq Nat
    BY <2>2, <2>3, QuoteIsNat
  <2>5. amounts \subseteq Nat
    BY <1>1, <2>1, <2>3, <2>4
  <2> QED BY <1>1, <2>5, DirectQuote
<1>6. \A p \in PreparedSwaps(hops, amounts, funding) :
        PlanRight(p) /\ QuoteRight(p) /\ p.funding = funding
  BY <1>3, <1>4, <1>5, PreparedRight
<1>7. \A p \in PreparedSwaps(hops, amounts, funding) :
        PlanRight(p) /\ QuoteRight(p) /\ BestFor(p)
  BY <1>1, <1>6 DEF BestFor
<1> QED BY <1>2, <1>7, FinishKeeps

LEMMA DiscoverKeeps ==
  ASSUME IInv, NEW ok \in BOOLEAN, NEW failed, Discover(ok, failed)
  PROVE  IInv'
<1>1. /\ Grows /\ pc = "fund"
      /\ UNCHANGED <<blocks, method, refreshing, router, ask, hop, shown, handed, current, landed>>
      /\ \/ pc' = "refused"
         \/ /\ pc' = "rank"
            /\ search' = {[pools |-> FundingPools(At(Block), failed), failed |-> failed]}
  BY DEF Discover, Grows
<1>2. ChainRight'
  BY <1>1, ChainStays DEF IInv
<1>3. Stage'
  BY <1>1 DEF IInv, Stage, Steps, Preparing
<1>4. Asked' /\ Selects'
  BY <1>1, AskRightIs DEF IInv, Asked, Selects, Hop
<1>5. ASSUME pc' = "rank" PROVE Searching'
  <2>1. PICK w, s : /\ w = At(Block) /\ search' = {s} /\ s.pools = FundingPools(w, failed)
                    /\ s.failed = failed /\ w \in Worlds
    <3>1. At(Block) \in Worlds
      BY <1>1, ClientIs DEF IInv, ChainRight
    <3>2. PICK w, s : w = At(Block) /\ s = [pools |-> FundingPools(w, failed), failed |-> failed]
      OBVIOUS
    <3>3. search' = {s}
      BY <1>1, <1>5, <3>2
    <3> QED BY <3>1, <3>2, <3>3
  <2>2. s.pools \in Seq(AllClaims) /\ Found(s.pools, w, TierSet, failed)
    BY <2>1, FundingPoolsFound
  <2>3. w = At(Block)'
    BY <1>1, <2>1 DEF At, Block
  <2>4. Found(s.pools, w, TierSet, failed)'
    BY <1>1, <2>2, SameTierPools DEF Found
  <2> QED BY <2>1, <2>2, <2>3, <2>4 DEF Searching
<1>6. AskRight'
  BY <1>1, <1>4, <1>5 DEF AskRight, Asked, Selects, Searching, Found, AllClaims, TierSet
<1>7. ShownRight' /\ BestFunding'
  BY <1>1, ShownStays
<1>8. HandedRight' /\ CurrentRight'
  BY <1>1, HandedStays DEF CurrentRight
<1>9. LandsAsShown'
  BY <1>1, LandedStays
<1> QED BY <1>2, <1>3, <1>6, <1>7, <1>8, <1>9 DEF IInv

LEMMA RefusedKeeps ==
  ASSUME IInv, pc \notin {"idle", "landed"}, pc' = "refused",
         UNCHANGED <<blocks, method, refreshing, router, ask, hop, search, shown, handed, landed>>
  PROVE  IInv'
<1>1. Grows
  BY DEF Grows
<1>2. ChainRight'
  BY <1>1, ChainStays DEF IInv
<1>3. Stage'
  BY DEF IInv, Stage, Steps, Preparing
<1>4. AskRight'
  BY DEF AskRight
<1>5. ShownRight' /\ BestFunding'
  BY <1>1, ShownStays
<1>6. HandedRight' /\ CurrentRight'
  BY <1>1, HandedStays DEF CurrentRight
<1>7. LandsAsShown'
  BY <1>1, LandedStays
<1> QED BY <1>2, <1>3, <1>4, <1>5, <1>6, <1>7 DEF IInv

LEMMA prepare_fundedKeeps ==
  ASSUME IInv, NEW lost, prepare_funded(lost)
  PROVE  IInv'
<1>1. PICK pools, failed, c, b : /\ pools = The(search).pools /\ failed = The(search).failed
                                 /\ c = Candidates(pools, lost) /\ b = Best(c)
  OBVIOUS
<1>2. PICK hops, amounts, funding : /\ hops = Funded(pools[b]) /\ amounts = c[b]
                                    /\ funding = {Report(pools, failed, c)}
  OBVIOUS
<1>3. /\ pc = "rank"
      /\ UNCHANGED <<blocks, method, refreshing, router, ask, hop, search, landed>>
      /\ IF b = 0 THEN pc' = "refused" /\ UNCHANGED <<shown, handed, current>>
         ELSE finish_preparation(hops, amounts, funding)
  BY <1>1, <1>2 DEF prepare_funded, Candidates, Report, Funded
<1>4. CASE b = 0
  BY <1>3, <1>4, RefusedKeeps
<1>5. CASE b # 0
  <2>1. /\ ChainRight /\ router # {} /\ Ask.amount_in \in U256 /\ Ask.limits \in Rates
        /\ Hop.pool.kind \in Kinds /\ Searching
    BY <1>3, AskRightIs, AskedIs DEF IInv, ChainRight, Selects
  <2>2. pools \in Seq(AllClaims) /\ Found(pools, At(Block), TierSet, failed)
    <3>1. PICK s : /\ search = {s} /\ s.pools \in Seq(AllClaims)
                   /\ Found(s.pools, At(Block), TierSet, s.failed)
      BY <2>1 DEF Searching
    <3> QED BY <1>1, <3>1, TheOnly
  <2>3. ASSUME NEW p \in PreparedSwaps(hops, amounts, funding)
        PROVE  PlanRight(p) /\ QuoteRight(p) /\ BestFor(p)
    <3>1. FundedBy(p, pools, failed, lost)
      BY <1>1, <1>2, <1>5 DEF FundedBy
    <3> QED BY <2>1, <2>2, <3>1, FundingBest
  <2> QED BY <1>3, <1>5, <2>3, FinishKeeps
<1> QED BY <1>4, <1>5

(* What a caller may do to a swap, and what of it the trader accepts.      *)
SwapFields == {"quote", "plan", "funding", "limits", "fee_amount"}
QuoteParts == {"hops", "trade", "block", "amount_out"}
TradeParts == {"chain", "amount_in", "sender", "recipient", "currency_in", "currency_out"}
Written(p, q) == /\ p.limits = q.limits /\ DOMAIN p = SwapFields
                 /\ DOMAIN p.quote = QuoteParts /\ DOMAIN p.quote.trade = TradeParts
                 /\ p.quote.trade.amount_in \in U256 /\ p.quote.amount_out \in Nat
                 /\ p.quote.hops = q.quote.hops \/ p.quote.hops \in Seq(RouteHop)

(* A write over a record replaces fields of it, and adds none.             *)
LEMMA Writing ==
  ASSUME NEW r, NEW w
  PROVE  /\ DOMAIN Write(r, w) = DOMAIN r
         /\ \A f \in DOMAIN r :
              \/ (f \in DOMAIN w /\ Write(r, w)[f] = w[f])
              \/ (f \notin DOMAIN w /\ Write(r, w)[f] = r[f])
BY DEF Write

LEMMA QuoteWritten ==
  ASSUME NEW x, DOMAIN x = QuoteParts, DOMAIN x.trade = TradeParts,
         x.trade.amount_in \in U256, x.amount_out \in Nat, NEW w \in Writes
  PROVE  LET y == Rewritten(x, w) IN
         /\ DOMAIN y = QuoteParts /\ DOMAIN y.trade = TradeParts
         /\ y.trade.amount_in \in U256 /\ y.amount_out \in Nat
         /\ y.hops = x.hops \/ y.hops \in Seq(RouteHop)
<1>1. /\ "amount_out" \in DOMAIN w.quote => w.quote.amount_out \in U256
      /\ "hops" \in DOMAIN w.quote => w.quote.hops \in Seq(RouteHop)
      /\ "amount_in" \in DOMAIN w.trade => w.trade.amount_in \in U256
  BY PreparationAssumption
<1>2. PICK v, t : v = Write(x, w.quote) /\ t = Write(x.trade, w.trade)
  OBVIOUS
<1>3. /\ DOMAIN v = QuoteParts
      /\ \/ v.amount_out = w.quote.amount_out /\ "amount_out" \in DOMAIN w.quote
         \/ v.amount_out = x.amount_out
      /\ \/ v.hops = w.quote.hops /\ "hops" \in DOMAIN w.quote
         \/ v.hops = x.hops
  BY <1>2, Writing DEF QuoteParts
<1>4. /\ DOMAIN t = TradeParts
      /\ \/ t.amount_in = w.trade.amount_in /\ "amount_in" \in DOMAIN w.trade
         \/ t.amount_in = x.trade.amount_in
  BY <1>2, Writing DEF TradeParts
<1>5. PICK y : y = Rewritten(x, w) /\ y = [v EXCEPT !.trade = t]
  BY <1>2 DEF Rewritten
<1>6. /\ DOMAIN y = QuoteParts /\ y.trade = t /\ y.amount_out = v.amount_out /\ y.hops = v.hops
  BY <1>3, <1>5 DEF QuoteParts
<1>7. \A n \in U256 : n \in Nat
  BY DEF U256
<1> QED BY <1>1, <1>3, <1>4, <1>5, <1>6, <1>7

LEMMA AlteredWritten ==
  ASSUME NEW q, PlanRight(q), NEW p \in Altered(q)
  PROVE  Written(p, q)
<1>1. /\ DOMAIN q = SwapFields /\ DOMAIN q.quote = QuoteParts
      /\ DOMAIN q.quote.trade = TradeParts /\ q.quote.trade.amount_in \in U256
      /\ q.quote.amount_out \in Nat
  BY DEF PlanRight, SwapFields, QuoteParts, TradeParts
<1>2. PICK w \in Writes : \E plan :
        p = [Write(q, w.swap) EXCEPT !.quote = Rewritten(q.quote, w), !.plan = plan]
  <2> DEFINE Plans(w) == {q.plan, [q.plan EXCEPT !.minimumAmountOut = 0]}
                           \union build_swap(The(router), Rewritten(q.quote, w), q.limits)
             Swaps(w) == {[Write(q, w.swap) EXCEPT !.quote = Rewritten(q.quote, w), !.plan = plan] :
                            plan \in Plans(w)}
  <2>1. p \in UNION {Swaps(w) : w \in Writes}
    BY DEF Altered
  <2> HIDE DEF Plans
  <2>2. ASSUME NEW w \in Writes, p \in Swaps(w)
        PROVE  \E plan : p = [Write(q, w.swap) EXCEPT !.quote = Rewritten(q.quote, w), !.plan = plan]
    BY <2>2
  <2> HIDE DEF Swaps
  <2>3. \E w \in Writes : p \in Swaps(w)
    BY <2>1
  <2> QED BY <2>2, <2>3
<1>3. PICK v, y : v = Write(q, w.swap) /\ y = Rewritten(q.quote, w)
  OBVIOUS
<1>4. "limits" \notin DOMAIN w.swap
  BY PreparationAssumption
<1>5. DOMAIN v = SwapFields /\ v.limits = q.limits
  BY <1>1, <1>3, <1>4, Writing DEF SwapFields
<1>6. PICK plan : p = [v EXCEPT !.quote = y, !.plan = plan]
  BY <1>2, <1>3
<1>7. DOMAIN p = SwapFields /\ p.quote = y /\ p.limits = q.limits
  BY <1>5, <1>6 DEF SwapFields
<1>8. PICK x : x = q.quote
  OBVIOUS
<1>9. /\ DOMAIN y = QuoteParts /\ DOMAIN y.trade = TradeParts
      /\ y.trade.amount_in \in U256 /\ y.amount_out \in Nat
      /\ y.hops = x.hops \/ y.hops \in Seq(RouteHop)
  BY <1>1, <1>3, <1>8, QuoteWritten
<1> QED BY <1>7, <1>8, <1>9 DEF Written

LEMMA UnalteredRight ==
  ASSUME ChainRight, router # {}, NEW q, PlanRight(q), NEW p \in Altered(q), Unaltered(p)
  PROVE  PlanRight(p) /\ p.quote.block = Block /\ p.limits = q.limits
<1>1. PICK x, y, l : x = p.quote /\ y = q.quote /\ l = p.limits
  OBVIOUS
<1>2. /\ l = q.limits /\ DOMAIN p = SwapFields
      /\ DOMAIN x = QuoteParts /\ DOMAIN x.trade = TradeParts
      /\ x.trade.amount_in \in U256 /\ x.amount_out \in Nat
      /\ x.hops = y.hops \/ x.hops \in Seq(RouteHop)
  BY <1>1, AlteredWritten DEF Written
<1>3. PICK r : r = The(router) /\ r = ClientAt(Block) /\ r.block = Block
  BY ClientIs DEF Block
<1>4. build_swap(r, x, l) = {p.plan} /\ x.trade.recipient = Wallet
  BY <1>1, <1>3 DEF Unaltered
<1>5. x.block = Block
  <2>1. p.plan \in build_swap(r, x, l)
    BY <1>4
  <2> QED BY <1>3, <2>1 DEF build_swap, When
<1>6. build_swap(ClientAt(x.block), x, l) = {p.plan}
  BY <1>3, <1>4, <1>5
<1>7. /\ q.limits \in Rates
      /\ y.hops \in Seq({y.hops[n] : n \in DOMAIN y.hops})
      /\ \A n \in DOMAIN y.hops : y.hops[n].pool.kind \in Kinds
  BY <1>1 DEF PlanRight
<1>8. /\ x.hops \in Seq({x.hops[n] : n \in DOMAIN x.hops})
      /\ \A n \in DOMAIN x.hops : x.hops[n].pool.kind \in Kinds
  <2>1. CASE x.hops = y.hops
    BY <1>7, <2>1
  <2>2. CASE x.hops \in Seq(RouteHop)
    <3>1. PICK hops : hops = x.hops /\ hops \in Seq(RouteHop)
      BY <2>2
    <3>2. \A n \in DOMAIN hops : hops[n] \in RouteHop
      BY <3>1
    <3>3. \A h \in RouteHop : h.pool.kind \in Kinds
      BY DEF RouteHop, Pools
    <3>4. hops \in Seq({hops[n] : n \in DOMAIN hops})
      BY <3>1, SeqOfItself
    <3> QED BY <3>1, <3>2, <3>3, <3>4
  <2> QED BY <1>2, <2>1, <2>2
<1>9. x.block \in DOMAIN blocks /\ l \in Rates
  BY <1>2, <1>5, <1>7, ClientIs
<1>10. PlanRight(p)
  BY <1>1, <1>2, <1>4, <1>6, <1>8, <1>9 DEF PlanRight, SwapFields, QuoteParts, TradeParts
<1> QED BY <1>1, <1>2, <1>5, <1>10

LEMMA submit_preparedKeeps ==
  ASSUME IInv, NEW q \in shown, NEW p \in Altered(q), submit_prepared(p)
  PROVE  IInv'
<1>1. /\ Grows /\ pc = "shown" /\ method = "prepare" /\ method' = "submit_prepared"
      /\ \/ Unaltered(p) /\ handed' = {p} /\ pc' = "allowance"
         \/ handed' = {} /\ pc' = "refused"
      /\ UNCHANGED <<blocks, refreshing, router, ask, hop, search, shown, current, landed>>
  BY DEF submit_prepared, Grows
<1>2. ~refreshing /\ landed = {} /\ router # {} /\ ChainRight /\ PlanRight(q)
  BY <1>1 DEF IInv, Stage, ChainRight, ShownRight
<1>3. ChainRight'
  BY <1>1, <1>2, ChainStays
<1>4. Stage'
  BY <1>1, <1>2 DEF Stage, Steps, Preparing
<1>5. AskRight'
  <2>1. Asked'
    BY <1>1, AskRightIs DEF IInv, Asked
  <2> QED BY <1>1, <2>1 DEF AskRight, Asked
<1>6. ShownRight' /\ BestFunding'
  BY <1>1, ShownStays
<1>7. HandedRight'
  <2>1. Unaltered(p) => PlanRight(p) /\ p.quote.block = Block /\ p.limits = q.limits
    BY <1>2, UnalteredRight
  <2>2. blocks \in Seq(Worlds) /\ Block' = Block
    BY <1>1, <1>2 DEF ChainRight, Block
  <2>3. pc' # "refused" => /\ handed' = {p} /\ PlanRight(p)' /\ p.quote.block = Block'
                           /\ p.limits = q.limits
    BY <1>1, <2>1, <2>2, PlanStays
  <2> QED BY <1>1, <2>3 DEF HandedRight
<1>8. CurrentRight'
  BY <1>1 DEF CurrentRight
<1>9. LandsAsShown'
  BY <1>1, <1>2, NothingLanded
<1> QED BY <1>3, <1>4, <1>5, <1>6, <1>7, <1>8, <1>9 DEF IInv

LEMMA AllowanceKeeps ==
  ASSUME IInv, NEW enough \in BOOLEAN, Allowance(enough)
  PROVE  IInv'
<1>1. /\ Grows /\ pc = "allowance"
      /\ \/ current' = handed /\ pc' = "send"
         \/ current' = current /\ pc' = "refresh"
      /\ UNCHANGED <<blocks, method, refreshing, router, ask, hop, search, shown, handed, landed>>
  BY DEF Allowance, Grows
<1>2. ChainRight'
  BY <1>1, ChainStays DEF IInv
<1>3. Stage'
  BY <1>1 DEF IInv, Stage, Steps, Preparing
<1>4. AskRight'
  <2>1. Asked'
    BY <1>1, AskRightIs DEF IInv, Asked
  <2> QED BY <1>1, <2>1 DEF AskRight, Asked
<1>5. ShownRight' /\ BestFunding'
  BY <1>1, ShownStays
<1>6. HandedRight'
  BY <1>1, HandedStays
<1>7. CurrentRight'
  <2> SUFFICES ASSUME pc' = "send" PROVE CurrentRight'
    BY DEF CurrentRight
  <2>1. current' = handed' /\ handed' = handed /\ shown' = shown
    BY <1>1
  <2>2. \A p \in shown : Lands(p)'
    <3>1. \A p \in shown : PlanRight(p) /\ QuoteRight(p)
      BY DEF IInv, ShownRight
    <3>2. blocks \in Seq(Worlds) /\ ChainRight
      BY DEF IInv, ChainRight
    <3>3. \A p \in shown : Lands(p)
      BY <3>1, <3>2, RightLands
    <3> QED BY <1>1, <3>2, <3>3, LandsStays
  <2>3. method = "submit_prepared" => \A p \in handed : p.plan = The(handed).plan
    BY <1>1, TheOnly DEF IInv, HandedRight
  <2>4. CASE method = "submit"
    BY <1>1, <2>1, <2>2, <2>4 DEF CurrentRight, IInv, HandedRight
  <2>5. CASE method = "submit_prepared" /\ Unwritten
    <3>1. PICK p \in handed, s \in shown : handed = {p} /\ p.quote = s.quote /\ p.plan = s.plan
      BY <1>1, <2>5 DEF IInv, HandedRight, Unwritten
    <3>2. Lands(p)'
      <4>1. Lands(s)'
        BY <2>2
      <4> QED BY <3>1, <4>1 DEF Lands
    <3> QED BY <1>1, <2>1, <2>3, <3>1, <3>2 DEF CurrentRight
  <2>6. CASE method = "submit_prepared" /\ ~Unwritten
    BY <1>1, <2>1, <2>3, <2>6 DEF CurrentRight, Unwritten
  <2>7. method \in {"submit", "submit_prepared"}
    BY <1>1 DEF IInv, Stage
  <2> QED BY <2>4, <2>5, <2>6, <2>7
<1>8. LandsAsShown'
  BY <1>1, LandedStays
<1> QED BY <1>2, <1>3, <1>4, <1>5, <1>6, <1>7, <1>8 DEF IInv

LEMMA RefreshKeeps ==
  ASSUME IInv, Refresh
  PROVE  IInv'
<1>1. /\ Grows /\ pc = "refresh" /\ method = "submit" /\ router' = connect(Latest) /\ refreshing'
      /\ pc' \in {"resolve", "refused"}
      /\ UNCHANGED <<blocks, method, ask, shown, handed, current, landed>>
  BY DEF Refresh, Grows
<1>2. ChainRight'
  BY <1>1, ConnectRight DEF IInv
<1>3. Stage'
  BY <1>1 DEF IInv, Stage, Steps, Preparing
<1>4. AskRight'
  <2>1. Asked'
    BY <1>1, AskRightIs DEF IInv, Asked
  <2> QED BY <1>1, <2>1 DEF AskRight, Asked
<1>5. ShownRight' /\ BestFunding'
  BY <1>1, ShownStays
<1>6. HandedRight' /\ CurrentRight'
  BY <1>1, HandedStays DEF CurrentRight
<1>7. LandsAsShown'
  BY <1>1, LandedStays
<1> QED BY <1>2, <1>3, <1>4, <1>5, <1>6, <1>7 DEF IInv

(* A quote of the same hops in another block, if it meets the minimum that *)
(* was shown, and the fee is the same there.                               *)
LEMMA RefreshedLands ==
  ASSUME ChainRight, NEW h, PlanRight(h), NEW b \in DOMAIN blocks,
         At(b).fee = At(h.quote.block).fee,
         NEW n \in Requote(At(b), h.quote, At(b).fee),
         n >= minimum_amount_out(h.quote.amount_out, h.limits),
         NEW p, p.plan = h.plan, p.quote.block = b
  PROVE  Lands(p)
<1>1. PICK w, plan : w = At(b) /\ plan = h.plan
  OBVIOUS
<1>2. w \in Worlds
  BY <1>1 DEF ChainRight, At
<1>3. n \in Requote(w, h.quote, w.fee)
  BY <1>1
<1>4. n = RouteOutput(w, h.plan.hops, h.quote.trade.amount_in)
  BY <1>2, <1>3, PlanRouted
<1>5. /\ h.plan.expectedFeeBps = At(h.quote.block).fee
      /\ h.plan.amountIn = h.quote.trade.amount_in
      /\ h.plan.minimumAmountOut = minimum_amount_out(h.quote.amount_out, h.limits)
  BY PlanIs
<1> QED BY <1>1, <1>4, <1>5 DEF Lands

LEMMA refresh_routeKeeps ==
  ASSUME IInv, NEW ok \in BOOLEAN, refresh_route(ok)
  PROVE  IInv'
<1> DEFINE old == The(handed)
           client == The(connect(Latest))
           quotes == {[old.quote EXCEPT !.amount_out = n, !.block = Latest] :
                        n \in {n \in Requote(At(Latest), old.quote, client.fee) :
                                 Acceptable(n, old.quote, old.limits)}}
           Fees(q)  == calculate_fee(q.trade.amount_in, client.fee)
           Plans(q) == {[old EXCEPT !.quote = q, !.plan = Kept(@, plan), !.funding = {},
                                    !.fee_amount = Fees(q)] :
                          plan \in build_swap(client, q, old.limits)}
<1>1. PICK h, fresh, w : /\ h = old /\ fresh = client /\ w = At(Latest) /\ fresh.fee = w.fee
  <2>1. The(connect(Latest)) = [block |-> Latest, fee |-> At(Latest).fee]
    BY TheOnly DEF connect
  <2>2. The(connect(Latest)).fee = At(Latest).fee
    BY <2>1
  <2> QED BY <2>2
<1>2. /\ Grows /\ pc = "refresh" /\ method = "submit_prepared"
      /\ pc' = (IF current' = {} THEN "refused" ELSE "send")
      /\ UNCHANGED <<blocks, method, refreshing, router, ask, hop, search, shown, handed, landed>>
  BY DEF refresh_route, Grows
<1>3. current' = IF ok /\ client.fee = Fee THEN UNION {Plans(q) : q \in quotes} ELSE {}
  BY DEF refresh_route
<1>4. ASSUME NEW p \in current'
      PROVE  /\ fresh.fee = Fee
             /\ \E q \in quotes : \E plan, fee :
                  p = [h EXCEPT !.quote = q, !.plan = Kept(h.plan, plan), !.funding = {},
                                !.fee_amount = fee]
  <2> HIDE DEF quotes, Plans, Fees, client
  <2>1. client.fee = Fee /\ \E q \in quotes : p \in Plans(q)
    BY <1>3, <1>4
  <2>2. ASSUME NEW q, p \in Plans(q)
        PROVE  \E plan, fee : p = [h EXCEPT !.quote = q, !.plan = Kept(h.plan, plan),
                                            !.funding = {}, !.fee_amount = fee]
    <3>1. PICK plan, fee :
            /\ fee = Fees(q)
            /\ p = [old EXCEPT !.quote = q, !.plan = Kept(@, plan), !.funding = {},
                              !.fee_amount = Fees(q)]
      BY <2>2 DEF Plans
    <3>2. PICK kept : kept = Kept(h.plan, plan)
      OBVIOUS
    <3> QED BY <1>1, <3>1, <3>2
  <2>3. PICK q \in quotes : p \in Plans(q)
    BY <2>1
  <2>4. PICK plan, fee : p = [h EXCEPT !.quote = q, !.plan = Kept(h.plan, plan),
                                       !.funding = {}, !.fee_amount = fee]
    BY <2>2, <2>3
  <2> QED BY <1>1, <2>1, <2>3, <2>4
<1> HIDE DEF Plans, Fees, client
<1>5. /\ ChainRight /\ blocks \in Seq(Worlds) /\ Latest \in DOMAIN blocks /\ router # {}
  BY <1>2 DEF IInv, ChainRight, Latest
<1>6. handed = {h} /\ PlanRight(h) /\ h.quote.block = Block
  BY <1>1, <1>2, TheOnly DEF IInv, HandedRight
<1>7. ASSUME NEW p \in current' PROVE p.plan = h.plan /\ Lands(p)'
  <2>1. PICK q \in quotes : \E plan, fee :
          p = [h EXCEPT !.quote = q, !.plan = Kept(h.plan, plan), !.funding = {},
                        !.fee_amount = fee]
    BY <1>4, <1>7
  <2>2. PICK n \in Requote(w, h.quote, fresh.fee) :
          /\ Acceptable(n, h.quote, h.limits)
          /\ q = [h.quote EXCEPT !.amount_out = n, !.block = Latest]
    BY <1>1, <2>1 DEF quotes, client
  <2>3. /\ DOMAIN h = {"quote", "plan", "funding", "limits", "fee_amount"}
        /\ DOMAIN h.quote = {"hops", "trade", "block", "amount_out"}
    BY <1>6 DEF PlanRight
  <2>4. p.quote = q /\ p.plan = h.plan
    BY <2>1, <2>3 DEF Kept
  <2>5. q.block = Latest
    BY <2>2, <2>3
  <2>6. At(Latest).fee = At(h.quote.block).fee
    <3>1. Fee = At(Block).fee
      BY <1>5, ClientIs
    <3> QED BY <1>1, <1>4, <1>6, <1>7, <3>1
  <2>7. PICK b : b = Latest /\ b \in DOMAIN blocks
    BY <1>5
  <2>8. n \in Requote(At(b), h.quote, At(b).fee) /\ At(b).fee = At(h.quote.block).fee
    BY <1>1, <2>2, <2>6, <2>7
  <2>9. n >= minimum_amount_out(h.quote.amount_out, h.limits)
    BY <2>2 DEF Acceptable
  <2>10. p.plan = h.plan /\ p.quote.block = b
    BY <2>4, <2>5, <2>7
  <2>11. Lands(p)
    BY <1>5, <1>6, <2>7, <2>8, <2>9, <2>10, RefreshedLands
  <2> QED BY <1>2, <1>5, <2>4, <2>11, LandsStays
<1>8. ChainRight'
  BY <1>2, ChainStays DEF IInv
<1>9. Stage'
  BY <1>2 DEF IInv, Stage, Steps, Preparing
<1>10. AskRight'
  <2>1. Asked'
    BY <1>2, AskRightIs DEF IInv, Asked
  <2> QED BY <1>2, <2>1 DEF AskRight, Asked
<1>11. ShownRight' /\ BestFunding'
  BY <1>2, ShownStays
<1>12. HandedRight'
  BY <1>2, HandedStays
<1>13. CurrentRight'
  BY <1>1, <1>2, <1>7 DEF CurrentRight
<1>14. LandsAsShown'
  BY <1>2, LandedStays
<1> QED BY <1>8, <1>9, <1>10, <1>11, <1>12, <1>13, <1>14 DEF IInv

LEMMA MineKeeps ==
  ASSUME IInv, Mine
  PROVE  IInv'
<1>1. PICK plan, w : plan = The(current).plan /\ w = At(Latest)
  OBVIOUS
<1>2. /\ Grows /\ pc = "send" /\ pc' = "landed" /\ plan.expectedFeeBps = w.fee
      /\ landed' = {[fee |-> mulDiv(plan.amountIn, w.fee), output |-> plan.minimumAmountOut,
                     to |-> plan.recipient]}
      /\ UNCHANGED <<blocks, method, refreshing, router, ask, hop, search, shown, handed, current>>
  BY <1>1 DEF Mine, Grows, call
<1>3. ChainRight'
  BY <1>2, ChainStays DEF IInv
<1>4. Stage'
  BY <1>2 DEF IInv, Stage, Steps, Preparing
<1>5. AskRight'
  <2>1. Asked'
    BY <1>2, AskRightIs DEF IInv, Asked
  <2> QED BY <1>2, <2>1 DEF AskRight, Asked
<1>6. ShownRight' /\ BestFunding'
  BY <1>2, ShownStays
<1>7. HandedRight' /\ CurrentRight'
  BY <1>2, HandedStays DEF CurrentRight
<1>8. LandsAsShown'
  <2> SUFFICES ASSUME method = "submit_prepared", NEW l \in landed'
               PROVE  LandsAsShown'
    BY <1>2 DEF LandsAsShown
  <2>1. PICK h, s : /\ h = The(handed) /\ PlanRight(h) /\ s \in shown /\ h.limits = s.limits
                    /\ landed' = {l}
    BY <1>2, TheOnly DEF IInv, HandedRight
  <2>2. plan = h.plan
    <3>1. The(current) \in current
      BY <1>2, TheIn DEF IInv, Stage
    <3> QED BY <1>1, <1>2, <2>1, <3>1 DEF IInv, CurrentRight
  <2>3. /\ plan.expectedFeeBps = At(h.quote.block).fee
        /\ plan.amountIn = h.quote.trade.amount_in /\ plan.recipient = Wallet
        /\ plan.minimumAmountOut = minimum_amount_out(h.quote.amount_out, h.limits)
        /\ s.fee_amount = mulDiv(s.quote.trade.amount_in, At(s.quote.block).fee)
    BY <2>1, <2>2, PlanIs, FeeShown DEF IInv, ShownRight
  <2>4. minimum_amount_out(h.quote.amount_out, h.limits) \in Nat
    <3>1. PICK n, k : n = h.quote.amount_out /\ k = h.limits /\ n \in Nat /\ k \in Rates
      BY <2>1 DEF PlanRight
    <3> QED BY <3>1, MinimumAtMost
  <2>5. /\ l.fee = mulDiv(plan.amountIn, w.fee) /\ l.output = plan.minimumAmountOut
        /\ l.to = plan.recipient
    BY <1>2
  <2>6. l.output >= minimum_amount_out(h.quote.amount_out, h.limits)
    BY <2>3, <2>4, <2>5
  <2>7. l.fee = mulDiv(h.quote.trade.amount_in, At(h.quote.block).fee)
    BY <1>2, <2>3, <2>5
  <2> QED BY <1>2, <2>1, <2>3, <2>5, <2>6, <2>7 DEF LandsAsShown, At
<1> QED BY <1>3, <1>4, <1>5, <1>6, <1>7, <1>8 DEF IInv

LEMMA AgainKeeps ==
  ASSUME IInv, Again
  PROVE  IInv'
<1>1. /\ Grows /\ blocks' = blocks /\ pc' = "idle" /\ method' = "prepare" /\ ~refreshing'
      /\ router' = {} /\ shown' = {} /\ handed' = {} /\ current' = {} /\ landed' = {}
  BY DEF Again, Grows
<1>2. ChainRight'
  BY <1>1 DEF IInv, ChainRight
<1>3. Stage' /\ AskRight' /\ ShownRight' /\ HandedRight' /\ CurrentRight'
  BY <1>1 DEF Stage, Steps, Preparing, AskRight, ShownRight, HandedRight, CurrentRight
<1>4. BestFunding' /\ LandsAsShown'
  BY <1>1 DEF BestFunding, LandsAsShown
<1> QED BY <1>2, <1>3, <1>4 DEF IInv

LEMMA StutterKeeps ==
  ASSUME IInv, UNCHANGED vars
  PROVE  IInv'
<1>1. Grows /\ UNCHANGED <<blocks, pc, method, refreshing, router, ask, hop, search, shown, handed,
                           current, landed>>
  BY DEF vars, call, Grows
<1>2. ChainRight' /\ Stage' /\ AskRight'
  BY <1>1, ChainStays, AskStays DEF IInv, Stage
<1>3. ShownRight' /\ BestFunding' /\ HandedRight' /\ CurrentRight' /\ LandsAsShown'
  BY <1>1, ShownStays, HandedStays, CurrentStays, LandedStays
<1> QED BY <1>2, <1>3 DEF IInv

LEMMA FailKeeps ==
  ASSUME IInv, Fail
  PROVE  IInv'
BY RefusedKeeps DEF Fail, call

LEMMA StepKeeps == IInv /\ [Next]_vars => IInv'
<1> SUFFICES ASSUME IInv, [Next]_vars PROVE IInv'
  OBVIOUS
<1>1. ASSUME NEW r \in Requests, NEW s \in Settings, NEW l \in Slippages,
             NEW m \in {"prepare", "submit"},
             Request([v4 |-> r.v4, pair |-> r.pair, token |-> r.token, side |-> r.side,
                      amount_in |-> r.amount_in, hook_data |-> r.hook_data,
                      native_settlement |-> s.native_settlement, buy_with |-> s.buy_with,
                      limits |-> l], m)
      PROVE  IInv'
  <2>1. PICK a : /\ a = [v4 |-> r.v4, pair |-> r.pair, token |-> r.token, side |-> r.side,
                         amount_in |-> r.amount_in, hook_data |-> r.hook_data,
                         native_settlement |-> s.native_settlement, buy_with |-> s.buy_with,
                         limits |-> l]
                 /\ Request(a, m)
    BY <1>1
  <2>2. a.amount_in = r.amount_in
    BY <2>1
  <2>3. a.amount_in \in U256
    BY <2>2, PreparationAssumption
  <2> QED BY <2>1, <2>3, RequestKeeps
<1>2. ASSUME NEW ok \in BOOLEAN, Resolve(ok) \/ prepare_pool(ok) \/ refresh_route(ok)
      PROVE  IInv'
  BY <1>2, ResolveKeeps, prepare_poolKeeps, refresh_routeKeeps
<1>3. ASSUME NEW ok \in BOOLEAN, NEW failed, Discover(ok, failed) PROVE IInv'
  BY <1>3, DiscoverKeeps
<1>4. ASSUME NEW lost, prepare_funded(lost) PROVE IInv'
  BY <1>4, prepare_fundedKeeps
<1>5. ASSUME NEW q \in shown, NEW p \in Altered(q), submit_prepared(p) PROVE IInv'
  BY <1>5, submit_preparedKeeps
<1>6. ASSUME NEW enough \in BOOLEAN, Allowance(enough) PROVE IInv'
  BY <1>6, AllowanceKeeps
<1>7. CASE NewBlock \/ Connect \/ Refresh \/ Mine \/ Fail \/ Again
  BY <1>7, NewBlockKeeps, ConnectKeeps, RefreshKeeps, MineKeeps, FailKeeps, AgainKeeps
<1>8. CASE UNCHANGED vars
  BY <1>8, StutterKeeps
<1> QED BY <1>1, <1>2, <1>3, <1>4, <1>5, <1>6, <1>7, <1>8 DEF Next

-----------------------------------------------------------------------------
(***************************************************************************)
(* The theorems.                                                           *)
(***************************************************************************)
(* Whatever the chain and the callers do, what was prepared belongs to the *)
(* block it names, and what was handed in and is about to be sent to what  *)
(* was prepared (trader.rs:321, trader.rs:459, trader.rs:548).             *)
THEOREM InvariantHolds == Spec => []IInv
<1>1. Init => IInv
  BY InitRight
<1>2. IInv /\ [Next]_vars => IInv'
  BY StepKeeps
<1> QED BY <1>1, <1>2, PTL DEF Spec

(* All that a prepared swap says is true in the one block that its quote   *)
(* names: output, fee and fee amount (trader.rs:548, fee_router.rs:129).   *)
THEOREM OneBlockHolds == Spec => []OneBlock
<1>1. IInv => OneBlock
  <2> SUFFICES ASSUME IInv, NEW p \in shown PROVE InOneBlock(p)
    BY DEF OneBlock, InOneBlock, At
  <2>1. ChainRight /\ PlanRight(p) /\ QuoteRight(p)
    BY DEF IInv, ShownRight
  <2> QED BY <2>1, RightLands
<1> QED BY <1>1, InvariantHolds, PTL

(* No funding route of a tier that answered pays more than the chosen one  *)
(* (trader.rs:735).                                                        *)
THEOREM BestFundingHolds == Spec => []BestFunding
<1>1. IInv => BestFunding
  BY DEF IInv
<1> QED BY <1>1, InvariantHolds, PTL

(* A plan about to be sent would land in the block its quote names         *)
(* (trader.rs:459, trader.rs:533).                                         *)
THEOREM WouldLandHolds == Spec => []WouldLand
<1>1. IInv => WouldLand
  BY DEF IInv, CurrentRight, WouldLand, Lands, At
<1> QED BY <1>1, InvariantHolds, PTL

(* Of a swap that was handed in lands what its quote says and the private  *)
(* limits allow, whatever the caller wrote to its public fields, at the    *)
(* fee amount that was shown unless input or block were written            *)
(* (trader.rs:321).                                                        *)
THEOREM LandsAsShownHolds == Spec => []LandsAsShown
<1>1. IInv => LandsAsShown
  BY DEF IInv
<1> QED BY <1>1, InvariantHolds, PTL
=============================================================================
