----------------------------- MODULE PriceImpact -----------------------------
(***************************************************************************)
(* The price impact of a quoted route (src/src/fee_router/price_impact.rs):*)
(* the state of every pool is read concurrently, and spot prices, fees and *)
(* hook taxes are multiplied as reduced fractions of wide integers.  An    *)
(* option is a set of at most one element.                                 *)
(***************************************************************************)
EXTENDS FeeMath, Integers, Sequences, FiniteSets

CONSTANTS
  Hops,           \* pools with their state and the direction of the trade
  MaxHops, Grosses, Outputs, FeeBps,
  WideMax,        \* 2^1024 - 1 in the code
  I32Max, PIPS,   \* 2^31 - 1 and 1_000_000 in the code
  V2Pips,         \* 3000 in the code
  Scale,          \* 2^192 in the code
  MaxProtocol,    \* 1000 pips in the code
  MaxHookFee, MaxHookSum   \* 1000 and 2000 bps in the code

Launch == [registered : BOOLEAN, matches : BOOLEAN, hook_fee : Nat, creator_tax : Nat]
Hop == [kind : {"V2", "V3", "V4"}, pool : STRING, zero_for_one : BOOLEAN,
        reserves : Nat \X Nat, sqrt : Nat, fee : Nat, dynamic : BOOLEAN,
        protocol : Nat \X Nat, hooks : {"none", "pons", "other"}, launch : Launch]

ASSUME PriceImpactAssumption ==
  /\ Hops \subseteq Hop /\ MaxHops \in Nat
  /\ Grosses \subseteq U256 \ {0} /\ Outputs \subseteq U256 /\ FeeBps \in 0..BPS - 1
  /\ {WideMax, I32Max, PIPS, Scale} \subseteq Nat \ {0} /\ Width <= WideMax + 1
  /\ V2Pips \in Nat

VARIABLES
  route,    \* the hops of the quote
  gross,    \* its input and
  output,   \* its output
  answers,  \* what has been read: of a hop, a reference or a failure
  report    \* the estimate (at most one)
vars == <<route, gross, output, answers, report>>

net == gross - calculate_fee(gross, FeeBps)

-----------------------------------------------------------------------------
(* Fractions.                                                              *)
Euclid[p \in Nat \X Nat] == IF p[2] = 0 THEN p[1] ELSE Euclid[<<p[2], p[1] % p[2]>>]
gcd(left, right) == Euclid[<<left, right>>]

checked(n)       == {m \in {n} : m <= WideMax}
amount(n)        == {[numerator |-> n, denominator |-> 1]}
Make(ns, ds)     == {[numerator |-> n, denominator |-> d] : n \in ns, d \in ds}

\* MUTANT of multiply: multiplies first.
multiply_unreduced(fs, numerator, denominator) ==
  IF numerator = 0 \/ denominator = 0 THEN {}
  ELSE UNION {Make(checked(f.numerator * numerator), checked(f.denominator * denominator)) :
                f \in fs}
(* Reduces before it multiplies.                                           *)
multiply(fs, numerator, denominator) ==
  IF numerator = 0 \/ denominator = 0 THEN {}
  ELSE LET factor == gcd(numerator, denominator)
           n == numerator \div factor
           d == denominator \div factor
       IN  UNION {LET left  == gcd(f.numerator, d)
                      right == gcd(n, f.denominator)
                  IN  Make(checked((f.numerator \div left) * (n \div right)),
                           checked((f.denominator \div right) * (d \div left))) : f \in fs}

floor(f) == {n \in {f.numerator \div f.denominator} : n < Width}

\* MUTANT of Signed: loses the sign.
SignedNot(better, bps) == bps
Signed(better, bps) == IF better THEN -bps ELSE bps
Distance(a, b) == IF a > b THEN a - b ELSE b - a
\* MUTANT of FitsI32: unchecked.
FitsI32Always(bps) == TRUE
FitsI32(bps) == bps <= I32Max
difference_bps(f, actual) ==
  IF f.numerator = 0 THEN {}
  ELSE UNION {UNION {{Signed(a > f.numerator, bps) :
                        bps \in {b \in {scaled \div f.numerator} : FitsI32(b)}} :
                       scaled \in checked(Distance(f.numerator, a) * BPS)} :
                a \in checked(actual * f.denominator)}

-----------------------------------------------------------------------------
(* References: the spot price of a hop, its fee and its hook's.            *)
NoHookFees == [hook_fee |-> 0, creator_tax |-> 0]

(* A dynamic fee, or a hook other than Pons that takes part in swaps, is   *)
(* not known.                                                              *)
v4_model(h) == IF h.dynamic \/ h.hooks = "other" THEN "HookPricing"
               ELSE IF h.hooks = "none" THEN "Core" ELSE "PonsV2"

\* MUTANT of Launched: terms of a pool that was never launched.
LaunchedAny(info) == info.matches
Launched(info) == /\ info.registered /\ info.matches
                  /\ info.hook_fee <= MaxHookFee
                  /\ info.hook_fee + info.creator_tax <= MaxHookSum
hook_fees(h, ok) ==
  CASE v4_model(h) = "HookPricing" -> [failure |-> "HookPricing", fees |-> {}]
    [] v4_model(h) = "Core"        -> [failure |-> "", fees |-> {NoHookFees}]
    [] v4_model(h) = "PonsV2" /\ ok /\ Launched(h.launch) ->
         [failure |-> "", fees |-> {[hook_fee |-> h.launch.hook_fee,
                                     creator_tax |-> h.launch.creator_tax]}]
    [] OTHER -> [failure |-> IF ok THEN "HookConfiguration" ELSE "State", fees |-> {}]

Reference(numerator, denominator, fee_pips, fees) ==
  [failure |-> "", numerator |-> numerator, denominator |-> denominator,
   fee_pips |-> fee_pips, hook_fees |-> fees]
sqrt_reference(h, fee_pips, fees) ==
  LET squared == h.sqrt * h.sqrt IN
  IF h.zero_for_one THEN Reference(squared, Scale, fee_pips, fees)
  ELSE Reference(Scale, squared, fee_pips, fees)

(* The protocol's cut of the direction, and the pool's of what is left.    *)
CoreFee(h) ==
  LET protocol == IF h.zero_for_one THEN h.protocol[1] ELSE h.protocol[2] IN
  {fee \in {protocol + h.fee - (protocol * h.fee) \div PIPS} :
     protocol <= MaxProtocol /\ h.fee <= PIPS /\ ~h.dynamic}

(* reference, whose reads may fail: of the state, and of the hook's terms. *)
reference(h, stateOk, hookOk) ==
  LET hook == hook_fees(h, hookOk) IN
  CASE ~stateOk -> [failure |-> "State"]
    [] stateOk /\ h.kind = "V2" ->
         IF h.zero_for_one THEN Reference(h.reserves[2], h.reserves[1], {V2Pips}, {NoHookFees})
         ELSE Reference(h.reserves[1], h.reserves[2], {V2Pips}, {NoHookFees})
    [] stateOk /\ h.kind = "V3" -> sqrt_reference(h, {h.fee}, {NoHookFees})
    [] stateOk /\ h.kind = "V4" ->
         IF hook.failure # "" THEN [failure |-> hook.failure]
         ELSE sqrt_reference(h, CoreFee(h), hook.fees)

-----------------------------------------------------------------------------
HookBps(r) == LET f == CHOOSE f \in r.hook_fees : TRUE IN f.hook_fee + f.creator_tax

(* The input at spot prices, and what fees and taxes leave of it.          *)
\* MUTANT of market: rounds down after every hop.
market_floored(references, n) ==
  LET after[i \in 0..Len(references)] ==
        IF i = 0 THEN amount(n)
        ELSE UNION {amount(f.numerator \div f.denominator) :
                      f \in multiply(after[i - 1], references[i].numerator,
                                      references[i].denominator)}
  IN  after[Len(references)]
market(references, n) ==
  LET after[i \in 0..Len(references)] ==
        IF i = 0 THEN amount(n)
        ELSE multiply(after[i - 1], references[i].numerator, references[i].denominator)
  IN  after[Len(references)]

after_fee_reference(references, n) ==
  LET after[i \in 0..Len(references)] ==
        IF i = 0 THEN amount(n)
        ELSE LET r     == references[i]
                 price == multiply(after[i - 1], r.numerator, r.denominator)
                 fee   == CHOOSE fee \in r.fee_pips : TRUE
             IN  IF fee > PIPS \/ HookBps(r) > BPS THEN {}
                 ELSE multiply(multiply(price, PIPS - fee, PIPS), BPS - HookBps(r), BPS)
  IN  after[Len(references)]

calculate(references) ==
  UNION {UNION {
    {[failure |-> "", market |-> m, after_fees |-> a, impact |-> i, total_cost |-> t] :
       m \in UNION {floor(f) : f \in market(references, net)}, a \in floor(after),
       i \in difference_bps(after, output), t \in difference_bps(whole, output)} :
     after \in after_fee_reference(references, net)} : whole \in market(references, gross)}

Init == /\ route = <<>> /\ gross \in Grosses /\ output \in Outputs
        /\ answers = <<>> /\ report = {}

(* A route is put together, and its pools are read in any order.           *)
Extend(h) ==
  /\ report = {} /\ answers = <<>> /\ Len(route) < MaxHops
  /\ route' = Append(route, h)
  /\ UNCHANGED <<gross, output, answers, report>>

Answer(i, stateOk, hookOk) ==
  /\ i \in DOMAIN route /\ i \notin {answers[n].hop : n \in DOMAIN answers}
  /\ answers' = Append(answers, [hop |-> i, reference |-> reference(route[i], stateOk, hookOk)])
  /\ UNCHANGED <<route, gross, output, report>>

(* estimate: the first failure in the order of the hops, or the numbers.   *)
estimate ==
  LET references == [i \in DOMAIN route |->
        (CHOOSE a \in {answers[n] : n \in DOMAIN answers} : a.hop = i).reference]
      failed  == {i \in DOMAIN route : references[i].failure # ""}
      unknown == \E i \in DOMAIN route \ failed :
                   references[i].fee_pips = {} \/ references[i].hook_fees = {}
  IN
  /\ report = {} /\ route # <<>> /\ Len(answers) = Len(route)
  /\ report' =
       IF failed # {}
       THEN {[failure |-> references[CHOOSE i \in failed : \A j \in failed : i <= j].failure]}
       ELSE IF unknown THEN {[failure |-> "HookPricing"]}
       ELSE LET result == calculate(references)
            IN  IF result = {} THEN {[failure |-> "Arithmetic"]} ELSE result
  /\ UNCHANGED <<route, gross, output, answers>>

Next == \/ \E h \in Hops : Extend(h)
        \/ \E i \in 1..MaxHops, stateOk, hookOk \in BOOLEAN : Answer(i, stateOk, hookOk)
        \/ estimate

Spec == Init /\ [][Next]_vars

-----------------------------------------------------------------------------
(* The types; basis points fit their 32 bits (price_impact.rs:335).        *)
TypeOK ==
  /\ route \in Seq(Hops) /\ Len(route) <= MaxHops
  /\ gross \in Grosses /\ output \in Outputs
  /\ \A n \in DOMAIN answers : answers[n].hop \in DOMAIN route
  /\ \A r \in report : r.failure = "" =>
       r.market \in U256 /\ r.after_fees \in U256
       /\ {r.impact, r.total_cost} \subseteq -I32Max..I32Max

(* The same numbers, of whole products.                                    *)
Price(h) ==
  LET p == IF h.kind = "V2" THEN h.reserves ELSE <<Scale, h.sqrt * h.sqrt>>
  IN  IF h.zero_for_one THEN <<p[2], p[1]>> ELSE p
CostPips(h) == CASE h.kind = "V2" -> V2Pips [] h.kind = "V3" -> h.fee
                 [] h.kind = "V4" -> CHOOSE fee \in CoreFee(h) : TRUE
CostBps(h)  == IF h.kind = "V4" /\ h.hooks = "pons"
               THEN h.launch.hook_fee + h.launch.creator_tax ELSE 0
Spot == [i \in DOMAIN route |-> Price(route[i])]
AfterFees ==
  [k \in 1..3 * Len(route) |->
     LET h == route[(k + 2) \div 3] IN
     CASE k % 3 = 1 -> Price(h)
       [] k % 3 = 2 -> <<PIPS - CostPips(h), PIPS>>
       [] k % 3 = 0 -> <<BPS - CostBps(h), BPS>>]
Lowest(f) == LET g == gcd(f[1], f[2]) IN <<f[1] \div g, f[2] \div g>>
(* The products of the amount and the first factors.                       *)
Products(n, factors) ==
  LET prod[i \in 0..Len(factors)] ==
        IF i = 0 THEN <<n, 1>>
        ELSE Lowest(<<prod[i - 1][1] * factors[i][1], prod[i - 1][2] * factors[i][2]>>)
  IN  prod
Product(n, factors) == Products(n, factors)[Len(factors)]
Whole(f)   == f[1] \div f[2]
Scaled(f)  == Distance(f[1], output * f[2]) * BPS
Exactly(f) == LET bps == Scaled(f) \div f[1] IN IF output * f[2] > f[1] THEN -bps ELSE bps

(* What is reported is exact: each amount is the floor of the whole        *)
(* product and nothing is rounded before, and the basis points are those   *)
(* of the exact reference, truncated toward zero (price_impact.rs:26).     *)
Exact ==
  \A r \in report : r.failure = "" =>
    /\ r.market = Whole(Product(net, Spot)) /\ r.after_fees = Whole(Product(net, AfterFees))
    /\ r.impact = Exactly(Product(net, AfterFees))
    /\ r.total_cost = Exactly(Product(gross, Spot))

(* Basis points in order: the total cost counts the platform fee, pool     *)
(* fees and taxes, so it is never below the impact, which counts none of   *)
(* them; also if the quote beats the reference (price_impact.rs:28).       *)
CostsAtLeastImpact ==
  \A r \in report : r.failure = "" => r.impact <= r.total_cost

Fits(f)       == f[1] \in 1..WideMax /\ f[2] \in 1..WideMax
Comparable(f) == /\ output * f[2] <= WideMax /\ Scaled(f) <= WideMax
                 /\ Scaled(f) \div f[1] <= I32Max
AllFit(n, factors) ==
  /\ \A i \in DOMAIN factors : factors[i][1] > 0 /\ factors[i][2] > 0
  /\ \A i \in 0..Len(factors) : Fits(Products(n, factors)[i])

(* The arithmetic gives up only if it must: a price is zero, or a product  *)
(* in lowest terms, its floor or its comparison with the output does not   *)
(* fit; the order of its steps overflows nothing (price_impact.rs:307).    *)
GivesUpOnlyIfItMust ==
  \A r \in report : r.failure = "Arithmetic" =>
    ~ /\ AllFit(net, Spot) /\ AllFit(gross, Spot) /\ AllFit(net, AfterFees)
      /\ Whole(Product(net, Spot)) < Width
      /\ Comparable(Product(net, AfterFees)) /\ Comparable(Product(gross, Spot))

(* An impact is only reported when every cost of the route is known: no    *)
(* fee is dynamic, and a hook that takes part in swaps is the Pons hook    *)
(* with the registered terms of this very pool (price_impact.rs:136).      *)
KnownCosts ==
  \A r \in report : r.failure = "" => \A i \in DOMAIN route :
    route[i].kind = "V4" =>
      /\ ~route[i].dynamic /\ route[i].hooks \in {"none", "pons"}
      /\ route[i].hooks = "pons" => route[i].launch.registered /\ route[i].launch.matches
=============================================================================
