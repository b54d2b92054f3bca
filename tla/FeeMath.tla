------------------------------- MODULE FeeMath -------------------------------
(***************************************************************************)
(* Amounts in basis points: the SDK's arithmetic on U256, whose operators  *)
(* wrap (src/src/fee_router.rs, src/src/dex.rs), and the contract's        *)
(* Math.mulDiv, which is exact (src/contracts/src/FeeRouter.sol).          *)
(***************************************************************************)
EXTENDS Naturals

CONSTANTS
  BPS,     \* 10_000 in the code
  Width    \* 2^256 in the code

ASSUME FeeMathAssumption ==
  /\ BPS \in Nat \ {0} /\ Width \in Nat
  /\ BPS * BPS < Width

U256  == 0..Width - 1
Rates == 0..BPS

Wrap(n) == n % Width

\* MUTANT of PerBps: multiplies before it divides.
PerBpsUnsplit(amount, rate) == Wrap(amount * rate) \div BPS
(* amount * rate / BPS, in an order that cannot overflow.                  *)
PerBps(amount, rate) ==
  Wrap(Wrap((amount \div BPS) * rate) + Wrap((amount % BPS) * rate) \div BPS)

calculate_fee(amount, fee_bps)           == PerBps(amount, fee_bps)
minimum_amount_out(quoted, slippage_bps) == PerBps(quoted, BPS - slippage_bps)

mulDiv(amount, rate) == (amount * rate) \div BPS
=============================================================================
