-------------------------- MODULE FeeRouterInvariant --------------------------
(***************************************************************************)
(* The inductive invariant of the FeeRouter contract: during a swap, what  *)
(* its account holds is what it held before, plus the reserved fee, plus   *)
(* what the route carries.                                                 *)
(***************************************************************************)
EXTENDS FeeRouter

Reserved(t) == start.bal[t][Router] + (IF t = Req.tokenIn THEN Fee ELSE 0)
Carried(t)  == IF t = currency THEN amount ELSE 0

(* Only the venue of the current hop may spend or call back.               *)
OnlyThisHop ==
  /\ pc = "venue" /\ Hop.version = "V4" => allowance = None
  /\ pc = "venue" => pendingUnlock = IF Hop.version = "V4" THEN hop ELSE 0

(* The terms of the swap are those it began under.                         *)
TermsKept == pc # "idle" => feeBps = start.feeBps /\ Req.expected \subseteq {feeBps}

HopUnderWay ==
  pc \in {"venue", "callback", "measure"} => MoreHops /\ currency = Hop.tokenIn

(* The account, between hops, during one, and before the fee is paid.      *)
Accounting ==
  /\ pc = "route" => \A t \in Tokens : bal[t][Router] >= Reserved(t) + Carried(t)
  /\ pc \in {"venue", "callback", "measure"} =>
       \A t \in Tokens : before[t][Router] >= Reserved(t) + Carried(t)
  /\ pc \in {"venue", "callback", "measure"} =>
       \A t \in Tokens : t # currency => bal[t][Router] >= before[t][Router]
  /\ pc = "fee" => \A t \in Tokens : bal[t][Router] >= Reserved(t)

(* What every step preserves.                                              *)
IInv == TypeOK /\ NothingStanding /\ OnlyThisHop /\ TermsKept /\ HopUnderWay /\ Accounting

-----------------------------------------------------------------------------
(***************************************************************************)
(* What the swap owes to whom.                                             *)
(***************************************************************************)

(* Without gifts since the start, the router's account is exact.           *)
ExactAccounting ==
  /\ pc = "route" => \A t \in Tokens : bal[t][Router] = Reserved(t) + Carried(t)
  /\ pc \in {"venue", "callback", "measure"} =>
       \A t \in Tokens : before[t][Router] = Reserved(t) + Carried(t)
  /\ pc \in {"venue", "callback"} => \A t \in Tokens : bal[t][Router] = before[t][Router]
  /\ pc = "measure" => \A t \in Tokens \ {Hop.tokenIn, Hop.tokenOut} :
                         bal[t][Router] = before[t][Router]
  /\ pc = "fee" => \A t \in Tokens : bal[t][Router] = Reserved(t)

NoGifts   == gifts = start.gifts
GiftsKept == pc # "idle" => start.gifts <= gifts

(* An account pays at most the input it offers, and at the end of the      *)
(* route has been paid the minimum it asked for.                           *)
Offered(t, a) == IF a = Req.caller /\ t = Req.tokenIn THEN Req.amountIn ELSE 0
Owed(t, a)    == IF a = Req.recipient /\ t = Req.tokenOut THEN Req.minimum ELSE 0
AccountsKept ==
  pc # "idle" => \A t \in Tokens, a \in Accounts :
    bal[t][a] + Offered(t, a) >= start.bal[t][a] + (IF pc = "fee" THEN Owed(t, a) ELSE 0)

SInv ==
  /\ GiftsKept
  /\ pc # "idle" /\ NoGifts => ExactAccounting
  /\ AccountsKept

SettlementInvariant == IInv /\ SInv
=============================================================================
