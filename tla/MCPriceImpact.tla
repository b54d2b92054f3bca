---------------------------- MODULE MCPriceImpact ----------------------------
(* Prices 2, 1/2, 9/4 and a fee-only hop of each version, with a pool of    *)
(* which the hook is unknown, unregistered, or known.                       *)
EXTENDS PriceImpactInvariant

Known   == [registered |-> TRUE, matches |-> TRUE, hook_fee |-> 1, creator_tax |-> 0]
Unknown == [registered |-> FALSE, matches |-> TRUE, hook_fee |-> 0, creator_tax |-> 0]
H(kind, pool, forward) ==
  [kind |-> kind, pool |-> pool, zero_for_one |-> forward, reserves |-> <<2, 4>>, sqrt |-> 3,
   fee |-> 0, dynamic |-> FALSE, protocol |-> <<1, 0>>, hooks |-> "none", launch |-> Unknown]
Pons(forward) == [H("V4", "v4b", forward) EXCEPT !.hooks = "pons", !.launch = Known, !.fee = 1]
MCHops == {H("V2", "v2", TRUE), H("V2", "v2", FALSE), H("V3", "v3", TRUE), H("V3", "v3", FALSE),
           [H("V2", "v2b", TRUE) EXCEPT !.reserves = <<0, 4>>],
           [H("V2", "v2c", TRUE) EXCEPT !.reserves = <<0, 0>>],
           [H("V3", "v3b", TRUE) EXCEPT !.sqrt = 1, !.fee = 2],
           H("V4", "v4", TRUE), H("V4", "v4", FALSE), Pons(TRUE), Pons(FALSE),
           [Pons(TRUE) EXCEPT !.launch = Unknown], [Pons(TRUE) EXCEPT !.launch.creator_tax = 3],
           [H("V4", "v4c", TRUE) EXCEPT !.hooks = "other"],
           [H("V4", "v4d", TRUE) EXCEPT !.dynamic = TRUE],
           [H("V4", "v4e", TRUE) EXCEPT !.protocol = <<3, 0>>]}
=============================================================================
