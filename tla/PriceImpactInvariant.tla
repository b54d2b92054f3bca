------------------------- MODULE PriceImpactInvariant -------------------------
(***************************************************************************)
(* The inductive invariant of PriceImpact: each answer is that of a hop of *)
(* its own, and what is reported is right.                                 *)
(***************************************************************************)
EXTENDS PriceImpact

(* A route is read once it is complete: one answer for a hop, which is     *)
(* what the pool's state gives, or a failure.                              *)
Answered == [hop : Nat, reference : {reference(h, s, k) : h \in Hops, s, k \in BOOLEAN}]
AnswersRight ==
  /\ answers \in Seq(Answered)
  /\ \A n \in DOMAIN answers :
       /\ answers[n].hop \in DOMAIN route
       /\ \E s, k \in BOOLEAN : answers[n].reference = reference(route[answers[n].hop], s, k)
  /\ \A m, n \in DOMAIN answers : answers[m].hop = answers[n].hop => m = n

ReportRight == Exact /\ CostsAtLeastImpact /\ GivesUpOnlyIfItMust /\ KnownCosts

EstimateInvariant == TypeOK /\ AnswersRight /\ ReportRight
=============================================================================
