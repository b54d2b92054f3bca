-------------------------- MODULE DiscoveryInvariant --------------------------
(***************************************************************************)
(* The inductive invariants of Discovery.  SearchInvariant holds whatever  *)
(* the chain does: it carries NoPhantom and Accounted.  GapInvariant adds  *)
(* what becomes of the chain of the pinned block; it carries Complete, and *)
(* holds as long as the chain is reorganized at most once.                 *)
(***************************************************************************)
EXTENDS Discovery

Registries == {"V2", "V3"}
Steps == {"idle", "refused", "lookup", "header", "page", "logs", "anchor",
          "reported", "discarded"}

(* One search at a time, of one query at one block.                        *)
OneSearch ==
  IF pc = "idle" THEN query = {} /\ pinned = {}
  ELSE \E q \in Queries, b \in Blocks : query = {q} /\ pinned = {b}

(* Registries are looked up, event ranges are paged through.               *)
Stage ==
  /\ head \in Blocks /\ reorgs \in 0..MaxReorgs /\ pc \in Steps /\ range \in Nat \ {0}
  /\ pc = "lookup" => Query.kind \in Registries
  /\ pc \in {"header", "page", "logs", "anchor"} => Query.kind \notin Registries
  /\ pc \in {"idle", "refused", "lookup", "header"} =>
       found = {} /\ completed = {} /\ failures = {} /\ range = 1
  /\ pc = "idle" => answers = <<>>

(* Concurrent lookups: one answer for a scope, and what an answer says.    *)
Answered == [scope : Nat, ok : BOOLEAN, pools : SUBSET {Claim[i] : i \in Ids}]
AnswersRight ==
  /\ answers \in Seq(Answered)
  /\ pc = "lookup" => \A i \in DOMAIN answers :
       LET s == answers[i].scope IN
       /\ s \in Scopes
       /\ \A j \in DOMAIN answers : answers[j].scope = s => j = i
       /\ answers[i].pools \subseteq Lookup(Query, Query.scopes[s])
       /\ answers[i].ok => /\ answers[i].pools = Lookup(Query, Query.scopes[s])
                           /\ Exists(Query, Query.scopes[s]) => answers[i].pools # {}

(* The scopes that are done with.                                          *)
Accounting ==
  /\ completed \cap failures = {}
  /\ pc = "page" => /\ range <= Len(Query.scopes) + 1
                    /\ completed \union failures = 1..(range - 1)
  /\ pc = "logs" => /\ range \in Scopes \ completed
                    /\ (completed \union failures) \ {range} = 1..(range - 1)
  /\ pc \in {"anchor", "reported"} => completed \union failures = Scopes

RegistryComplete == pc = "reported" /\ Query.kind \in Registries => Complete

SearchInvariant ==
  /\ OneSearch /\ Stage /\ AnswersRight /\ Accounting
  /\ NoPhantom /\ RegistryComplete

-----------------------------------------------------------------------------
(* Once the chain has left the pinned block it does not come back to it.   *)
Lost     == Pinned \notin On(head) /\ head \notin On(Pinned)
NoReturn == pc # "idle" => Readable \/ (Lost /\ reorgs > 0)

(* The pools of a range that the search must report.                       *)
Wanted(n)  == {i \in BornAt(Pinned, n) : Claim[i].deployment = PoolManager /\ Asked(Claim[i])}
Covered(i) == \E p \in found : Key(p) = Key(Claim[i])
Span(s)    == Query.scopes[s][1]..Query.scopes[s][2]

NoGaps ==
  /\ pc \in {"page", "logs", "anchor"} /\ Readable =>
       \A s \in completed : \A n \in Span(s) : \A i \in Wanted(n) : Covered(i)
  /\ pc = "logs" /\ Readable =>
       \A n \in Span(range) : \A i \in Wanted(n) :
         InitializeLog(i, n) \in page \/ range \in failures \/ Covered(i)

GapInvariant == SearchInvariant /\ NoReturn /\ NoGaps /\ Complete
=============================================================================
