------------------------------ MODULE Discovery ------------------------------
(***************************************************************************)
(* Finding pools (find_pools and resolve_pool of src/src/uniswap/v2.rs,    *)
(* v3.rs and v4.rs): a pinned block is searched while the chain can be     *)
(* reorganized, calls can fail, and an RPC can return logs that it should  *)
(* not.  V2 and V3 read registries at the pinned block; V4 reads the event *)
(* log, which can only be asked for by block numbers.                      *)
(***************************************************************************)
EXTENDS Venues

CONSTANTS
  Blocks, Ancestry,  \* Ancestry[b]: the blocks from the first to b
  Born,              \* Born[b]: the contracts and V4 pools created in b
  Wiring, Prices,    \* the rest of a World, the same at all blocks
  Queries,           \* what callers search for
  Noise,             \* logs that an RPC may add
  MaxReorgs          \* bound on changes of the canonical chain

Number(b)  == Len(Ancestry[b])
StateAt(b) == [deployed |-> UNION {Born[Ancestry[b][n]] : n \in 1..Number(b)},
               rate |-> Prices, wiring |-> Wiring]

(* A query's scopes: a pair is <<0>>, a fee tier <<fee>>, blocks <<from, to>>. *)
Kinds == {"V2", "V3", "V4", "V4Id"}
Logs  == [address : {Claim[i].deployment : i \in Ids}, removed : BOOLEAN, number : Nat,
          key : {Key(Claim[i]) : i \in Ids}, id : {Key(Claim[i]) : i \in Ids}]

ASSUME DiscoveryAssumption ==
  /\ \A b \in Blocks : /\ Ancestry[b] \in Seq(Blocks) /\ Number(b) > 0
                       /\ Ancestry[b][Number(b)] = b
                       /\ \A n \in 1..Number(b) :
                            Ancestry[Ancestry[b][n]] = SubSeq(Ancestry[b], 1, n)
                       /\ V2Connect(StateAt(b)) # {} /\ V3Connect(StateAt(b)) # {}
                       /\ V4Connect(StateAt(b))
  /\ Born \in [Blocks -> SUBSET Ids]
  /\ Noise \subseteq Logs /\ MaxReorgs \in Nat
  /\ \A q \in Queries : /\ q.kind \in Kinds
                        /\ q.scopes \in Seq(IF q.kind \in {"V2", "V3"} THEN Seq(Nat)
                                           ELSE Nat \X Nat)
  \* What a claim is named, and what the deployments create.
  /\ \A i \in Ids : Claim[i].id = IF Claim[i].kind = "V4" THEN "key" ELSE i
  /\ Genuine \subseteq Ids
  /\ \A i \in Genuine :
       /\ Claim[i].deployment = V2Factory => Claim[i].kind = "V2" /\ Claim[i].fee = 0
       /\ Claim[i].deployment = V3Factory => Claim[i].kind = "V3"
       /\ Claim[i].deployment = PoolManager => Claim[i].kind = "V4"

VARIABLES
  head,       \* the last block of the canonical chain
  reorgs,     \* how often it has been reorganized
  pc,
  query,      \* the search under way: a set of at most one element
  pinned,     \* its block
  answers,    \* V2 and V3: what concurrent lookups answered, as they arrive
  range,      \* V4: the range being read, and
  page,       \* the logs of it still to be looked at
  found, completed, failures   \* the report: pools, and the indices of scopes
search == <<query, pinned, answers, range, page, found, completed, failures>>
vars   == <<head, reorgs, pc, search>>

Query   == CHOOSE q \in query : TRUE
Pinned  == CHOOSE b \in pinned : TRUE
Scopes  == UNION {DOMAIN q.scopes : q \in query}
State   == StateAt(Pinned)
On(b)   == {Ancestry[b][n] : n \in 1..Number(b)}

(* BlockId::hash_canonical: a read at a block that has been reorganized    *)
(* away is refused.                                                        *)
Readable == Pinned \in On(head)

Init == /\ head \in Blocks /\ reorgs = 0 /\ pc = "idle"
        /\ query = {} /\ pinned = {} /\ answers = <<>> /\ range = 1 /\ page = {}
        /\ found = {} /\ completed = {} /\ failures = {}

-----------------------------------------------------------------------------
(* The chain: it grows, or another branch becomes canonical.               *)
Extends(b, a) == a \in On(b)
NewHead(b) ==
  /\ b \notin On(head) /\ head' = b
  /\ reorgs' = IF Extends(b, head) THEN reorgs ELSE reorgs + 1
  /\ reorgs' <= MaxReorgs
  /\ UNCHANGED <<pc, search>>

(* The checks before anything is read.                                     *)
Accepted(q) ==
  /\ q.chain = ChainId
  /\ q.kind \in {"V2", "V3"} => token_path(Wiring["router02"].weth, q.a, q.b)
  /\ q.kind = "V4" => q.a # Erc20Zero /\ q.b # Erc20Zero /\ q.a # q.b

(* The block is one the caller has seen on the chain.                      *)
find_pools(q, b) ==
  /\ pc = "idle" /\ b \in On(head)
  /\ query' = {q} /\ pinned' = {b}
  /\ pc' = IF ~Accepted(q) THEN "refused"
           ELSE IF q.kind \in {"V2", "V3"} THEN "lookup" ELSE "header"
  /\ UNCHANGED <<head, reorgs, answers, range, page, found, completed, failures>>

-----------------------------------------------------------------------------
(* V2 and V3: the registry names a pool, which is then loaded.             *)
Searched(q)    == Path(Wiring["router02"].weth, [currency_in |-> q.a, currency_out |-> q.b])
RegistryIds(q, factory, fee) ==
  UNION {Registered(State, factory, k) : k \in
           {k \in {Key(Claim[i]) : i \in Ids} :
              k.kind = q.kind /\ k.fee = fee /\ k.tokens = Sorted(Searched(q)[1], Searched(q)[2])}}
find_pair(q) == UNION {V2LoadPool(State, i) : i \in RegistryIds(q, V2Factory, 0)}
find_pool(q, fee) ==
  {p \in UNION {V3LoadPool(State, i) : i \in RegistryIds(q, V3Factory, fee)} :
     p.fee = fee /\ p.tokens = Sorted(Searched(q)[1], Searched(q)[2])}
Lookup(q, scope) == IF q.kind = "V2" THEN find_pair(q) ELSE find_pool(q, scope[1])
Exists(q, scope) == IF q.kind = "V2" THEN RegistryIds(q, V2Factory, 0) # {}
                    ELSE RegistryIds(q, V3Factory, scope[1]) # {}

(* No pool is an answer; a pool that does not load is a failure.           *)
Answer(s, ok) ==
  LET pools == Lookup(Query, Query.scopes[s]) IN
  /\ pc = "lookup"
  /\ \A i \in DOMAIN answers : answers[i].scope # s
  /\ ok => Readable /\ (Exists(Query, Query.scopes[s]) => pools # {})
  /\ answers' = Append(answers, [scope |-> s, ok |-> ok, pools |-> IF ok THEN pools ELSE {}])
  /\ UNCHANGED <<head, reorgs, pc, query, pinned, range, page, found, completed, failures>>

\* MUTANT of JoinAll: answers in the order in which they arrive.
JoinAllUnordered(a) == [s \in DOMAIN a |-> a[s]]
(* join_all keeps the order of the requests.                               *)
JoinAll(a) == [s \in DOMAIN a |-> CHOOSE x \in {a[i] : i \in DOMAIN a} : x.scope = s]

Collect ==
  LET results == JoinAll(answers) IN
  /\ pc = "lookup" /\ Len(answers) = Len(Query.scopes)
  /\ found'     = UNION {results[s].pools : s \in Scopes}
  /\ completed' = {s \in Scopes : results[s].ok}
  /\ failures'  = {s \in Scopes : ~results[s].ok}
  /\ pc' = "reported"
  /\ UNCHANGED <<head, reorgs, query, pinned, answers, range, page>>

-----------------------------------------------------------------------------
(* V4: the events of each range.                                           *)
Header(ok) ==
  /\ pc = "header"
  /\ pc' = IF ok THEN "page" ELSE "discarded"
  /\ UNCHANGED <<head, reorgs, search>>

(* The topics that are asked for: both currencies, or the id.              *)
filter(q, l) == IF q.kind = "V4" THEN l.key.tokens = Sorted(q.a, q.b) ELSE l.id = q.id

InitializeLog(i, n) == [address |-> Claim[i].deployment, removed |-> FALSE, number |-> n,
                        key |-> Key(Claim[i]), id |-> Key(Claim[i])]
BornAt(b, n) == IF n \in DOMAIN Ancestry[b]
                THEN {i \in Born[Ancestry[b][n]] : Claim[i].kind = "V4"} ELSE {}
(* eth_getLogs by numbers: whatever chain is canonical now.                *)
CanonicalLogs(from, to) ==
  UNION {{InitializeLog(i, n) : i \in BornAt(head, n)} : n \in from..to}

ReversedOrBeyond(r) == r[1] > r[2] \/ r[2] > Number(Pinned)

\* MUTANT of PageDone: a range counts as complete once its logs are read.
PageDoneAlways(s) == completed' = completed \union {s}
PageDone(s) == completed' = IF s \in failures THEN completed ELSE completed \union {s}

GetLogs(ok, noise) ==
  LET r == Query.scopes[range] IN
  /\ pc = "page" /\ range \in Scopes
  /\ IF ok /\ ~ReversedOrBeyond(r)
     THEN /\ page' = {l \in CanonicalLogs(r[1], r[2]) : filter(Query, l) /\ l.address = PoolManager}
                     \union noise
          /\ pc' = "logs" /\ UNCHANGED <<range, failures>>
     ELSE /\ failures' = failures \union {range} /\ range' = range + 1
          /\ UNCHANGED <<pc, page>>
  /\ UNCHANGED <<head, reorgs, query, pinned, answers, found, completed>>

\* MUTANT of pool_from_log: takes the key as it is, without reading the pool.
pool_from_log_unread(l, r) ==
  When(/\ l.address = PoolManager /\ ~l.removed /\ l.number \in r[1]..r[2]
       /\ l.key = l.id, V4Pool(l.key))
(* A log of the manager, in the range, whose pool the pinned block knows.  *)
pool_from_log(l, r) ==
  IF /\ l.address = PoolManager /\ ~l.removed /\ l.number \in r[1]..r[2]
     /\ l.key = l.id
  THEN V4LoadPool(State, l.key) ELSE {}

\* MUTANT of ReadLog: files the failure under the number of the log.
ReadLogUnscoped(l, ok) ==
  LET pools == IF ok /\ Readable THEN pool_from_log(l, Query.scopes[range]) ELSE {} IN
  /\ pc = "logs" /\ l \in page
  /\ page' = page \ {l} /\ found' = found \union pools
  /\ failures' = IF pools = {} THEN failures \union {l.number} ELSE failures
  /\ UNCHANGED <<head, reorgs, pc, query, pinned, answers, range, completed>>
ReadLog(l, ok) ==
  LET pools == IF ok /\ Readable /\ filter(Query, l)
               THEN pool_from_log(l, Query.scopes[range]) ELSE {} IN
  /\ pc = "logs" /\ l \in page
  /\ page' = page \ {l}
  /\ found' = found \union pools
  /\ failures' = IF pools = {} THEN failures \union {range} ELSE failures
  /\ UNCHANGED <<head, reorgs, pc, query, pinned, answers, range, completed>>

EndPage ==
  /\ pc = "logs" /\ page = {}
  /\ PageDone(range)
  /\ range' = range + 1 /\ pc' = "page"
  /\ UNCHANGED <<head, reorgs, query, pinned, answers, page, found, failures>>

EndRanges ==
  /\ pc = "page" /\ range \notin Scopes
  /\ pc' = "anchor"
  /\ UNCHANGED <<head, reorgs, search>>

\* MUTANT of AnchorHolds: the final read does not ask for the canonical chain.
AnchorAny == TRUE
AnchorHolds == Readable

(* A last read at the pinned block discards the report if it was           *)
(* reorganized.                                                            *)
Anchor(ok) ==
  /\ pc = "anchor"
  /\ pc' = IF ok /\ AnchorHolds THEN "reported" ELSE "discarded"
  /\ UNCHANGED <<head, reorgs, search>>

(* resolve_pool of an id: the pool of the report with that id, if any.     *)
resolved == {p \in found : Key(p) = Query.id}

Again == /\ pc \in {"reported", "discarded", "refused"}
         /\ pc' = "idle" /\ query' = {} /\ pinned' = {} /\ answers' = <<>>
         /\ range' = 1 /\ page' = {} /\ found' = {} /\ completed' = {} /\ failures' = {}
         /\ UNCHANGED <<head, reorgs>>

Next ==
  \/ \E b \in Blocks : NewHead(b)
  \/ \E q \in Queries, b \in Blocks : find_pools(q, b)
  \/ \E s \in Scopes, ok \in BOOLEAN : Answer(s, ok)
  \/ Collect
  \/ \E ok \in BOOLEAN : Header(ok) \/ Anchor(ok)
  \/ \E ok \in BOOLEAN, noise \in SUBSET Noise : GetLogs(ok, noise)
  \/ \E l \in page, ok \in BOOLEAN : ReadLog(l, ok)
  \/ EndPage \/ EndRanges \/ Again

Spec == Init /\ [][Next]_vars

-----------------------------------------------------------------------------
Asked(p) == CASE Query.kind \in {"V2", "V3"} -> p.tokens = Sorted(Searched(Query)[1], Searched(Query)[2])
              [] Query.kind = "V4"   -> p.tokens = Sorted(Query.a, Query.b)
              [] Query.kind = "V4Id" -> Key(p) = Query.id
Deployment == CASE Query.kind = "V2" -> V2Factory [] Query.kind = "V3" -> V3Factory
                [] OTHER -> PoolManager

(* Whatever logs an RPC returns, and however the chain is reorganized,     *)
(* every pool of a report is one that was asked for and that the           *)
(* configured deployment had created in the state of the pinned block      *)
(* (v4.rs:232, v3.rs:346).                                                 *)
NoPhantom ==
  \A p \in found : /\ Asked(p) /\ p.deployment = Deployment
                   /\ \E i \in Registered(State, p.deployment, Key(p)) : p.id \in {i, "key"}

(* What a report calls completed has no gaps: a pool of that tier, or born *)
(* in that range on the chain of the pinned block, is in the report; an id *)
(* whose range is complete resolves if it exists (uniswap.rs:158,          *)
(* v4.rs:222).  It needs the chain not to be reorganized away from the     *)
(* pinned block and back to it while the ranges are read.                  *)
Complete ==
  pc = "reported" => \A s \in completed :
    LET scope == Query.scopes[s] IN
    IF Query.kind \in {"V2", "V3"}
    THEN \A i \in State.deployed \cap Genuine :
           Claim[i].deployment = Deployment /\ Asked(Claim[i])
           /\ (Query.kind = "V3" => Claim[i].fee = scope[1])
             => \E p \in found : p.id = i
    ELSE \A n \in scope[1]..scope[2] : \A i \in BornAt(Pinned, n) :
           Claim[i].deployment = PoolManager /\ Asked(Claim[i])
             => /\ \E p \in found : Key(p) = Key(Claim[i])
                /\ Query.kind = "V4Id" => resolved # {}

(* Every scope that was requested is either complete or has failed, and    *)
(* never both (v4.rs:165-217: one unreadable log is enough for a failure). *)
Accounted ==
  pc = "reported" => /\ completed \union failures = Scopes
                     /\ completed \cap failures = {}
=============================================================================
