---------------------------- MODULE DiscoveryProofs ----------------------------
(***************************************************************************)
(* Proofs about the search for pools, for any chain, any deployments, any  *)
(* queries and any logs an RPC may add: a report holds no pool that the    *)
(* pinned block does not have, it accounts for each scope, and, while the  *)
(* chain is reorganized at most once, what it calls completed has no gaps. *)
(***************************************************************************)
EXTENDS DiscoveryInvariant, FiniteSetTheorems, TLAPS

-----------------------------------------------------------------------------
(***************************************************************************)
(* Keys and pools.                                                         *)
(***************************************************************************)

LEMMA KeyFields ==
  ASSUME NEW p
  PROVE  Key(p).kind = p.kind /\ Key(p).tokens = p.tokens /\ Key(p).fee = p.fee
BY DEF Key

LEMMA SameKey ==
  ASSUME NEW p, NEW q, p.kind # "V4", p.kind = q.kind, p.tokens = q.tokens, p.fee = q.fee
  PROVE  Key(p) = Key(q)
BY DEF Key

LEMMA PoolKey ==
  ASSUME NEW i \in Ids, Claim[i].kind = "V4"
  PROVE  Key(V4Pool(Key(Claim[i]))) = Key(Claim[i])
BY DEF Key, V4Pool

(* The pools that a lookup in a registry returns are those it was asked    *)
(* for, and the registry has created them.                                 *)
LEMMA LookupSound ==
  ASSUME NEW q, q.kind \in Registries, NEW scope, NEW p \in Lookup(q, scope)
  PROVE  /\ p \in {Claim[i] : i \in Ids}
         /\ p.kind = q.kind
         /\ p.deployment = IF q.kind = "V2" THEN V2Factory ELSE V3Factory
         /\ p.tokens = Sorted(Searched(q)[1], Searched(q)[2])
         /\ q.kind = "V2" => p.fee = 0
         /\ q.kind = "V3" => p.fee = scope[1]
         /\ \E i \in Registered(State, p.deployment, Key(p)) : p = Claim[i] /\ p.id = i
         /\ Registered(State, p.deployment, Key(p)) = {p.id}
<1>1. CASE q.kind = "V2"
  <2>1. PICK i \in RegistryIds(q, V2Factory, 0) : p \in V2LoadPool(State, i)
    BY <1>1 DEF Lookup, find_pair
  <2>2. PICK k \in {Key(Claim[j]) : j \in Ids} :
          /\ k.kind = q.kind /\ k.fee = 0 /\ k.tokens = Sorted(Searched(q)[1], Searched(q)[2])
          /\ i \in Registered(State, V2Factory, k)
    BY <2>1 DEF RegistryIds
  <2>3. /\ p = Claim[i] /\ p.deployment = V2Factory
        /\ Registered(State, V2Factory, Key(p)) = {i}
    BY <2>1 DEF V2LoadPool, When
  <2>4. i \in Ids /\ Key(Claim[i]) = k
    BY <2>2, DiscoveryAssumption DEF Registered
  <2>5. p.kind = q.kind /\ p.fee = 0 /\ p.tokens = Sorted(Searched(q)[1], Searched(q)[2])
    BY <2>2, <2>3, <2>4, KeyFields
  <2>6. p.id = i
    BY <1>1, <2>3, <2>4, <2>5, DiscoveryAssumption
  <2> QED BY <1>1, <2>3, <2>4, <2>5, <2>6
<1>2. CASE q.kind = "V3"
  <2>1. /\ p \in UNION {V3LoadPool(State, i) : i \in RegistryIds(q, V3Factory, scope[1])}
        /\ p.fee = scope[1]
    BY <1>2 DEF Lookup, find_pool
  <2>2. PICK i \in RegistryIds(q, V3Factory, scope[1]) : p \in V3LoadPool(State, i)
    BY <2>1
  <2>3. PICK k \in {Key(Claim[j]) : j \in Ids} :
          /\ k.kind = q.kind /\ k.tokens = Sorted(Searched(q)[1], Searched(q)[2])
          /\ i \in Registered(State, V3Factory, k)
    BY <2>2 DEF RegistryIds
  <2>4. /\ p = Claim[i] /\ p.deployment = V3Factory
        /\ Registered(State, V3Factory, Key(p)) = {i}
    BY <2>2 DEF V3LoadPool, V3ValidatePool, When
  <2>5. i \in Ids /\ Key(Claim[i]) = k
    BY <2>3, DiscoveryAssumption DEF Registered
  <2>6. p.kind = q.kind /\ p.tokens = Sorted(Searched(q)[1], Searched(q)[2])
    BY <2>3, <2>4, <2>5, KeyFields
  <2>7. p.id = i
    BY <1>2, <2>4, <2>5, <2>6, DiscoveryAssumption
  <2> QED BY <1>2, <2>1, <2>4, <2>5, <2>6, <2>7
<1> QED BY <1>1, <1>2 DEF Registries

(* A pool that the registry has and that was asked for is known to it, and *)
(* is the only one that the lookup can return.                             *)
LEMMA LookupFinds ==
  ASSUME NEW q, q.kind \in Registries, NEW scope, NEW i \in State.deployed \cap Genuine,
         Claim[i].deployment = IF q.kind = "V2" THEN V2Factory ELSE V3Factory,
         Claim[i].tokens = Sorted(Searched(q)[1], Searched(q)[2]),
         q.kind = "V3" => Claim[i].fee = scope[1]
  PROVE  /\ Exists(q, scope)
         /\ \A p \in Lookup(q, scope) : p.id = i
<1> DEFINE factory == IF q.kind = "V2" THEN V2Factory ELSE V3Factory
           fee     == IF q.kind = "V2" THEN 0 ELSE scope[1]
<1>1. i \in Ids /\ Claim[i].kind = q.kind /\ Claim[i].fee = fee
  BY DiscoveryAssumption DEF Registries
<1>2. /\ Key(Claim[i]) \in {Key(Claim[j]) : j \in Ids}
      /\ Key(Claim[i]).kind = q.kind /\ Key(Claim[i]).fee = fee
      /\ Key(Claim[i]).tokens = Sorted(Searched(q)[1], Searched(q)[2])
      /\ i \in Registered(State, factory, Key(Claim[i]))
  BY <1>1, KeyFields DEF Registered
<1>3. i \in RegistryIds(q, factory, fee)
  BY <1>2 DEF RegistryIds
<1>4. Exists(q, scope)
  BY <1>3 DEF Exists, Registries
<1>5. ASSUME NEW p \in Lookup(q, scope)
      PROVE  p.id = i
  <2>1. /\ p.kind = Claim[i].kind /\ p.tokens = Claim[i].tokens /\ p.fee = Claim[i].fee
        /\ p.deployment = factory /\ p.kind # "V4"
        /\ Registered(State, p.deployment, Key(p)) = {p.id}
    BY <1>1, <1>5, LookupSound DEF Registries
  <2>2. Key(p) = Key(Claim[i])
    BY <2>1, SameKey
  <2> QED BY <1>2, <2>1, <2>2
<1> QED BY <1>4, <1>5

(* A pool read on account of a log has the key of the log, and the manager *)
(* has created it by the pinned block.                                     *)
LEMMA LogSound ==
  ASSUME NEW b \in Blocks, pinned = {b}, NEW l, NEW r, NEW p \in pool_from_log(l, r)
  PROVE  /\ Key(p) = l.key /\ l.key = l.id /\ p.tokens = l.key.tokens
         /\ p.deployment = PoolManager /\ p.id = "key"
         /\ Registered(State, PoolManager, Key(p)) # {}
<1>1. /\ l.key = l.id /\ p \in V4LoadPool(State, l.key)
  BY DEF pool_from_log
<1>2. State = StateAt(b)
  BY DEF State, Pinned
<1>3. State.wiring["stateView"].deployment = PoolManager
  BY <1>2, DiscoveryAssumption DEF StateAt, V4Connect
<1>4. p = V4Pool(l.key) /\ Registered(State, PoolManager, l.key) # {}
  BY <1>1, <1>3 DEF V4LoadPool, When
<1>5. PICK i \in Registered(State, PoolManager, l.key) : TRUE
  BY <1>4
<1>6. i \in Ids /\ Claim[i].kind = "V4" /\ Key(Claim[i]) = l.key
  BY <1>5, DiscoveryAssumption DEF Registered
<1>7. Key(p) = l.key
  BY <1>4, <1>6, PoolKey
<1>8. p.tokens = l.key.tokens /\ p.deployment = PoolManager /\ p.id = "key"
  BY <1>4 DEF V4Pool
<1> QED BY <1>1, <1>4, <1>7, <1>8

-----------------------------------------------------------------------------
(***************************************************************************)
(* The search under way.                                                   *)
(***************************************************************************)
Real(p) == /\ Asked(p) /\ p.deployment = Deployment
           /\ \E i \in Registered(State, p.deployment, Key(p)) : p.id \in {i, "key"}

LEMMA ThisSearch ==
  ASSUME NEW q \in Queries, NEW b \in Blocks, query = {q}, pinned = {b}
  PROVE  /\ Query = q /\ Pinned = b /\ State = StateAt(b)
         /\ Scopes = DOMAIN q.scopes /\ Scopes = 1..Len(q.scopes) /\ Len(q.scopes) \in Nat
         /\ q.kind \in Kinds
<1>1. Query = q /\ Pinned = b /\ State = StateAt(b) /\ Scopes = DOMAIN q.scopes
  BY DEF Query, Pinned, State, Scopes
<1>2. q.kind \in Kinds /\ q.scopes \in Seq(IF q.kind \in {"V2", "V3"} THEN Seq(Nat)
                                          ELSE Nat \X Nat)
  BY DiscoveryAssumption
<1> QED BY <1>1, <1>2

LEMMA SameSearch ==
  ASSUME UNCHANGED <<query, pinned>>
  PROVE  /\ Query' = Query /\ Pinned' = Pinned /\ State' = State /\ Scopes' = Scopes
         /\ Deployment' = Deployment /\ \A p : Asked(p)' = Asked(p)
         /\ \A p : Real(p)' = Real(p)
         /\ \A q, s : Lookup(q, s)' = Lookup(q, s) /\ Exists(q, s)' = Exists(q, s)
         /\ \A n : Wanted(n)' = Wanted(n)
         /\ \A s : Span(s)' = Span(s)
<1>1. Query' = Query /\ Pinned' = Pinned /\ Scopes' = Scopes
  BY DEF Query, Pinned, Scopes
<1>2. State' = State /\ Deployment' = Deployment /\ \A p : Asked(p)' = Asked(p)
  BY <1>1 DEF State, Deployment, Asked
<1>3. \A p : Real(p)' = Real(p)
  BY <1>2 DEF Real
<1>4. \A q, s : Lookup(q, s)' = Lookup(q, s) /\ Exists(q, s)' = Exists(q, s)
  BY <1>2 DEF Lookup, Exists, find_pair, find_pool, RegistryIds
<1>5. \A n : Wanted(n)' = Wanted(n)
  BY <1>1, <1>2 DEF Wanted
<1>6. \A s : Span(s)' = Span(s)
  BY <1>1 DEF Span
<1> QED BY <1>1, <1>2, <1>3, <1>4, <1>5, <1>6

LEMMA NoPhantomReal == NoPhantom <=> \A p \in found : Real(p)
BY DEF NoPhantom, Real

(* The pools that lookups and logs give are real.                          *)
LEMMA LookupReal ==
  ASSUME Query.kind \in Registries, NEW scope, NEW p \in Lookup(Query, scope)
  PROVE  Real(p)
<1>1. /\ p.deployment = IF Query.kind = "V2" THEN V2Factory ELSE V3Factory
      /\ p.tokens = Sorted(Searched(Query)[1], Searched(Query)[2])
      /\ \E i \in Registered(State, p.deployment, Key(p)) : p.id = i
  BY LookupSound
<1>2. Asked(p) /\ p.deployment = Deployment
  BY <1>1 DEF Asked, Deployment, Registries
<1> QED BY <1>1, <1>2 DEF Real

LEMMA LogReal ==
  ASSUME NEW q \in Queries, NEW b \in Blocks, query = {q}, pinned = {b},
         Query.kind \notin Registries, NEW l, filter(Query, l), NEW r,
         NEW p \in pool_from_log(l, r)
  PROVE  Real(p)
<1>1. /\ Key(p) = l.key /\ l.key = l.id /\ p.tokens = l.key.tokens
      /\ p.deployment = PoolManager /\ p.id = "key"
      /\ Registered(State, PoolManager, Key(p)) # {}
  BY LogSound
<1>2. Query.kind \in {"V4", "V4Id"}
  BY ThisSearch DEF Kinds, Registries
<1>3. Asked(p)
  BY <1>1, <1>2 DEF Asked, filter
<1>4. p.deployment = Deployment
  BY <1>1, <1>2 DEF Deployment
<1> QED BY <1>1, <1>3, <1>4 DEF Real

(* join_all returns one answer for each scope: with as many answers as     *)
(* scopes, none of them twice, every scope has one.                        *)
LEMMA JoinAllTotal ==
  ASSUME NEW n \in Nat, NEW a \in Seq(Answered), Len(a) = n,
         \A i \in DOMAIN a : a[i].scope \in 1..n,
         \A i, j \in DOMAIN a : a[i].scope = a[j].scope => i = j
  PROVE  \A s \in 1..n : \E i \in DOMAIN a : JoinAll(a)[s] = a[i] /\ a[i].scope = s
<1> DEFINE f == [i \in 1..n |-> a[i].scope]
<1>1. DOMAIN a = 1..n
  OBVIOUS
<1>2. f \in Injection(1..n, 1..n)
  BY <1>1 DEF Injection, IsInjective
<1>3. IsFiniteSet(1..n)
  BY FS_Interval
<1>4. f \in Surjection(1..n, 1..n)
  BY <1>2, <1>3, FS_Injection
<1>5. ASSUME NEW s \in 1..n
      PROVE  \E i \in DOMAIN a : JoinAll(a)[s] = a[i] /\ a[i].scope = s
  <2>1. PICK i \in 1..n : f[i] = s
    BY <1>4 DEF Surjection
  <2>2. \E x \in {a[j] : j \in DOMAIN a} : x.scope = s
    BY <1>1, <2>1
  <2>3. JoinAll(a)[s] = CHOOSE x \in {a[j] : j \in DOMAIN a} : x.scope = s
    BY <1>1 DEF JoinAll
  <2>4. JoinAll(a)[s] \in {a[j] : j \in DOMAIN a} /\ JoinAll(a)[s].scope = s
    BY <2>2, <2>3
  <2> QED BY <2>4
<1> QED BY <1>5

-----------------------------------------------------------------------------
(***************************************************************************)
(* SearchInvariant: the search for pools in registries.                    *)
(***************************************************************************)
LEMMA SearchInit == Init => SearchInvariant
<1>1. SUFFICES ASSUME Init PROVE SearchInvariant
  OBVIOUS
<1>2. OneSearch /\ Stage
  BY <1>1, DiscoveryAssumption DEF Init, OneSearch, Stage, Steps
<1>3. AnswersRight /\ Accounting
  BY <1>1 DEF Init, AnswersRight, Accounting
<1>4. NoPhantom /\ RegistryComplete
  BY <1>1 DEF Init, NoPhantom, RegistryComplete
<1> QED BY <1>2, <1>3, <1>4 DEF SearchInvariant

(* Steps that leave the search as it is, but for where it stands.          *)
LEMMA SearchMoves ==
  ASSUME SearchInvariant, UNCHANGED search, Stage', OneSearch',
         pc' = "lookup" => pc = "lookup",
         Accounting', pc' = "reported" => Query.kind \notin Registries \/ pc = "reported"
  PROVE  SearchInvariant'
<1>1. UNCHANGED <<query, pinned, answers, range, page, found, completed, failures>>
  BY DEF search
<1>2. /\ Query' = Query /\ Scopes' = Scopes /\ State' = State /\ Deployment' = Deployment
      /\ \A p : Asked(p)' = Asked(p) /\ Real(p)' = Real(p)
      /\ \A q, s : Lookup(q, s)' = Lookup(q, s) /\ Exists(q, s)' = Exists(q, s)
  BY <1>1, SameSearch
<1>3. AnswersRight'
  BY <1>1, <1>2 DEF SearchInvariant, AnswersRight
<1>4. NoPhantom'
  <2>1. NoPhantom' <=> \A p \in found' : Real(p)'
    BY DEF NoPhantom, Real
  <2> QED BY <1>1, <1>2, <2>1, NoPhantomReal DEF SearchInvariant
<1>5. RegistryComplete'
  <2>1. SUFFICES ASSUME pc' = "reported", Query.kind \in Registries PROVE Complete'
    BY <1>2 DEF RegistryComplete
  <2>2. pc = "reported" /\ Complete
    BY <2>1 DEF SearchInvariant, RegistryComplete
  <2>3. Query.kind \in {"V2", "V3"}
    BY <2>1 DEF Registries
  <2> QED BY <1>1, <1>2, <2>1, <2>2, <2>3 DEF Complete
<1> QED BY <1>3, <1>4, <1>5 DEF SearchInvariant

LEMMA NewHeadKeepsSearch ==
  ASSUME SearchInvariant, NEW b \in Blocks, NewHead(b)
  PROVE  SearchInvariant'
<1>1. /\ UNCHANGED <<pc, search>> /\ head' \in Blocks /\ reorgs' \in 0..MaxReorgs
      /\ UNCHANGED <<query, pinned, answers, range, found, completed, failures>>
  BY DiscoveryAssumption DEF NewHead, search, SearchInvariant, Stage
<1>2. Query' = Query /\ Scopes' = Scopes
  BY <1>1, SameSearch
<1>3. Stage' /\ OneSearch' /\ Accounting'
  BY <1>1, <1>2 DEF SearchInvariant, Stage, OneSearch, Accounting
<1>4. pc' = "reported" => pc = "reported"
  BY <1>1
<1> QED BY <1>1, <1>3, <1>4, SearchMoves

LEMMA FindKeepsSearch ==
  ASSUME SearchInvariant, NEW q \in Queries, NEW b \in Blocks, find_pools(q, b)
  PROVE  SearchInvariant'
<1>1. /\ pc = "idle" /\ query' = {q} /\ pinned' = {b}
      /\ UNCHANGED <<head, reorgs, answers, range, page, found, completed, failures>>
      /\ pc' \in {"refused", "lookup", "header"}
      /\ pc' = "lookup" => q.kind \in Registries
      /\ pc' = "header" => q.kind \notin Registries
  BY DEF find_pools, Registries
<1>2. /\ found = {} /\ completed = {} /\ failures = {} /\ range = 1 /\ answers = <<>>
      /\ head \in Blocks /\ reorgs \in 0..MaxReorgs
  BY <1>1 DEF SearchInvariant, Stage
<1>3. Query' = q
  BY <1>1 DEF Query
<1>4. OneSearch' /\ Stage'
  BY <1>1, <1>2, <1>3 DEF OneSearch, Stage, Steps
<1>5. AnswersRight' /\ Accounting'
  BY <1>1, <1>2 DEF AnswersRight, Accounting
<1>6. NoPhantom' /\ RegistryComplete'
  BY <1>1, <1>2 DEF NoPhantom, RegistryComplete
<1> QED BY <1>4, <1>5, <1>6 DEF SearchInvariant

LEMMA AnswerKeepsSearch ==
  ASSUME SearchInvariant, NEW s \in Scopes, NEW ok \in BOOLEAN, Answer(s, ok)
  PROVE  SearchInvariant'
<1> DEFINE pools == Lookup(Query, Query.scopes[s])
           a     == [scope |-> s, ok |-> ok, pools |-> IF ok THEN pools ELSE {}]
<1>1. /\ pc = "lookup" /\ pc' = pc
      /\ \A i \in DOMAIN answers : answers[i].scope # s
      /\ ok => (Exists(Query, Query.scopes[s]) => pools # {})
      /\ answers' = Append(answers, a)
      /\ UNCHANGED <<head, reorgs, query, pinned, range, page, found, completed, failures>>
  BY DEF Answer
<1>2. /\ Query' = Query /\ Scopes' = Scopes
      /\ \A p : Real(p)' = Real(p)
      /\ \A q, t : Lookup(q, t)' = Lookup(q, t) /\ Exists(q, t)' = Exists(q, t)
  BY <1>1, SameSearch
<1>3. PICK q \in Queries, b \in Blocks : query = {q} /\ pinned = {b}
  BY <1>1 DEF SearchInvariant, OneSearch
<1>4. OneSearch' /\ Stage'
  BY <1>1, <1>2, <1>3 DEF SearchInvariant, OneSearch, Stage
<1>5. AnswersRight'
  <2>1. Query.kind \in Registries
    BY <1>1 DEF SearchInvariant, Stage
  <2>2. pools \subseteq {Claim[i] : i \in Ids}
    BY <2>1, LookupSound
  <2>3. s \in Nat
    BY <1>3, ThisSearch
  <2>4. a \in Answered
    BY <2>2, <2>3 DEF Answered
  <2>5. /\ answers \in Seq(Answered) /\ answers' \in Seq(Answered)
        /\ Len(answers') = Len(answers) + 1
        /\ DOMAIN answers = 1..Len(answers) /\ DOMAIN answers' = 1..Len(answers')
        /\ \A i \in DOMAIN answers : answers'[i] = answers[i]
        /\ answers'[Len(answers')] = a
    BY <1>1, <2>4 DEF SearchInvariant, AnswersRight
  <2>6. SUFFICES ASSUME NEW i \in DOMAIN answers'
                 PROVE  LET t == answers'[i].scope IN
                        /\ t \in Scopes
                        /\ \A j \in DOMAIN answers' : answers'[j].scope = t => j = i
                        /\ answers'[i].pools \subseteq Lookup(Query, Query.scopes[t])
                        /\ answers'[i].ok =>
                             /\ answers'[i].pools = Lookup(Query, Query.scopes[t])
                             /\ Exists(Query, Query.scopes[t]) => answers'[i].pools # {}
    BY <1>2, <2>5 DEF AnswersRight
  <2>7. CASE i \in DOMAIN answers
    <3>1. LET t == answers[i].scope IN
          /\ t \in Scopes
          /\ \A j \in DOMAIN answers : answers[j].scope = t => j = i
          /\ answers[i].pools \subseteq Lookup(Query, Query.scopes[t])
          /\ answers[i].ok => /\ answers[i].pools = Lookup(Query, Query.scopes[t])
                              /\ Exists(Query, Query.scopes[t]) => answers[i].pools # {}
      BY <1>1, <2>7 DEF SearchInvariant, AnswersRight
    <3>2. \A j \in DOMAIN answers' : answers'[j].scope = answers[i].scope => j = i
      <4>1. ASSUME NEW j \in DOMAIN answers', answers'[j].scope = answers[i].scope
            PROVE  j = i
        <5>1. j \in DOMAIN answers \/ j = Len(answers')
          BY <2>5
        <5>2. CASE j \in DOMAIN answers
          BY <2>5, <3>1, <4>1, <5>2
        <5>3. CASE j = Len(answers')
          BY <1>1, <2>5, <2>7, <4>1, <5>3
        <5> QED BY <5>1, <5>2, <5>3
      <4> QED BY <4>1
    <3> QED BY <2>5, <2>7, <3>1, <3>2
  <2>8. CASE i = Len(answers')
    <3>1. answers'[i].scope = s /\ answers'[i].ok = ok
          /\ answers'[i].pools = IF ok THEN pools ELSE {}
      <4>1. answers'[i] = a
        BY <2>5, <2>8
      <4> QED BY <4>1
    <3>2. \A j \in DOMAIN answers' : answers'[j].scope = s => j = i
      BY <1>1, <2>5, <2>8
    <3> QED BY <1>1, <3>1, <3>2
  <2> QED BY <2>5, <2>7, <2>8
<1>6. Accounting' /\ RegistryComplete'
  BY <1>1 DEF SearchInvariant, Accounting, RegistryComplete
<1>7. NoPhantom'
  <2>1. NoPhantom' <=> \A p \in found' : Real(p)'
    BY DEF NoPhantom, Real
  <2> QED BY <1>1, <1>2, <2>1, NoPhantomReal DEF SearchInvariant
<1> QED BY <1>4, <1>5, <1>6, <1>7 DEF SearchInvariant

(* What the collected answers say of each scope.                           *)
LEMMA Collected ==
  ASSUME SearchInvariant, pc = "lookup", Len(answers) = Len(Query.scopes)
  PROVE  \A s \in Scopes :
           LET r == JoinAll(answers)[s] IN
           /\ r.ok \in BOOLEAN /\ r.pools \subseteq Lookup(Query, Query.scopes[s])
           /\ r.ok => /\ r.pools = Lookup(Query, Query.scopes[s])
                      /\ Exists(Query, Query.scopes[s]) => r.pools # {}
<1>1. PICK q \in Queries, b \in Blocks : query = {q} /\ pinned = {b}
  BY DEF SearchInvariant, OneSearch
<1>2. Query = q /\ Scopes = 1..Len(q.scopes) /\ Len(q.scopes) \in Nat
  BY <1>1, ThisSearch
<1>3. /\ answers \in Seq(Answered)
      /\ \A i \in DOMAIN answers : answers[i].scope \in Scopes
      /\ \A i, j \in DOMAIN answers : answers[i].scope = answers[j].scope => i = j
      /\ \A i \in DOMAIN answers :
           /\ answers[i].pools \subseteq Lookup(Query, Query.scopes[answers[i].scope])
           /\ answers[i].ok =>
                /\ answers[i].pools = Lookup(Query, Query.scopes[answers[i].scope])
                /\ Exists(Query, Query.scopes[answers[i].scope]) => answers[i].pools # {}
  BY DEF SearchInvariant, AnswersRight
<1>4. \A s \in Scopes : \E i \in DOMAIN answers :
        JoinAll(answers)[s] = answers[i] /\ answers[i].scope = s
  BY <1>2, <1>3, JoinAllTotal
<1>5. \A i \in DOMAIN answers : answers[i].ok \in BOOLEAN
  <2>1. \A i \in DOMAIN answers : answers[i] \in Answered
    BY <1>3
  <2> QED BY <2>1 DEF Answered
<1> QED BY <1>3, <1>4, <1>5

LEMMA CollectKeepsSearch ==
  ASSUME SearchInvariant, Collect
  PROVE  SearchInvariant'
<1> DEFINE results == JoinAll(answers)
<1>1. /\ pc = "lookup" /\ Len(answers) = Len(Query.scopes)
      /\ found'     = UNION {results[s].pools : s \in Scopes}
      /\ completed' = {s \in Scopes : results[s].ok}
      /\ failures'  = {s \in Scopes : ~results[s].ok}
      /\ pc' = "reported"
      /\ UNCHANGED <<head, reorgs, query, pinned, answers, range, page>>
  BY DEF Collect
<1>2. /\ Query' = Query /\ Scopes' = Scopes /\ State' = State /\ Deployment' = Deployment
      /\ \A p : Asked(p)' = Asked(p) /\ Real(p)' = Real(p)
  BY <1>1, SameSearch
<1>3. PICK q \in Queries, b \in Blocks : query = {q} /\ pinned = {b}
  BY <1>1 DEF SearchInvariant, OneSearch
<1>4. Query.kind \in Registries
  BY <1>1 DEF SearchInvariant, Stage
<1>5. \A s \in Scopes :
        /\ results[s].ok \in BOOLEAN
        /\ results[s].pools \subseteq Lookup(Query, Query.scopes[s])
        /\ results[s].ok => /\ results[s].pools = Lookup(Query, Query.scopes[s])
                            /\ Exists(Query, Query.scopes[s]) => results[s].pools # {}
  BY <1>1, Collected
<1> HIDE DEF results
<1>6. OneSearch' /\ Stage' /\ AnswersRight'
  BY <1>1, <1>3 DEF SearchInvariant, OneSearch, Stage, Steps, AnswersRight
<1>7. Accounting'
  BY <1>1, <1>2 DEF Accounting
<1>8. NoPhantom'
  <2>1. NoPhantom' <=> \A p \in found' : Real(p)'
    BY DEF NoPhantom, Real
  <2>2. \A p \in found' : \E s \in Scopes : p \in Lookup(Query, Query.scopes[s])
    BY <1>1, <1>5
  <2>3. \A p \in found' : Real(p)
    BY <1>4, <2>2, LookupReal
  <2> QED BY <1>2, <2>1, <2>3
<1>9. RegistryComplete'
  <2>1. SUFFICES ASSUME NEW s \in completed', NEW i \in State.deployed \cap Genuine,
                        Claim[i].deployment = Deployment, Asked(Claim[i]),
                        Query.kind = "V3" => Claim[i].fee = Query.scopes[s][1]
                 PROVE  \E p \in found' : p.id = i
    BY <1>1, <1>2, <1>4 DEF RegistryComplete, Complete, Registries
  <2>2. s \in Scopes /\ results[s].pools = Lookup(Query, Query.scopes[s])
        /\ (Exists(Query, Query.scopes[s]) => results[s].pools # {})
    BY <1>1, <1>5
  <2>3. /\ Claim[i].deployment = IF Query.kind = "V2" THEN V2Factory ELSE V3Factory
        /\ Claim[i].tokens = Sorted(Searched(Query)[1], Searched(Query)[2])
    BY <1>4, <2>1 DEF Asked, Deployment, Registries
  <2>4. Exists(Query, Query.scopes[s]) /\ \A p \in Lookup(Query, Query.scopes[s]) : p.id = i
    BY <1>4, <2>1, <2>3, LookupFinds
  <2> QED BY <1>1, <2>2, <2>4
<1> QED BY <1>6, <1>7, <1>8, <1>9 DEF SearchInvariant

-----------------------------------------------------------------------------
(***************************************************************************)
(* SearchInvariant: the search for events.                                 *)
(***************************************************************************)
LEMMA HeaderKeepsSearch ==
  ASSUME SearchInvariant, NEW ok \in BOOLEAN, Header(ok)
  PROVE  SearchInvariant'
<1>1. /\ pc = "header" /\ pc' \in {"page", "discarded"} /\ UNCHANGED <<head, reorgs, search>>
      /\ UNCHANGED <<query, pinned, answers, range, page, found, completed, failures>>
  BY DEF Header, search
<1>2. PICK q \in Queries, b \in Blocks : query = {q} /\ pinned = {b}
  BY <1>1 DEF SearchInvariant, OneSearch
<1>3. Query' = Query /\ Scopes' = Scopes /\ Query = q /\ Len(q.scopes) \in Nat
  BY <1>1, <1>2, SameSearch, ThisSearch
<1>4. found = {} /\ completed = {} /\ failures = {} /\ range = 1 /\ Query.kind \notin Registries
  BY <1>1 DEF SearchInvariant, Stage
<1>5. OneSearch' /\ Stage'
  BY <1>1, <1>2, <1>3 DEF SearchInvariant, OneSearch, Stage, Steps
<1>6. Accounting'
  BY <1>1, <1>3, <1>4 DEF Accounting
<1> QED BY <1>1, <1>4, <1>5, <1>6, SearchMoves

LEMMA EndRangesKeepsSearch ==
  ASSUME SearchInvariant, EndRanges
  PROVE  SearchInvariant'
<1>1. /\ pc = "page" /\ range \notin Scopes /\ pc' = "anchor" /\ UNCHANGED <<head, reorgs, search>>
      /\ UNCHANGED <<query, pinned, answers, range, page, found, completed, failures>>
  BY DEF EndRanges, search
<1>2. PICK q \in Queries, b \in Blocks : query = {q} /\ pinned = {b}
  BY <1>1 DEF SearchInvariant, OneSearch
<1>3. /\ Query' = Query /\ Scopes' = Scopes /\ Query = q
      /\ Len(q.scopes) \in Nat /\ Scopes = 1..Len(q.scopes)
  BY <1>1, <1>2, SameSearch, ThisSearch
<1>4. OneSearch' /\ Stage'
  BY <1>1, <1>2, <1>3 DEF SearchInvariant, OneSearch, Stage, Steps
<1>5. range \in Nat \ {0} /\ range <= Len(q.scopes) + 1
      /\ completed \union failures = 1..(range - 1) /\ completed \cap failures = {}
  BY <1>1, <1>3 DEF SearchInvariant, Stage, Accounting
<1>6. range = Len(q.scopes) + 1
  BY <1>1, <1>3, <1>5
<1>7. completed \union failures = Scopes
  BY <1>3, <1>5, <1>6
<1>8. Accounting'
  BY <1>1, <1>3, <1>5, <1>7 DEF Accounting
<1> QED BY <1>1, <1>4, <1>8, SearchMoves

LEMMA AnchorKeepsSearch ==
  ASSUME SearchInvariant, NEW ok \in BOOLEAN, Anchor(ok)
  PROVE  SearchInvariant'
<1>1. /\ pc = "anchor" /\ pc' \in {"reported", "discarded"} /\ UNCHANGED <<head, reorgs, search>>
      /\ UNCHANGED <<query, pinned, answers, range, page, found, completed, failures>>
  BY DEF Anchor, search
<1>2. PICK q \in Queries, b \in Blocks : query = {q} /\ pinned = {b}
  BY <1>1 DEF SearchInvariant, OneSearch
<1>3. Query' = Query /\ Scopes' = Scopes
  BY <1>1, SameSearch
<1>4. OneSearch' /\ Stage' /\ Accounting' /\ Query.kind \notin Registries
  BY <1>1, <1>2, <1>3 DEF SearchInvariant, OneSearch, Stage, Steps, Accounting
<1> QED BY <1>1, <1>4, SearchMoves

LEMMA AgainKeepsSearch ==
  ASSUME SearchInvariant, Again
  PROVE  SearchInvariant'
<1>1. /\ pc' = "idle" /\ query' = {} /\ pinned' = {} /\ answers' = <<>>
      /\ range' = 1 /\ found' = {} /\ completed' = {} /\ failures' = {}
      /\ UNCHANGED <<head, reorgs>>
  BY DEF Again
<1>2. OneSearch' /\ Stage'
  BY <1>1 DEF SearchInvariant, OneSearch, Stage, Steps
<1>3. AnswersRight' /\ Accounting' /\ NoPhantom' /\ RegistryComplete'
  BY <1>1 DEF AnswersRight, Accounting, NoPhantom, RegistryComplete
<1> QED BY <1>2, <1>3 DEF SearchInvariant

(* Steps of the paging, which keep the query and find only real pools.     *)
LEMMA PageMoves ==
  ASSUME SearchInvariant, pc \in {"page", "logs"}, pc' \in {"page", "logs"},
         UNCHANGED <<head, reorgs, query, pinned, answers>>,
         range' \in Nat \ {0}, \A p \in found' : p \in found \/ Real(p), Accounting'
  PROVE  SearchInvariant'
<1>1. PICK q \in Queries, b \in Blocks : query = {q} /\ pinned = {b}
  BY DEF SearchInvariant, OneSearch
<1>2. /\ Query' = Query /\ Scopes' = Scopes /\ \A p : Real(p)' = Real(p)
  BY SameSearch
<1>3. OneSearch' /\ Stage'
  BY <1>1, <1>2 DEF SearchInvariant, OneSearch, Stage, Steps
<1>4. AnswersRight' /\ RegistryComplete'
  BY DEF SearchInvariant, AnswersRight, RegistryComplete
<1>5. NoPhantom'
  <2>1. NoPhantom' <=> \A p \in found' : Real(p)'
    BY DEF NoPhantom, Real
  <2> QED BY <1>2, <2>1, NoPhantomReal DEF SearchInvariant
<1> QED BY <1>3, <1>4, <1>5 DEF SearchInvariant

LEMMA GetLogsKeepsSearch ==
  ASSUME SearchInvariant, NEW ok \in BOOLEAN, NEW noise, GetLogs(ok, noise)
  PROVE  SearchInvariant'
<1>1. /\ pc = "page" /\ range \in Scopes /\ pc' \in {"page", "logs"}
      /\ UNCHANGED <<head, reorgs, query, pinned, answers, found, completed>>
      /\ \/ pc' = "logs" /\ UNCHANGED <<range, failures>>
         \/ pc' = "page" /\ failures' = failures \union {range} /\ range' = range + 1
  BY DEF GetLogs
<1>2. PICK q \in Queries, b \in Blocks : query = {q} /\ pinned = {b}
  BY <1>1 DEF SearchInvariant, OneSearch
<1>3. /\ Query' = Query /\ Scopes' = Scopes /\ Query = q
      /\ Len(q.scopes) \in Nat /\ Scopes = 1..Len(q.scopes)
  BY <1>1, <1>2, SameSearch, ThisSearch
<1>4. /\ range \in Nat \ {0} /\ completed \cap failures = {}
      /\ completed \union failures = 1..(range - 1)
  BY <1>1 DEF SearchInvariant, Stage, Accounting
<1>5. range' \in Nat \ {0} /\ Accounting'
  <2>1. CASE pc' = "logs" /\ UNCHANGED <<range, failures>>
    BY <1>1, <1>3, <1>4, <2>1 DEF Accounting
  <2>2. CASE pc' = "page" /\ failures' = failures \union {range} /\ range' = range + 1
    <3>1. completed' \union failures' = 1..(range' - 1) /\ completed' \cap failures' = {}
      BY <1>1, <1>4, <2>2
    <3> QED BY <1>1, <1>3, <1>4, <2>2, <3>1 DEF Accounting
  <2> QED BY <1>1, <2>1, <2>2
<1>6. \A p \in found' : p \in found \/ Real(p)
  BY <1>1
<1> QED BY <1>1, <1>5, <1>6, PageMoves

LEMMA ReadLogKeepsSearch ==
  ASSUME SearchInvariant, NEW l \in page, NEW ok \in BOOLEAN, ReadLog(l, ok)
  PROVE  SearchInvariant'
<1> DEFINE pools == IF ok /\ Readable /\ filter(Query, l)
                    THEN pool_from_log(l, Query.scopes[range]) ELSE {}
<1>1. /\ pc = "logs" /\ pc' = pc
      /\ found' = found \union pools
      /\ failures' = failures \/ failures' = failures \union {range}
      /\ UNCHANGED <<head, reorgs, query, pinned, answers, range, completed>>
  BY DEF ReadLog
<1>2. PICK q \in Queries, b \in Blocks : query = {q} /\ pinned = {b}
  BY <1>1 DEF SearchInvariant, OneSearch
<1>3. Query' = Query /\ Scopes' = Scopes
  BY <1>1, SameSearch
<1>4. /\ range \in Nat \ {0} /\ Query.kind \notin Registries
      /\ completed \cap failures = {} /\ range \in Scopes \ completed
      /\ (completed \union failures) \ {range} = 1..(range - 1)
  BY <1>1 DEF SearchInvariant, Stage, Accounting
<1>5. (completed' \union failures') \ {range'} = 1..(range' - 1) /\ completed' \cap failures' = {}
  BY <1>1, <1>4
<1>6. range' \in Nat \ {0} /\ Accounting'
  BY <1>1, <1>3, <1>4, <1>5 DEF Accounting
<1>7. \A p \in found' : p \in found \/ Real(p)
  <2>1. ASSUME NEW p \in pools
        PROVE  Real(p)
    <3>1. filter(Query, l) /\ p \in pool_from_log(l, Query.scopes[range])
      BY <2>1
    <3> QED BY <1>2, <1>4, <3>1, LogReal
  <2> QED BY <1>1, <2>1
<1> QED BY <1>1, <1>6, <1>7, PageMoves

LEMMA EndPageKeepsSearch ==
  ASSUME SearchInvariant, EndPage
  PROVE  SearchInvariant'
<1>1. /\ pc = "logs" /\ pc' = "page" /\ range' = range + 1
      /\ completed' = IF range \in failures THEN completed ELSE completed \union {range}
      /\ UNCHANGED <<head, reorgs, query, pinned, answers, page, found, failures>>
  BY DEF EndPage, PageDone
<1>2. PICK q \in Queries, b \in Blocks : query = {q} /\ pinned = {b}
  BY <1>1 DEF SearchInvariant, OneSearch
<1>3. /\ Query' = Query /\ Scopes' = Scopes /\ Query = q
      /\ Len(q.scopes) \in Nat /\ Scopes = 1..Len(q.scopes)
  BY <1>1, <1>2, SameSearch, ThisSearch
<1>4. /\ range \in Nat \ {0} /\ range \in Scopes \ completed
      /\ completed \cap failures = {}
      /\ (completed \union failures) \ {range} = 1..(range - 1)
  BY <1>1 DEF SearchInvariant, Stage, Accounting
<1>5. completed' \cap failures' = {}
  BY <1>1, <1>4
<1>6. completed' \union failures' = 1..(range' - 1)
  <2>1. completed' \union failures' = (completed \union failures) \union {range}
    BY <1>1
  <2>2. (completed \union failures) \union {range} = 1..(range - 1) \union {range}
    BY <1>4
  <2>3. 1..(range - 1) \union {range} = 1..(range' - 1)
    BY <1>1, <1>4
  <2> QED BY <2>1, <2>2, <2>3
<1>7. range' \in Nat \ {0} /\ Accounting'
  BY <1>1, <1>3, <1>4, <1>5, <1>6 DEF Accounting
<1>8. \A p \in found' : p \in found \/ Real(p)
  BY <1>1
<1> QED BY <1>1, <1>7, <1>8, PageMoves

LEMMA SearchStutter ==
  ASSUME SearchInvariant, UNCHANGED vars
  PROVE  SearchInvariant'
<1>1. UNCHANGED <<head, reorgs, pc, query, pinned, answers, range, page, found, completed, failures>>
      /\ UNCHANGED search
  BY DEF vars, search
<1>2. Query' = Query /\ Scopes' = Scopes
  BY <1>1, SameSearch
<1>3. Stage' /\ OneSearch' /\ Accounting'
  BY <1>1, <1>2 DEF SearchInvariant, Stage, OneSearch, Accounting
<1> QED BY <1>1, <1>3, SearchMoves

LEMMA SearchStep == SearchInvariant /\ [Next]_vars => SearchInvariant'
<1>1. SUFFICES ASSUME SearchInvariant, Next PROVE SearchInvariant'
  BY SearchStutter
<1>2. CASE \E b \in Blocks : NewHead(b)
  BY <1>1, <1>2, NewHeadKeepsSearch
<1>3. CASE \E q \in Queries, b \in Blocks : find_pools(q, b)
  BY <1>1, <1>3, FindKeepsSearch
<1>4. CASE \E s \in Scopes, ok \in BOOLEAN : Answer(s, ok)
  BY <1>1, <1>4, AnswerKeepsSearch
<1>5. CASE Collect
  BY <1>1, <1>5, CollectKeepsSearch
<1>6. CASE \E ok \in BOOLEAN : Header(ok) \/ Anchor(ok)
  BY <1>1, <1>6, HeaderKeepsSearch, AnchorKeepsSearch
<1>7. CASE \E ok \in BOOLEAN, noise \in SUBSET Noise : GetLogs(ok, noise)
  BY <1>1, <1>7, GetLogsKeepsSearch
<1>8. CASE \E l \in page, ok \in BOOLEAN : ReadLog(l, ok)
  BY <1>1, <1>8, ReadLogKeepsSearch
<1>9. CASE EndPage \/ EndRanges \/ Again
  BY <1>1, <1>9, EndPageKeepsSearch, EndRangesKeepsSearch, AgainKeepsSearch
<1> QED BY <1>1, <1>2, <1>3, <1>4, <1>5, <1>6, <1>7, <1>8, <1>9 DEF Next

(* Every search stays within what it was asked for: the invariant of the   *)
(* search, for any behaviour of the chain and of the RPC.                  *)
THEOREM SearchInvariantHolds == Spec => []SearchInvariant
BY SearchInit, SearchStep, PTL DEF Spec

(* No report holds a pool that was not asked for, or that the configured   *)
(* deployment had not created at the pinned block (v4.rs:232, v3.rs:346).  *)
THEOREM NoPhantomHolds == Spec => []NoPhantom
<1>1. SearchInvariant => NoPhantom
  BY DEF SearchInvariant
<1> QED BY <1>1, SearchInvariantHolds, PTL

(* Every scope of a report is either complete or has failed, never both    *)
(* (v4.rs:165-217).                                                        *)
THEOREM AccountedHolds == Spec => []Accounted
<1>1. SearchInvariant => Accounted
  BY DEF SearchInvariant, Accounting, Accounted
<1> QED BY <1>1, SearchInvariantHolds, PTL

-----------------------------------------------------------------------------
(***************************************************************************)
(* Chains: the block before a block on a chain is on it too.               *)
(***************************************************************************)
LEMMA OnChain ==
  ASSUME NEW c \in Blocks, NEW b \in On(c)
  PROVE  /\ b \in Blocks /\ Number(b) \in 1..Number(c) /\ Ancestry[c][Number(b)] = b
         /\ \A n \in 1..Number(b) : Ancestry[b][n] = Ancestry[c][n]
<1>1. PICK n \in 1..Number(c) : b = Ancestry[c][n]
  BY DEF On
<1>2. Ancestry[c] \in Seq(Blocks) /\ Number(c) \in Nat
  BY DiscoveryAssumption DEF Number
<1>3. b \in Blocks /\ Ancestry[b] = SubSeq(Ancestry[c], 1, n)
  BY <1>1, <1>2, DiscoveryAssumption DEF Number
<1>4. Number(b) = n /\ \A k \in 1..n : Ancestry[b][k] = Ancestry[c][k]
  BY <1>1, <1>2, <1>3 DEF Number
<1> QED BY <1>1, <1>3, <1>4

LEMMA OnItself ==
  ASSUME NEW b \in Blocks
  PROVE  b \in On(b)
<1>1. Number(b) \in 1..Number(b) /\ Ancestry[b][Number(b)] = b
  BY DiscoveryAssumption DEF Number
<1> QED BY <1>1 DEF On

LEMMA OnTransitive ==
  ASSUME NEW c \in Blocks, NEW b \in On(c), NEW a \in On(b)
  PROVE  a \in On(c)
<1>1. /\ b \in Blocks /\ Number(b) \in 1..Number(c)
      /\ \A n \in 1..Number(b) : Ancestry[b][n] = Ancestry[c][n]
  BY OnChain
<1>2. PICK n \in 1..Number(b) : a = Ancestry[b][n]
  BY DEF On
<1>3. n \in 1..Number(c) /\ a = Ancestry[c][n]
  BY <1>1, <1>2, DiscoveryAssumption DEF Number
<1> QED BY <1>3 DEF On

LEMMA OnLinear ==
  ASSUME NEW c \in Blocks, NEW a \in On(c), NEW b \in On(c)
  PROVE  a \in On(b) \/ b \in On(a)
<1>1. /\ Number(a) \in 1..Number(c) /\ Ancestry[c][Number(a)] = a
      /\ \A n \in 1..Number(a) : Ancestry[a][n] = Ancestry[c][n]
  BY OnChain
<1>2. /\ Number(b) \in 1..Number(c) /\ Ancestry[c][Number(b)] = b
      /\ \A n \in 1..Number(b) : Ancestry[b][n] = Ancestry[c][n]
  BY OnChain
<1>3. CASE Number(a) <= Number(b)
  <2>1. Number(a) \in 1..Number(b) /\ Ancestry[b][Number(a)] = a
    BY <1>1, <1>2, <1>3
  <2> QED BY <2>1 DEF On
<1>4. CASE Number(b) <= Number(a)
  <2>1. Number(b) \in 1..Number(a) /\ Ancestry[a][Number(b)] = b
    BY <1>1, <1>2, <1>4
  <2> QED BY <2>1 DEF On
<1> QED BY <1>1, <1>2, <1>3, <1>4

(* What was created up to a block does not depend on the chain it is on.   *)
LEMMA SameBorn ==
  ASSUME NEW c \in Blocks, NEW b \in On(c), NEW n \in Nat, n <= Number(b)
  PROVE  BornAt(c, n) = BornAt(b, n)
<1>1. /\ b \in Blocks /\ Number(b) \in 1..Number(c)
      /\ \A k \in 1..Number(b) : Ancestry[b][k] = Ancestry[c][k]
  BY OnChain
<1>2. DOMAIN Ancestry[c] = 1..Number(c) /\ DOMAIN Ancestry[b] = 1..Number(b)
      /\ Number(c) \in Nat
  BY <1>1, DiscoveryAssumption DEF Number
<1>3. n \in DOMAIN Ancestry[c] <=> n \in DOMAIN Ancestry[b]
  BY <1>1, <1>2
<1>4. n \in DOMAIN Ancestry[b] => Ancestry[b][n] = Ancestry[c][n]
  BY <1>1, <1>2
<1> QED BY <1>3, <1>4 DEF BornAt

LEMMA BornPools ==
  ASSUME NEW b \in Blocks, NEW n, NEW i \in BornAt(b, n)
  PROVE  i \in Ids /\ Claim[i].kind = "V4"
<1>1. n \in DOMAIN Ancestry[b] /\ i \in Born[Ancestry[b][n]] /\ Claim[i].kind = "V4"
  BY DEF BornAt
<1>2. Ancestry[b][n] \in Blocks
  BY <1>1, DiscoveryAssumption
<1> QED BY <1>1, <1>2, DiscoveryAssumption

-----------------------------------------------------------------------------
(***************************************************************************)
(* GapInvariant.                                                           *)
(***************************************************************************)

(* While the chain is reorganized at most once, a head that is not on the  *)
(* chain of the pinned block is never followed by one that is.             *)
LEMMA NewHeadNoReturn ==
  ASSUME MaxReorgs <= 1, SearchInvariant, NoReturn, pc # "idle",
         NEW h \in Blocks, NewHead(h)
  PROVE  /\ Readable' \/ (Lost' /\ reorgs' > 0)
         /\ Readable' => Readable
<1>1. PICK q \in Queries, b \in Blocks : query = {q} /\ pinned = {b}
  BY DEF SearchInvariant, OneSearch
<1>2. /\ h \notin On(head) /\ head' = h /\ UNCHANGED <<query, pinned>>
      /\ reorgs' = IF head \in On(h) THEN reorgs ELSE reorgs + 1
      /\ reorgs' <= MaxReorgs
  BY DEF NewHead, Extends, search
<1>3. Pinned = b /\ Pinned' = b
  BY <1>1, <1>2, ThisSearch, SameSearch
<1>4. head \in Blocks /\ reorgs \in Nat /\ MaxReorgs \in Nat
  BY DiscoveryAssumption DEF SearchInvariant, Stage
<1>5. /\ Readable <=> b \in On(head)
      /\ Readable' <=> b \in On(h)
      /\ Lost <=> b \notin On(head) /\ head \notin On(b)
      /\ Lost' <=> b \notin On(h) /\ h \notin On(b)
  BY <1>2, <1>3 DEF Readable, Lost
<1>6. CASE b \in On(head)
  <2>1. CASE head \in On(h)
    <3>1. b \in On(h)
      BY <1>6, <2>1, OnTransitive
    <3> QED BY <1>5, <1>6, <3>1
  <2>2. CASE head \notin On(h)
    <3>1. h \notin On(b)
      BY <1>2, <1>4, <1>6, OnTransitive
    <3> QED BY <1>2, <1>4, <1>5, <1>6, <2>2, <3>1
  <2> QED BY <2>1, <2>2
<1>7. CASE b \notin On(head)
  <2>1. Lost /\ reorgs > 0
    BY <1>5, <1>7 DEF NoReturn
  <2>2. head \in On(h)
    BY <1>2, <1>4, <2>1
  <2>3. b \notin On(h)
    BY <1>5, <2>1, <2>2, OnLinear
  <2>4. h \notin On(b)
    BY <1>5, <2>1, <2>2, OnTransitive
  <2> QED BY <1>2, <1>4, <1>5, <2>1, <2>2, <2>3, <2>4
<1> QED BY <1>6, <1>7

(* A report that is not touched stays without gaps.                        *)
LEMMA SameReport ==
  ASSUME UNCHANGED <<query, pinned, found, completed>>
  PROVE  /\ \A i : Covered(i)' = Covered(i)
         /\ Complete /\ (pc' = "reported" => pc = "reported") => Complete'
<1>1. /\ Query' = Query /\ Pinned' = Pinned /\ State' = State /\ Deployment' = Deployment
      /\ \A p : Asked(p)' = Asked(p)
  BY SameSearch
<1>2. \A i : Covered(i)' = Covered(i)
  BY DEF Covered
<1>3. resolved' = resolved
  BY <1>1 DEF resolved
<1>4. Complete /\ (pc' = "reported" => pc = "reported") => Complete'
  BY <1>1, <1>3 DEF Complete
<1> QED BY <1>2, <1>4

(* A search whose report has no gaps in the ranges that it completed.      *)
LEMMA NoGapsComplete ==
  ASSUME Query.kind \in {"V4", "V4Id"}, UNCHANGED <<query, pinned, found, completed>>,
         \A s \in completed : \A n \in Span(s) : \A i \in Wanted(n) : Covered(i)
  PROVE  Complete'
<1>1. /\ Query' = Query /\ Pinned' = Pinned /\ \A p : Asked(p)' = Asked(p)
  BY SameSearch
<1>2. resolved' = resolved
  BY <1>1 DEF resolved
<1>3. SUFFICES ASSUME NEW s \in completed,
                      NEW n \in Query.scopes[s][1]..Query.scopes[s][2],
                      NEW i \in BornAt(Pinned, n),
                      Claim[i].deployment = PoolManager, Asked(Claim[i])
               PROVE  /\ \E p \in found : Key(p) = Key(Claim[i])
                      /\ Query.kind = "V4Id" => resolved # {}
  BY <1>1, <1>2 DEF Complete
<1>4. PICK p \in found : Key(p) = Key(Claim[i])
  BY <1>3 DEF Span, Wanted, Covered
<1>5. Query.kind = "V4Id" => p \in resolved
  BY <1>3, <1>4 DEF Asked, resolved
<1> QED BY <1>4, <1>5

LEMMA GapInit == Init => GapInvariant
<1>1. SUFFICES ASSUME Init PROVE NoReturn /\ NoGaps /\ Complete
  BY SearchInit DEF GapInvariant
<1> QED BY <1>1 DEF Init, NoReturn, NoGaps, Complete

(* Steps that leave the report and its ranges as they are.                 *)
LEMMA GapMoves ==
  ASSUME GapInvariant, SearchInvariant', NoReturn',
         UNCHANGED search, Readable' => Readable,
         pc' \in {"page", "anchor"} => pc \in {"page", "anchor"} \/ completed = {},
         pc' = "logs" => pc = "logs",
         pc' = "reported" => pc = "reported" \/ Complete'
  PROVE  GapInvariant'
<1>1. UNCHANGED <<query, pinned, answers, range, page, found, completed, failures>>
  BY DEF search
<1>2. /\ \A n : Wanted(n)' = Wanted(n)
      /\ \A s : Span(s)' = Span(s)
      /\ \A i : Covered(i)' = Covered(i)
  BY <1>1, SameSearch, SameReport
<1>3. NoGaps'
  BY <1>1, <1>2 DEF GapInvariant, NoGaps
<1>4. Complete'
  <2>1. CASE pc' = "reported" => pc = "reported"
    BY <1>1, <2>1, SameReport DEF GapInvariant
  <2> QED BY <2>1
<1> QED BY <1>3, <1>4 DEF GapInvariant

LEMMA SameReadable ==
  ASSUME UNCHANGED <<head, reorgs, query, pinned>>
  PROVE  /\ Readable' = Readable /\ Lost' = Lost
         /\ NoReturn /\ pc # "idle" => NoReturn'
BY SameSearch DEF Readable, Lost, NoReturn

LEMMA NewHeadKeepsGaps ==
  ASSUME MaxReorgs <= 1, GapInvariant, NEW h \in Blocks, NewHead(h)
  PROVE  GapInvariant'
<1>1. SearchInvariant'
  BY NewHeadKeepsSearch DEF GapInvariant
<1>2. UNCHANGED <<pc, search>> /\ UNCHANGED <<query, pinned, found, completed>>
  BY DEF NewHead, search
<1>3. CASE pc = "idle"
  <2>1. NoReturn' /\ NoGaps' /\ Complete'
    BY <1>2, <1>3 DEF NoReturn, NoGaps, Complete
  <2> QED BY <1>1, <2>1 DEF GapInvariant
<1>4. CASE pc # "idle"
  <2>1. /\ Readable' \/ (Lost' /\ reorgs' > 0)
        /\ Readable' => Readable
    BY <1>4, NewHeadNoReturn DEF GapInvariant
  <2>2. NoReturn'
    BY <2>1 DEF NoReturn
  <2> QED BY <1>1, <1>2, <2>1, <2>2, GapMoves
<1> QED BY <1>3, <1>4

LEMMA FindKeepsGaps ==
  ASSUME GapInvariant, NEW q \in Queries, NEW b \in Blocks, find_pools(q, b)
  PROVE  GapInvariant'
<1>1. SearchInvariant'
  BY FindKeepsSearch DEF GapInvariant
<1>2. /\ b \in On(head) /\ query' = {q} /\ pinned' = {b} /\ head' = head
      /\ pc' \in {"refused", "lookup", "header"}
  BY DEF find_pools
<1>3. Pinned' = b
  BY <1>2 DEF Pinned
<1>4. Readable'
  BY <1>2, <1>3 DEF Readable
<1>5. NoReturn' /\ NoGaps' /\ Complete'
  BY <1>2, <1>4 DEF NoReturn, NoGaps, Complete
<1> QED BY <1>1, <1>5 DEF GapInvariant

LEMMA AnswerKeepsGaps ==
  ASSUME GapInvariant, NEW s \in Scopes, NEW ok \in BOOLEAN, Answer(s, ok)
  PROVE  GapInvariant'
<1>1. SearchInvariant'
  BY AnswerKeepsSearch DEF GapInvariant
<1>2. pc = "lookup" /\ pc' = "lookup" /\ UNCHANGED <<head, reorgs, query, pinned>>
  BY DEF Answer
<1>3. NoReturn' /\ NoGaps' /\ Complete'
  BY <1>2, SameReadable DEF GapInvariant, NoGaps, Complete
<1> QED BY <1>1, <1>3 DEF GapInvariant

LEMMA CollectKeepsGaps ==
  ASSUME GapInvariant, Collect
  PROVE  GapInvariant'
<1>1. SearchInvariant'
  BY CollectKeepsSearch DEF GapInvariant
<1>2. pc = "lookup" /\ pc' = "reported" /\ UNCHANGED <<head, reorgs, query, pinned>>
  BY DEF Collect
<1>3. Query.kind \in Registries /\ Query' = Query
  BY <1>2, SameSearch DEF GapInvariant, SearchInvariant, Stage
<1>4. Complete'
  BY <1>1, <1>2, <1>3 DEF SearchInvariant, RegistryComplete
<1>5. NoReturn' /\ NoGaps'
  BY <1>2, SameReadable DEF GapInvariant, NoGaps
<1> QED BY <1>1, <1>4, <1>5 DEF GapInvariant

LEMMA HeaderKeepsGaps ==
  ASSUME GapInvariant, NEW ok \in BOOLEAN, Header(ok)
  PROVE  GapInvariant'
<1>1. SearchInvariant'
  BY HeaderKeepsSearch DEF GapInvariant
<1>2. /\ pc = "header" /\ pc' \in {"page", "discarded"} /\ UNCHANGED <<head, reorgs, search>>
      /\ UNCHANGED <<query, pinned>>
  BY DEF Header, search
<1>3. completed = {}
  BY <1>2 DEF GapInvariant, SearchInvariant, Stage
<1>4. NoReturn' /\ Readable' = Readable
  BY <1>2, SameReadable DEF GapInvariant
<1> QED BY <1>1, <1>2, <1>3, <1>4, GapMoves

LEMMA EndRangesKeepsGaps ==
  ASSUME GapInvariant, EndRanges
  PROVE  GapInvariant'
<1>1. SearchInvariant'
  BY EndRangesKeepsSearch DEF GapInvariant
<1>2. /\ pc = "page" /\ pc' = "anchor" /\ UNCHANGED <<head, reorgs, search>>
      /\ UNCHANGED <<query, pinned>>
  BY DEF EndRanges, search
<1>3. NoReturn' /\ Readable' = Readable
  BY <1>2, SameReadable DEF GapInvariant
<1> QED BY <1>1, <1>2, <1>3, GapMoves

LEMMA AnchorKeepsGaps ==
  ASSUME GapInvariant, NEW ok \in BOOLEAN, Anchor(ok)
  PROVE  GapInvariant'
<1>1. SearchInvariant'
  BY AnchorKeepsSearch DEF GapInvariant
<1>2. /\ pc = "anchor" /\ pc' \in {"reported", "discarded"}
      /\ pc' = "reported" => Readable
      /\ UNCHANGED <<head, reorgs, search>>
      /\ UNCHANGED <<query, pinned, found, completed>>
  BY DEF Anchor, AnchorHolds, search
<1>3. PICK q \in Queries, b \in Blocks : query = {q} /\ pinned = {b}
  BY <1>2 DEF GapInvariant, SearchInvariant, OneSearch
<1>4. Query.kind \in {"V4", "V4Id"} /\ Query' = Query
  BY <1>2, <1>3, ThisSearch, SameSearch
     DEF GapInvariant, SearchInvariant, Stage, Kinds, Registries
<1>5. NoReturn' /\ Readable' = Readable
  BY <1>2, SameReadable DEF GapInvariant
<1>6. pc' = "reported" => Complete'
  <2>1. SUFFICES ASSUME pc' = "reported" PROVE Complete'
    OBVIOUS
  <2>2. \A s \in completed : \A n \in Span(s) : \A i \in Wanted(n) : Covered(i)
    BY <1>2, <2>1 DEF GapInvariant, NoGaps
  <2> QED BY <1>2, <1>4, <2>2, NoGapsComplete
<1> QED BY <1>1, <1>2, <1>5, <1>6, GapMoves

LEMMA AgainKeepsGaps ==
  ASSUME GapInvariant, Again
  PROVE  GapInvariant'
<1>1. SearchInvariant' /\ pc' = "idle"
  BY AgainKeepsSearch DEF GapInvariant, Again
<1>2. NoReturn' /\ NoGaps' /\ Complete'
  BY <1>1 DEF NoReturn, NoGaps, Complete
<1> QED BY <1>1, <1>2 DEF GapInvariant

-----------------------------------------------------------------------------
(***************************************************************************)
(* GapInvariant: the logs of a range.                                      *)
(***************************************************************************)

(* The canonical chain still holds the pinned block: what an RPC returns   *)
(* for a range that ends at or before it includes every pool that the      *)
(* search must report.                                                     *)
LEMMA LogsOfWanted ==
  ASSUME NEW q \in Queries, NEW b \in Blocks, query = {q}, pinned = {b}, head \in Blocks,
         q.kind \notin Registries, Readable, NEW s \in DOMAIN q.scopes,
         ~ReversedOrBeyond(q.scopes[s]), NEW n \in Span(s), NEW i \in Wanted(n)
  PROVE  /\ InitializeLog(i, n) \in CanonicalLogs(q.scopes[s][1], q.scopes[s][2])
         /\ filter(q, InitializeLog(i, n))
         /\ InitializeLog(i, n).address = PoolManager
<1>1. Query = q /\ Pinned = b /\ q.kind \in {"V4", "V4Id"}
  BY ThisSearch DEF Kinds, Registries
<1>2. q.scopes \in Seq(Nat \X Nat)
  BY <1>1, DiscoveryAssumption
<1>3. q.scopes[s] \in Nat \X Nat
  BY <1>2
<1>4. q.scopes[s][1] \in Nat /\ q.scopes[s][2] \in Nat
  BY <1>3
<1>5. b \in On(head) /\ Number(b) \in Nat
  BY <1>1, DiscoveryAssumption DEF Readable, Number
<1>6. n \in Nat /\ n <= Number(b) /\ n \in q.scopes[s][1]..q.scopes[s][2]
  BY <1>1, <1>4, <1>5 DEF Span, ReversedOrBeyond
<1>7. i \in BornAt(b, n) /\ Claim[i].deployment = PoolManager /\ Asked(Claim[i])
  BY <1>1 DEF Wanted
<1>8. i \in BornAt(head, n)
  BY <1>5, <1>6, <1>7, SameBorn
<1>9. InitializeLog(i, n) \in CanonicalLogs(q.scopes[s][1], q.scopes[s][2])
  BY <1>6, <1>8 DEF CanonicalLogs
<1>10. InitializeLog(i, n).key = Key(Claim[i]) /\ InitializeLog(i, n).id = Key(Claim[i])
       /\ InitializeLog(i, n).address = Claim[i].deployment
  BY DEF InitializeLog
<1>11. filter(q, InitializeLog(i, n))
  BY <1>1, <1>7, <1>10, KeyFields DEF Asked, filter
<1> QED BY <1>7, <1>9, <1>10, <1>11

(* A log of such a pool, when it is read, gives that pool or a failure.    *)
LEMMA LogOfPool ==
  ASSUME NEW q \in Queries, NEW b \in Blocks, query = {q}, pinned = {b},
         NEW n, NEW i \in Wanted(n), NEW r, NEW p \in pool_from_log(InitializeLog(i, n), r)
  PROVE  Key(p) = Key(Claim[i])
<1>1. Key(p) = InitializeLog(i, n).key
  BY LogSound
<1> QED BY <1>1 DEF InitializeLog

LEMMA GetLogsKeepsGaps ==
  ASSUME GapInvariant, NEW ok \in BOOLEAN, NEW noise \in SUBSET Noise, GetLogs(ok, noise)
  PROVE  GapInvariant'
<1> DEFINE r == Query.scopes[range]
           wanted == {l \in CanonicalLogs(r[1], r[2]) : filter(Query, l) /\ l.address = PoolManager}
<1>1. SearchInvariant'
  BY GetLogsKeepsSearch DEF GapInvariant
<1>2. /\ pc = "page" /\ range \in Scopes /\ pc' \in {"page", "logs"}
      /\ UNCHANGED <<head, reorgs, query, pinned, answers, found, completed>>
      /\ pc' = "logs" => /\ ~ReversedOrBeyond(r) /\ page' = wanted \union noise
                         /\ UNCHANGED <<range, failures>>
  BY DEF GetLogs
<1>3. PICK q \in Queries, b \in Blocks : query = {q} /\ pinned = {b}
  BY <1>2 DEF GapInvariant, SearchInvariant, OneSearch
<1>4. Query = q /\ Scopes = DOMAIN q.scopes /\ q.kind \notin Registries /\ head \in Blocks
  BY <1>2, <1>3, ThisSearch DEF GapInvariant, SearchInvariant, Stage
<1>5. /\ \A n : Wanted(n)' = Wanted(n)
      /\ \A s : Span(s)' = Span(s)
      /\ \A i : Covered(i)' = Covered(i)
  BY <1>2, SameSearch, SameReport
<1>6. NoReturn' /\ Readable' = Readable
  BY <1>2, SameReadable DEF GapInvariant
<1>7. pc' = "logs" /\ Readable =>
        \A n \in Span(range) : \A i \in Wanted(n) : InitializeLog(i, n) \in page'
  <2>1. SUFFICES ASSUME pc' = "logs", Readable, NEW n \in Span(range), NEW i \in Wanted(n)
                 PROVE  InitializeLog(i, n) \in page'
    OBVIOUS
  <2>2. ~ReversedOrBeyond(q.scopes[range]) /\ range \in DOMAIN q.scopes
    BY <1>2, <1>4, <2>1
  <2>3. /\ InitializeLog(i, n) \in CanonicalLogs(q.scopes[range][1], q.scopes[range][2])
        /\ filter(q, InitializeLog(i, n))
        /\ InitializeLog(i, n).address = PoolManager
    BY <1>3, <1>4, <2>1, <2>2, LogsOfWanted
  <2> QED BY <1>2, <1>4, <2>1, <2>3
<1> HIDE DEF wanted
<1>8. NoGaps'
  BY <1>2, <1>5, <1>6, <1>7 DEF GapInvariant, NoGaps
<1>9. Complete'
  BY <1>2 DEF Complete
<1> QED BY <1>1, <1>6, <1>8, <1>9 DEF GapInvariant

LEMMA ReadLogKeepsGaps ==
  ASSUME GapInvariant, NEW l \in page, NEW ok \in BOOLEAN, ReadLog(l, ok)
  PROVE  GapInvariant'
<1> DEFINE pools == IF ok /\ Readable /\ filter(Query, l)
                    THEN pool_from_log(l, Query.scopes[range]) ELSE {}
<1>1. SearchInvariant'
  BY ReadLogKeepsSearch DEF GapInvariant
<1>2. /\ pc = "logs" /\ pc' = "logs"
      /\ page' = page \ {l} /\ found' = found \union pools
      /\ failures' = IF pools = {} THEN failures \union {range} ELSE failures
      /\ UNCHANGED <<head, reorgs, query, pinned, range, completed>>
  BY DEF ReadLog
<1>3. PICK q \in Queries, b \in Blocks : query = {q} /\ pinned = {b}
  BY <1>2 DEF GapInvariant, SearchInvariant, OneSearch
<1>4. /\ \A n : Wanted(n)' = Wanted(n)
      /\ \A s : Span(s)' = Span(s)
  BY <1>2, SameSearch
<1>5. \A i : Covered(i) => Covered(i)'
  BY <1>2 DEF Covered
<1>6. NoReturn' /\ Readable' = Readable
  BY <1>2, SameReadable DEF GapInvariant
<1>7. Readable => \A n \in Span(range) : \A i \in Wanted(n) :
        InitializeLog(i, n) \in page' \/ range \in failures' \/ Covered(i)'
  <2>1. SUFFICES ASSUME Readable, NEW n \in Span(range), NEW i \in Wanted(n)
                 PROVE  InitializeLog(i, n) \in page' \/ range \in failures' \/ Covered(i)'
    OBVIOUS
  <2>2. InitializeLog(i, n) \in page \/ range \in failures \/ Covered(i)
    BY <1>2, <2>1 DEF GapInvariant, NoGaps
  <2>3. CASE InitializeLog(i, n) = l /\ pools # {}
    <3>1. PICK p \in pools : TRUE
      BY <2>3
    <3>2. p \in pool_from_log(l, Query.scopes[range])
      BY <2>3, <3>1
    <3>3. Key(p) = Key(Claim[i])
      BY <1>3, <2>1, <2>3, <3>2, LogOfPool
    <3>4. Covered(i)'
      BY <1>2, <3>1, <3>3 DEF Covered
    <3> QED BY <3>4
  <2>4. CASE pools = {}
    BY <1>2, <2>4
  <2>5. CASE InitializeLog(i, n) # l
    BY <1>2, <1>5, <2>2, <2>5
  <2> QED BY <2>3, <2>4, <2>5
<1> HIDE DEF pools
<1>8. NoGaps'
  BY <1>2, <1>4, <1>5, <1>6, <1>7 DEF GapInvariant, NoGaps
<1>9. Complete'
  BY <1>2 DEF Complete
<1> QED BY <1>1, <1>6, <1>8, <1>9 DEF GapInvariant

LEMMA EndPageKeepsGaps ==
  ASSUME GapInvariant, EndPage
  PROVE  GapInvariant'
<1>1. SearchInvariant'
  BY EndPageKeepsSearch DEF GapInvariant
<1>2. /\ pc = "logs" /\ pc' = "page" /\ page = {}
      /\ completed' = IF range \in failures THEN completed ELSE completed \union {range}
      /\ UNCHANGED <<head, reorgs, query, pinned, found>>
  BY DEF EndPage, PageDone
<1>3. /\ \A n : Wanted(n)' = Wanted(n)
      /\ \A s : Span(s)' = Span(s)
      /\ \A i : Covered(i)' = Covered(i)
  <2>1. \A i : Covered(i)' = Covered(i)
    BY <1>2 DEF Covered
  <2> QED BY <1>2, <2>1, SameSearch
<1>4. NoReturn' /\ Readable' = Readable
  BY <1>2, SameReadable DEF GapInvariant
<1>5. Readable /\ range \notin failures =>
        \A n \in Span(range) : \A i \in Wanted(n) : Covered(i)
  BY <1>2 DEF GapInvariant, NoGaps
<1>6. Readable => \A s \in completed : \A n \in Span(s) : \A i \in Wanted(n) : Covered(i)
  BY <1>2 DEF GapInvariant, NoGaps
<1>7. NoGaps'
  BY <1>2, <1>3, <1>4, <1>5, <1>6 DEF NoGaps
<1>8. Complete'
  BY <1>2 DEF Complete
<1> QED BY <1>1, <1>4, <1>7, <1>8 DEF GapInvariant

LEMMA GapStutter ==
  ASSUME GapInvariant, UNCHANGED vars
  PROVE  GapInvariant'
<1>1. SearchInvariant'
  BY SearchStutter DEF GapInvariant
<1>2. UNCHANGED <<pc, search>> /\ UNCHANGED <<head, reorgs, query, pinned>>
  BY DEF vars, search
<1>3. Readable' = Readable /\ NoReturn'
  BY <1>2, SameReadable DEF GapInvariant, NoReturn
<1> QED BY <1>1, <1>2, <1>3, GapMoves

LEMMA GapStep ==
  ASSUME MaxReorgs <= 1
  PROVE  GapInvariant /\ [Next]_vars => GapInvariant'
<1>1. SUFFICES ASSUME GapInvariant, Next PROVE GapInvariant'
  BY GapStutter
<1>2. CASE \E b \in Blocks : NewHead(b)
  BY <1>1, <1>2, NewHeadKeepsGaps
<1>3. CASE \E q \in Queries, b \in Blocks : find_pools(q, b)
  BY <1>1, <1>3, FindKeepsGaps
<1>4. CASE \E s \in Scopes, ok \in BOOLEAN : Answer(s, ok)
  BY <1>1, <1>4, AnswerKeepsGaps
<1>5. CASE Collect
  BY <1>1, <1>5, CollectKeepsGaps
<1>6. CASE \E ok \in BOOLEAN : Header(ok) \/ Anchor(ok)
  BY <1>1, <1>6, HeaderKeepsGaps, AnchorKeepsGaps
<1>7. CASE \E ok \in BOOLEAN, noise \in SUBSET Noise : GetLogs(ok, noise)
  BY <1>1, <1>7, GetLogsKeepsGaps
<1>8. CASE \E l \in page, ok \in BOOLEAN : ReadLog(l, ok)
  BY <1>1, <1>8, ReadLogKeepsGaps
<1>9. CASE EndPage \/ EndRanges \/ Again
  BY <1>1, <1>9, EndPageKeepsGaps, EndRangesKeepsGaps, AgainKeepsGaps
<1> QED BY <1>1, <1>2, <1>3, <1>4, <1>5, <1>6, <1>7, <1>8, <1>9 DEF Next

(* While the chain is reorganized at most once, what a report calls        *)
(* completed has no gaps (uniswap.rs:158, v4.rs:222): of a registry every  *)
(* pool asked for, of a range every pool born in it.  With two             *)
(* reorganizations it does not hold, as the run discovery_return shows.    *)
THEOREM CompleteHolds ==
  ASSUME MaxReorgs <= 1
  PROVE  Spec => []Complete
<1>1. GapInvariant /\ [Next]_vars => GapInvariant'
  BY GapStep
<1>2. GapInvariant => Complete
  BY DEF GapInvariant
<1> QED BY <1>1, <1>2, GapInit, PTL DEF Spec
=============================================================================
