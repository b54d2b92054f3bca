---------------------------- MODULE EvmClientProofs ---------------------------
(***************************************************************************)
(* EvmClient implements PinnedRead for any chains, contracts, addresses    *)
(* and errors of nodes.  What has been read of the operation under way is  *)
(* true at its block, whatever the node has moved to since.                *)
(***************************************************************************)
EXTENDS EvmClient, TLAPS

(* An operation is under way, or has its answer, or there is none.         *)
Phases ==
  /\ ask \subseteq Asks /\ \A a, b \in ask : a = b
  /\ pc \in {"start", "refused", "ready"} => ask = {} /\ answer = {}
  /\ pc \in {"code", "read"} => ask # {} /\ answer = {}
  /\ pc = "answered" => answer # {}
  /\ pc \in {"start", "refused", "ready", "code", "read", "answered"}

(* One part of an answer, as the contract means it.                        *)
Part(c, p) == [part |-> p, value |-> Meant(c[p])]
BalanceAt(a) == [part |-> "getBalance", value |-> {Balance[a.block]}]

(* What has been read is true at the block that was asked for.             *)
TrueOf(a, g) ==
  IF a.address = Native THEN g = BalanceAt(a)
  ELSE \E c \in Contract[a.block][a.address], p \in Parts(a) :
         g = Part(c, p) /\ (a.op # "token_info" => Meant(c[a.op]) # {})
GotTrue == \A a \in ask : \A g \in got : TrueOf(a, g)

IInv == Phases /\ GotTrue

-----------------------------------------------------------------------------
LEMMA TheOne ==
  ASSUME Phases, NEW a \in ask PROVE Asked = a
BY DEF Phases, Asked, The

LEMMA AskShape ==
  ASSUME NEW a \in Asks
  PROVE  /\ a.block \in Blocks
         /\ a.address = Native \/ a.address \in Addresses
         /\ a.op \in {"token_info", "balance", "allowance"}
         /\ a.op = "token_info" => a.address \in Addresses /\ a.address # Native
         /\ a.address # Native => a.address \in Addresses
         /\ a.address = Native => Parts(a) = {"getBalance"}
         /\ a.op = "token_info" => Parts(a) = {"name", "symbol", "decimals"}
         /\ a.op # "token_info" /\ a.address # Native => Parts(a) = {a.op}
BY EvmClientAssumption DEF Asks, Parts

(* A value that a reply of the contract gives is what the contract means.  *)
ValueOf(part, data) ==
  IF part \in {"name", "symbol"} THEN metadata_text(data) ELSE decode(data)

LEMMA ValueIsMeant ==
  ASSUME NEW b \in Blocks, NEW a \in Addresses, NEW c \in Contract[b][a],
         NEW part \in {"name", "symbol", "decimals", "balance", "allowance"},
         ~c[part].reverts
  PROVE  ValueOf(part, {c[part]}) = Meant(c[part])
<1> DEFINE d == c[part]
<1>1. decode({d}) = IF d.abi THEN {d.text} ELSE {}
  BY DEF decode
<1>2. legacy_text({d}) = IF d.size = 32 /\ d.padded THEN {d.text} ELSE {}
  BY DEF legacy_text
<1>3. Meant(d) = IF d.text # "" THEN {d.text} ELSE {}
  BY DEF Meant
<1>4. CASE part \in {"name", "symbol"}
  <2>1. d.text # "" <=> d.abi \/ (d.size = 32 /\ d.padded)
    BY <1>4, EvmClientAssumption
  <2> QED BY <1>1, <1>2, <1>3, <1>4, <2>1 DEF ValueOf, metadata_text
<1>5. CASE part \notin {"name", "symbol"}
  <2>1. d.text # "" <=> d.abi
    BY <1>5, EvmClientAssumption
  <2> QED BY <1>1, <1>3, <1>5, <2>1 DEF ValueOf
<1> QED BY <1>4, <1>5

LEMMA NothingRead ==
  ASSUME NEW part PROVE ValueOf(part, {}) = {}
BY DEF ValueOf, metadata_text, decode, legacy_text

(* A call that does not fail gives what is true at the block.              *)
LEMMA ReadIsTrue ==
  ASSUME IInv, NEW a \in ask, NEW part \in Parts(a) \ {"getBalance"},
         NEW back \in Returns(part), Read(part, back), answer' = answer
  PROVE  /\ a.address # Native
         /\ \E g : TrueOf(a, g) /\ got' = got \union {g}
<1>1. a \in Asks /\ Asked = a
  BY TheOne DEF IInv, Phases
<1>2. a.address # Native /\ a.address \in Addresses /\ a.block \in Blocks
  BY <1>1, AskShape
<1>3. part \in {"name", "symbol", "decimals", "balance", "allowance"}
  BY <1>1, <1>2, AskShape
<1>4. pc = "read" /\ answer = {}
  BY DEF Read, IInv, Phases
<1> DEFINE v == ValueOf(part, back.data)
<1>5. /\ got' = got \union {[part |-> part, value |-> v]}
      /\ \A e \in back.error : contract_call_error(e) # "Rpc"
      /\ a.op # "token_info" => v # {}
  <2>1. answer' # {Failure}
    BY <1>4
  <2> QED BY <1>1, <2>1 DEF Read, Answers, ValueOf
<1>6. PICK c \in Contract[a.block][a.address] : v = Meant(c[part])
  <2> DEFINE replies == UNION {Contract[b][a.address] : b \in At(a.block)}
  <2>1. replies \subseteq Contract[a.block][a.address]
    BY DEF At
  <2>2. CASE \E r \in replies : ~r[part].reverts /\ back = [data |-> {r[part]}, error |-> {}]
    <3>1. PICK r \in replies : ~r[part].reverts /\ back.data = {r[part]}
      BY <2>2
    <3>2. r \in Contract[a.block][a.address]
      BY <2>1
    <3>3. ValueOf(part, {r[part]}) = Meant(r[part])
      BY <1>2, <1>3, <3>1, <3>2, ValueIsMeant
    <3> QED BY <3>1, <3>2, <3>3
  <2>3. CASE \E r \in replies : r[part].reverts /\ back.data = {}
    <3>1. PICK r \in replies : r[part].reverts /\ back.data = {}
      BY <2>3
    <3>2. Meant(r[part]) = {}
      BY <3>1 DEF Meant
    <3> QED BY <2>1, <3>1, <3>2, NothingRead
  <2>4. CASE \E e \in ErrorReplies : back = [data |-> {}, error |-> {e}]
    <3>1. PICK e \in ErrorReplies : back.error = {e}
      BY <2>4
    <3>2. contract_call_error(e) = "Rpc"
      BY EvmClientAssumption DEF contract_call_error
    <3> QED BY <1>5, <3>1, <3>2
  <2> QED BY <1>1, <2>2, <2>3, <2>4 DEF Returns, Revert
<1>7. part = a.op \/ a.op = "token_info"
  BY <1>1, <1>2, AskShape
<1>8. TrueOf(a, Part(c, part))
  <2>1. a.op # "token_info" => Meant(c[a.op]) # {}
    BY <1>5, <1>6, <1>7
  <2> QED BY <1>2, <2>1 DEF TrueOf
<1> QED BY <1>2, <1>5, <1>6, <1>8 DEF Part

-----------------------------------------------------------------------------
LEMMA InitInv == Init => IInv
BY DEF Init, IInv, Phases, GotTrue

LEMMA NextInv == IInv /\ [Next]_vars => IInv'
<1> SUFFICES ASSUME IInv, [Next]_vars PROVE IInv'
  OBVIOUS
<1> USE DEF IInv, Phases, GotTrue
<1>1. ASSUME NEW h \in Heads, Node(h) PROVE IInv'
  BY <1>1 DEF Node, TrueOf, BalanceAt, Part
<1>2. CASE connect
  BY <1>2 DEF connect
<1>3. CASE Join
  BY <1>3 DEF Join
<1>4. CASE Return
  BY <1>4 DEF Return
<1>5. ASSUME NEW a \in Asks, Begin(a) PROVE IInv'
  BY <1>5 DEF Begin
<1>6. ASSUME NEW ok \in BOOLEAN, require_contract(ok) PROVE IInv'
  BY <1>6 DEF require_contract, Answers
<1>7. ASSUME NEW ok \in BOOLEAN, getBalance(ok) PROVE IInv'
  <2>1. PICK a \in ask : TRUE
    BY <1>7 DEF getBalance
  <2>2. Asked = a /\ a.address = Native
    BY <1>7, TheOne DEF getBalance
  <2>3. CASE ok /\ At(a.block) # {}
    <3>1. got' = {BalanceAt(a)} /\ UNCHANGED <<pc, answer, ask>>
      BY <1>7, <2>2, <2>3 DEF getBalance, At, BalanceAt
    <3> QED BY <2>1, <2>2, <3>1 DEF TrueOf
  <2>4. CASE ~(ok /\ At(a.block) # {})
    BY <1>7, <2>2, <2>4 DEF getBalance, Answers
  <2> QED BY <2>3, <2>4
<1>8. ASSUME NEW a \in ask, NEW part \in Parts(a) \ {"getBalance"},
             NEW back \in Returns(part), Read(part, back)
      PROVE  IInv'
  <2>1. pc = "read" /\ answer = {} /\ ask' = ask
    BY <1>8 DEF Read
  <2>2. CASE answer' = answer
    <3>1. PICK g : TrueOf(a, g) /\ got' = got \union {g}
      BY <1>8, <2>2, ReadIsTrue
    <3>2. pc' = pc
      BY <1>8, <2>1, <2>2 DEF Read, Answers
    <3> QED BY <2>1, <2>2, <3>1, <3>2
  <2>3. CASE answer' # answer
    <3>1. pc' = "answered" /\ answer' = {Failure} /\ got' = got
      BY <1>8, <2>3 DEF Read, Answers
    <3> QED BY <2>1, <3>1
  <2> QED BY <2>2, <2>3
<1>9. CASE UNCHANGED vars
  BY <1>9 DEF vars
<1> QED BY <1>1, <1>2, <1>3, <1>4, <1>5, <1>6, <1>7, <1>8, <1>9 DEF Next

(* Whatever the node does between the calls, what has been read so far is  *)
(* true at the block that was asked for.                                   *)
THEOREM PartsAreTrue == Spec => []IInv
<1>1. Init => IInv  BY InitInv
<1>2. IInv /\ [Next]_vars => IInv'  BY NextInv
<1> QED BY <1>1, <1>2, PTL DEF Spec

-----------------------------------------------------------------------------
(* All parts together are the answer of the contract at the block.         *)
LEMMA JoinIsTruth ==
  ASSUME IInv, NEW a \in ask, {g.part : g \in got} = Parts(a)
  PROVE  got \in Truth[a]
<1>1. a \in Asks
  BY DEF IInv, Phases
<1>2. CASE a.address = Native
  <2>1. got \subseteq {BalanceAt(a)} /\ got # {}
    BY <1>1, <1>2, AskShape DEF IInv, GotTrue, TrueOf
  <2> QED BY <1>1, <1>2, <2>1 DEF Truth, BalanceAt
<1>3. CASE a.address # Native
  <2>1. \E g : g \in got
    BY <1>1, <1>3, AskShape
  <2>2. PICK g \in got : TRUE
    BY <2>1
  <2>3. PICK c \in Contract[a.block][a.address] : a.op # "token_info" => Meant(c[a.op]) # {}
    BY <1>3, <2>2 DEF IInv, GotTrue, TrueOf
  <2>4. \A d \in Contract[a.block][a.address] : d = c
    BY <1>1, <1>3, AskShape, EvmClientAssumption
  <2>5. \A h \in got : \E p \in Parts(a) : h = Part(c, p)
    BY <1>3, <2>4 DEF IInv, GotTrue, TrueOf
  <2>6. \A p \in Parts(a) : Part(c, p) \in got
    <3> SUFFICES ASSUME NEW p \in Parts(a) PROVE Part(c, p) \in got
      OBVIOUS
    <3>1. PICK h \in got : h.part = p
      OBVIOUS
    <3>2. PICK q \in Parts(a) : h = Part(c, q)
      BY <2>5
    <3> QED BY <3>1, <3>2 DEF Part
  <2>7. got = {Part(c, p) : p \in Parts(a)}
    BY <2>5, <2>6
  <2> QED BY <1>1, <1>3, <2>3, <2>7 DEF Truth, Part
<1> QED BY <1>2, <1>3

(* However many calls an operation makes, and whatever the node does       *)
(* between them, it is one read at the block that it names, or fails: what *)
(* token_info, balance and allowance return was true together              *)
(* (lib.rs:54).                                                            *)
THEOREM ReadsImplementPinnedRead == Spec => ReadsAreAtomic
<1>1. Init => ImplementsPinnedRead!Init
  BY DEF Init, ImplementsPinnedRead!Init
<1>2. IInv /\ [Next]_vars => [ImplementsPinnedRead!Next]_<<ask, answer>>
  <2> SUFFICES ASSUME IInv, [Next]_vars, ~UNCHANGED <<ask, answer>>
               PROVE  ImplementsPinnedRead!Next
    OBVIOUS
  <2> USE DEF IInv, Phases, ImplementsPinnedRead!Next
  <2>1. ASSUME NEW a \in ask, answer = {}, ask' = ask,
               \/ answer' = {Failure}
               \/ \E v \in Truth[a] : answer' = {[ok |-> TRUE, value |-> {v}]}
        PROVE  ImplementsPinnedRead!Answer
    BY <2>1 DEF ImplementsPinnedRead!Answer, ImplementsPinnedRead!Right,
                ImplementsPinnedRead!Failure, Failure
  <2>2. ASSUME NEW h \in Heads, Node(h) PROVE FALSE
    BY <2>2 DEF Node
  <2>3. CASE connect
    BY <2>3 DEF connect
  <2>4. CASE Join
    <3>1. PICK a \in ask : TRUE
      BY <2>4 DEF Join
    <3>2. Asked = a
      BY <3>1, TheOne
    <3>3. got \in Truth[a]
      BY <2>4, <3>1, <3>2, JoinIsTruth DEF Join
    <3> QED BY <2>1, <2>4, <3>1, <3>3 DEF Join
  <2>5. CASE Return
    BY <2>5 DEF Return, ImplementsPinnedRead!Done
  <2>6. ASSUME NEW a \in Asks, Begin(a) PROVE ImplementsPinnedRead!Ask(a)
    BY <2>6 DEF Begin, ImplementsPinnedRead!Ask
  <2>7. ASSUME pc \in {"code", "read"}, ask' = ask, answer' # answer => answer' = {Failure}
        PROVE  ImplementsPinnedRead!Answer
    <3>1. PICK a \in ask : TRUE
      BY <2>7
    <3> QED BY <2>1, <2>7, <3>1
  <2>8. ASSUME NEW ok \in BOOLEAN, require_contract(ok) PROVE ImplementsPinnedRead!Answer
    BY <2>7, <2>8 DEF require_contract, Answers
  <2>9. ASSUME NEW ok \in BOOLEAN, getBalance(ok) PROVE ImplementsPinnedRead!Answer
    BY <2>7, <2>9 DEF getBalance, Answers
  <2>10. ASSUME NEW a \in ask, NEW part \in Parts(a) \ {"getBalance"},
                NEW back \in Returns(part), Read(part, back)
         PROVE  ImplementsPinnedRead!Answer
    BY <2>7, <2>10 DEF Read, Answers
  <2>11. CASE UNCHANGED vars
    BY <2>11 DEF vars
  <2> QED BY <2>2, <2>3, <2>4, <2>5, <2>6, <2>8, <2>9, <2>10, <2>11 DEF Next
<1> QED BY <1>1, <1>2, PartsAreTrue, PTL
        DEF Spec, ReadsAreAtomic, ImplementsPinnedRead!Spec
=============================================================================
