------------------------------ MODULE EvmClient ------------------------------
(***************************************************************************)
(* EvmClient (src/src/lib.rs): reads that name a block by its hash, of a   *)
(* node that follows the chain, is reorganized, switches to another chain, *)
(* or cannot answer.  token_info joins three calls; each of them is        *)
(* optional in the answer, but only if the contract itself has none.       *)
(***************************************************************************)
EXTENDS Integers, FiniteSets

CONSTANTS
  ChainId,     \* that the client is connected for
  Heads,       \* what a node can serve: [chain |-> ..., blocks |-> ...]
  Addresses,
  Contract,    \* Contract[b][a]: what the contract replies (at most one)
  Balance,     \* Balance[b]: of the owner, in the native currency
  ErrorReplies \* of nodes that do not answer: [code |-> ..., reverted |-> ...]

Blocks == DOMAIN Contract
Native == "native"
(* A reply is data, or a revert.  Its text is "" when it means none; a     *)
(* word is padded if it is UTF-8 up to the zeros at its end.               *)
Reply  == [reverts : BOOLEAN, abi : BOOLEAN, size : Nat, padded : BOOLEAN, text : STRING]

(* A reply means a text exactly if it is of a form that the code reads; an *)
(* error of a node that did not ask the contract does not look like one    *)
(* of the contract.                                                        *)
ASSUME EvmClientAssumption ==
  /\ Native \notin Addresses
  /\ \A b \in Blocks : \A a \in Addresses : \A c \in Contract[b][a] :
       /\ \A d \in Contract[b][a] : d = c
       /\ \A part \in {"name", "symbol"} :
            c[part].text # "" <=> c[part].abi \/ (c[part].size = 32 /\ c[part].padded)
       /\ \A part \in {"decimals", "balance", "allowance"} :
            c[part].text # "" <=> c[part].abi
  /\ \A e \in ErrorReplies : e.code # 3 /\ ~e.reverted

VARIABLES
  head,     \* of the node
  pc,
  ask,      \* the operation under way (at most one)
  got,      \* the parts that have been read
  answer    \* what it returns (at most one)
vars == <<head, pc, ask, got, answer>>

Asks == [op : {"token_info"}, address : Addresses, block : Blocks]
        \union [op : {"balance"}, address : Addresses \union {Native}, block : Blocks]
        \union [op : {"allowance"}, address : Addresses, block : Blocks]
The(S) == CHOOSE x \in S : TRUE
Asked  == The(ask)

(* The calls of an operation, which are made concurrently.                 *)
Parts(a) == IF a.op = "token_info" THEN {"name", "symbol", "decimals"}
            ELSE IF a.address = Native THEN {"getBalance"} ELSE {a.op}

Init == /\ head \in Heads /\ pc = "start" /\ ask = {} /\ got = {} /\ answer = {}

(* The node follows its chain, leaves a branch, or serves another chain.   *)
Node(h) == head' = h /\ UNCHANGED <<pc, ask, got, answer>>

connect == /\ pc = "start"
           /\ pc' = IF head.chain = ChainId THEN "ready" ELSE "refused"
           /\ UNCHANGED <<head, ask, got, answer>>

Begin(a) ==
  /\ pc = "ready"
  /\ ask' = {a} /\ got' = {}
  /\ pc' = IF a.op = "token_info" THEN "code" ELSE "read"
  /\ UNCHANGED <<head, answer>>

\* MUTANT of Answers: the other calls go on.
AnswersOnly(r) == answer' = {r} /\ UNCHANGED <<pc, got>>
Answers(r) == pc' = "answered" /\ answer' = {r} /\ UNCHANGED got
Failure    == [ok |-> FALSE, value |-> {}]

-----------------------------------------------------------------------------
(* One read.                                                               *)
\* MUTANT of At: reads at the latest block.
AtLatest(b) == {CHOOSE x \in head.blocks : TRUE}
(* BlockId::hash_canonical: the block, if the node has it in its chain.    *)
At(b) == {b} \cap head.blocks

(* require_contract: an address without code, a block that is not there,   *)
(* or an error of the node end it.                                         *)
require_contract(ok) ==
  LET code == UNION {Contract[b][Asked.address] : b \in At(Asked.block)} IN
  /\ pc = "code"
  /\ IF ok /\ code # {} THEN pc' = "read" /\ UNCHANGED <<got, answer>> ELSE Answers(Failure)
  /\ UNCHANGED <<head, ask>>

\* MUTANT of contract_call_error: every error reply is a revert.
every_error_reverts(e) == "ContractReverted"
contract_call_error(e) == IF e.code = 3 \/ e.reverted THEN "ContractReverted" ELSE "Rpc"

(* What may come back of a call: data or an error.  A revert is reported   *)
(* by code, by message, or in the words of another node.                   *)
Revert == {[code |-> c, reverted |-> r] : c \in {3, -32000}, r \in BOOLEAN}
Returns(part) ==
  LET replies == UNION {Contract[b][Asked.address] : b \in At(Asked.block)}
  IN  {[data |-> {r[part]}, error |-> {}] : r \in {r \in replies : ~r[part].reverts}}
      \union (IF \E r \in replies : r[part].reverts
              THEN {[data |-> {}, error |-> {e}] : e \in Revert} ELSE {})
      \union {[data |-> {}, error |-> {e}] : e \in ErrorReplies}

decode(data)      == {d.text : d \in {d \in data : d.abi}}
legacy_text(data) == {d.text : d \in {d \in data : d.size = 32 /\ d.padded}}
metadata_text(data) == IF decode(data) # {} THEN decode(data) ELSE legacy_text(data)

(* A call must give a value; metadata may be missing.                      *)
Read(part, back) ==
  LET optional == Asked.op = "token_info"
      value == IF part \in {"name", "symbol"} THEN metadata_text(back.data) ELSE decode(back.data)
      failed == \/ \E e \in back.error : contract_call_error(e) = "Rpc"
                \/ ~optional /\ value = {}
  IN
  /\ pc = "read" /\ part \notin {g.part : g \in got}
  /\ IF failed THEN Answers(Failure)     \* try_join! drops the other calls
     ELSE got' = got \union {[part |-> part, value |-> value]} /\ UNCHANGED <<pc, answer>>
  /\ UNCHANGED <<head, ask>>

getBalance(ok) ==
  /\ pc = "read" /\ Asked.address = Native /\ got = {}
  /\ IF ok /\ At(Asked.block) # {}
     THEN got' = {[part |-> "getBalance", value |-> {Balance[b] : b \in At(Asked.block)}]}
          /\ UNCHANGED <<pc, answer>>
     ELSE Answers(Failure)
  /\ UNCHANGED <<head, ask>>

Join == /\ pc = "read" /\ {g.part : g \in got} = Parts(Asked)
        /\ pc' = "answered" /\ answer' = {[ok |-> TRUE, value |-> {got}]}
        /\ UNCHANGED <<head, ask, got>>

Return == /\ pc = "answered"
          /\ pc' = "ready" /\ ask' = {} /\ got' = {} /\ answer' = {}
          /\ UNCHANGED head

Next == \/ \E h \in Heads : Node(h)
        \/ connect \/ Join \/ Return
        \/ \E a \in Asks : Begin(a)
        \/ \E ok \in BOOLEAN : require_contract(ok) \/ getBalance(ok)
        \/ \E a \in ask : \E part \in Parts(a) \ {"getBalance"} :
             \E back \in Returns(part) : Read(part, back)

Spec == Init /\ [][Next]_vars

-----------------------------------------------------------------------------
(* What a contract means by a reply: its text, or nothing.                 *)
Meant(reply) == {t \in {reply.text} : ~reply.reverts /\ t # ""}
Truth ==
  [a \in Asks |->
    IF a.address = Native THEN {{[part |-> "getBalance", value |-> {Balance[a.block]}]}}
    ELSE {{[part |-> p, value |-> Meant(c[p])] : p \in Parts(a)} : c \in
            {c \in Contract[a.block][a.address] :
               a.op = "token_info" \/ Meant(c[a.op]) # {}}}]

(* However the node moves between the calls, and whatever errors it        *)
(* replies with, an operation is one read at the block it names: all parts *)
(* belong to it, and a name, a symbol or decimals are missing only if the  *)
(* contract has none (lib.rs:54: "RPC failures remain errors").  The       *)
(* other modules rest on this where they read a block in one step.         *)
ImplementsPinnedRead == INSTANCE PinnedRead
ReadsAreAtomic == ImplementsPinnedRead!Spec
=============================================================================
