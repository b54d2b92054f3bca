------------------------------- MODULE Network -------------------------------
(***************************************************************************)
(* What lies beyond the SDK's RPC and HTTP clients: the wallet or service  *)
(* that takes a transaction, the mempool, and the chain of one wallet.     *)
(* External code, modelled from how src/src/execution.rs and               *)
(* src/src/submit.rs use it.  A request handed over may be delivered at    *)
(* any later time, long after the caller gave up on the answer.            *)
(***************************************************************************)
EXTENDS Records

CONSTANT MaxReorgs  \* bound on the number of mined transactions undone

ASSUME MaxReorgsAssumption == MaxReorgs \in Nat

VARIABLES
  net,          \* how far each transaction got on its way to the chain
  altered,      \* transactions the wallet's user changed before signing
  ledger,       \* mined transactions in order, with their outcome
  reorgs,       \* mined transactions undone so far
  preapproved   \* the wallet approved the router before the first run

networkVars == <<net, altered, ledger, reorgs, preapproved>>

NetState == {"absent", "flight", "refused", "lost", "public"}

NetworkTypeOK ==
  /\ net \in [Transactions -> NetState]
  /\ altered \subseteq Transactions
  /\ ledger \in Seq([tx : Transactions, ok : BOOLEAN])
  /\ reorgs \in 0..MaxReorgs
  /\ preapproved \in BOOLEAN

NetworkInit ==
  /\ net = [t \in Transactions |-> "absent"]
  /\ altered = {}
  /\ ledger = <<>>
  /\ reorgs = 0
  /\ preapproved \in BOOLEAN

Mined(t) == \E i \in DOMAIN ledger : ledger[i].tx = t

(* eth_getTransactionReceipt: absent for a transaction that is not mined.  *)
Receipt(t) ==
  IF \E i \in DOMAIN ledger : ledger[i].tx = t /\ ledger[i].ok
  THEN "success"
  ELSE IF Mined(t) THEN "reverted" ELSE "none"

(* A transaction that may still take effect.                               *)
Live(t) == net[t] = "flight" \/ (net[t] = "public" /\ ~Mined(t))

(* The router's allowance covers the input after the first n ledger        *)
(* entries: approvals grant exactly the amount, a swap uses it up.         *)
AllowanceAt(n) ==
  LET ok == {i \in 1..n : ledger[i].ok}
  IN  IF ok = {} THEN preapproved
      ELSE \E i \in ok : /\ \A j \in ok : j <= i
                         /\ ledger[i].tx.kind = "Approval"
Allowance == AllowanceAt(Len(ledger))

(* Nonces order one wallet's transactions: g must be mined before t.       *)
Precedes(g, t) == \/ g.run < t.run
                  \/ g.run = t.run /\ g.kind = "Approval" /\ t.kind = "Swap"

(***************************************************************************)
(* Steps of the environment.                                               *)
(***************************************************************************)

(* The request reaches the network; a wallet that signs (mayAlter) lets    *)
(* its user change the transaction first.                                  *)
Deliver(t, mayAlter) ==
  /\ net[t] = "flight"
  /\ net' = [net EXCEPT ![t] = "public"]
  /\ altered' \in {altered} \union (IF mayAlter THEN {altered \union {t}} ELSE {})
  /\ UNCHANGED <<ledger, reorgs, preapproved>>

Lose(t) ==
  /\ net[t] = "flight"
  /\ net' = [net EXCEPT ![t] = "lost"]
  /\ UNCHANGED <<altered, ledger, reorgs, preapproved>>

Mine(t) ==
  /\ net[t] = "public" /\ ~Mined(t)
  /\ \A g \in Transactions : Precedes(g, t) /\ net[g] = "public" => Mined(g)
  /\ \E ok \in BOOLEAN :
       /\ ok /\ t.kind = "Swap" => Allowance
       /\ ledger' = Append(ledger, [tx |-> t, ok |-> ok])
  /\ UNCHANGED <<net, altered, reorgs, preapproved>>

(* The block with the last mined transaction is dropped from the chain;    *)
(* the transaction is back in the mempool.                                 *)
Reorg ==
  /\ reorgs < MaxReorgs /\ ledger # <<>>
  /\ ledger' = SubSeq(ledger, 1, Len(ledger) - 1)
  /\ reorgs' = reorgs + 1
  /\ UNCHANGED <<net, altered, preapproved>>
=============================================================================
