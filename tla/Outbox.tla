-------------------------------- MODULE Outbox --------------------------------
(***************************************************************************)
(* What the execution layer promises about sending: a transaction leaves   *)
(* only after its intent is durable, it leaves once, transactions of two   *)
(* runs are never on their way together, and a run is closed only when     *)
(* nothing of it can still take effect.                                    *)
(***************************************************************************)
CONSTANTS Runs, Transactions

VARIABLES
  fate,    \* each transaction: none, intended, out or settled
  closed   \* runs that are over

vars == <<fate, closed>>

Fates == {"none", "intended", "out", "settled"}

Init ==
  /\ fate = [t \in Transactions |-> "none"]
  /\ closed = {}

Become(t, f) == fate' = [fate EXCEPT ![t] = f] /\ UNCHANGED closed

(* A run's first intent is recorded only when every other run is closed.   *)
Intend(t) ==
  /\ fate[t] = "none" /\ t.run \notin closed
  /\ \A g \in Transactions : g.run # t.run /\ fate[g] # "none" => g.run \in closed
  /\ Become(t, "intended")

Send(t) == fate[t] = "intended" /\ t.run \notin closed /\ Become(t, "out")

Settle(t) == fate[t] = "out" /\ Become(t, "settled")

Close(r) ==
  /\ r \notin closed
  /\ \A t \in Transactions : t.run = r => fate[t] # "out"
  /\ closed' = closed \union {r}
  /\ UNCHANGED fate

Next == \/ \E t \in Transactions : Intend(t) \/ Send(t) \/ Settle(t)
        \/ \E r \in Runs : Close(r)

Spec == Init /\ [][Next]_vars
=============================================================================
