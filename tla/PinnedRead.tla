------------------------------ MODULE PinnedRead -----------------------------
(***************************************************************************)
(* What the other modules take a read at a block hash to be: one step that *)
(* gives what is true at this block, or fails.  EvmClient implements it    *)
(* with several calls, to a node that changes between them.                *)
(***************************************************************************)
CONSTANTS
  Asks,   \* what can be asked for
  Truth   \* Truth[a]: the answer to a; a set of at most one element

VARIABLES
  ask,      \* at most one
  answer    \* a set of at most one answer: [ok |-> ..., value |-> ...]

Failure  == [ok |-> FALSE, value |-> {}]
Right(a) == {[ok |-> TRUE, value |-> {v}] : v \in Truth[a]}

Init == ask = {} /\ answer = {}

Ask(a) == /\ ask = {} /\ ask' = {a} /\ answer' = {}
Answer == /\ answer = {}
          /\ \E a \in ask : \E r \in Right(a) \union {Failure} : answer' = {r}
          /\ UNCHANGED ask
Done   == /\ answer # {} /\ ask' = {} /\ answer' = {}

Next == (\E a \in Asks : Ask(a)) \/ Answer \/ Done

Spec == Init /\ [][Next]_<<ask, answer>>
=============================================================================
