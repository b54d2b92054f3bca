----------------------------- MODULE MCEvmClient -----------------------------
(* A chain that is reorganized from a2 to b2, and another chain, c1; a      *)
(* token of text, upgraded to a symbol that is no text; one of words and    *)
(* a number that overflows; and an address without code.                    *)
EXTENDS EvmClient

Abi(t)    == [reverts |-> FALSE, abi |-> TRUE, size |-> 96, padded |-> FALSE, text |-> t]
Word(t)   == [reverts |-> FALSE, abi |-> FALSE, size |-> 32, padded |-> TRUE, text |-> t]
Noise     == [reverts |-> FALSE, abi |-> FALSE, size |-> 32, padded |-> FALSE, text |-> ""]
Reverting == [reverts |-> TRUE, abi |-> FALSE, size |-> 0, padded |-> FALSE, text |-> ""]
T(name, symbol, decimals, balance, allowance) ==
  [name |-> name, symbol |-> symbol, decimals |-> decimals, balance |-> balance,
   allowance |-> allowance]
New    == T(Abi("New"), Abi("NEW"), Abi("18"), Abi("5"), Abi("1"))
Newer  == T(Abi("Newer"), Noise, Abi("6"), Abi("0"), Reverting)
Old    == T(Word("Old"), Reverting, Noise, Noise, Abi("0"))

MCAddresses == {"token", "old", "nothing"}
MCContract ==
  [b \in {"a1", "a2", "b2", "c1"} |->
    [a \in MCAddresses |->
      CASE a = "token" -> (IF b = "a1" THEN {New} ELSE IF b = "a2" THEN {Newer} ELSE {})
        [] a = "old"   -> (IF b \in {"a1", "b2"} THEN {Old} ELSE {New})
        [] a = "nothing" -> {}]]
MCBalance == [b \in {"a1", "a2", "b2", "c1"} |-> IF b \in {"a2", "c1"} THEN "9" ELSE "7"]
MCHeads == {[chain |-> 1, blocks |-> {"a1"}], [chain |-> 1, blocks |-> {"a1", "a2"}],
            [chain |-> 1, blocks |-> {"a1", "b2"}], [chain |-> 2, blocks |-> {"c1"}]}
MCErrorReplies == {[code |-> -32005, reverted |-> FALSE]}
=============================================================================
