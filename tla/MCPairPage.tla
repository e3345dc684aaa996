------------------------------ MODULE MCPairPage -------------------------------
(***************************************************************************)
(* The refresh, the rates and the bursts of pair_handler.go for the page   *)
(* and its image; the minute of a reset and the 20 seconds of a code are   *)
(* shortened.                                                              *)
(***************************************************************************)
EXTENDS PairPage, TLC

CONSTANTS a, b, x, y

MCTab == {a, b}
MCSlot == {x, y}
Interchange == Permutations(MCTab) \union Permutations(MCSlot)
MCCost == [page |-> 4, image |-> 4, reset |-> 2, code |-> 1]
MCBurst == [page |-> 5, image |-> 10, reset |-> 1, code |-> 1]
MCRetryAfter == [page |-> 4, image |-> 4, reset |-> 2, code |-> 1]
===============================================================================
