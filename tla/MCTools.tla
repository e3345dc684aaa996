-------------------------------- MODULE MCTools --------------------------------
(***************************************************************************)
(* Two groups, two texts and two senders for TLC.                          *)
(***************************************************************************)
EXTENDS Tools, TLC

CONSTANTS home, other, hello, bye

MCGroup == {home, other}
MCText == {hello, bye}
TextSymmetry == Permutations({hello, bye})
MCIncoming == {[id |-> 1, from |-> "ann"], [id |-> 2, from |-> "bob"]}
===============================================================================
