----------------------------- MODULE MCCacheReads ------------------------------
(***************************************************************************)
(* A chat of three messages and one of a message with the id of one of     *)
(* them, whose name lies between the two the first chat may have; or one   *)
(* chat, whose messages are of one second, with nothing to keep in one.    *)
(***************************************************************************)
EXTENDS CacheReads, TLC

Msg(c, id, at, kept) == [chat |-> c, id |-> id, at |-> at, kept |-> kept]

MCChat == {1, 2}
MCNamesOf == (1 :> {1, 3}) @@ (2 :> {2})
MCHistories ==
    {(1 :> <<Msg(1, 1, 1, TRUE), Msg(1, 2, 2, TRUE), Msg(1, 3, 3, TRUE)>>)
         @@ (2 :> <<Msg(2, 2, 2, TRUE)>>),
     (1 :> <<Msg(1, 1, 2, TRUE), Msg(1, 2, 2, FALSE), Msg(1, 3, 2, TRUE)>>)
         @@ (2 :> << >>)}
MCFilter == {[chat |-> 0, after |-> 0, before |-> 0], [chat |-> 1, after |-> 1, before |-> 4]}
MCAsked == {0, 2}
===============================================================================
