------------------------------- MODULE MediaFile -------------------------------
(***************************************************************************)
(* What Client.Download promises about the cached copy of a message's      *)
(* media (internal/client/download.go): the copy appears whole, in one     *)
(* step, and a caller is given it only after it was seen to be whole.      *)
(* Damage comes from outside.                                              *)
(***************************************************************************)
EXTENDS Naturals

CONSTANTS Call, Msg

VARIABLES
    file,   \* the cached copy of each message
    get     \* each call: the message, whether it named an output file, progress

fvars == <<file, get>>

File == {"none", "whole", "damaged"}

\* A caller is idle, has asked, found the copy whole, or was given it.
Idle == [of |-> "none", named |-> FALSE, is |-> "idle"]

Init == file = [m \in Msg |-> "none"] /\ get = [c \in Call |-> Idle]

Move(c, from, to) == get[c].is = from /\ get' = [get EXCEPT ![c].is = to]

Ask(c, m, named) ==
    /\ get[c].is \in {"idle", "returned"}
    /\ get' = [get EXCEPT ![c] = [of |-> m, named |-> named, is |-> "asked"]]
    /\ UNCHANGED file

\* The copy is there and is whole.
Find(c) == Move(c, "asked", "found") /\ file[get[c].of] = "whole" /\ UNCHANGED file

\* The media is fetched and its copy put in place.
Store(c) == Move(c, "asked", "found") /\ file' = [file EXCEPT ![get[c].of] = "whole"]

\* A caller that named an output file is satisfied by a file that is there.
Return(c) ==
    /\ \/ Move(c, "found", "returned")
       \/ get[c].named /\ Move(c, "asked", "returned")
    /\ UNCHANGED file

GiveUp(c) ==
    /\ get[c].is # "returned" /\ get' = [get EXCEPT ![c] = Idle]
    /\ UNCHANGED file

\* Whole copies are damaged; a crash also ends calls, some with the answer on
\* its way.
Damage ==
    /\ file' \in [Msg -> File] /\ DOMAIN get' = Call
    /\ \A m \in Msg : file'[m] # file[m] => file[m] = "whole" /\ file'[m] = "damaged"
    /\ \A c \in Call : get'[c] # get[c] => get'[c] = Idle

Next ==
    \/ \E c \in Call :
          \/ \E m \in Msg, named \in BOOLEAN : Ask(c, m, named)
          \/ Find(c) \/ Store(c) \/ Return(c) \/ GiveUp(c)
    \/ Damage

Spec == Init /\ [][Next]_fvars
===============================================================================
