---------------------------- MODULE MCGroupUpdate -----------------------------
(***************************************************************************)
(* A group of the paired user and two others: every pair of addresses of   *)
(* the two, a number alone and the paired user's own number.               *)
(***************************************************************************)
EXTENDS GroupUpdate, TLC

CONSTANTS me, ann, bob

MCPerson == {me, ann, bob}
MCAction == {"add", "remove"}
MCFacts == {f \in [lidMode : BOOLEAN, open : BOOLEAN,
                   shown : SUBSET MCPerson, known : SUBSET MCPerson] :
               me \in f.shown /\ me \in f.known}
Address(p) == {j \in JID : j.who = p}
MCWish == {<<a, b>> : a, b \in Address(ann) \union Address(bob)}
             \union {<<a>> : a \in {j \in JID : j.form = "pn"}}
OthersSymmetry == Permutations({ann, bob})
===============================================================================
