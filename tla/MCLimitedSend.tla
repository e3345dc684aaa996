---------------------------- MODULE MCLimitedSend ----------------------------
\* Model values and symmetry for LimitedSend: calls are interchangeable.
EXTENDS LimitedSend, TLC

CONSTANTS c1, c2, c3, family, number, lid

MCCall == {c1, c2, c3}
MCRecipient == {family, number, lid}
MCGroup == {family}
MCNumberOf == [r \in MCRecipient |-> IF r = lid THEN number ELSE r]
CallSymmetry == Permutations(MCCall)

\* Sends to a group and to somebody addressed by LID, who may have written to us
\* under either address or not, the operator's override, and a tool the limiter does
\* not see.
MixedCalls ==
    {[tool |-> "send", to |-> r, bypass |-> FALSE] : r \in {family, lid}}
    \union {[tool |-> "send", to |-> lid, bypass |-> TRUE],
            [tool |-> "reply", to |-> family, bypass |-> FALSE]}

StoreMayFail == BOOLEAN

===============================================================================
