---------------------------- MODULE MCMessageStore ----------------------------
\* Small traffic for MessageStore.
EXTENDS MessageStore

CONSTANTS ann, bob, club, yes, no

Pn(p) == [who |-> p, form |-> "pn"]
Lid(p) == [who |-> p, form |-> "lid"]
On(address, device) == [who |-> address.who, form |-> address.form, device |-> device]

Text(id, chat, from, at) ==
    [kind |-> "text", id |-> id, chat |-> chat, from |-> from, at |-> at, picks |-> {}]
Poll(id, chat, from, at) ==
    [kind |-> "poll", id |-> id, chat |-> chat, from |-> from, at |-> at, picks |-> {}]
Ballot(id, chat, from, at, picks) ==
    [kind |-> "vote", id |-> id, chat |-> chat, from |-> from, at |-> at, picks |-> picks]

MCPerson == {ann, bob}
MCGroup == {club}
MCMapped == {ann}
MCOption == {yes, no}

ClubPoll == Poll("poll", club, On(Lid(bob), 0), 0)
Hello == Text("hello", Lid(ann), On(Lid(ann), 0), 0)
Bye == Text("bye", Lid(ann), On(Lid(ann), 0), 1)

\* A poll in the group, on which ann votes under both of her addresses and bob
\* with a clock that is ahead; ann writes and is sent a poll of ours.
MixedEvents ==
    {ClubPoll, Hello, Bye,
     Ballot("poll", club, On(Lid(ann), 1), 0, {yes}),
     Ballot("poll", club, On(Pn(ann), 0), 1, {no}),
     Ballot("poll", club, On(Lid(bob), 0), 2, {yes})}
MixedConversations == {<<Bye, Hello>>, <<ClubPoll>>}
MixedCalls == {[id |-> "own", to |-> Pn(ann), poll |-> TRUE]}

\* ann votes from her phone and from a second device.
DeviceEvents ==
    {ClubPoll,
     Ballot("poll", club, On(Pn(ann), 0), 0, {yes}),
     Ballot("poll", club, On(Pn(ann), 1), 1, {no})}

StoreWorks == {TRUE}
StoreMayFail == BOOLEAN
None == {}

===============================================================================
