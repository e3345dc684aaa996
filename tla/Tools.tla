--------------------------------- MODULE Tools ---------------------------------
(***************************************************************************)
(* The tools the MCP server registers (internal/mcp/tools_*.go): what each *)
(* declares of itself, which arguments its handler accepts and which method*)
(* of the client it calls.  MCP clients act on the declarations: they run a*)
(* read-only tool without asking, ask before a destructive one, and repeat *)
(* an idempotent one whose answer was lost.                                *)
(*                                                                         *)
(* A call is a record of the tool, its hints, the tools its description    *)
(* names as the way back, its argument and its outcomes from an account.   *)
(* update_group_participants is module GroupUpdate's; the admission of     *)
(* sends is OutboundSend's.                                                *)
(***************************************************************************)
EXTENDS Account

CONSTANT MaxCalls       \* bound: calls and changes by others

ASSUME CallsAreBounded == MaxCalls \in Nat

VARIABLES account, calls

vars == <<account, calls>>

\* Hints, with whether the description says the tool works while disconnected.
Hints(readOnly, destructive, idempotent) ==
    [readOnly |-> readOnly, destructive |-> destructive, idempotent |-> idempotent,
     offline |-> FALSE]
Reads == Hints(TRUE, FALSE, TRUE)
ReadsCache == [Reads EXCEPT !.offline = TRUE]
Sets == Hints(FALSE, FALSE, TRUE)
Adds == Hints(FALSE, FALSE, FALSE)
Removes == Hints(FALSE, TRUE, TRUE)
Remints == Hints(FALSE, TRUE, FALSE)

Call(tool, hints, back, arg, outcomes) ==
    [tool |-> tool, hints |-> hints, back |-> back, arg |-> arg, outcomes |-> outcomes]

\* requireNonEmpty and the handlers' own tests.
Required(a, arg, outcomes) == IF arg = Blank THEN Refused(a) ELSE outcomes

Input == Text \union {Blank}

-----------------------------------------------------------------------------
(* tools_groups.go                                                         *)

registerCreateGroup(a) ==
    {Call("create_group", Adds, {"leave_group"}, None, CreateGroup(a))}

registerLeaveGroup(a) ==
    {Call("leave_group", Removes, {}, g, LeaveGroup(a, g)) : g \in Group}

registerListGroups(a) == {Call("list_groups", Reads, {}, None, ListJoinedGroups(a))}

registerGetGroupInfo(a) ==
    {Call("get_group_info", Reads, {}, g, GetGroupInfoJSON(a, g)) : g \in Group}

\* Bug: the name is not required.
registerSetGroupNameBlank(a) ==
    {Call("set_group_name", Sets, {"set_group_name"}, n, SetGroupName(a, n)) : n \in Input}

registerSetGroupName(a) ==
    {Call("set_group_name", Sets, {"set_group_name"}, n,
          Required(a, n, SetGroupName(a, n))) : n \in Input}

\* Bug: the topic is required as the name is.
registerSetGroupTopicRequired(a) ==
    {Call("set_group_topic", Sets, {"set_group_topic"}, t,
          Required(a, t, SetGroupTopic(a, t))) : t \in Input}

registerSetGroupTopic(a) ==
    {Call("set_group_topic", Sets, {"set_group_topic"}, t, SetGroupTopic(a, t)) : t \in Input}

registerSetGroupAnnounce(a) ==
    {Call("set_group_announce", Sets, {"set_group_announce"}, b, SetGroupAnnounce(a, b)) :
        b \in BOOLEAN}

registerSetGroupLocked(a) ==
    {Call("set_group_locked", Sets, {"set_group_locked"}, b, SetGroupLocked(a, b)) :
        b \in BOOLEAN}

\* Bug: the hints describe the call that does not reset the link.
registerGetGroupInviteLinkMild(a) ==
    {Call("get_group_invite_link", Sets, {}, r, GetGroupInviteLink(a, r)) : r \in BOOLEAN}

registerGetGroupInviteLink(a) ==
    {Call("get_group_invite_link", Remints, {}, r, GetGroupInviteLink(a, r)) : r \in BOOLEAN}

registerJoinGroupWithLink(a) ==
    {Call("join_group_with_link", Sets, {"leave_group"}, n, JoinGroupWithLink(a, n)) :
        n \in 1 .. MaxLinks}

-----------------------------------------------------------------------------
(* tools_privacy.go                                                        *)

registerGetBlocklist(a) == {Call("get_blocklist", Reads, {}, None, GetBlocklist(a))}

registerBlockContact(a) ==
    {Call("block_contact", Sets, {"unblock_contact"}, None, updateBlocklist(a, TRUE))}

registerUnblockContact(a) ==
    {Call("unblock_contact", Sets, {"block_contact"}, None, updateBlocklist(a, FALSE))}

registerSendPresence(a) ==
    {Call("send_presence", Sets, {"send_presence"}, s, SendPresence(a, s)) :
        s \in {"available", "unavailable"}}

registerGetPrivacySettings(a) ==
    {Call("get_privacy_settings", Reads, {}, None, GetPrivacySettings(a))}

registerSetPrivacySetting(a) ==
    {Call("set_privacy_setting", Sets, {"set_privacy_setting"}, v,
          Required(a, v, SetPrivacySetting(a, v))) : v \in Input}

registerSetStatusMessage(a) ==
    {Call("set_status_message", Sets, {"set_status_message"}, t, SetStatusMessage(a, t)) :
        t \in Input}

-----------------------------------------------------------------------------
(* tools_send.go and tools_media.go                                        *)

\* maybeMarkChatRead: after a success, and its own failure is not reported.
maybeMarkChatRead(outcomes, enabled) ==
    outcomes \union
        IF ~enabled THEN {}
        ELSE UNION {{[ok |-> TRUE, to |-> m.to] : m \in MarkChatRead(o.to)} :
                        o \in {p \in outcomes : p.ok}}

\* A send: its reply carries the id, and the way back is to revoke the message.
SendTool(a, tool, read, body) ==
    Call(tool, Adds, {"delete_message"}, <<read, body>>,
         Required(a, body, maybeMarkChatRead(Post(a, body, TRUE, TRUE), read)))

registerSendMessage(a) ==
    {SendTool(a, "send_message", read, t) : read \in BOOLEAN, t \in Text}

registerSendFile(a) ==
    {SendTool(a, "send_file", read, t) : read \in BOOLEAN, t \in Input}

registerSendAudioMessage(a) ==
    {SendTool(a, "send_audio_message", read, t) : read \in BOOLEAN, t \in Input}

registerSendReaction(a) ==
    {Call("send_reaction", Sets, {"send_reaction"}, e, SendReaction(a, e)) :
        e \in Text \union {None}}

registerSendReply(a) ==
    {Call("send_reply", Adds, {"delete_message"}, t, SendReply(a, t)) : t \in Text}

registerSendTyping(a) ==
    {Call("send_typing", Sets, {"send_typing"}, b, SendTyping(a, b)) : b \in BOOLEAN}

\* Bug: the hints of send_poll_vote.
registerSendPollSettled(a) ==
    {Call("send_poll", Sets, {"delete_message"}, q, Required(a, q, SendPoll(a, q))) :
        q \in Input}

registerSendPoll(a) ==
    {Call("send_poll", Adds, {"delete_message"}, q, Required(a, q, SendPoll(a, q))) :
        q \in Input}

\* The handler refuses an empty list of options.
registerSendPollVote(a) ==
    {Call("send_poll_vote", Sets, {"send_poll_vote"}, o,
          IF o = None THEN Refused(a) ELSE SendPollVote(a, o)) : o \in Text \union {None}}

registerGetPollResults(a) == {Call("get_poll_results", ReadsCache, {}, None, ReadCache(a))}

registerSendContactCard(a) ==
    {Call("send_contact_card", Adds, {"delete_message"}, n,
          Required(a, n, SendContactCard(a, n))) : n \in Input}

-----------------------------------------------------------------------------
(* tools_message.go                                                        *)

registerEditMessage(a) ==
    {Call("edit_message", Removes, {"edit_message"}, <<i, t>>, EditMessage(a, i, t)) :
        i \in Nameable(a), t \in Text}

registerDeleteMessage(a) ==
    {Call("delete_message", Removes, {}, i, DeleteMessage(a, i)) : i \in Nameable(a)}

registerMarkRead(a) ==
    {Call("mark_read", Sets, {}, ids, MarkRead(a, ids)) : ids \in SUBSET Incoming}

registerMarkChatRead(a) == {Call("mark_chat_read", Sets, {}, None, MarkChatRead(a))}

registerRequestSync(a) == {Call("request_sync", Sets, {}, None, RequestHistorySync(a))}

registerDownloadMedia(a) == {Call("download_media", Sets, {}, None, Download(a))}

-----------------------------------------------------------------------------
(* tools_query.go                                                          *)

registerSearchContacts(a) == {Call("search_contacts", ReadsCache, {}, None, ReadCache(a))}

registerListMessages(a) == {Call("list_messages", ReadsCache, {}, None, ReadCache(a))}

registerListChats(a) == {Call("list_chats", ReadsCache, {}, None, ReadCache(a))}

registerGetChat(a) == {Call("get_chat", ReadsCache, {}, None, ReadCache(a))}

registerGetMessageContext(a) ==
    {Call("get_message_context", ReadsCache, {}, None, ReadCache(a))}

registerIsOnWhatsApp(a) == {Call("is_on_whatsapp", Reads, {}, None, IsOnWhatsApp(a))}

\* get_status and pairing_status look at the process alone.
registerGetStatus(a) == {Call("get_status", Reads, {}, None, ReadCache(a))}

-----------------------------------------------------------------------------
(* The server                                                              *)

GroupTools(a) ==
    registerCreateGroup(a) \union registerLeaveGroup(a) \union registerListGroups(a)
        \union registerGetGroupInfo(a) \union registerSetGroupName(a)
        \union registerSetGroupTopic(a) \union registerSetGroupAnnounce(a)
        \union registerSetGroupLocked(a) \union registerGetGroupInviteLink(a)
        \union registerJoinGroupWithLink(a)

PrivacyTools(a) ==
    registerGetBlocklist(a) \union registerBlockContact(a) \union registerUnblockContact(a)
        \union registerSendPresence(a) \union registerGetPrivacySettings(a)
        \union registerSetPrivacySetting(a) \union registerSetStatusMessage(a)

SendTools(a) ==
    registerSendMessage(a) \union registerSendFile(a) \union registerSendAudioMessage(a)
        \union registerSendReaction(a) \union registerSendReply(a) \union registerSendTyping(a)
        \union registerSendPoll(a) \union registerSendPollVote(a)
        \union registerGetPollResults(a) \union registerSendContactCard(a)

MessageTools(a) ==
    registerEditMessage(a) \union registerDeleteMessage(a) \union registerMarkRead(a)
        \union registerMarkChatRead(a) \union registerRequestSync(a)
        \union registerDownloadMedia(a)

QueryTools(a) ==
    registerSearchContacts(a) \union registerListMessages(a) \union registerListChats(a)
        \union registerGetChat(a) \union registerGetMessageContext(a)
        \union registerIsOnWhatsApp(a) \union registerGetStatus(a)

registerTools(a) ==
    GroupTools(a) \union PrivacyTools(a) \union SendTools(a) \union MessageTools(a)
        \union QueryTools(a)

Init ==
    /\ calls = 0
    /\ account \in [online : BOOLEAN, groups : {{HomeGroup}}, made : {{HomeGroup}},
                    title : Text, topic : {Blank}, announce : {FALSE}, locked : {FALSE},
                    link : {1}, blocked : {FALSE}, presence : {"available"},
                    privacy : Text, about : {Blank}, typing : {FALSE},
                    reaction : {None}, vote : {None}, acked : {{}}, sent : {<< >>},
                    asked : {0}, downloaded : {FALSE}]

Invoke ==
    /\ calls < MaxCalls
    /\ calls' = calls + 1
    /\ \E c \in registerTools(account) : \E o \in c.outcomes : account' = o.to

\* The connection drops or comes back; another admin changes the group or puts the
\* user out of it, another device reads.
Others ==
    /\ calls < MaxCalls
    /\ calls' = calls + 1
    /\ \/ account' = [account EXCEPT !.online = ~@]
       \/ \E t \in Text : account' = [account EXCEPT !.title = t]
       \/ account' = [account EXCEPT !.groups = @ \ {HomeGroup}]
       \/ \E m \in Incoming : account' = [account EXCEPT !.acked = @ \union {m}]

Next == Invoke \/ Others

Spec == Init /\ [][Next]_vars

-------------------------------------------------------------------------------
(* Properties: of every call that could be made next.                       *)

TypeOK == account \in AccountType /\ calls \in 0 .. MaxCalls

\* A message that is revoked is as good as not sent.
Shown(sent) == [i \in {j \in DOMAIN sent : sent[j].body # Revoked} |-> sent[i]]

\* What one can see of an account: chats made and receipts sent stay whatever is
\* undone.
Visible(a) == [a EXCEPT !.made = {}, !.acked = {}, !.sent = Shown(@)]

\* Nothing that was there is gone: messages, receipts and memberships were added, a
\* first vote or reaction given.
IsAdditive(a, b) ==
    /\ a.groups \subseteq b.groups /\ a.acked \subseteq b.acked
    /\ a.sent = SubSeq(b.sent, 1, Len(a.sent))
    /\ \A f \in {"title", "topic", "announce", "locked", "link", "blocked", "presence",
                 "privacy", "about", "typing"} : b[f] = a[f]
    /\ \A f \in {"reaction", "vote"} : a[f] \in {None, b[f]}

\* A call that leads back to an account.
Undoes(c, a) == \E o \in c.outcomes : o.ok /\ Visible(o.to) = Visible(a)

\* A tool declared read-only changes nothing, whatever becomes of its request, one
\* said to work while disconnected does, and one not declared destructive only adds,
\* or changes what a further call can put back.  leave_group and
\* get_group_invite_link, which can reset the link, are declared destructive
\* (tools_groups.go:67, 282): what they take away no tool brings back for certain.
HintsAreTrue ==
    \A c \in registerTools(account) :
        /\ c.hints.readOnly => \A o \in c.outcomes : o.to = account
        /\ c.hints.offline => \E o \in c.outcomes : o.ok
        /\ ~c.hints.destructive /\ account.online =>
               \A o \in c.outcomes :
                   \/ IsAdditive(account, o.to)
                   \/ \E d \in registerTools(o.to) : Undoes(d, account)

\* A tool declared idempotent may be called again by a client that lost the answer:
\* from whatever the first call left, half its receipts sent or its request answered
\* and not heard, the same call leads to no account the first could not have led to.
\* request_sync is not so: the phone answers every request (see the README).
RepeatsSettle ==
    \A c \in {d \in registerTools(account) : d.hints.idempotent /\ d.tool # "request_sync"} :
        \A o \in c.outcomes :
            \A again \in {d \in registerTools(o.to) : d.tool = c.tool /\ d.arg = c.arg} :
                {p.to : p \in again.outcomes} \subseteq {p.to : p \in c.outcomes}

\* What a description calls reversible, and names the tool for, is so after every
\* success: also with a blank text to go back to, a row that could not be stored or a
\* state another admin had left.  send_reply and send_poll_vote do not keep their
\* promise (see the README).
UndoneAsPromised ==
    \A c \in {d \in registerTools(account) :
                 d.back # {} /\ d.tool \notin {"send_reply", "send_poll_vote"}} :
        \A o \in c.outcomes :
            o.ok /\ Visible(o.to) # Visible(account) =>
                \E d \in registerTools(o.to) : d.tool \in c.back /\ Undoes(d, account)

===============================================================================
