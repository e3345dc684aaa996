------------------------------ MODULE ToolsProofs ------------------------------
(***************************************************************************)
(* Theorems about Tools: what the declarations of the tools promise holds  *)
(* of every account, for any groups, texts, messages and bounds.  Part 1   *)
(* says what changing a field of an account does, part 2 what a call's     *)
(* outcome is; parts 3 to 6 say of each family of tools what its calls     *)
(* leave, whether they settle and what takes them back; part 7 puts the    *)
(* tools together into the four properties of the specification.           *)
(***************************************************************************)
EXTENDS Tools, SequenceTheorems, TLAPS

-------------------------------------------------------------------------------
(* Part 1: accounts.                                                       *)

Fields == {"online", "groups", "made", "title", "topic", "announce", "locked", "link",
           "blocked", "presence", "privacy", "about", "typing", "reaction", "vote",
           "acked", "sent", "asked", "downloaded"}

\* The groups the user is in, and the home group, are among those made: what
\* create_group makes is new.
Sound == {a \in AccountType : a.groups \union {HomeGroup} \subseteq a.made}

LEMMA AccountDomain ==
    ASSUME NEW a \in AccountType
    PROVE  DOMAIN a = Fields
BY DEF AccountType, Fields

\* Accounts with the same fields are the same.
LEMMA SameFields ==
    ASSUME NEW a \in AccountType, NEW b \in AccountType, \A f \in Fields : a[f] = b[f]
    PROVE  a = b
BY DEF AccountType, Fields

Put(a, f, x) == [a EXCEPT ![f] = x]

\* Changing one field twice, and changing it back.
LEMMA ChangedTwice ==
    ASSUME NEW a \in AccountType, NEW f \in Fields, NEW x
    PROVE  /\ Put(a, f, x)[f] = x
           /\ \A g \in Fields \ {f} : Put(a, f, x)[g] = a[g]
           /\ Put(Put(a, f, x), f, x) = Put(a, f, x)
           /\ Put(Put(a, f, x), f, a[f]) = a
           /\ Put(a, f, a[f]) = a
<1>1. /\ [a EXCEPT ![f] = x][f] = x
      /\ \A g \in Fields \ {f} : [a EXCEPT ![f] = x][g] = a[g]
      /\ [[a EXCEPT ![f] = x] EXCEPT ![f] = x] = [a EXCEPT ![f] = x]
  BY AccountDomain
<1>2. [[a EXCEPT ![f] = x] EXCEPT ![f] = a[f]] = a /\ [a EXCEPT ![f] = a[f]] = a
  BY DEF AccountType, Fields
<1> QED
  BY <1>1, <1>2 DEF Put

\* Changed fields of the right type.
LEMMA Retyped ==
    ASSUME NEW a \in AccountType
    PROVE  /\ \A x \in BOOLEAN :
                 /\ Put(a, "online", x) \in AccountType
                 /\ Put(a, "announce", x) \in AccountType
                 /\ Put(a, "locked", x) \in AccountType
                 /\ Put(a, "blocked", x) \in AccountType
                 /\ Put(a, "typing", x) \in AccountType
                 /\ Put(a, "downloaded", x) \in AccountType
           /\ \A x \in Text :
                 /\ Put(a, "title", x) \in AccountType
                 /\ Put(a, "privacy", x) \in AccountType
           /\ \A x \in Text \union {Blank} :
                 /\ Put(a, "topic", x) \in AccountType
                 /\ Put(a, "about", x) \in AccountType
           /\ \A x \in Text \union {None} :
                 /\ Put(a, "reaction", x) \in AccountType
                 /\ Put(a, "vote", x) \in AccountType
           /\ \A x \in SUBSET Group : Put(a, "groups", x) \in AccountType
           /\ \A x \in 1 .. MaxLinks : Put(a, "link", x) \in AccountType
           /\ \A x \in {"available", "unavailable"} :
                 Put(a, "presence", x) \in AccountType
           /\ \A x \in SUBSET Incoming : Put(a, "acked", x) \in AccountType
           /\ \A x \in Seq(Sent) : Put(a, "sent", x) \in AccountType
           /\ \A x \in 0 .. MaxAsked : Put(a, "asked", x) \in AccountType
<1>1. ASSUME NEW x \in BOOLEAN
      PROVE  /\ Put(a, "online", x) \in AccountType
             /\ Put(a, "announce", x) \in AccountType
             /\ Put(a, "locked", x) \in AccountType
             /\ Put(a, "blocked", x) \in AccountType
             /\ Put(a, "typing", x) \in AccountType
             /\ Put(a, "downloaded", x) \in AccountType
  BY DEF AccountType, Put
<1>2. ASSUME NEW x \in Text
      PROVE  Put(a, "title", x) \in AccountType /\ Put(a, "privacy", x) \in AccountType
  BY DEF AccountType, Put
<1>3. ASSUME NEW x \in Text \union {Blank}
      PROVE  Put(a, "topic", x) \in AccountType /\ Put(a, "about", x) \in AccountType
  BY DEF AccountType, Put
<1>4. ASSUME NEW x \in Text \union {None}
      PROVE  Put(a, "reaction", x) \in AccountType /\ Put(a, "vote", x) \in AccountType
  BY DEF AccountType, Put
<1>5. /\ \A x \in SUBSET Group : Put(a, "groups", x) \in AccountType
      /\ \A x \in 1 .. MaxLinks : Put(a, "link", x) \in AccountType
      /\ \A x \in {"available", "unavailable"} :
            Put(a, "presence", x) \in AccountType
      /\ \A x \in SUBSET Incoming : Put(a, "acked", x) \in AccountType
  BY DEF AccountType, Put
<1>6. /\ \A x \in Seq(Sent) : Put(a, "sent", x) \in AccountType
      /\ \A x \in 0 .. MaxAsked : Put(a, "asked", x) \in AccountType
  BY DEF AccountType, Put
<1> QED
  BY <1>1, <1>2, <1>3, <1>4, <1>5, <1>6

\* Accounts that agree on all but chats made, receipts and revoked messages look alike.
LEMMA LookAlike ==
    ASSUME NEW a \in AccountType, NEW b \in AccountType,
           \A f \in Fields \ {"made", "acked", "sent"} : b[f] = a[f],
           Shown(b.sent) = Shown(a.sent)
    PROVE  Visible(b) = Visible(a)
BY DEF AccountType, Fields, Visible

-------------------------------------------------------------------------------
(* Part 2: outcomes.                                                       *)

LEMMA RefusedOutcome ==
    ASSUME NEW a, NEW o \in Refused(a)
    PROVE  o.to = a /\ ~o.ok
BY DEF Refused

LEMMA AskOutcome ==
    ASSUME NEW a, NEW T, NEW o \in Ask(a, T)
    PROVE  /\ o.to = a \/ (a.online /\ o.to \in T)
           /\ o.ok => a.online /\ o.to \in T
BY DEF Refused, Ask

LEMMA AskGroupOutcome ==
    ASSUME NEW a, NEW g, NEW T, NEW o \in AskGroup(a, g, T)
    PROVE  /\ o.to = a \/ (a.online /\ g \in a.groups /\ o.to \in T)
           /\ o.ok => a.online /\ g \in a.groups /\ o.to \in T
BY DEF Refused, Ask, AskGroup

LEMMA Granted ==
    ASSUME NEW a, NEW T, NEW t \in T, a.online
    PROVE  /\ [ok |-> TRUE, to |-> t] \in Ask(a, T)
           /\ \A g \in a.groups : [ok |-> TRUE, to |-> t] \in AskGroup(a, g, T)
BY DEF Ask, AskGroup

\* A new message.
Posted(a, body, told, cached) ==
    [a EXCEPT !.sent = Append(@, [body |-> body, told |-> told, cached |-> cached])]

LEMMA PostOutcome ==
    ASSUME NEW a, NEW body, NEW tells \in BOOLEAN, NEW keeps \in BOOLEAN,
           NEW o \in Post(a, body, tells, keeps)
    PROVE  \/ o.to = a /\ ~o.ok
           \/ /\ a.online
              /\ \E told, cached \in BOOLEAN :
                    o.to = Posted(a, body, told, cached) /\ (o.ok => told = tells)
<1>1. CASE ~a.online \/ Len(a.sent) = MaxSent
  BY <1>1, RefusedOutcome DEF Post
<1>2. CASE a.online /\ Len(a.sent) # MaxSent
  <2>1. o \in Refused(a)
             \union {[ok |-> FALSE, to |-> Posted(a, body, FALSE, FALSE)]}
             \union {[ok |-> TRUE, to |-> Posted(a, body, tells, c)] :
                         c \in IF keeps THEN BOOLEAN ELSE {FALSE}}
    BY <1>2 DEF Post, Posted
  <2>2. CASE o \in Refused(a)
    BY <2>2, RefusedOutcome
  <2>3. CASE o = [ok |-> FALSE, to |-> Posted(a, body, FALSE, FALSE)]
    BY <1>2, <2>3
  <2>4. CASE \E c \in BOOLEAN : o = [ok |-> TRUE, to |-> Posted(a, body, tells, c)]
    BY <1>2, <2>4
  <2> QED
    BY <2>1, <2>2, <2>3, <2>4
<1> QED
  BY <1>1, <1>2

\* Receipts and nothing else.
Acked(a, ids) == [a EXCEPT !.acked = ids]

LEMMA MarkChatReadOutcome ==
    ASSUME NEW a, NEW o \in MarkChatRead(a), a.acked \subseteq Incoming
    PROVE  \/ o.to = a /\ ~o.ok
           \/ /\ a.online
              /\ \E ids \in SUBSET Incoming : a.acked \subseteq ids /\ o.to = Acked(a, ids)
<1> DEFINE Of(done) == {m \in Incoming : m.from \in done}
<1>1. CASE ~a.online
  BY <1>1, RefusedOutcome DEF MarkChatRead
<1>2. CASE a.online
  <2>1. o \in {[ok |-> FALSE, to |-> Acked(a, a.acked \union Of(done))] :
                   done \in SUBSET {m.from : m \in Incoming}}
              \union {[ok |-> TRUE, to |-> Acked(a, Incoming)]}
    BY <1>2 DEF MarkChatRead, Acked
  <2>2. \A done : Of(done) \in SUBSET Incoming
    OBVIOUS
  <2> HIDE DEF Of
  <2>3. \/ o.to = Acked(a, Incoming)
        \/ \E done : o.to = Acked(a, a.acked \union Of(done))
    BY <2>1
  <2>4. \A done : /\ a.acked \union Of(done) \in SUBSET Incoming
                  /\ a.acked \subseteq a.acked \union Of(done)
    BY <2>2
  <2> QED
    BY <1>2, <2>3, <2>4
<1> QED
  BY <1>1, <1>2

-------------------------------------------------------------------------------
(* Part 3: the tools that set one field and can set it back.               *)

\* The field each of them sets, and the values it accepts.
SettingOf ==
    [set_group_name |-> "title", set_group_topic |-> "topic",
     set_group_announce |-> "announce", set_group_locked |-> "locked",
     send_presence |-> "presence", set_privacy_setting |-> "privacy",
     set_status_message |-> "about", send_reaction |-> "reaction",
     send_typing |-> "typing", send_poll_vote |-> "vote"]

Accepted ==
    [set_group_name |-> Text, set_group_topic |-> Text \union {Blank},
     set_group_announce |-> BOOLEAN, set_group_locked |-> BOOLEAN,
     send_presence |-> {"available", "unavailable"}, set_privacy_setting |-> Text,
     set_status_message |-> Text \union {Blank}, send_reaction |-> Text \union {None},
     send_typing |-> BOOLEAN, send_poll_vote |-> Text]

SetterNames == DOMAIN SettingOf

\* What they ask of WhatsApp.
Setting(a, tool, x) ==
    IF tool \in {"set_group_name", "set_group_topic", "set_group_announce",
                 "set_group_locked"}
    THEN AskGroup(a, HomeGroup, {Put(a, SettingOf[tool], x)})
    ELSE Ask(a, {Put(a, SettingOf[tool], x)})

Setters(a) ==
    registerSetGroupName(a) \union registerSetGroupTopic(a)
        \union registerSetGroupAnnounce(a) \union registerSetGroupLocked(a)
        \union registerSendPresence(a) \union registerSetPrivacySetting(a)
        \union registerSetStatusMessage(a) \union registerSendReaction(a)
        \union registerSendTyping(a) \union registerSendPollVote(a)

SetterCall(a, tool, x) ==
    Call(tool, Sets, {tool}, x,
         IF x \in Accepted[tool] THEN Setting(a, tool, x) ELSE Refused(a))

\* Their handlers are these calls.
LEMMA SettersSet ==
    ASSUME NEW a
    PROVE  /\ \A c \in Setters(a) : c.tool \in SetterNames /\ c = SetterCall(a, c.tool, c.arg)
           /\ \A tool \in SetterNames : \A x \in Accepted[tool] :
                 SetterCall(a, tool, x) \in Setters(a)
<1>0. \A tool, x : /\ SetterCall(a, tool, x).tool = tool
                   /\ SetterCall(a, tool, x).arg = x
  BY DEF SetterCall, Call
<1>1. registerSetGroupName(a) = {SetterCall(a, "set_group_name", n) : n \in Input}
  <2>1. \A n \in Input : Required(a, n, SetGroupName(a, n)) =
           IF n \in Text THEN Setting(a, "set_group_name", n) ELSE Refused(a)
    BY AccountConstants DEF Input, Required, SetGroupName, Setting, SettingOf, Put
  <2> QED
    BY <2>1 DEF registerSetGroupName, SetterCall, Accepted
<1>2. registerSetGroupTopic(a) =
         {SetterCall(a, "set_group_topic", t) : t \in Text \union {Blank}}
  BY DEF registerSetGroupTopic, Input, SetterCall, SetGroupTopic, Setting, SettingOf, Put,
         Accepted
<1>3. registerSetGroupAnnounce(a) = {SetterCall(a, "set_group_announce", b) : b \in BOOLEAN}
  BY DEF registerSetGroupAnnounce, SetterCall, SetGroupAnnounce, Setting, SettingOf, Put,
         Accepted
<1>4. registerSetGroupLocked(a) = {SetterCall(a, "set_group_locked", b) : b \in BOOLEAN}
  BY DEF registerSetGroupLocked, SetterCall, SetGroupLocked, Setting, SettingOf, Put,
         Accepted
<1>5. registerSendPresence(a) =
         {SetterCall(a, "send_presence", s) : s \in {"available", "unavailable"}}
  BY DEF registerSendPresence, SetterCall, SendPresence, Setting, SettingOf, Put, Accepted
<1>6. registerSetPrivacySetting(a) = {SetterCall(a, "set_privacy_setting", v) : v \in Input}
  <2>1. \A v \in Input : Required(a, v, SetPrivacySetting(a, v)) =
           IF v \in Text THEN Setting(a, "set_privacy_setting", v) ELSE Refused(a)
    BY AccountConstants DEF Input, Required, SetPrivacySetting, Setting, SettingOf, Put
  <2> QED
    BY <2>1 DEF registerSetPrivacySetting, SetterCall, Accepted
<1>7. registerSetStatusMessage(a) =
         {SetterCall(a, "set_status_message", t) : t \in Text \union {Blank}}
  BY DEF registerSetStatusMessage, Input, SetterCall, SetStatusMessage, Setting, SettingOf,
         Put, Accepted
<1>8. registerSendReaction(a) = {SetterCall(a, "send_reaction", e) : e \in Text \union {None}}
  BY DEF registerSendReaction, SetterCall, SendReaction, Setting, SettingOf, Put, Accepted
<1>9. registerSendTyping(a) = {SetterCall(a, "send_typing", b) : b \in BOOLEAN}
  BY DEF registerSendTyping, SetterCall, SendTyping, Setting, SettingOf, Put, Accepted
<1>10. registerSendPollVote(a) =
          {SetterCall(a, "send_poll_vote", o) : o \in Text \union {None}}
  <2>1. \A o \in Text \union {None} : (IF o = None THEN Refused(a) ELSE SendPollVote(a, o)) =
           IF o \in Text THEN Setting(a, "send_poll_vote", o) ELSE Refused(a)
    BY AccountConstants DEF SendPollVote, Setting, SettingOf, Put
  <2> QED
    BY <2>1 DEF registerSendPollVote, SetterCall, Accepted
<1>11. SetterNames = {"set_group_name", "set_group_topic", "set_group_announce",
                      "set_group_locked", "send_presence", "set_privacy_setting",
                      "set_status_message", "send_reaction", "send_typing",
                      "send_poll_vote"}
  BY DEF SetterNames, SettingOf
<1>12. \A c \in Setters(a) : \E tool \in SetterNames : \E x : c = SetterCall(a, tool, x)
  BY <1>1, <1>2, <1>3, <1>4, <1>5, <1>6, <1>7, <1>8, <1>9, <1>10, <1>11 DEF Setters
<1>13. ASSUME NEW tool \in SetterNames, NEW x \in Accepted[tool]
       PROVE  SetterCall(a, tool, x) \in Setters(a)
  BY <1>1, <1>2, <1>3, <1>4, <1>5, <1>6, <1>7, <1>8, <1>9, <1>10, <1>11
     DEF Setters, Accepted, Input
<1> QED
  BY <1>0, <1>12, <1>13

\* A value of the field is one the tool accepts, but for the poll not yet voted on.
LEMMA AcceptedFits ==
    ASSUME NEW a \in AccountType, NEW tool \in SetterNames
    PROVE  /\ SettingOf[tool] \in {"title", "topic", "announce", "locked", "presence",
                                   "privacy", "about", "reaction", "typing", "vote"}
           /\ SettingOf[tool] \in Fields \ {"online", "groups", "made"}
           /\ \A x \in Accepted[tool] : Put(a, SettingOf[tool], x) \in AccountType
           /\ \/ a[SettingOf[tool]] \in Accepted[tool]
              \/ tool = "send_poll_vote" /\ a.vote = None
<1> DEFINE f == SettingOf[tool]
<1>1. tool \in {"set_group_name", "set_group_topic", "set_group_announce",
                "set_group_locked", "send_presence", "set_privacy_setting",
                "set_status_message", "send_reaction", "send_typing", "send_poll_vote"}
  BY DEF SetterNames, SettingOf
<1>2. SettingOf[tool] \in {"title", "topic", "announce", "locked", "presence",
                           "privacy", "about", "reaction", "typing", "vote"}
  BY <1>1 DEF SettingOf
<1>3. \/ f \in {"announce", "locked", "typing"} /\ Accepted[tool] = BOOLEAN
      \/ f \in {"title", "privacy"} /\ Accepted[tool] = Text
      \/ f \in {"topic", "about"} /\ Accepted[tool] = Text \union {Blank}
      \/ f = "presence" /\ Accepted[tool] = {"available", "unavailable"}
      \/ f = "reaction" /\ Accepted[tool] = Text \union {None}
      \/ f = "vote" /\ Accepted[tool] = Text /\ tool = "send_poll_vote"
  BY <1>1 DEF SettingOf, Accepted
<1> HIDE DEF f
<1>4. ASSUME NEW x \in Accepted[tool]
      PROVE  Put(a, f, x) \in AccountType
  <2>1. CASE f \in {"announce", "locked", "typing"} /\ Accepted[tool] = BOOLEAN
    BY <2>1, Retyped
  <2>2. CASE f \in {"title", "privacy"} /\ Accepted[tool] = Text
    BY <2>2, Retyped
  <2>3. CASE f \in {"topic", "about"} /\ Accepted[tool] = Text \union {Blank}
    BY <2>3, Retyped
  <2>4. CASE f = "presence" /\ Accepted[tool] = {"available", "unavailable"}
    BY <2>4, Retyped
  <2>5. CASE f = "reaction" /\ Accepted[tool] = Text \union {None}
    BY <2>5, Retyped
  <2>6. CASE f = "vote" /\ Accepted[tool] = Text
    BY <2>6, Retyped
  <2> QED
    BY <1>3, <2>1, <2>2, <2>3, <2>4, <2>5, <2>6
<1>5. a[f] \in Accepted[tool] \/ (tool = "send_poll_vote" /\ a.vote = None)
  <2>1. /\ \A g \in {"announce", "locked", "typing"} : a[g] \in BOOLEAN
        /\ \A g \in {"title", "privacy"} : a[g] \in Text
        /\ \A g \in {"topic", "about"} : a[g] \in Text \union {Blank}
        /\ a["presence"] \in {"available", "unavailable"}
        /\ a["reaction"] \in Text \union {None}
        /\ a["vote"] \in Text \union {None} /\ a["vote"] = a.vote
    BY DEF AccountType
  <2> QED
    BY <1>3, <2>1
<1> QED
  BY <1>2, <1>4, <1>5 DEF Fields, f

\* They set that field, of an account that is connected, or change nothing.
LEMMA SetterSets ==
    ASSUME NEW a \in AccountType, NEW c \in Setters(a), NEW o \in c.outcomes
    PROVE  \/ o.to = a
           \/ /\ a.online /\ c.arg \in Accepted[c.tool]
              /\ o.to = Put(a, SettingOf[c.tool], c.arg) /\ o.to \in AccountType
              /\ c.tool \in {"set_group_name", "set_group_topic", "set_group_announce",
                             "set_group_locked"} => HomeGroup \in a.groups
<1>1. c.tool \in SetterNames /\ c = SetterCall(a, c.tool, c.arg)
  BY SettersSet
<1>2. c.outcomes = IF c.arg \in Accepted[c.tool] THEN Setting(a, c.tool, c.arg)
                                                ELSE Refused(a)
  BY <1>1 DEF SetterCall, Call
<1>3. CASE c.arg \notin Accepted[c.tool]
  BY <1>2, <1>3, RefusedOutcome
<1>4. CASE c.arg \in Accepted[c.tool]
  <2>1. Put(a, SettingOf[c.tool], c.arg) \in AccountType
    BY <1>1, <1>4, AcceptedFits
  <2>2. o \in Setting(a, c.tool, c.arg)
    BY <1>2, <1>4
  <2> QED
    BY <1>4, <2>1, <2>2, AskOutcome, AskGroupOutcome DEF Setting
<1> QED
  BY <1>3, <1>4

\* A second call with the value from before leads back.
LEMMA SetterReturns ==
    ASSUME NEW a \in AccountType, NEW c \in Setters(a), NEW o \in c.outcomes,
           o.to # a, ~(c.tool = "send_poll_vote" /\ a.vote = None)
    PROVE  \E d \in Setters(o.to) : d.tool = c.tool /\ Undoes(d, a)
<1> DEFINE f == SettingOf[c.tool]
           b == Put(a, f, c.arg)
           d == SetterCall(b, c.tool, a[f])
<1>1. c.tool \in SetterNames
  BY SettersSet
<1>2. /\ a.online /\ o.to = b /\ b \in AccountType
      /\ c.tool \in {"set_group_name", "set_group_topic", "set_group_announce",
                     "set_group_locked"} => HomeGroup \in a.groups
  BY SetterSets
<1>3. f \in Fields \ {"online", "groups", "made"} /\ a[f] \in Accepted[c.tool]
  BY <1>1, AcceptedFits
<1>4. b.online = a.online /\ b.groups = a.groups /\ Put(b, f, a[f]) = a
  <2> HIDE DEF f
  <2>1. f \in Fields /\ "online" \in Fields \ {f} /\ "groups" \in Fields \ {f}
    BY <1>3 DEF Fields
  <2>2. (\A g \in Fields \ {f} : b[g] = a[g]) /\ Put(b, f, a[f]) = a
    BY <2>1, ChangedTwice
  <2> QED
    BY <2>1, <2>2
<1>5. d \in Setters(o.to) /\ d.tool = c.tool /\ d.outcomes = Setting(b, c.tool, a[f])
  BY <1>1, <1>2, <1>3, SettersSet DEF SetterCall, Call
<1>6. [ok |-> TRUE, to |-> a] \in Setting(b, c.tool, a[f])
  BY <1>2, <1>4, Granted DEF Setting
<1>7. Undoes(d, a)
  BY <1>5, <1>6 DEF Undoes
<1> QED
  BY <1>5, <1>7

\* The same call again leads nowhere new.
LEMMA SetterSettles ==
    ASSUME NEW a \in AccountType, NEW c \in Setters(a), NEW o \in c.outcomes,
           NEW d \in Setters(o.to), d.tool = c.tool, d.arg = c.arg, NEW p \in d.outcomes
    PROVE  \E q \in c.outcomes : q.to = p.to
<1>1. CASE o.to = a
  BY <1>1, SettersSet
<1>2. CASE o.to # a
  <2> DEFINE b == Put(a, SettingOf[c.tool], c.arg)
  <2>1. o.to = b /\ b \in AccountType
    BY <1>2, SetterSets
  <2>2. p.to = b \/ p.to = Put(b, SettingOf[c.tool], c.arg)
    BY <2>1, SetterSets
  <2>3. SettingOf[c.tool] \in Fields
    BY SettersSet, AcceptedFits
  <2>4. Put(b, SettingOf[c.tool], c.arg) = b
    BY <2>1, <2>3, ChangedTwice
  <2> QED
    BY <2>1, <2>2, <2>4
<1> QED
  BY <1>1, <1>2

\* An account with more in it: receipts, memberships, at most one message.
LEMMA MoreOfIt ==
    ASSUME NEW a \in AccountType, NEW b \in AccountType,
           a.groups \subseteq b.groups, a.acked \subseteq b.acked,
           b.sent = a.sent \/ \E s \in Sent : b.sent = Append(a.sent, s),
           a.vote = None \/ b.vote = a.vote,
           \A f \in Fields \ {"groups", "made", "acked", "sent", "vote", "asked",
                              "downloaded"} : b[f] = a[f]
    PROVE  IsAdditive(a, b)
<1>1. a.sent \in Seq(Sent)
  BY DEF AccountType
<1>2. Len(a.sent) \in Nat
  BY <1>1, LenProperties
<1>3. SubSeq(b.sent, 1, Len(a.sent)) = a.sent
  <2>1. CASE b.sent = a.sent
    BY <1>1, <2>1, SubSeqFull
  <2>2. ASSUME NEW s \in Sent, b.sent = Append(a.sent, s)
        PROVE  SubSeq(b.sent, 1, Len(a.sent)) = a.sent
    <3>1. /\ \A i \in 1 .. Len(a.sent) : b.sent[i] = a.sent[i] /\ a.sent[i] \in Sent
      BY <1>1, <2>2, AppendProperties, LenProperties
    <3>2. /\ SubSeq(b.sent, 1, Len(a.sent)) \in Seq(Sent)
          /\ Len(SubSeq(b.sent, 1, Len(a.sent))) =
                IF 1 <= Len(a.sent) THEN Len(a.sent) - 1 + 1 ELSE 0
          /\ \A i \in 1 .. Len(a.sent) - 1 + 1 :
                SubSeq(b.sent, 1, Len(a.sent))[i] = b.sent[1 + i - 1]
      BY <1>2, <3>1, SubSeqProperties
    <3>3. Len(SubSeq(b.sent, 1, Len(a.sent))) = Len(a.sent)
      BY <1>2, <3>2
    <3>4. \A i \in 1 .. Len(a.sent) : SubSeq(b.sent, 1, Len(a.sent))[i] = a.sent[i]
      BY <1>2, <3>1, <3>2
    <3> QED
      BY <1>1, <3>2, <3>3, <3>4, SeqEqual
  <2> QED
    BY <2>1, <2>2
<1>4. \A f \in {"title", "topic", "announce", "locked", "link", "blocked", "presence",
                "privacy", "about", "typing"} : b[f] = a[f]
  BY DEF Fields
<1>5. a["reaction"] \in {None, b["reaction"]} /\ a["vote"] \in {None, b["vote"]}
  BY DEF Fields
<1> QED
  BY <1>3, <1>4, <1>5 DEF IsAdditive

\* A first vote on a poll only adds.
LEMMA FirstVote ==
    ASSUME NEW a \in AccountType, NEW c \in Setters(a), NEW o \in c.outcomes,
           c.tool = "send_poll_vote", a.vote = None
    PROVE  IsAdditive(a, o.to)
<1>1. CASE o.to = a
  BY <1>1, MoreOfIt DEF Fields
<1>2. CASE o.to = Put(a, "vote", c.arg) /\ o.to \in AccountType
  <2>1. \A f \in Fields \ {"vote"} : o.to[f] = a[f]
    BY <1>2, ChangedTwice DEF Fields
  <2>2. /\ o.to.groups = a.groups /\ o.to.acked = a.acked /\ o.to.sent = a.sent
        /\ \A f \in Fields \ {"groups", "made", "acked", "sent", "vote", "asked",
                              "downloaded"} : o.to[f] = a[f]
    BY <2>1 DEF Fields
  <2> QED
    BY <1>2, <2>2, MoreOfIt
<1>3. SettingOf["send_poll_vote"] = "vote"
  BY DEF SettingOf
<1> QED
  BY <1>1, <1>2, <1>3, SetterSets

-------------------------------------------------------------------------------
(* Part 4: the tools that read, and those of the groups and the blocklist. *)

Readers(a) ==
    registerListGroups(a) \union registerGetGroupInfo(a) \union registerGetBlocklist(a)
        \union registerGetPrivacySettings(a) \union registerGetPollResults(a)
        \union registerSearchContacts(a) \union registerListMessages(a)
        \union registerListChats(a) \union registerGetChat(a)
        \union registerGetMessageContext(a) \union registerIsOnWhatsApp(a)
        \union registerGetStatus(a)

\* Whatever becomes of the request, the account is as it was; the cache answers
\* without a connection.
LEMMA ReadersRead ==
    ASSUME NEW a, NEW c \in Readers(a)
    PROVE  /\ \A o \in c.outcomes : o.to = a
           /\ c.hints = Reads \/ c.hints = ReadsCache
           /\ c.back = {}
           /\ c.hints.offline => \E o \in c.outcomes : o.ok
<1>1. \A o \in Ask(a, {a}) : o.to = a
  BY AskOutcome
<1>2. \A g : \A o \in AskGroup(a, g, {a}) : o.to = a
  BY AskGroupOutcome
<1>3. (\A o \in ReadCache(a) : o.to = a) /\ \E o \in ReadCache(a) : o.ok
  BY DEF ReadCache
<1>4. ~Reads.offline
  BY DEF Reads, Hints
<1>5. CASE c \in registerListGroups(a) \union registerGetBlocklist(a)
                     \union registerGetPrivacySettings(a) \union registerIsOnWhatsApp(a)
  BY <1>1, <1>4, <1>5 DEF registerListGroups, registerGetBlocklist,
     registerGetPrivacySettings, registerIsOnWhatsApp, ListJoinedGroups, GetBlocklist,
     GetPrivacySettings, IsOnWhatsApp, Call
<1>6. CASE c \in registerGetGroupInfo(a)
  BY <1>2, <1>4, <1>6 DEF registerGetGroupInfo, GetGroupInfoJSON, Call
<1>7. CASE c \in registerGetPollResults(a) \union registerSearchContacts(a)
                     \union registerListMessages(a) \union registerListChats(a)
                     \union registerGetChat(a) \union registerGetMessageContext(a)
                     \union registerGetStatus(a)
  BY <1>3, <1>7 DEF registerGetPollResults, registerSearchContacts, registerListMessages,
     registerListChats, registerGetChat, registerGetMessageContext, registerGetStatus, Call
<1> QED
  BY <1>5, <1>6, <1>7 DEF Readers

\* A group or two more, or one less.
LEMMA Regrouped ==
    ASSUME NEW a \in AccountType, NEW gs \in SUBSET Group
    PROVE  /\ Put(a, "groups", gs) \in AccountType
           /\ Put(a, "groups", gs).groups = gs
           /\ \A f \in Fields \ {"groups"} : Put(a, "groups", gs)[f] = a[f]
<1>1. Put(a, "groups", gs) \in AccountType
  BY Retyped
<1>2. "groups" \in Fields
  BY DEF Fields
<1> QED
  BY <1>1, <1>2, ChangedTwice

\* Leaving a group that is in, from an account otherwise alike, leads back.
LEMMA LeaveLeadsBack ==
    ASSUME NEW a \in Sound, NEW b \in AccountType, NEW g \in Group, a.online,
           b.groups = a.groups \union {g}, g \notin a.groups,
           \A f \in Fields \ {"groups", "made"} : b[f] = a[f]
    PROVE  \E d \in registerLeaveGroup(b) : d.tool = "leave_group" /\ Undoes(d, a)
<1> DEFINE d == Call("leave_group", Removes, {}, g, LeaveGroup(b, g))
           e == Put(b, "groups", a.groups)
<1>1. a \in AccountType /\ a.groups \in SUBSET Group /\ b.groups \ {g} = a.groups
  BY DEF Sound, AccountType
<1>2. b.online = a.online /\ b.sent = a.sent
  BY DEF Fields
<1>3. e \in AccountType /\ e.groups = a.groups /\ \A f \in Fields \ {"groups"} : e[f] = b[f]
  BY <1>1, Regrouped
<1>4. (\A f \in Fields \ {"made"} : e[f] = a[f])
  BY <1>3 DEF Fields
<1>5. Visible(e) = Visible(a)
  <2>1. \A f \in Fields \ {"made", "acked", "sent"} : e[f] = a[f]
    BY <1>4
  <2>2. e.sent = a.sent
    BY <1>4 DEF Fields
  <2> QED
    BY <1>1, <1>3, <2>1, <2>2, LookAlike
<1>6. [ok |-> TRUE, to |-> e] \in LeaveGroup(b, g)
  <2>1. LeaveGroup(b, g) = AskGroup(b, g, {e})
    BY <1>1 DEF LeaveGroup, Put
  <2>2. b.online /\ g \in b.groups
    BY <1>2
  <2> HIDE DEF e
  <2> QED
    BY <2>1, <2>2, Granted
<1>7. d \in registerLeaveGroup(b) /\ d.tool = "leave_group" /\ d.outcomes = LeaveGroup(b, g)
  BY DEF registerLeaveGroup, Call
<1>8. Undoes(d, a)
  BY <1>5, <1>6, <1>7 DEF Undoes
<1> QED
  BY <1>7, <1>8

\* create_group adds a chat that was never there.
Created(a, g) == [a EXCEPT !.groups = @ \union {g}, !.made = @ \union {g}]

LEMMA CreatedAccount ==
    ASSUME NEW a \in AccountType, NEW g \in Group
    PROVE  /\ Created(a, g) \in AccountType
           /\ Created(a, g).groups = a.groups \union {g}
           /\ Created(a, g).made = a.made \union {g}
           /\ \A f \in Fields \ {"groups", "made"} : Created(a, g)[f] = a[f]
<1>1. \A x, y \in SUBSET Group : [a EXCEPT !.groups = x, !.made = y] \in AccountType
  BY DEF AccountType
<1>2. a.groups \union {g} \in SUBSET Group /\ a.made \union {g} \in SUBSET Group
  BY DEF AccountType
<1>3. Created(a, g) \in AccountType
  BY <1>1, <1>2 DEF Created
<1>4. /\ Created(a, g).groups = a.groups \union {g}
      /\ Created(a, g).made = a.made \union {g}
      /\ \A f \in Fields \ {"groups", "made"} : Created(a, g)[f] = a[f]
  BY AccountDomain DEF Created, Fields
<1> QED
  BY <1>3, <1>4

LEMMA CreateGroupAdds ==
    ASSUME NEW a \in Sound, NEW c \in registerCreateGroup(a), NEW o \in c.outcomes
    PROVE  /\ o.to \in Sound /\ IsAdditive(a, o.to)
           /\ c.tool = "create_group" /\ c.hints = Adds /\ c.back = {"leave_group"}
           /\ \/ o.to = a
              \/ \E d \in registerLeaveGroup(o.to) : d.tool = "leave_group" /\ Undoes(d, a)
<1>1. a \in AccountType /\ a.groups \in SUBSET Group /\ a.made \in SUBSET Group
  BY DEF Sound, AccountType
<1>2. c.tool = "create_group" /\ c.hints = Adds /\ c.back = {"leave_group"}
         /\ c.outcomes = CreateGroup(a)
  BY DEF registerCreateGroup, Call
<1>3. CASE o.to = a
  BY <1>1, <1>2, <1>3, MoreOfIt
<1>4. ASSUME a.online,
             NEW g \in Group \ a.made,
             o.to = Created(a, g)
      PROVE  /\ o.to \in Sound /\ IsAdditive(a, o.to)
             /\ \E d \in registerLeaveGroup(o.to) : d.tool = "leave_group" /\ Undoes(d, a)
  <2>1. o.to \in AccountType
    BY <1>1, <1>4, CreatedAccount
  <2>2. /\ o.to.groups = a.groups \union {g} /\ o.to.made = a.made \union {g}
        /\ \A f \in Fields \ {"groups", "made"} : o.to[f] = a[f]
    BY <1>1, <1>4, CreatedAccount
  <2>3. o.to \in Sound /\ g \notin a.groups
    BY <2>1, <2>2 DEF Sound
  <2>4. IsAdditive(a, o.to)
    <3>1. /\ o.to.acked = a.acked /\ o.to.sent = a.sent /\ o.to.vote = a.vote
          /\ \A f \in Fields \ {"groups", "made", "acked", "sent", "vote", "asked",
                                "downloaded"} : o.to[f] = a[f]
      BY <2>2 DEF Fields
    <3> QED
      BY <1>1, <2>1, <2>2, <3>1, MoreOfIt
  <2>5. \E d \in registerLeaveGroup(o.to) : d.tool = "leave_group" /\ Undoes(d, a)
    BY <1>4, <2>1, <2>2, <2>3, LeaveLeadsBack
  <2> QED
    BY <2>3, <2>4, <2>5
<1>5. \/ o.to = a
      \/ a.online /\ \E g \in Group \ a.made : o.to = Created(a, g)
  <2>1. CreateGroup(a) = Ask(a, {Created(a, g) : g \in Group \ a.made})
    BY DEF CreateGroup, Created
  <2>2. o \in Ask(a, {Created(a, g) : g \in Group \ a.made})
    BY <1>2, <2>1
  <2>3. o.to = a \/ (a.online /\ o.to \in {Created(a, g) : g \in Group \ a.made})
    BY <2>2, AskOutcome
  <2> QED
    BY <2>3
<1> QED
  BY <1>2, <1>3, <1>4, <1>5

\* leave_group and join_group_with_link, and the same call again.
LEMMA LeaveGroupLeaves ==
    ASSUME NEW a \in Sound, NEW c \in registerLeaveGroup(a), NEW o \in c.outcomes
    PROVE  /\ o.to \in Sound
           /\ c.tool = "leave_group" /\ c.hints = Removes /\ c.back = {}
           /\ o.to = a \/ c.arg \notin o.to.groups
<1>1. a \in AccountType /\ a.groups \in SUBSET Group /\ a.groups \union {HomeGroup} \subseteq a.made
  BY DEF Sound, AccountType
<1>2. PICK g \in Group : c = Call("leave_group", Removes, {}, g, LeaveGroup(a, g))
  BY DEF registerLeaveGroup
<1>3. c.tool = "leave_group" /\ c.hints = Removes /\ c.back = {} /\ c.arg = g
  BY <1>2 DEF Call
<1>4. o.to = a \/ o.to = Put(a, "groups", a.groups \ {g})
  <2> DEFINE e == Put(a, "groups", a.groups \ {g})
  <2>1. LeaveGroup(a, g) = AskGroup(a, g, {e})
    BY DEF LeaveGroup, Put
  <2> HIDE DEF e
  <2>2. o \in AskGroup(a, g, {e})
    BY <1>2, <2>1 DEF Call
  <2>3. o.to = a \/ o.to = e
    BY <2>2, AskGroupOutcome
  <2> QED
    BY <2>3 DEF e
<1>5. CASE o.to = Put(a, "groups", a.groups \ {g})
  <2>1. /\ o.to \in AccountType /\ o.to.groups = a.groups \ {g}
        /\ o.to.made = a.made
    BY <1>1, <1>5, Regrouped DEF Fields
  <2> QED
    BY <1>1, <1>3, <2>1 DEF Sound
<1> QED
  BY <1>3, <1>4, <1>5

LEMMA LeaveGroupSettles ==
    ASSUME NEW a \in Sound, NEW c \in registerLeaveGroup(a), NEW o \in c.outcomes,
           NEW d \in registerLeaveGroup(o.to), d.arg = c.arg, NEW p \in d.outcomes
    PROVE  \E q \in c.outcomes : q.to = p.to
<1>1. \A b : \A e \in registerLeaveGroup(b) :
         e = Call("leave_group", Removes, {}, e.arg, LeaveGroup(b, e.arg))
  BY DEF registerLeaveGroup, Call
<1>2. CASE o.to = a
  BY <1>1, <1>2
<1>3. CASE c.arg \notin o.to.groups
  <2>1. d.outcomes = LeaveGroup(o.to, c.arg)
    BY <1>1 DEF Call
  <2>2. d.outcomes = Refused(o.to)
    BY <1>3, <2>1 DEF LeaveGroup, AskGroup
  <2> QED
    BY <2>2, RefusedOutcome
<1> QED
  BY <1>2, <1>3, LeaveGroupLeaves

\* join_group_with_link brings the home group back, for who left it.
LEMMA JoinGroupJoins ==
    ASSUME NEW a \in Sound, NEW c \in registerJoinGroupWithLink(a), NEW o \in c.outcomes
    PROVE  /\ o.to \in Sound
           /\ c.tool = "join_group_with_link" /\ c.hints = Sets /\ c.back = {"leave_group"}
           /\ \/ o.to = a
              \/ /\ HomeGroup \in o.to.groups
                 /\ \E d \in registerLeaveGroup(o.to) :
                       d.tool = "leave_group" /\ Undoes(d, a)
<1> DEFINE b == Put(a, "groups", a.groups \union {HomeGroup})
<1>1. /\ a \in AccountType /\ a.groups \in SUBSET Group
      /\ a.groups \union {HomeGroup} \subseteq a.made
  BY DEF Sound, AccountType
<1>2. PICK n \in 1 .. MaxLinks : c = Call("join_group_with_link", Sets, {"leave_group"}, n,
                                         JoinGroupWithLink(a, n))
  BY DEF registerJoinGroupWithLink
<1>3. /\ c.tool = "join_group_with_link" /\ c.hints = Sets /\ c.back = {"leave_group"}
      /\ c.outcomes = JoinGroupWithLink(a, n)
  BY <1>2 DEF Call
<1>4. o.to = a \/ (a.online /\ o.to = b)
  <2>1. JoinGroupWithLink(a, n) = IF n = a.link THEN Ask(a, {b}) ELSE Refused(a)
    BY DEF JoinGroupWithLink, Put
  <2> HIDE DEF b
  <2>2. o \in Ask(a, {b}) \/ o \in Refused(a)
    BY <1>3, <2>1
  <2> QED
    BY <2>2, AskOutcome, RefusedOutcome
<1>5. CASE a.online /\ o.to = b /\ o.to # a
  <2>1. /\ b \in AccountType /\ b.groups = a.groups \union {HomeGroup}
        /\ \A f \in Fields \ {"groups"} : b[f] = a[f]
    BY <1>1, AccountConstants, Regrouped
  <2>2. HomeGroup \notin a.groups
    <3> SUFFICES ASSUME HomeGroup \in a.groups
                 PROVE  FALSE
      OBVIOUS
    <3>1. a.groups \union {HomeGroup} = a.groups
      OBVIOUS
    <3>2. Put(a, "groups", a.groups) = a
      BY <1>1, ChangedTwice DEF Fields
    <3> QED
      BY <1>5, <3>1, <3>2
  <2>3. \A f \in Fields \ {"groups", "made"} : b[f] = a[f]
    BY <2>1
  <2>4. \E d \in registerLeaveGroup(b) : d.tool = "leave_group" /\ Undoes(d, a)
    <3> HIDE DEF b
    <3> QED
      BY <1>5, <2>1, <2>2, <2>3, AccountConstants, LeaveLeadsBack
  <2>5. b.made = a.made
    BY <2>1 DEF Fields
  <2>6. b \in Sound
    BY <1>1, <2>1, <2>5 DEF Sound
  <2> QED
    BY <1>3, <1>5, <2>1, <2>4, <2>6
<1> QED
  BY <1>3, <1>4, <1>5

LEMMA JoinGroupSettles ==
    ASSUME NEW a \in Sound, NEW c \in registerJoinGroupWithLink(a), NEW o \in c.outcomes,
           NEW d \in registerJoinGroupWithLink(o.to), d.arg = c.arg, NEW p \in d.outcomes
    PROVE  \E q \in c.outcomes : q.to = p.to
<1>1. \A b : \A e \in registerJoinGroupWithLink(b) :
         e = Call("join_group_with_link", Sets, {"leave_group"}, e.arg,
                  JoinGroupWithLink(b, e.arg))
  BY DEF registerJoinGroupWithLink, Call
<1>2. CASE o.to = a
  BY <1>1, <1>2
<1>3. CASE HomeGroup \in o.to.groups
  <2> DEFINE b == o.to
             e == Put(b, "groups", b.groups \union {HomeGroup})
  <2>1. b \in AccountType
    BY JoinGroupJoins DEF Sound
  <2>2. e = b
    <3>1. b.groups \union {HomeGroup} = b.groups
      BY <1>3
    <3>2. Put(b, "groups", b.groups) = b
      BY <2>1, ChangedTwice DEF Fields
    <3> QED
      BY <3>1, <3>2
  <2>3. d.outcomes = JoinGroupWithLink(b, d.arg)
    BY <1>1 DEF Call
  <2>4. JoinGroupWithLink(b, d.arg) = IF d.arg = b.link THEN Ask(b, {e}) ELSE Refused(b)
    BY DEF JoinGroupWithLink, Put
  <2> HIDE DEF e
  <2>5. p.to = b
    BY <2>2, <2>3, <2>4, AskOutcome, RefusedOutcome
  <2> QED
    BY <2>5
<1> QED
  BY <1>2, <1>3, JoinGroupJoins

\* get_group_invite_link may mint a link.
LEMMA InviteLinkMints ==
    ASSUME NEW a \in Sound, NEW c \in registerGetGroupInviteLink(a), NEW o \in c.outcomes
    PROVE  /\ o.to \in Sound
           /\ c.tool = "get_group_invite_link" /\ c.hints = Remints /\ c.back = {}
<1>1. a \in AccountType /\ a.groups \union {HomeGroup} \subseteq a.made
  BY DEF Sound
<1>2. PICK r \in BOOLEAN : c = Call("get_group_invite_link", Remints, {}, r,
                                   GetGroupInviteLink(a, r))
  BY DEF registerGetGroupInviteLink
<1>3. /\ c.tool = "get_group_invite_link" /\ c.hints = Remints /\ c.back = {}
      /\ c.outcomes = GetGroupInviteLink(a, r)
  BY <1>2 DEF Call
<1>4. o.to = a \/ \E n \in 1 .. MaxLinks : o.to = Put(a, "link", n)
  <2> DEFINE to == {Put(a, "link", n) : n \in (1 .. MaxLinks) \cap {a.link + 1}}
  <2>1. GetGroupInviteLink(a, r) = AskGroup(a, HomeGroup, IF r THEN to ELSE {a})
    BY DEF GetGroupInviteLink, Put
  <2>2. \A t \in to : \E n \in 1 .. MaxLinks : t = Put(a, "link", n)
    OBVIOUS
  <2> HIDE DEF to
  <2>3. o \in AskGroup(a, HomeGroup, IF r THEN to ELSE {a})
    BY <1>3, <2>1
  <2>4. o.to = a \/ o.to \in to
    BY <2>3, AskGroupOutcome
  <2> QED
    BY <2>2, <2>4
<1>5. ASSUME NEW n \in 1 .. MaxLinks, o.to = Put(a, "link", n)
      PROVE  o.to \in Sound
  <2>1. o.to \in AccountType
    BY <1>1, <1>5, Retyped
  <2>2. o.to.groups = a.groups /\ o.to.made = a.made
    BY <1>1, <1>5, ChangedTwice DEF Fields
  <2> QED
    BY <1>1, <2>1, <2>2 DEF Sound
<1> QED
  BY <1>3, <1>4, <1>5

\* block_contact and unblock_contact are each other's way back.
Blockers(a) == registerBlockContact(a) \union registerUnblockContact(a)

LEMMA BlockersBlock ==
    ASSUME NEW a, NEW c \in Blockers(a)
    PROVE  /\ c.hints = Sets
           /\ \E block \in BOOLEAN :
                 /\ c.outcomes = Ask(a, {Put(a, "blocked", block)})
                 /\ block => c.tool = "block_contact" /\ c.back = {"unblock_contact"}
                 /\ ~block => c.tool = "unblock_contact" /\ c.back = {"block_contact"}
<1>1. \A block : updateBlocklist(a, block) = Ask(a, {Put(a, "blocked", block)})
  BY DEF updateBlocklist, Put
<1>2. /\ updateBlocklist(a, TRUE) = Ask(a, {Put(a, "blocked", TRUE)})
      /\ updateBlocklist(a, FALSE) = Ask(a, {Put(a, "blocked", FALSE)})
  BY <1>1
<1>3. CASE c \in registerBlockContact(a)
  <2> DEFINE outcomes == updateBlocklist(a, TRUE)
  <2>1. c = Call("block_contact", Sets, {"unblock_contact"}, None, outcomes)
    BY <1>3 DEF registerBlockContact
  <2> HIDE DEF outcomes
  <2>2. /\ c.hints = Sets /\ c.outcomes = outcomes
        /\ c.tool = "block_contact" /\ c.back = {"unblock_contact"}
    BY <2>1 DEF Call
  <2> QED
    BY <1>2, <2>2 DEF outcomes
<1>4. CASE c \in registerUnblockContact(a)
  <2> DEFINE outcomes == updateBlocklist(a, FALSE)
  <2>1. c = Call("unblock_contact", Sets, {"block_contact"}, None, outcomes)
    BY <1>4 DEF registerUnblockContact
  <2> HIDE DEF outcomes
  <2>2. /\ c.hints = Sets /\ c.outcomes = outcomes
        /\ c.tool = "unblock_contact" /\ c.back = {"block_contact"}
    BY <2>1 DEF Call
  <2> QED
    BY <1>2, <2>2 DEF outcomes
<1> QED
  BY <1>3, <1>4 DEF Blockers

\* Both are there, each with its outcomes.
LEMMA BlockersThere ==
    ASSUME NEW a, NEW block \in BOOLEAN
    PROVE  \E c \in Blockers(a) :
              /\ c.outcomes = Ask(a, {Put(a, "blocked", block)})
              /\ block => c.tool = "block_contact"
              /\ ~block => c.tool = "unblock_contact"
<1>1. \A b : updateBlocklist(a, b) = Ask(a, {Put(a, "blocked", b)})
  BY DEF updateBlocklist, Put
<1>2. CASE block = TRUE
  <2> DEFINE c == Call("block_contact", Sets, {"unblock_contact"}, None,
                       updateBlocklist(a, TRUE))
  <2>1. c \in Blockers(a) /\ c.tool = "block_contact" /\ c.outcomes = updateBlocklist(a, TRUE)
    BY DEF Blockers, registerBlockContact, Call
  <2> HIDE DEF c
  <2> QED
    BY <1>1, <1>2, <2>1
<1>3. CASE block = FALSE
  <2> DEFINE c == Call("unblock_contact", Sets, {"block_contact"}, None,
                       updateBlocklist(a, FALSE))
  <2>1. /\ c \in Blockers(a) /\ c.tool = "unblock_contact"
        /\ c.outcomes = updateBlocklist(a, FALSE)
    BY DEF Blockers, registerUnblockContact, Call
  <2> HIDE DEF c
  <2> QED
    BY <1>1, <1>3, <2>1
<1> QED
  BY <1>2, <1>3

LEMMA BlockerSets ==
    ASSUME NEW a \in Sound, NEW c \in Blockers(a), NEW o \in c.outcomes
    PROVE  /\ o.to \in Sound
           /\ o.to = a \/ \E d \in Blockers(o.to) : d.tool \in c.back /\ Undoes(d, a)
<1>1. a \in AccountType /\ a.groups \union {HomeGroup} \subseteq a.made
  BY DEF Sound
<1>2. PICK block \in BOOLEAN :
         /\ c.outcomes = Ask(a, {Put(a, "blocked", block)})
         /\ block => c.back = {"unblock_contact"}
         /\ ~block => c.back = {"block_contact"}
  BY BlockersBlock
<1> DEFINE b == Put(a, "blocked", block)
<1>3. o.to = a \/ (a.online /\ o.to = b)
  <2>1. c.outcomes = Ask(a, {b})
    BY <1>2
  <2> HIDE DEF b
  <2> QED
    BY <2>1, AskOutcome
<1>4. /\ b \in AccountType /\ b.online = a.online /\ b.groups = a.groups /\ b.made = a.made
      /\ Put(b, "blocked", a.blocked) = a
  <2>1. b \in AccountType
    BY <1>1, Retyped
  <2>2. "blocked" \in Fields
    BY DEF Fields
  <2>3. (\A g \in Fields \ {"blocked"} : b[g] = a[g]) /\ Put(b, "blocked", a["blocked"]) = a
    BY <1>1, <2>2, ChangedTwice
  <2> QED
    BY <2>1, <2>3 DEF Fields
<1>5. CASE a.online /\ o.to = b /\ o.to # a
  <2>1. a.blocked \in BOOLEAN
    BY <1>1 DEF AccountType
  <2>2. Put(a, "blocked", a.blocked) = a
    BY <1>1, ChangedTwice DEF Fields
  <2>3. a.blocked # block
    BY <1>5, <2>2
  <2>4. PICK d \in Blockers(b) :
           /\ d.outcomes = Ask(b, {Put(b, "blocked", a.blocked)})
           /\ a.blocked => d.tool = "block_contact"
           /\ ~a.blocked => d.tool = "unblock_contact"
    BY <2>1, BlockersThere
  <2>5. d.tool \in c.back
    BY <1>2, <2>1, <2>3, <2>4
  <2> HIDE DEF b
  <2>6. d.outcomes = Ask(b, {a}) /\ b.online
    BY <1>4, <1>5, <2>4
  <2>7. [ok |-> TRUE, to |-> a] \in d.outcomes
    BY <2>6, Granted
  <2>8. Undoes(d, a)
    BY <2>7 DEF Undoes
  <2> QED
    BY <1>1, <1>4, <1>5, <2>4, <2>5, <2>8 DEF Sound
<1> QED
  BY <1>3, <1>5

LEMMA BlockerSettles ==
    ASSUME NEW a \in Sound, NEW c \in Blockers(a), NEW o \in c.outcomes,
           NEW d \in Blockers(o.to), d.tool = c.tool, NEW p \in d.outcomes
    PROVE  \E q \in c.outcomes : q.to = p.to
<1>1. a \in AccountType /\ o.to \in AccountType
  BY BlockerSets DEF Sound
<1>2. PICK block \in BOOLEAN :
         /\ c.outcomes = Ask(a, {Put(a, "blocked", block)})
         /\ block => c.tool = "block_contact"
         /\ ~block => c.tool = "unblock_contact"
  BY BlockersBlock
<1>3. PICK again \in BOOLEAN :
         /\ d.outcomes = Ask(o.to, {Put(o.to, "blocked", again)})
         /\ again => d.tool = "block_contact"
         /\ ~again => d.tool = "unblock_contact"
  BY BlockersBlock
<1>4. again = block
  BY <1>2, <1>3
<1>5. CASE o.to = a
  BY <1>2, <1>3, <1>4, <1>5
<1>6. CASE o.to = Put(a, "blocked", block)
  <2>1. Put(o.to, "blocked", block) = o.to
    BY <1>1, <1>6, ChangedTwice DEF Fields
  <2>2. p.to = o.to
    BY <1>3, <1>4, <2>1, AskOutcome
  <2> QED
    BY <2>2
<1>7. o.to = a \/ o.to = Put(a, "blocked", block)
  BY <1>2, AskOutcome
<1> QED
  BY <1>5, <1>6, <1>7

-------------------------------------------------------------------------------
(* Part 5: the tools that send, edit and revoke messages.                  *)

\* An account with one more message, and perhaps receipts.
OneMore(a, b, told) ==
    /\ b \in AccountType
    /\ \E s \in Sent : b.sent = Append(a.sent, s) /\ s.body \in Text /\ s.told = told
    /\ a.acked \subseteq b.acked
    /\ \A f \in Fields \ {"sent", "acked"} : b[f] = a[f]

LEMMA PostedAccount ==
    ASSUME NEW a \in AccountType, NEW body \in Text, NEW told \in BOOLEAN,
           NEW cached \in BOOLEAN
    PROVE  OneMore(a, Posted(a, body, told, cached), told)
<1> DEFINE s == [body |-> body, told |-> told, cached |-> cached]
<1>1. s \in Sent /\ s.body \in Text /\ s.told = told
  BY DEF Sent
<1>2. a.sent \in Seq(Sent) /\ "sent" \in Fields
  BY DEF AccountType, Fields
<1>3. Posted(a, body, told, cached) = Put(a, "sent", Append(a.sent, s))
  BY DEF Posted, Put
<1> HIDE DEF s
<1> DEFINE sent == Append(a.sent, s)
           b == Put(a, "sent", sent)
<1>4. sent \in Seq(Sent)
  BY <1>1, <1>2, AppendProperties
<1>5. b \in AccountType /\ b["sent"] = sent /\ \A f \in Fields \ {"sent"} : b[f] = a[f]
  <2> HIDE DEF sent
  <2>1. b \in AccountType
    BY <1>4, Retyped
  <2> QED
    BY <1>2, <2>1, ChangedTwice
<1>6. b.acked = a.acked /\ b.sent = sent
  BY <1>5 DEF Fields
<1> HIDE DEF b
<1> QED
  BY <1>1, <1>3, <1>5, <1>6 DEF OneMore, b

LEMMA AckedAccount ==
    ASSUME NEW b \in AccountType, NEW ids \in SUBSET Incoming
    PROVE  /\ Acked(b, ids) \in AccountType /\ Acked(b, ids).acked = ids
           /\ \A f \in Fields \ {"acked"} : Acked(b, ids)[f] = b[f]
<1>1. Acked(b, ids) = Put(b, "acked", ids) /\ "acked" \in Fields
  BY DEF Acked, Put, Fields
<1> QED
  BY <1>1, Retyped, ChangedTwice

\* A message kept with its receipts, too.
LEMMA AckedMore ==
    ASSUME NEW a \in AccountType, NEW b, NEW told, OneMore(a, b, told),
           NEW ids \in SUBSET Incoming, b.acked \subseteq ids
    PROVE  OneMore(a, Acked(b, ids), told)
<1>1. b \in AccountType
  BY DEF OneMore
<1> DEFINE e == Acked(b, ids)
<1>2. e \in AccountType /\ e.acked = ids /\ \A f \in Fields \ {"acked"} : e[f] = b[f]
  BY <1>1, AckedAccount
<1>3. e.sent = b.sent
  BY <1>2 DEF Fields
<1> HIDE DEF e
<1> QED
  BY <1>2, <1>3 DEF OneMore, e

\* What is sent is sent by an account that is connected.
LEMMA PostAdds ==
    ASSUME NEW a \in AccountType, NEW body \in Text,
           NEW tells \in BOOLEAN, NEW keeps \in BOOLEAN,
           NEW o \in Post(a, body, tells, keeps)
    PROVE  \/ o.to = a /\ ~o.ok
           \/ /\ a.online
              /\ \E told \in BOOLEAN : OneMore(a, o.to, told) /\ (o.ok => told = tells)
<1>1. \/ o.to = a /\ ~o.ok
      \/ /\ a.online
         /\ \E told, cached \in BOOLEAN :
               o.to = Posted(a, body, told, cached) /\ (o.ok => told = tells)
  BY PostOutcome
<1>2. \A told, cached \in BOOLEAN : OneMore(a, Posted(a, body, told, cached), told)
  BY PostedAccount
<1> QED
  BY <1>1, <1>2

\* And stays so when the chat is marked read after it.
LEMMA SendAdds ==
    ASSUME NEW a \in AccountType, NEW body \in Text, NEW read \in BOOLEAN,
           NEW o \in maybeMarkChatRead(Post(a, body, TRUE, TRUE), read)
    PROVE  \/ o.to = a /\ ~o.ok
           \/ /\ a.online
              /\ \E told \in BOOLEAN : OneMore(a, o.to, told) /\ (o.ok => told)
<1> DEFINE posts == Post(a, body, TRUE, TRUE)
<1>1. ASSUME NEW p \in posts
      PROVE  \/ p.to = a /\ ~p.ok
             \/ /\ a.online
                /\ \E told \in BOOLEAN : OneMore(a, p.to, told) /\ (p.ok => told)
  BY PostAdds
<1> HIDE DEF posts
<1>2. CASE o \in posts
  BY <1>1, <1>2
<1>3. ASSUME NEW p \in posts, p.ok, NEW m \in MarkChatRead(p.to),
             o = [ok |-> TRUE, to |-> m.to]
      PROVE  a.online /\ OneMore(a, o.to, TRUE)
  <2>1. PICK told \in BOOLEAN : a.online /\ OneMore(a, p.to, told) /\ told
    BY <1>1, <1>3
  <2>2. OneMore(a, p.to, TRUE)
    BY <2>1
  <2>3. p.to \in AccountType /\ p.to.acked \subseteq Incoming
    BY <2>2 DEF OneMore, AccountType
  <2>4. m.to = p.to \/ \E ids \in SUBSET Incoming :
                          p.to.acked \subseteq ids /\ m.to = Acked(p.to, ids)
    BY <2>3, MarkChatReadOutcome
  <2>5. OneMore(a, m.to, TRUE)
    BY <2>2, <2>4, AckedMore
  <2> QED
    BY <1>3, <2>1, <2>5
<1>4. o \in posts \/ \E p \in posts : p.ok /\ \E m \in MarkChatRead(p.to) :
                        o = [ok |-> TRUE, to |-> m.to]
  BY DEF maybeMarkChatRead, posts
<1> QED
  BY <1>2, <1>3, <1>4

\* Another text in place of a message's.
Rewrite(a, i, x) == [a EXCEPT !.sent[i].body = x]

LEMMA Rewritten ==
    ASSUME NEW a \in AccountType, NEW i \in DOMAIN a.sent, NEW x \in Text \union {Revoked}
    PROVE  /\ Rewrite(a, i, x) \in AccountType
           /\ DOMAIN Rewrite(a, i, x).sent = DOMAIN a.sent
           /\ Rewrite(a, i, x).sent[i].body = x
           /\ Rewrite(a, i, x).sent[i].told = a.sent[i].told
           /\ Rewrite(a, i, x).sent[i].cached = a.sent[i].cached
           /\ \A j \in DOMAIN a.sent \ {i} : Rewrite(a, i, x).sent[j] = a.sent[j]
           /\ \A f \in Fields \ {"sent"} : Rewrite(a, i, x)[f] = a[f]
           /\ Rewrite(Rewrite(a, i, x), i, x) = Rewrite(a, i, x)
           /\ Rewrite(Rewrite(a, i, x), i, a.sent[i].body) = a
<1> DEFINE s(y) == [a.sent[i] EXCEPT !.body = y]
           sent(y) == [a.sent EXCEPT ![i] = s(y)]
           b == Put(a, "sent", sent(x))
<1>1. a.sent \in Seq(Sent) /\ "sent" \in Fields
  BY DEF AccountType, Fields
<1>2. /\ Len(a.sent) \in Nat /\ DOMAIN a.sent = 1 .. Len(a.sent) /\ a.sent[i] \in Sent
      /\ i \in 1 .. Len(a.sent)
  BY <1>1, LenProperties, ElementOfSeq
<1>3. \A y \in Text \union {Revoked} :
         /\ s(y) \in Sent /\ s(y).body = y /\ s(y).told = a.sent[i].told
         /\ s(y).cached = a.sent[i].cached
         /\ \A z : [s(y) EXCEPT !.body = z] = s(z)
  BY <1>2 DEF Sent
<1>4. s(a.sent[i].body) = a.sent[i]
  BY <1>2 DEF Sent
<1>5. \A y : Put(a, "sent", sent(y)) = Rewrite(a, i, y)
  BY DEF Put, Rewrite
<1> HIDE DEF s
<1>6. \A y \in Text \union {Revoked} :
         /\ sent(y) \in Seq(Sent) /\ DOMAIN sent(y) = DOMAIN a.sent
         /\ sent(y)[i] = s(y)
         /\ \A j \in DOMAIN a.sent \ {i} : sent(y)[j] = a.sent[j]
  <2> SUFFICES ASSUME NEW y \in Text \union {Revoked}
               PROVE  /\ sent(y) \in Seq(Sent) /\ DOMAIN sent(y) = DOMAIN a.sent
                      /\ sent(y)[i] = s(y)
                      /\ \A j \in DOMAIN a.sent \ {i} : sent(y)[j] = a.sent[j]
    OBVIOUS
  <2>1. s(y) \in Sent
    BY <1>3
  <2>2. sent(y) \in Seq(Sent)
    BY <1>1, <1>2, <2>1, ExceptSeq
  <2> QED
    BY <1>2, <2>2
<1> HIDE DEF sent
<1>7. /\ b \in AccountType /\ b["sent"] = sent(x)
      /\ \A f \in Fields \ {"sent"} : b[f] = a[f]
  <2>1. sent(x) \in Seq(Sent)
    BY <1>6
  <2>2. b \in AccountType
    BY <2>1, Retyped
  <2> QED
    BY <1>1, <2>2, ChangedTwice
<1>8. \A y \in Text \union {Revoked} : Rewrite(b, i, y) = Put(b, "sent", sent(y))
  <2> SUFFICES ASSUME NEW y \in Text \union {Revoked}
               PROVE  Rewrite(b, i, y) = Put(b, "sent", sent(y))
    OBVIOUS
  <2>1. Rewrite(b, i, y) = Put(b, "sent", [b.sent EXCEPT ![i] = [b.sent[i] EXCEPT !.body = y]])
    BY DEF Rewrite, Put
  <2>2. [b.sent[i] EXCEPT !.body = y] = s(y)
    BY <1>3, <1>6, <1>7
  <2>3. [sent(x) EXCEPT ![i] = s(y)] = sent(y)
    BY DEF sent
  <2> QED
    BY <1>7, <2>1, <2>2, <2>3
<1>9. a.sent[i].body \in Text \union {Revoked} /\ sent(a.sent[i].body) = a.sent
  <2>1. a.sent[i].body \in Text \union {Revoked}
    BY <1>2 DEF Sent
  <2>2. [a.sent EXCEPT ![i] = a.sent[i]] = a.sent
    BY <1>1, <1>2, LenProperties
  <2> QED
    BY <1>4, <2>1, <2>2 DEF sent
<1>10. /\ Put(b, "sent", sent(x)) = b
       /\ Put(b, "sent", a.sent) = a
  BY <1>1, ChangedTwice
<1>11. b.sent = sent(x)
  BY <1>7
<1>12. b.sent[i] = s(x)
  BY <1>6, <1>11
<1>13. Rewrite(a, i, x) = b
  BY <1>5
<1> HIDE DEF b
<1> QED
  BY <1>3, <1>6, <1>7, <1>8, <1>9, <1>10, <1>11, <1>12, <1>13

\* delete_message takes back the last message, if its id was told.
LEMMA RevokeLeadsBack ==
    ASSUME NEW a \in AccountType, NEW b, OneMore(a, b, TRUE), a.online
    PROVE  \E d \in registerDeleteMessage(b) : d.tool = "delete_message" /\ Undoes(d, a)
<1>1. PICK s \in Sent : b.sent = Append(a.sent, s) /\ s.body \in Text /\ s.told = TRUE
  BY DEF OneMore
<1>2. b \in AccountType /\ b.online /\ \A f \in Fields \ {"sent", "acked"} : b[f] = a[f]
  BY DEF OneMore, Fields
<1> DEFINE n == Len(a.sent)
           i == n + 1
           e == Rewrite(b, i, Revoked)
           d == Call("delete_message", Removes, {}, i, DeleteMessage(b, i))
<1>3. a.sent \in Seq(Sent)
  BY DEF AccountType
<1>4. n \in Nat /\ DOMAIN a.sent = 1 .. n
  BY <1>3, LenProperties
<1>5. /\ b.sent \in Seq(Sent) /\ Len(b.sent) = i
      /\ \A j \in 1 .. n : b.sent[j] = a.sent[j]
      /\ b.sent[i] = s
  BY <1>1, <1>3, AppendProperties
<1>6. DOMAIN b.sent = 1 .. i /\ i \in DOMAIN b.sent /\ i \notin 1 .. n
         /\ 1 .. n = (1 .. i) \ {i}
  BY <1>4, <1>5, LenProperties
<1>7. i \in Nameable(b)
  BY <1>1, <1>5, <1>6 DEF Nameable
<1> HIDE DEF i, n
<1>8. /\ e \in AccountType /\ DOMAIN e.sent = DOMAIN b.sent /\ e.sent[i].body = Revoked
      /\ \A j \in DOMAIN b.sent \ {i} : e.sent[j] = b.sent[j]
      /\ \A f \in Fields \ {"sent"} : e[f] = b[f]
  <2>1. Revoked \in Text \union {Revoked}
    OBVIOUS
  <2>2. b \in AccountType /\ i \in DOMAIN b.sent
    BY <1>2, <1>6
  <2> QED
    BY <2>1, <2>2, Rewritten
<1>9. DeleteMessage(b, i) = Ask(b, {e})
  BY DEF DeleteMessage, Rewrite
<1>10. d \in registerDeleteMessage(b) /\ d.tool = "delete_message"
          /\ d.outcomes = DeleteMessage(b, i)
  BY <1>7 DEF registerDeleteMessage, Call
<1> HIDE DEF e, d
<1>11. \A f \in Fields \ {"made", "acked", "sent"} : e[f] = a[f]
  BY <1>2, <1>8
<1>12. Shown(e.sent) = Shown(a.sent)
  <2>1. {j \in DOMAIN e.sent : e.sent[j].body # Revoked} =
           {j \in DOMAIN a.sent : a.sent[j].body # Revoked}
    BY <1>4, <1>5, <1>6, <1>8
  <2>2. \A j \in DOMAIN a.sent : e.sent[j] = a.sent[j]
    BY <1>4, <1>5, <1>6, <1>8
  <2> QED
    BY <2>1, <2>2 DEF Shown
<1>13. Visible(e) = Visible(a)
  BY <1>8, <1>11, <1>12, LookAlike
<1>14. [ok |-> TRUE, to |-> e] \in d.outcomes
  BY <1>2, <1>9, <1>10, Granted
<1>15. Undoes(d, a)
  BY <1>13, <1>14 DEF Undoes
<1> QED
  BY <1>10, <1>15

\* delete_message revokes, once and for all.
LEMMA DeleteMessageRevokes ==
    ASSUME NEW a \in Sound, NEW c \in registerDeleteMessage(a)
    PROVE  /\ c.tool = "delete_message" /\ c.hints = Removes /\ c.back = {}
           /\ c.arg \in DOMAIN a.sent
           /\ c.outcomes = Ask(a, {Rewrite(a, c.arg, Revoked)})
<1>1. PICK i \in Nameable(a) : c = Call("delete_message", Removes, {}, i, DeleteMessage(a, i))
  BY DEF registerDeleteMessage
<1>2. i \in DOMAIN a.sent
  BY DEF Nameable
<1>3. DeleteMessage(a, i) = Ask(a, {Rewrite(a, i, Revoked)})
  BY DEF DeleteMessage, Rewrite
<1>4. /\ c.tool = "delete_message" /\ c.hints = Removes /\ c.back = {} /\ c.arg = i
      /\ c.outcomes = DeleteMessage(a, i)
  BY <1>1 DEF Call
<1> QED
  BY <1>2, <1>3, <1>4

\* A rewritten account is sound.
LEMMA RewrittenSound ==
    ASSUME NEW a \in Sound, NEW i \in DOMAIN a.sent, NEW x \in Text \union {Revoked}
    PROVE  Rewrite(a, i, x) \in Sound
<1>1. a \in AccountType /\ a.groups \union {HomeGroup} \subseteq a.made
  BY DEF Sound
<1> DEFINE b == Rewrite(a, i, x)
<1>2. b \in AccountType /\ \A f \in Fields \ {"sent"} : b[f] = a[f]
  BY <1>1, Rewritten
<1> HIDE DEF b
<1>3. b.groups = a.groups /\ b.made = a.made
  BY <1>2 DEF Fields
<1> QED
  BY <1>1, <1>2, <1>3 DEF Sound, b

LEMMA DeleteMessageSettles ==
    ASSUME NEW a \in Sound, NEW c \in registerDeleteMessage(a), NEW o \in c.outcomes
    PROVE  /\ o.to \in Sound
           /\ \A d \in registerDeleteMessage(o.to) : \A p \in d.outcomes :
                 d.arg = c.arg => \E q \in c.outcomes : q.to = p.to
<1> DEFINE i == c.arg
           b == Rewrite(a, i, Revoked)
<1>1. i \in DOMAIN a.sent /\ c.outcomes = Ask(a, {b}) /\ a \in AccountType
  BY DeleteMessageRevokes DEF Sound
<1>2. b \in Sound /\ Rewrite(b, i, Revoked) = b
  BY <1>1, RewrittenSound, Rewritten
<1> HIDE DEF i, b
<1>3. o.to = a \/ o.to = b
  BY <1>1, AskOutcome
<1>4. ASSUME NEW d \in registerDeleteMessage(o.to), NEW p \in d.outcomes, d.arg = c.arg
      PROVE  \E q \in c.outcomes : q.to = p.to
  <2>1. d.outcomes = Ask(o.to, {Rewrite(o.to, i, Revoked)})
    BY <1>2, <1>3, <1>4, DeleteMessageRevokes DEF i
  <2>2. CASE o.to = a
    BY <1>1, <2>1, <2>2 DEF b
  <2>3. CASE o.to = b
    <3>1. p.to = b
      BY <1>2, <2>1, <2>3, AskOutcome
    <3> QED
      BY <2>3, <3>1
  <2> QED
    BY <1>3, <2>2, <2>3
<1> QED
  BY <1>2, <1>3, <1>4

\* edit_message changes what a message says, unless it is revoked.
LEMMA EditMessageEdits ==
    ASSUME NEW a \in Sound, NEW c \in registerEditMessage(a)
    PROVE  \E i \in Nameable(a), t \in Text :
              /\ c.tool = "edit_message" /\ c.hints = Removes /\ c.back = {"edit_message"}
              /\ c.arg = <<i, t>> /\ i \in DOMAIN a.sent
              /\ c.outcomes = IF a.sent[i].body = Revoked THEN Ask(a, {a})
                                                         ELSE Ask(a, {Rewrite(a, i, t)})
<1>1. PICK i \in Nameable(a), t \in Text :
         c = Call("edit_message", Removes, {"edit_message"}, <<i, t>>, EditMessage(a, i, t))
  BY DEF registerEditMessage
<1>2. i \in DOMAIN a.sent
  BY DEF Nameable
<1>3. EditMessage(a, i, t) = IF a.sent[i].body = Revoked THEN Ask(a, {a})
                                                        ELSE Ask(a, {Rewrite(a, i, t)})
  BY DEF EditMessage, Rewrite
<1>4. /\ c.tool = "edit_message" /\ c.hints = Removes /\ c.back = {"edit_message"}
      /\ c.arg = <<i, t>> /\ c.outcomes = EditMessage(a, i, t)
  BY <1>1 DEF Call
<1> QED
  BY <1>2, <1>3, <1>4

LEMMA EditMessageReturns ==
    ASSUME NEW a \in Sound, NEW c \in registerEditMessage(a), NEW o \in c.outcomes
    PROVE  /\ o.to \in Sound
           /\ \/ o.to = a
              \/ \E d \in registerEditMessage(o.to) : d.tool = "edit_message" /\ Undoes(d, a)
<1>1. PICK i \in Nameable(a), t \in Text :
         /\ i \in DOMAIN a.sent
         /\ c.outcomes = IF a.sent[i].body = Revoked THEN Ask(a, {a})
                                                    ELSE Ask(a, {Rewrite(a, i, t)})
  BY EditMessageEdits
<1> DEFINE b == Rewrite(a, i, t)
           u == a.sent[i].body
           d == Call("edit_message", Removes, {"edit_message"}, <<i, u>>, EditMessage(b, i, u))
<1>2. a \in AccountType /\ b \in Sound /\ t # Revoked
  BY <1>1, RewrittenSound, AccountConstants DEF Sound
<1>3. /\ DOMAIN b.sent = DOMAIN a.sent /\ b.sent[i].body = t
      /\ b.sent[i].told = a.sent[i].told /\ b.sent[i].cached = a.sent[i].cached
      /\ \A f \in Fields \ {"sent"} : b[f] = a[f]
      /\ Rewrite(b, i, u) = a
  BY <1>1, <1>2, Rewritten
<1>4. u # Revoked => u \in Text
  <2>1. a.sent \in Seq(Sent)
    BY <1>2 DEF AccountType
  <2>2. a.sent[i] \in Sent
    BY <1>1, <2>1, LenProperties, ElementOfSeq
  <2> QED
    BY <2>2 DEF Sent
<1>5. i \in Nameable(b)
  BY <1>1, <1>3 DEF Nameable
<1>6. EditMessage(b, i, u) = Ask(b, {Rewrite(b, i, u)})
  BY <1>2, <1>3 DEF EditMessage, Rewrite
<1>7. u # Revoked => d \in registerEditMessage(b)
  BY <1>4, <1>5 DEF registerEditMessage
<1>8. d.tool = "edit_message" /\ d.outcomes = EditMessage(b, i, u)
  BY DEF Call
<1> HIDE DEF b, d
<1>9. o.to = a \/ (u # Revoked /\ a.online /\ o.to = b)
  BY <1>1, AskOutcome DEF b
<1>10. CASE u # Revoked /\ a.online /\ o.to = b
  <2>1. b.online
    BY <1>3, <1>10 DEF Fields
  <2>2. [ok |-> TRUE, to |-> a] \in d.outcomes
    BY <1>3, <1>6, <1>8, <2>1, Granted
  <2>3. Undoes(d, a)
    BY <2>2 DEF Undoes
  <2> QED
    BY <1>2, <1>7, <1>8, <1>10, <2>3
<1> QED
  BY <1>9, <1>10

LEMMA EditMessageSettles ==
    ASSUME NEW a \in Sound, NEW c \in registerEditMessage(a), NEW o \in c.outcomes,
           NEW d \in registerEditMessage(o.to), d.arg = c.arg, NEW p \in d.outcomes
    PROVE  \E q \in c.outcomes : q.to = p.to
<1>1. PICK i \in Nameable(a), t \in Text :
         /\ c.arg = <<i, t>> /\ i \in DOMAIN a.sent
         /\ c.outcomes = IF a.sent[i].body = Revoked THEN Ask(a, {a})
                                                    ELSE Ask(a, {Rewrite(a, i, t)})
  BY EditMessageEdits
<1>2. PICK j \in Nameable(o.to), v \in Text :
         /\ d.arg = <<j, v>>
         /\ d.outcomes = IF o.to.sent[j].body = Revoked THEN Ask(o.to, {o.to})
                                                       ELSE Ask(o.to, {Rewrite(o.to, j, v)})
  <2>1. o.to \in Sound
    BY EditMessageReturns
  <2>2. \E j \in Nameable(o.to), v \in Text :
           /\ d.tool = "edit_message" /\ d.hints = Removes /\ d.back = {"edit_message"}
           /\ d.arg = <<j, v>> /\ j \in DOMAIN o.to.sent
           /\ d.outcomes = IF o.to.sent[j].body = Revoked
                           THEN Ask(o.to, {o.to}) ELSE Ask(o.to, {Rewrite(o.to, j, v)})
    BY <2>1, EditMessageEdits
  <2> QED
    BY <2>2
<1>3. j = i /\ v = t /\ a \in AccountType
  BY <1>1, <1>2 DEF Sound
<1> DEFINE b == Rewrite(a, i, t)
<1>4. b.sent[i].body = t /\ Rewrite(b, i, t) = b
  BY <1>1, <1>3, Rewritten
<1> HIDE DEF b
<1>5. o.to = a \/ o.to = b
  BY <1>1, AskOutcome DEF b
<1>6. CASE o.to = a
  BY <1>1, <1>2, <1>3, <1>6
<1>7. CASE o.to = b
  <2>1. p.to = b
    BY <1>2, <1>3, <1>4, <1>7, AskOutcome
  <2> QED
    BY <1>7, <2>1
<1> QED
  BY <1>5, <1>6, <1>7

\* The tools that send a new message, each told which by its reply but send_reply.
Senders(a) ==
    registerSendMessage(a) \union registerSendFile(a) \union registerSendAudioMessage(a)
        \union registerSendPoll(a) \union registerSendContactCard(a)
        \union registerSendReply(a)

LEMMA SendersSend ==
    ASSUME NEW a \in AccountType, NEW c \in Senders(a)
    PROVE  /\ c.hints = Adds /\ c.back = {"delete_message"}
           /\ c.tool \in {"send_message", "send_file", "send_audio_message", "send_poll",
                          "send_contact_card", "send_reply"}
           /\ \A o \in c.outcomes :
                 \/ o.to = a
                 \/ /\ a.online
                    /\ \E told \in BOOLEAN :
                          /\ OneMore(a, o.to, told)
                          /\ o.ok /\ c.tool # "send_reply" => told
<1> DEFINE Sends(outcomes, tells) ==
              \A o \in outcomes :
                 \/ o.to = a
                 \/ /\ a.online
                    /\ \E told \in BOOLEAN : OneMore(a, o.to, told) /\ (o.ok /\ tells => told)
<1>1. \A body \in Text : \A read \in BOOLEAN :
         Sends(maybeMarkChatRead(Post(a, body, TRUE, TRUE), read), TRUE)
  BY SendAdds
<1>2. \A body \in Text : Sends(Post(a, body, TRUE, TRUE), TRUE)
  BY PostAdds
<1>3. \A body \in Text : Sends(Post(a, body, FALSE, FALSE), FALSE)
  BY PostAdds
<1>4. \A tells : Sends(Refused(a), tells)
  BY RefusedOutcome
<1>5. \A t \in Input : t # Blank => t \in Text
  BY DEF Input
<1>6. \A t \in Text : t \in Input
  BY DEF Input
<1> HIDE DEF Sends
<1>7. ASSUME NEW tool, NEW read \in BOOLEAN, NEW t \in Input, c = SendTool(a, tool, read, t)
      PROVE  /\ c.hints = Adds /\ c.back = {"delete_message"} /\ c.tool = tool
             /\ Sends(c.outcomes, TRUE)
  <2> DEFINE sends == maybeMarkChatRead(Post(a, t, TRUE, TRUE), read)
             arg == <<read, t>>
  <2>1. c = Call(tool, Adds, {"delete_message"}, arg, Required(a, t, sends))
    BY <1>7 DEF SendTool
  <2>2. Sends(sends, TRUE) \/ t = Blank
    BY <1>1, <1>5, <1>7
  <2> HIDE DEF sends, arg
  <2>3. /\ c.hints = Adds /\ c.back = {"delete_message"} /\ c.tool = tool
        /\ c.outcomes = Required(a, t, sends)
    BY <2>1 DEF Call
  <2>4. Required(a, t, sends) = IF t = Blank THEN Refused(a) ELSE sends
    BY DEF Required
  <2> QED
    BY <1>4, <2>2, <2>3, <2>4
<1>8. CASE c \in registerSendMessage(a)
  <2>1. PICK read \in BOOLEAN, t \in Text : c = SendTool(a, "send_message", read, t)
    BY <1>8 DEF registerSendMessage
  <2>2. /\ c.hints = Adds /\ c.back = {"delete_message"} /\ c.tool = "send_message"
        /\ Sends(c.outcomes, TRUE)
    BY <1>6, <1>7, <2>1
  <2> QED
    BY <2>2 DEF Sends
<1>9. CASE c \in registerSendFile(a)
  <2>1. PICK read \in BOOLEAN, t \in Input : c = SendTool(a, "send_file", read, t)
    BY <1>9 DEF registerSendFile
  <2>2. /\ c.hints = Adds /\ c.back = {"delete_message"} /\ c.tool = "send_file"
        /\ Sends(c.outcomes, TRUE)
    BY <1>7, <2>1
  <2> QED
    BY <2>2 DEF Sends
<1>10. CASE c \in registerSendAudioMessage(a)
  <2>1. PICK read \in BOOLEAN, t \in Input : c = SendTool(a, "send_audio_message", read, t)
    BY <1>10 DEF registerSendAudioMessage
  <2>2. /\ c.hints = Adds /\ c.back = {"delete_message"} /\ c.tool = "send_audio_message"
        /\ Sends(c.outcomes, TRUE)
    BY <1>7, <2>1
  <2> QED
    BY <2>2 DEF Sends
<1>11. CASE c \in registerSendPoll(a)
  <2>1. PICK q \in Input : c = Call("send_poll", Adds, {"delete_message"}, q,
                                   Required(a, q, SendPoll(a, q)))
    BY <1>11 DEF registerSendPoll
  <2>2. /\ c.hints = Adds /\ c.back = {"delete_message"} /\ c.tool = "send_poll"
        /\ c.outcomes = IF q = Blank THEN Refused(a) ELSE Post(a, q, TRUE, TRUE)
    BY <2>1 DEF Call, Required, SendPoll
  <2>3. Sends(c.outcomes, TRUE)
    BY <1>2, <1>4, <1>5, <2>2
  <2> QED
    BY <2>2, <2>3 DEF Sends
<1>12. CASE c \in registerSendContactCard(a)
  <2>1. PICK n \in Input : c = Call("send_contact_card", Adds, {"delete_message"}, n,
                                   Required(a, n, SendContactCard(a, n)))
    BY <1>12 DEF registerSendContactCard
  <2>2. /\ c.hints = Adds /\ c.back = {"delete_message"} /\ c.tool = "send_contact_card"
        /\ c.outcomes = IF n = Blank THEN Refused(a) ELSE Post(a, n, TRUE, TRUE)
    BY <2>1 DEF Call, Required, SendContactCard
  <2>3. Sends(c.outcomes, TRUE)
    BY <1>2, <1>4, <1>5, <2>2
  <2> QED
    BY <2>2, <2>3 DEF Sends
<1>13. CASE c \in registerSendReply(a)
  <2>1. PICK t \in Text : c = Call("send_reply", Adds, {"delete_message"}, t, SendReply(a, t))
    BY <1>13 DEF registerSendReply
  <2>2. /\ c.hints = Adds /\ c.back = {"delete_message"} /\ c.tool = "send_reply"
        /\ c.outcomes = Post(a, t, FALSE, FALSE)
    BY <2>1 DEF Call, SendReply
  <2>3. Sends(c.outcomes, FALSE)
    BY <1>3, <2>2
  <2> QED
    BY <2>2, <2>3 DEF Sends
<1> QED
  BY <1>8, <1>9, <1>10, <1>11, <1>12, <1>13 DEF Senders

\* Nothing that was there is gone, and what was told of can be revoked.
LEMMA SendersAdd ==
    ASSUME NEW a \in Sound, NEW c \in Senders(a), NEW o \in c.outcomes
    PROVE  /\ o.to \in Sound /\ IsAdditive(a, o.to)
           /\ o.ok /\ c.tool # "send_reply" /\ o.to # a =>
                 \E d \in registerDeleteMessage(o.to) :
                    d.tool = "delete_message" /\ Undoes(d, a)
<1>1. a \in AccountType /\ a.groups \union {HomeGroup} \subseteq a.made
  BY DEF Sound
<1>2. CASE o.to = a
  <2>1. IsAdditive(a, a)
    BY <1>1, MoreOfIt
  <2> QED
    BY <1>2, <2>1
<1>3. ASSUME a.online, NEW told \in BOOLEAN, OneMore(a, o.to, told),
             o.ok /\ c.tool # "send_reply" => told
      PROVE  /\ o.to \in Sound /\ IsAdditive(a, o.to)
             /\ o.ok /\ c.tool # "send_reply" =>
                   \E d \in registerDeleteMessage(o.to) :
                      d.tool = "delete_message" /\ Undoes(d, a)
  <2> DEFINE b == o.to
  <2>1. /\ b \in AccountType /\ \E s \in Sent : b.sent = Append(a.sent, s)
        /\ a.acked \subseteq b.acked /\ \A f \in Fields \ {"sent", "acked"} : b[f] = a[f]
    BY <1>3 DEF OneMore
  <2> HIDE DEF b
  <2>2. b.groups = a.groups /\ b.made = a.made /\ b.vote = a.vote
    BY <2>1 DEF Fields
  <2>3. \A f \in Fields \ {"groups", "made", "acked", "sent", "vote", "asked",
                           "downloaded"} : b[f] = a[f]
    BY <2>1
  <2>4. b \in Sound /\ IsAdditive(a, b)
    BY <1>1, <2>1, <2>2, <2>3, MoreOfIt DEF Sound
  <2>5. told = TRUE => \E d \in registerDeleteMessage(b) :
                          d.tool = "delete_message" /\ Undoes(d, a)
    <3> SUFFICES ASSUME told = TRUE
                 PROVE  \E d \in registerDeleteMessage(b) :
                           d.tool = "delete_message" /\ Undoes(d, a)
      OBVIOUS
    <3>1. OneMore(a, b, TRUE)
      BY <1>3 DEF b
    <3> QED
      BY <1>1, <1>3, <3>1, RevokeLeadsBack
  <2> QED
    BY <1>3, <2>4, <2>5 DEF b
<1>4. \/ o.to = a
      \/ a.online /\ \E told \in BOOLEAN : /\ OneMore(a, o.to, told)
                                           /\ o.ok /\ c.tool # "send_reply" => told
  BY <1>1, SendersSend
<1> QED
  BY <1>2, <1>3, <1>4

-------------------------------------------------------------------------------
(* Part 6: receipts, history requests and downloads.                       *)

LEMMA AckedAdds ==
    ASSUME NEW a \in Sound, NEW ids \in SUBSET Incoming, a.acked \subseteq ids
    PROVE  Acked(a, ids) \in Sound /\ IsAdditive(a, Acked(a, ids))
<1> DEFINE b == Acked(a, ids)
<1>1. a \in AccountType /\ a.groups \union {HomeGroup} \subseteq a.made
  BY DEF Sound
<1>2. b \in AccountType /\ b.acked = ids /\ \A f \in Fields \ {"acked"} : b[f] = a[f]
  BY <1>1, AckedAccount
<1> HIDE DEF b
<1>3. b.groups = a.groups /\ b.made = a.made /\ b.sent = a.sent /\ b.vote = a.vote
  BY <1>2 DEF Fields
<1>4. \A f \in Fields \ {"groups", "made", "acked", "sent", "vote", "asked",
                         "downloaded"} : b[f] = a[f]
  BY <1>2
<1>5. b \in Sound /\ IsAdditive(a, b)
  BY <1>1, <1>2, <1>3, <1>4, MoreOfIt DEF Sound
<1> QED
  BY <1>5 DEF b

\* Counting a request or keeping a file changes nothing one can see.
LEMMA KeptAdds ==
    ASSUME NEW a \in Sound, NEW f \in {"asked", "downloaded"}, NEW x,
           Put(a, f, x) \in AccountType
    PROVE  Put(a, f, x) \in Sound /\ IsAdditive(a, Put(a, f, x))
<1> DEFINE b == Put(a, f, x)
<1>1. a \in AccountType /\ a.groups \union {HomeGroup} \subseteq a.made
  BY DEF Sound
<1>2. f \in Fields
  BY DEF Fields
<1>3. b \in AccountType /\ \A g \in Fields \ {f} : b[g] = a[g]
  BY <1>1, <1>2, ChangedTwice
<1> HIDE DEF b
<1>4. /\ b.groups = a.groups /\ b.made = a.made /\ b.sent = a.sent /\ b.vote = a.vote
      /\ b.acked = a.acked
  BY <1>3 DEF Fields
<1>5. \A g \in Fields \ {"groups", "made", "acked", "sent", "vote", "asked",
                         "downloaded"} : b[g] = a[g]
  BY <1>3
<1>6. b \in Sound /\ IsAdditive(a, b)
  BY <1>1, <1>3, <1>4, <1>5, MoreOfIt DEF Sound
<1> QED
  BY <1>6 DEF b

LEMMA Itself ==
    ASSUME NEW a \in Sound
    PROVE  IsAdditive(a, a)
BY MoreOfIt DEF Sound

LEMMA MarkReadAcks ==
    ASSUME NEW a \in Sound, NEW c \in registerMarkRead(a)
    PROVE  /\ c.tool = "mark_read" /\ c.hints = Sets /\ c.back = {}
           /\ c.arg \in SUBSET Incoming
           /\ c.outcomes = IF c.arg = {} THEN Refused(a)
                                         ELSE Ask(a, {Acked(a, a.acked \union c.arg)})
<1>1. PICK ids \in SUBSET Incoming : c = Call("mark_read", Sets, {}, ids, MarkRead(a, ids))
  BY DEF registerMarkRead
<1>2. MarkRead(a, ids) = IF ids = {} THEN Refused(a)
                                     ELSE Ask(a, {Acked(a, a.acked \union ids)})
  BY DEF MarkRead, Acked
<1>3. /\ c.tool = "mark_read" /\ c.hints = Sets /\ c.back = {} /\ c.arg = ids
      /\ c.outcomes = MarkRead(a, ids)
  BY <1>1 DEF Call
<1> QED
  BY <1>2, <1>3

LEMMA MarkReadAdds ==
    ASSUME NEW a \in Sound, NEW c \in registerMarkRead(a), NEW o \in c.outcomes
    PROVE  /\ o.to \in Sound /\ IsAdditive(a, o.to)
           /\ o.to = a \/ (o.to = Acked(a, a.acked \union c.arg) /\ c.arg # {})
<1> DEFINE ids == a.acked \union c.arg
           b == Acked(a, ids)
<1>1. c.arg \in SUBSET Incoming /\ a.acked \subseteq Incoming
  BY MarkReadAcks DEF Sound, AccountType
<1>2. b \in Sound /\ IsAdditive(a, b)
  <2>1. ids \in SUBSET Incoming /\ a.acked \subseteq ids
    BY <1>1
  <2> HIDE DEF ids
  <2> QED
    BY <2>1, AckedAdds
<1>3. c.outcomes = IF c.arg = {} THEN Refused(a) ELSE Ask(a, {b})
  BY MarkReadAcks
<1> HIDE DEF b
<1>4. o.to = a \/ (o.to = b /\ c.arg # {})
  BY <1>3, AskOutcome, RefusedOutcome
<1> QED
  BY <1>2, <1>4, Itself DEF b

LEMMA MarkReadSettles ==
    ASSUME NEW a \in Sound, NEW c \in registerMarkRead(a), NEW o \in c.outcomes,
           NEW d \in registerMarkRead(o.to), d.arg = c.arg, NEW p \in d.outcomes
    PROVE  \E q \in c.outcomes : q.to = p.to
<1>1. o.to \in Sound
  BY MarkReadAdds
<1>2. CASE o.to = a
  <2> DEFINE outcomes == IF c.arg = {} THEN Refused(a)
                                       ELSE Ask(a, {Acked(a, a.acked \union c.arg)})
  <2>1. c.outcomes = outcomes /\ d.outcomes = outcomes
    BY <1>2, MarkReadAcks
  <2> HIDE DEF outcomes
  <2> QED
    BY <2>1
<1>3. CASE o.to = Acked(a, a.acked \union c.arg)
  <2> DEFINE b == o.to
  <2>1. b.acked = a.acked \union c.arg
    <3>1. c.arg \in SUBSET Incoming /\ a.acked \subseteq Incoming /\ a \in AccountType
      BY MarkReadAcks DEF Sound, AccountType
    <3> QED
      BY <1>3, <3>1, AckedAccount
  <2>2. b.acked \union d.arg = b.acked
    BY <2>1
  <2>3. Acked(b, b.acked) = b
    <3>1. b \in AccountType
      BY <1>1 DEF Sound
    <3> QED
      BY <3>1, ChangedTwice DEF Acked, Put, Fields
  <2>4. p.to = b \/ p.to = Acked(b, b.acked \union d.arg)
    BY <1>1, MarkReadAdds
  <2> QED
    BY <2>2, <2>3, <2>4
<1> QED
  BY <1>2, <1>3, MarkReadAdds

LEMMA MarkChatReadAdds ==
    ASSUME NEW a \in Sound, NEW c \in registerMarkChatRead(a)
    PROVE  /\ c.tool = "mark_chat_read" /\ c.hints = Sets /\ c.back = {}
           /\ c.outcomes = MarkChatRead(a)
           /\ \A o \in c.outcomes : o.to \in Sound /\ IsAdditive(a, o.to)
<1>1. /\ c.tool = "mark_chat_read" /\ c.hints = Sets /\ c.back = {}
      /\ c.outcomes = MarkChatRead(a)
  BY DEF registerMarkChatRead, Call
<1>2. a.acked \subseteq Incoming
  BY DEF Sound, AccountType
<1>3. \A o \in MarkChatRead(a) :
         o.to = a \/ \E ids \in SUBSET Incoming : a.acked \subseteq ids /\ o.to = Acked(a, ids)
  BY <1>2, MarkChatReadOutcome
<1>4. \A ids \in SUBSET Incoming : a.acked \subseteq ids =>
         Acked(a, ids) \in Sound /\ IsAdditive(a, Acked(a, ids))
  BY AckedAdds
<1> QED
  BY <1>1, <1>3, <1>4, Itself

\* Half the receipts, then half of them again, could have been had at once.
LEMMA MarkChatReadSettles ==
    ASSUME NEW a \in Sound, NEW o \in MarkChatRead(a), NEW p \in MarkChatRead(o.to)
    PROVE  \E q \in MarkChatRead(a) : q.to = p.to
<1> DEFINE Of(done) == {m \in Incoming : m.from \in done}
           senders == {m.from : m \in Incoming}
<1>1. \A b : b.online =>
         MarkChatRead(b) = {[ok |-> FALSE, to |-> Acked(b, b.acked \union Of(done))] :
                               done \in SUBSET senders}
                              \union {[ok |-> TRUE, to |-> Acked(b, Incoming)]}
  BY DEF MarkChatRead, Acked
<1>2. a \in AccountType /\ a.acked \subseteq Incoming
  BY DEF Sound, AccountType
<1>3. \A done, again : Of(done) \union Of(again) = Of(done \union again)
  OBVIOUS
<1>4. \A done : Of(done) \subseteq Incoming
  OBVIOUS
<1>5. \A done, again \in SUBSET senders : done \union again \in SUBSET senders
  OBVIOUS
<1> HIDE DEF Of, senders
<1>6. \A ids \in SUBSET Incoming :
         /\ Acked(a, ids).online = a.online /\ Acked(a, ids).acked = ids
         /\ \A more : Acked(Acked(a, ids), more) = Acked(a, more)
  <2> SUFFICES ASSUME NEW ids \in SUBSET Incoming
               PROVE  /\ Acked(a, ids).online = a.online /\ Acked(a, ids).acked = ids
                      /\ \A more : Acked(Acked(a, ids), more) = Acked(a, more)
    OBVIOUS
  <2>1. Acked(a, ids).online = a.online /\ Acked(a, ids).acked = ids
    BY <1>2, AckedAccount DEF Fields
  <2>2. \A more : Acked(Acked(a, ids), more) = Acked(a, more)
    BY <1>2, AccountDomain DEF Acked
  <2> QED
    BY <2>1, <2>2
<1>7. CASE ~a.online
  <2>1. o.to = a
    BY <1>7, RefusedOutcome DEF MarkChatRead
  <2> QED
    BY <2>1
<1>8. CASE a.online
  <2> DEFINE Reached(ids) == \E q \in MarkChatRead(a) : q.to = Acked(a, ids)
  <2>1. Reached(Incoming) /\ \A done \in SUBSET senders : Reached(a.acked \union Of(done))
    <3>1. /\ [ok |-> TRUE, to |-> Acked(a, Incoming)] \in MarkChatRead(a)
          /\ \A done \in SUBSET senders :
                [ok |-> FALSE, to |-> Acked(a, a.acked \union Of(done))] \in MarkChatRead(a)
      BY <1>1, <1>8
    <3> QED
      BY <3>1
  <2>2. \/ o.to = Acked(a, Incoming)
        \/ \E done \in SUBSET senders : o.to = Acked(a, a.acked \union Of(done))
    BY <1>1, <1>8
  <2> HIDE DEF Reached
  <2>3. ASSUME NEW ids \in SUBSET Incoming, o.to = Acked(a, ids)
        PROVE  \/ p.to = Acked(a, Incoming)
               \/ \E again \in SUBSET senders : p.to = Acked(a, ids \union Of(again))
    <3>1. o.to.online /\ o.to.acked = ids
      BY <1>6, <1>8, <2>3
    <3>2. \/ p.to = Acked(o.to, Incoming)
          \/ \E again \in SUBSET senders : p.to = Acked(o.to, o.to.acked \union Of(again))
      BY <1>1, <3>1
    <3>3. \A more : Acked(o.to, more) = Acked(a, more)
      BY <1>6, <2>3
    <3> QED
      BY <3>1, <3>2, <3>3
  <2>4. CASE o.to = Acked(a, Incoming)
    <3>1. \A again : Incoming \union Of(again) = Incoming
      BY <1>4
    <3>2. p.to = Acked(a, Incoming)
      BY <2>3, <2>4, <3>1
    <3> QED
      BY <2>1, <3>2 DEF Reached
  <2>5. ASSUME NEW done \in SUBSET senders, o.to = Acked(a, a.acked \union Of(done))
        PROVE  \E q \in MarkChatRead(a) : q.to = p.to
    <3>1. a.acked \union Of(done) \in SUBSET Incoming
      BY <1>2, <1>4
    <3>2. \/ p.to = Acked(a, Incoming)
          \/ \E again \in SUBSET senders :
                p.to = Acked(a, (a.acked \union Of(done)) \union Of(again))
      BY <2>3, <2>5, <3>1
    <3>3. \A again : (a.acked \union Of(done)) \union Of(again) =
                        a.acked \union Of(done \union again)
      BY <1>3
    <3>4. \/ p.to = Acked(a, Incoming)
          \/ \E both \in SUBSET senders : p.to = Acked(a, a.acked \union Of(both))
      BY <1>5, <3>2, <3>3
    <3> QED
      BY <2>1, <3>4 DEF Reached
  <2> QED
    BY <2>2, <2>4, <2>5
<1> QED
  BY <1>7, <1>8

\* request_sync counts a request.
LEMMA RequestSyncAsks ==
    ASSUME NEW a \in Sound, NEW c \in registerRequestSync(a)
    PROVE  /\ c.tool = "request_sync" /\ c.hints = Sets /\ c.back = {}
           /\ \A o \in c.outcomes : o.to \in Sound /\ IsAdditive(a, o.to)
<1> DEFINE b == Put(a, "asked", a.asked + 1)
<1>1. /\ c.tool = "request_sync" /\ c.hints = Sets /\ c.back = {}
      /\ c.outcomes = RequestHistorySync(a)
  BY DEF registerRequestSync, Call
<1>2. RequestHistorySync(a) = IF a.asked = MaxAsked THEN Refused(a) ELSE Ask(a, {b})
  BY DEF RequestHistorySync, Put
<1>3. a.asked # MaxAsked => b \in Sound /\ IsAdditive(a, b)
  <2> SUFFICES ASSUME a.asked # MaxAsked
               PROVE  b \in Sound /\ IsAdditive(a, b)
    OBVIOUS
  <2>1. a \in AccountType /\ a.asked \in 0 .. MaxAsked
    BY DEF Sound, AccountType
  <2>2. a.asked + 1 \in 0 .. MaxAsked
    BY <2>1, AccountConstants
  <2>3. b \in AccountType
    BY <2>1, <2>2, Retyped
  <2> QED
    BY <2>3, KeptAdds
<1> HIDE DEF b
<1>4. \A o \in c.outcomes : o.to = a \/ (a.asked # MaxAsked /\ o.to = b)
  BY <1>1, <1>2, AskOutcome, RefusedOutcome
<1> QED
  BY <1>1, <1>3, <1>4, Itself

\* download_media keeps the file.
LEMMA DownloadMediaKeeps ==
    ASSUME NEW a \in Sound, NEW c \in registerDownloadMedia(a)
    PROVE  /\ c.tool = "download_media" /\ c.hints = Sets /\ c.back = {}
           /\ \A o \in c.outcomes : o.to \in Sound /\ IsAdditive(a, o.to)
           /\ \A o \in c.outcomes : \A d \in registerDownloadMedia(o.to) :
                 \A p \in d.outcomes : \E q \in c.outcomes : q.to = p.to
<1> DEFINE Kept(b) == Put(b, "downloaded", TRUE)
<1>1. /\ c.tool = "download_media" /\ c.hints = Sets /\ c.back = {}
      /\ c.outcomes = Download(a)
  BY DEF registerDownloadMedia, Call
<1>2. \A b : \A d \in registerDownloadMedia(b) : d.outcomes = Download(b)
  BY DEF registerDownloadMedia, Call
<1>3. \A b : Download(b) = {[ok |-> b.downloaded, to |-> b]}
                              \union IF b.online THEN {[ok |-> TRUE, to |-> Kept(b)]} ELSE {}
  BY DEF Download, Put
<1>4. a \in AccountType
  BY DEF Sound
<1>5. Kept(a) \in Sound /\ IsAdditive(a, Kept(a))
  <2>1. Kept(a) \in AccountType
    BY <1>4, Retyped
  <2> QED
    BY <2>1, KeptAdds
<1>6. Kept(Kept(a)) = Kept(a)
  <2>1. \A x : Put(Put(a, "downloaded", x), "downloaded", x) = Put(a, "downloaded", x)
    BY <1>4, ChangedTwice DEF Fields
  <2> QED
    BY <2>1
<1> HIDE DEF Kept
<1>7. \A b : \A p \in Download(b) : p.to = b \/ (b.online /\ p.to = Kept(b))
  BY <1>3
<1>8. ASSUME NEW o \in c.outcomes
      PROVE  o.to \in Sound /\ IsAdditive(a, o.to)
  BY <1>1, <1>5, <1>7, Itself
<1>9. ASSUME NEW o \in c.outcomes, NEW d \in registerDownloadMedia(o.to),
             NEW p \in d.outcomes
      PROVE  \E q \in c.outcomes : q.to = p.to
  <2>1. CASE o.to = a
    <3>1. d.outcomes = c.outcomes
      BY <1>1, <1>2, <2>1
    <3> QED
      BY <3>1
  <2>2. CASE o.to = Kept(a)
    <3>1. p.to = Kept(a)
      BY <1>2, <1>6, <1>7, <2>2
    <3> QED
      BY <2>2, <3>1
  <2>3. o.to = a \/ o.to = Kept(a)
    BY <1>1, <1>7
  <2> QED
    BY <2>1, <2>2, <2>3
<1> QED
  BY <1>1, <1>8, <1>9

-------------------------------------------------------------------------------
(* Part 7: the tools together.                                             *)

\* Every tool is of one of these kinds, and its name tells which.
LEMMA Kinds ==
    ASSUME NEW a
    PROVE  registerTools(a) =
              Readers(a) \union Setters(a) \union Blockers(a) \union Senders(a)
                 \union registerCreateGroup(a) \union registerLeaveGroup(a)
                 \union registerJoinGroupWithLink(a) \union registerGetGroupInviteLink(a)
                 \union registerEditMessage(a) \union registerDeleteMessage(a)
                 \union registerMarkRead(a) \union registerMarkChatRead(a)
                 \union registerRequestSync(a) \union registerDownloadMedia(a)
BY DEF registerTools, GroupTools, PrivacyTools, SendTools, MessageTools, QueryTools,
   Readers, Setters, Blockers, Senders

ReaderNames ==
    {"list_groups", "get_group_info", "get_blocklist", "get_privacy_settings",
     "get_poll_results", "search_contacts", "list_messages", "list_chats", "get_chat",
     "get_message_context", "is_on_whatsapp", "get_status"}

SenderNames ==
    {"send_message", "send_file", "send_audio_message", "send_poll", "send_contact_card",
     "send_reply"}

LEMMA ReadersNamed ==
    ASSUME NEW a, NEW c \in Readers(a)
    PROVE  c.tool \in ReaderNames
<1>1. CASE c \in registerListGroups(a) \union registerGetBlocklist(a)
                     \union registerGetPrivacySettings(a) \union registerIsOnWhatsApp(a)
                     \union registerGetGroupInfo(a)
  BY <1>1 DEF registerListGroups, registerGetBlocklist, registerGetPrivacySettings,
     registerIsOnWhatsApp, registerGetGroupInfo, Call, ReaderNames
<1>2. CASE c \in registerGetPollResults(a) \union registerSearchContacts(a)
                     \union registerListMessages(a) \union registerListChats(a)
                     \union registerGetChat(a) \union registerGetMessageContext(a)
                     \union registerGetStatus(a)
  BY <1>2 DEF registerGetPollResults, registerSearchContacts, registerListMessages,
     registerListChats, registerGetChat, registerGetMessageContext, registerGetStatus,
     Call, ReaderNames
<1> QED
  BY <1>1, <1>2 DEF Readers

LEMMA SettersNamed ==
    SetterNames = {"set_group_name", "set_group_topic", "set_group_announce",
                   "set_group_locked", "send_presence", "set_privacy_setting",
                   "set_status_message", "send_reaction", "send_typing", "send_poll_vote"}
BY DEF SetterNames, SettingOf

\* The name of a call tells what registered it.
LEMMA NameTells ==
    ASSUME NEW a \in AccountType, NEW c \in registerTools(a)
    PROVE  /\ c.tool \in ReaderNames => c \in Readers(a)
           /\ c.tool \in SetterNames => c \in Setters(a)
           /\ c.tool \in {"block_contact", "unblock_contact"} => c \in Blockers(a)
           /\ c.tool = "leave_group" => c \in registerLeaveGroup(a)
           /\ c.tool = "join_group_with_link" => c \in registerJoinGroupWithLink(a)
           /\ c.tool = "edit_message" => c \in registerEditMessage(a)
           /\ c.tool = "delete_message" => c \in registerDeleteMessage(a)
           /\ c.tool = "mark_read" => c \in registerMarkRead(a)
           /\ c.tool = "mark_chat_read" => c \in registerMarkChatRead(a)
           /\ c.tool = "download_media" => c \in registerDownloadMedia(a)
<1>1. /\ c \in Readers(a) => c.tool \in ReaderNames
      /\ c \in Setters(a) => c.tool \in SetterNames
      /\ c \in Senders(a) => c.tool \in SenderNames
  BY ReadersNamed, SettersSet, SendersSend DEF SenderNames
<1>2. c \in Blockers(a) => c.tool \in {"block_contact", "unblock_contact"}
  BY BlockersBlock
<1>3. /\ c \in registerCreateGroup(a) => c.tool = "create_group"
      /\ c \in registerLeaveGroup(a) => c.tool = "leave_group"
      /\ c \in registerJoinGroupWithLink(a) => c.tool = "join_group_with_link"
      /\ c \in registerGetGroupInviteLink(a) => c.tool = "get_group_invite_link"
  BY DEF registerCreateGroup, registerLeaveGroup, registerJoinGroupWithLink,
     registerGetGroupInviteLink, Call
<1>4. /\ c \in registerEditMessage(a) => c.tool = "edit_message"
      /\ c \in registerDeleteMessage(a) => c.tool = "delete_message"
      /\ c \in registerMarkRead(a) => c.tool = "mark_read"
      /\ c \in registerMarkChatRead(a) => c.tool = "mark_chat_read"
  BY DEF registerEditMessage, registerDeleteMessage, registerMarkRead,
     registerMarkChatRead, Call
<1>5. /\ c \in registerRequestSync(a) => c.tool = "request_sync"
      /\ c \in registerDownloadMedia(a) => c.tool = "download_media"
  BY DEF registerRequestSync, registerDownloadMedia, Call
<1>6. \/ c \in Readers(a) \/ c \in Setters(a) \/ c \in Blockers(a) \/ c \in Senders(a)
      \/ c \in registerCreateGroup(a) \/ c \in registerLeaveGroup(a)
      \/ c \in registerJoinGroupWithLink(a) \/ c \in registerGetGroupInviteLink(a)
      \/ c \in registerEditMessage(a) \/ c \in registerDeleteMessage(a)
      \/ c \in registerMarkRead(a) \/ c \in registerMarkChatRead(a)
      \/ c \in registerRequestSync(a) \/ c \in registerDownloadMedia(a)
  BY Kinds
<1> QED
  BY <1>1, <1>2, <1>3, <1>4, <1>5, <1>6, SettersNamed DEF ReaderNames, SenderNames

\* Whatever is called, the account is left sound.
LEMMA CallsAreSound ==
    ASSUME NEW a \in Sound, NEW c \in registerTools(a), NEW o \in c.outcomes
    PROVE  o.to \in Sound
<1>1. a \in AccountType /\ a.groups \union {HomeGroup} \subseteq a.made
  BY DEF Sound
<1>2. CASE c \in Readers(a)
  BY <1>2, ReadersRead
<1>3. CASE c \in Setters(a)
  <2> DEFINE b == Put(a, SettingOf[c.tool], c.arg)
  <2>1. o.to = a \/ (o.to = b /\ b \in AccountType)
    BY <1>1, <1>3, SetterSets
  <2>2. SettingOf[c.tool] \in Fields \ {"online", "groups", "made"}
    BY <1>1, <1>3, SettersSet, AcceptedFits
  <2>3. b["groups"] = a["groups"] /\ b["made"] = a["made"]
    BY <1>1, <2>2, ChangedTwice DEF Fields
  <2> HIDE DEF b
  <2> QED
    BY <1>1, <2>1, <2>3 DEF Sound
<1>4. CASE c \in Blockers(a)
  BY <1>4, BlockerSets
<1>5. CASE c \in Senders(a)
  BY <1>5, SendersAdd
<1>6. CASE c \in registerCreateGroup(a)
  BY <1>6, CreateGroupAdds
<1>7. CASE c \in registerLeaveGroup(a)
  BY <1>7, LeaveGroupLeaves
<1>8. CASE c \in registerJoinGroupWithLink(a)
  BY <1>8, JoinGroupJoins
<1>9. CASE c \in registerGetGroupInviteLink(a)
  BY <1>9, InviteLinkMints
<1>10. CASE c \in registerEditMessage(a)
  BY <1>10, EditMessageReturns
<1>11. CASE c \in registerDeleteMessage(a)
  BY <1>11, DeleteMessageSettles
<1>12. CASE c \in registerMarkRead(a)
  BY <1>12, MarkReadAdds
<1>13. CASE c \in registerMarkChatRead(a)
  BY <1>13, MarkChatReadAdds
<1>14. CASE c \in registerRequestSync(a)
  BY <1>14, RequestSyncAsks
<1>15. CASE c \in registerDownloadMedia(a)
  BY <1>15, DownloadMediaKeeps
<1> QED
  BY <1>2, <1>3, <1>4, <1>5, <1>6, <1>7, <1>8, <1>9, <1>10, <1>11, <1>12, <1>13, <1>14,
     <1>15, Kinds

\* The invariant the other properties are proved from.
SoundOK == account \in Sound /\ calls \in 0 .. MaxCalls

LEMMA InitSound == Init => SoundOK
<1> SUFFICES ASSUME Init
             PROVE  SoundOK
  OBVIOUS
<1>1. account \in AccountType
  <2>1. /\ {HomeGroup} \in SUBSET Group /\ 1 \in 1 .. MaxLinks /\ 0 \in 0 .. MaxAsked
        /\ << >> \in Seq(Sent) /\ {} \in SUBSET Incoming
    BY AccountConstants
  <2> QED
    BY <2>1 DEF Init, AccountType
<1>2. account.groups = {HomeGroup} /\ account.made = {HomeGroup}
  BY DEF Init
<1>3. calls \in 0 .. MaxCalls
  BY CallsAreBounded DEF Init
<1> QED
  BY <1>1, <1>2, <1>3 DEF SoundOK, Sound

LEMMA NextSound == SoundOK /\ [Next]_vars => SoundOK'
<1> SUFFICES ASSUME SoundOK, [Next]_vars
             PROVE  SoundOK'
  OBVIOUS
<1>1. /\ account \in Sound /\ account \in AccountType /\ calls \in 0 .. MaxCalls
      /\ account.groups \union {HomeGroup} \subseteq account.made
  BY DEF SoundOK, Sound
<1>2. CASE UNCHANGED vars
  BY <1>2 DEF vars, SoundOK
<1>3. CASE Invoke
  <2>1. calls' \in 0 .. MaxCalls
    BY <1>1, <1>3, CallsAreBounded DEF Invoke
  <2>2. PICK c \in registerTools(account) : \E o \in c.outcomes : account' = o.to
    BY <1>3 DEF Invoke
  <2>3. account' \in Sound
    BY <1>1, <2>2, CallsAreSound
  <2> QED
    BY <2>1, <2>3 DEF SoundOK
<1>4. CASE Others
  <2>1. calls' \in 0 .. MaxCalls
    BY <1>1, <1>4, CallsAreBounded DEF Others
  <2>2. \/ account' = Put(account, "online", ~account.online)
        \/ \E t \in Text : account' = Put(account, "title", t)
        \/ account' = Put(account, "groups", account.groups \ {HomeGroup})
        \/ \E m \in Incoming : account' = Put(account, "acked", account.acked \union {m})
    BY <1>4 DEF Others, Put
  <2>3. /\ account.online \in BOOLEAN /\ account.groups \in SUBSET Group
        /\ account.acked \in SUBSET Incoming
    BY <1>1 DEF AccountType
  <2>4. ASSUME NEW f \in {"online", "title", "acked"}, NEW x,
               Put(account, f, x) \in AccountType
        PROVE  Put(account, f, x) \in Sound
    <3> DEFINE b == Put(account, f, x)
    <3>1. b["groups"] = account["groups"] /\ b["made"] = account["made"]
      BY <1>1, ChangedTwice DEF Fields
    <3> HIDE DEF b
    <3>2. b \in AccountType
      BY <2>4 DEF b
    <3>3. b \in Sound
      BY <1>1, <3>1, <3>2 DEF Sound
    <3> QED
      BY <3>3 DEF b
  <2>5. CASE account' = Put(account, "online", ~account.online)
    <3>1. (~account.online) \in BOOLEAN
      OBVIOUS
    <3>2. Put(account, "online", ~account.online) \in AccountType
      BY <1>1, <3>1, Retyped
    <3>3. account' \in Sound
      BY <2>4, <2>5, <3>2
    <3> QED
      BY <2>1, <3>3 DEF SoundOK
  <2>6. ASSUME NEW t \in Text, account' = Put(account, "title", t)
        PROVE  SoundOK'
    <3>1. Put(account, "title", t) \in AccountType
      BY <1>1, Retyped
    <3>2. account' \in Sound
      BY <2>4, <2>6, <3>1
    <3> QED
      BY <2>1, <3>2 DEF SoundOK
  <2>7. CASE account' = Put(account, "groups", account.groups \ {HomeGroup})
    <3> DEFINE gs == account.groups \ {HomeGroup}
               b == Put(account, "groups", gs)
    <3>1. gs \in SUBSET Group /\ gs \subseteq account.groups
      BY <2>3
    <3> HIDE DEF gs
    <3>2. b \in AccountType /\ b.groups = gs /\ \A f \in Fields \ {"groups"} : b[f] = account[f]
      BY <1>1, <3>1, Regrouped
    <3> HIDE DEF b
    <3>3. b.made = account.made
      BY <3>2 DEF Fields
    <3>4. b \in Sound
      BY <1>1, <3>1, <3>2, <3>3 DEF Sound
    <3> QED
      BY <2>1, <2>7, <3>4 DEF SoundOK, b, gs
  <2>8. ASSUME NEW m \in Incoming, account' = Put(account, "acked", account.acked \union {m})
        PROVE  SoundOK'
    <3> DEFINE ids == account.acked \union {m}
    <3>1. ids \in SUBSET Incoming
      BY <2>3
    <3>2. account' = Put(account, "acked", ids)
      BY <2>8
    <3> HIDE DEF ids
    <3>3. Put(account, "acked", ids) \in AccountType
      BY <1>1, <3>1, Retyped
    <3>4. account' \in Sound
      BY <2>4, <3>2, <3>3
    <3> QED
      BY <2>1, <3>4 DEF SoundOK
  <2> QED
    BY <2>2, <2>5, <2>6, <2>7, <2>8
<1> QED
  BY <1>2, <1>3, <1>4 DEF Next

\* The account reached is typed and the groups the user is in, and the home group,
\* are among those ever made.  The second half is what makes create_group's way
\* back work: the group it makes is new, so leaving it restores the groups.
THEOREM ToolsSound == Spec => []SoundOK
<1> QED
  BY InitSound, NextSound, PTL DEF Spec

\* Type correctness (of what the methods leave of the account and of the count).
THEOREM ToolsTypeCorrect == Spec => []TypeOK
<1>1. SoundOK => TypeOK
  BY DEF SoundOK, Sound, TypeOK
<1> QED
  BY <1>1, ToolsSound, PTL

\* A call that is not destructive adds, or a further call puts back what it changed.
LEMMA AddsOrReturns ==
    ASSUME NEW a \in Sound, NEW c \in registerTools(a), ~c.hints.destructive,
           NEW o \in c.outcomes
    PROVE  IsAdditive(a, o.to) \/ \E d \in registerTools(o.to) : Undoes(d, a)
<1>1. a \in AccountType
  BY DEF Sound
<1>2. Removes.destructive /\ Remints.destructive
  BY DEF Removes, Remints, Hints
<1>3. /\ c \notin registerLeaveGroup(a) /\ c \notin registerGetGroupInviteLink(a)
      /\ c \notin registerEditMessage(a) /\ c \notin registerDeleteMessage(a)
  BY <1>2, LeaveGroupLeaves, InviteLinkMints, EditMessageEdits, DeleteMessageRevokes
<1>4. CASE c \in Readers(a)
  BY <1>4, ReadersRead, Itself
<1>5. CASE c \in Setters(a)
  <2>1. CASE o.to = a
    BY <2>1, Itself
  <2>2. CASE c.tool = "send_poll_vote" /\ a.vote = None
    BY <1>1, <1>5, <2>2, FirstVote
  <2>3. CASE o.to # a /\ ~(c.tool = "send_poll_vote" /\ a.vote = None)
    <3>1. \E d \in Setters(o.to) : Undoes(d, a)
      BY <1>1, <1>5, <2>3, SetterReturns
    <3> QED
      BY <3>1, Kinds
  <2> QED
    BY <2>1, <2>2, <2>3
<1>6. CASE c \in Blockers(a)
  <2>1. o.to = a \/ \E d \in Blockers(o.to) : Undoes(d, a)
    BY <1>6, BlockerSets
  <2> QED
    BY <2>1, Itself, Kinds
<1>7. CASE c \in registerJoinGroupWithLink(a)
  <2>1. o.to = a \/ \E d \in registerLeaveGroup(o.to) : Undoes(d, a)
    BY <1>7, JoinGroupJoins
  <2> QED
    BY <2>1, Itself, Kinds
<1>8. CASE c \in Senders(a) \union registerCreateGroup(a)
  BY <1>8, SendersAdd, CreateGroupAdds
<1>9. CASE c \in registerMarkRead(a) \union registerMarkChatRead(a)
                     \union registerRequestSync(a) \union registerDownloadMedia(a)
  BY <1>9, MarkReadAdds, MarkChatReadAdds, RequestSyncAsks, DownloadMediaKeeps
<1> QED
  BY <1>3, <1>4, <1>5, <1>6, <1>7, <1>8, <1>9, Kinds

\* Only the tools that read are declared read-only, or to work offline.
LEMMA ReadOnlyReads ==
    ASSUME NEW a \in Sound, NEW c \in registerTools(a),
           c.hints.readOnly \/ c.hints.offline
    PROVE  c \in Readers(a)
<1>1. a \in AccountType
  BY DEF Sound
<1>2. \A h \in {Sets, Adds, Removes, Remints} : ~h.readOnly /\ ~h.offline
  BY DEF Sets, Adds, Removes, Remints, Hints
<1>3. \/ c \in Readers(a)
      \/ c.hints \in {Sets, Adds, Removes, Remints}
  <2>1. c \in Setters(a) => c.hints = Sets
    BY SettersSet DEF SetterCall, Call
  <2>2. /\ c \in Blockers(a) => c.hints = Sets
        /\ c \in Senders(a) => c.hints = Adds
    BY <1>1, BlockersBlock, SendersSend
  <2>3. /\ c \in registerCreateGroup(a) => c.hints = Adds
        /\ c \in registerLeaveGroup(a) => c.hints = Removes
        /\ c \in registerJoinGroupWithLink(a) => c.hints = Sets
        /\ c \in registerGetGroupInviteLink(a) => c.hints = Remints
    BY DEF registerCreateGroup, registerLeaveGroup, registerJoinGroupWithLink,
       registerGetGroupInviteLink, Call
  <2>4. /\ c \in registerEditMessage(a) => c.hints = Removes
        /\ c \in registerDeleteMessage(a) => c.hints = Removes
    BY EditMessageEdits, DeleteMessageRevokes
  <2>5. /\ c \in registerMarkRead(a) => c.hints = Sets
        /\ c \in registerMarkChatRead(a) => c.hints = Sets
        /\ c \in registerRequestSync(a) => c.hints = Sets
        /\ c \in registerDownloadMedia(a) => c.hints = Sets
    BY MarkReadAcks, MarkChatReadAdds, RequestSyncAsks, DownloadMediaKeeps
  <2> QED
    BY <2>1, <2>2, <2>3, <2>4, <2>5, Kinds
<1> QED
  BY <1>2, <1>3

\* The hints of a tool's registration are true of every call on every account that
\* is reached: a read-only tool changes nothing, one that works offline can
\* succeed, and one that is not destructive only adds, or leaves what some further
\* call can put back.
THEOREM HintsAlwaysTrue == Spec => []HintsAreTrue
<1>1. ASSUME NEW a \in Sound, NEW c \in registerTools(a)
      PROVE  /\ c.hints.readOnly => \A o \in c.outcomes : o.to = a
             /\ c.hints.offline => \E o \in c.outcomes : o.ok
             /\ ~c.hints.destructive =>
                   \A o \in c.outcomes :
                      IsAdditive(a, o.to) \/ \E d \in registerTools(o.to) : Undoes(d, a)
  BY ReadOnlyReads, ReadersRead, AddsOrReturns
<1>2. SoundOK => HintsAreTrue
  BY <1>1 DEF SoundOK, HintsAreTrue
<1> QED
  BY <1>2, ToolsSound, PTL

\* A repeated idempotent call leads to no account that the first could not lead to.
LEMMA RepeatSettles ==
    ASSUME NEW a \in Sound, NEW c \in registerTools(a), c.hints.idempotent,
           c.tool # "request_sync", NEW o \in c.outcomes,
           NEW d \in registerTools(o.to), d.tool = c.tool, d.arg = c.arg,
           NEW p \in d.outcomes
    PROVE  \E q \in c.outcomes : q.to = p.to
<1>1. a \in AccountType /\ o.to \in Sound /\ o.to \in AccountType
  BY CallsAreSound DEF Sound
<1>2. ~Adds.idempotent /\ ~Remints.idempotent
  BY DEF Adds, Remints, Hints
<1>3. /\ c \notin Senders(a) /\ c \notin registerCreateGroup(a)
      /\ c \notin registerGetGroupInviteLink(a) /\ c \notin registerRequestSync(a)
  <2>1. \A o1 \in c.outcomes : c \notin registerCreateGroup(a)
    BY <1>2, CreateGroupAdds
  <2> QED
    BY <1>1, <1>2, <2>1, SendersSend, InviteLinkMints, RequestSyncAsks
<1>4. CASE c \in Readers(a)
  <2>1. d \in Readers(o.to)
    BY <1>1, <1>4, ReadersNamed, NameTells
  <2>2. o.to = a /\ p.to = o.to
    BY <1>4, <2>1, ReadersRead
  <2> QED
    BY <2>2
<1>5. CASE c \in Setters(a)
  <2>1. d \in Setters(o.to)
    BY <1>1, <1>5, SettersSet, NameTells
  <2> QED
    BY <1>1, <1>5, <2>1, SetterSettles
<1>6. CASE c \in Blockers(a)
  <2>1. d \in Blockers(o.to)
    <3>1. c.tool \in {"block_contact", "unblock_contact"}
      BY <1>6, BlockersBlock
    <3> QED
      BY <1>1, <3>1, NameTells
  <2> QED
    BY <1>6, <2>1, BlockerSettles
<1>7. CASE c \in registerLeaveGroup(a)
  <2>1. d \in registerLeaveGroup(o.to)
    BY <1>1, <1>7, LeaveGroupLeaves, NameTells
  <2> QED
    BY <1>7, <2>1, LeaveGroupSettles
<1>8. CASE c \in registerJoinGroupWithLink(a)
  <2>1. d \in registerJoinGroupWithLink(o.to)
    BY <1>1, <1>8, JoinGroupJoins, NameTells
  <2> QED
    BY <1>8, <2>1, JoinGroupSettles
<1>9. CASE c \in registerEditMessage(a)
  <2>1. d \in registerEditMessage(o.to)
    <3>1. c.tool = "edit_message"
      BY <1>9, EditMessageEdits
    <3> QED
      BY <1>1, <3>1, NameTells
  <2> QED
    BY <1>9, <2>1, EditMessageSettles
<1>10. CASE c \in registerDeleteMessage(a)
  <2>1. d \in registerDeleteMessage(o.to)
    <3>1. c.tool = "delete_message"
      BY <1>10, DeleteMessageRevokes
    <3> QED
      BY <1>1, <3>1, NameTells
  <2> QED
    BY <1>10, <2>1, DeleteMessageSettles
<1>11. CASE c \in registerMarkRead(a)
  <2>1. d \in registerMarkRead(o.to)
    BY <1>1, <1>11, MarkReadAcks, NameTells
  <2> QED
    BY <1>11, <2>1, MarkReadSettles
<1>12. CASE c \in registerMarkChatRead(a)
  <2>1. d \in registerMarkChatRead(o.to) /\ c.outcomes = MarkChatRead(a)
    BY <1>1, <1>12, MarkChatReadAdds, NameTells
  <2>2. d.outcomes = MarkChatRead(o.to)
    BY <1>1, <2>1, MarkChatReadAdds
  <2> QED
    BY <2>1, <2>2, MarkChatReadSettles
<1>13. CASE c \in registerDownloadMedia(a)
  <2>1. d \in registerDownloadMedia(o.to)
    BY <1>1, <1>13, DownloadMediaKeeps, NameTells
  <2> QED
    BY <1>13, <2>1, DownloadMediaKeeps
<1> QED
  BY <1>3, <1>4, <1>5, <1>6, <1>7, <1>8, <1>9, <1>10, <1>11, <1>12, <1>13, Kinds

\* A client that lost the answer of an idempotent call may repeat it: the second
\* call leads to no account the first could not have led to.
THEOREM RepeatsAlwaysSettle == Spec => []RepeatsSettle
<1>1. ASSUME SoundOK
      PROVE  RepeatsSettle
  <2>1. account \in Sound
    BY <1>1 DEF SoundOK
  <2> SUFFICES ASSUME NEW c \in registerTools(account), c.hints.idempotent,
                      c.tool # "request_sync", NEW o \in c.outcomes,
                      NEW d \in registerTools(o.to), d.tool = c.tool, d.arg = c.arg,
                      NEW p \in d.outcomes
               PROVE  \E q \in c.outcomes : q.to = p.to
    BY DEF RepeatsSettle
  <2> QED
    BY <2>1, RepeatSettles
<1> QED
  BY <1>1, ToolsSound, PTL

\* What a description calls reversible, the tools it names reverse.
LEMMA BackAsPromised ==
    ASSUME NEW a \in Sound, NEW c \in registerTools(a), c.back # {},
           c.tool \notin {"send_reply", "send_poll_vote"}, NEW o \in c.outcomes,
           o.ok, o.to # a
    PROVE  \E d \in registerTools(o.to) : d.tool \in c.back /\ Undoes(d, a)
<1>1. a \in AccountType
  BY DEF Sound
<1>2. CASE c \in Setters(a)
  <2>1. c.back = {c.tool}
    BY <1>2, SettersSet DEF SetterCall, Call
  <2>2. \E d \in Setters(o.to) : d.tool = c.tool /\ Undoes(d, a)
    BY <1>1, <1>2, SetterReturns
  <2> QED
    BY <2>1, <2>2, Kinds
<1>3. CASE c \in Blockers(a)
  <2>1. \E d \in Blockers(o.to) : d.tool \in c.back /\ Undoes(d, a)
    BY <1>3, BlockerSets
  <2> QED
    BY <2>1, Kinds
<1>4. CASE c \in Senders(a)
  <2>1. c.back = {"delete_message"}
    BY <1>1, <1>4, SendersSend
  <2>2. \E d \in registerDeleteMessage(o.to) : d.tool = "delete_message" /\ Undoes(d, a)
    BY <1>4, SendersAdd
  <2> QED
    BY <2>1, <2>2, Kinds
<1>5. CASE c \in registerCreateGroup(a)
  <2>1. /\ c.back = {"leave_group"}
        /\ \E d \in registerLeaveGroup(o.to) : d.tool = "leave_group" /\ Undoes(d, a)
    BY <1>5, CreateGroupAdds
  <2> QED
    BY <2>1, Kinds
<1>6. CASE c \in registerJoinGroupWithLink(a)
  <2>1. /\ c.back = {"leave_group"}
        /\ \E d \in registerLeaveGroup(o.to) : d.tool = "leave_group" /\ Undoes(d, a)
    BY <1>6, JoinGroupJoins
  <2> QED
    BY <2>1, Kinds
<1>7. CASE c \in registerEditMessage(a)
  <2>1. c.back = {"edit_message"}
    BY <1>7, EditMessageEdits
  <2>2. \E d \in registerEditMessage(o.to) : d.tool = "edit_message" /\ Undoes(d, a)
    BY <1>7, EditMessageReturns
  <2> QED
    BY <2>1, <2>2, Kinds
<1>8. /\ c \notin Readers(a) /\ c \notin registerLeaveGroup(a)
      /\ c \notin registerGetGroupInviteLink(a) /\ c \notin registerDeleteMessage(a)
  BY ReadersRead, LeaveGroupLeaves, InviteLinkMints, DeleteMessageRevokes
<1>9. /\ c \notin registerMarkRead(a) /\ c \notin registerMarkChatRead(a)
      /\ c \notin registerRequestSync(a) /\ c \notin registerDownloadMedia(a)
  BY MarkReadAcks, MarkChatReadAdds, RequestSyncAsks, DownloadMediaKeeps
<1> QED
  BY <1>2, <1>3, <1>4, <1>5, <1>6, <1>7, <1>8, <1>9, Kinds

\* The ways back that the descriptions name are there, after every success.
THEOREM AlwaysUndoneAsPromised == Spec => []UndoneAsPromised
<1>1. ASSUME SoundOK
      PROVE  UndoneAsPromised
  <2>1. account \in Sound
    BY <1>1 DEF SoundOK
  <2> SUFFICES ASSUME NEW c \in registerTools(account), c.back # {},
                      c.tool \notin {"send_reply", "send_poll_vote"}, NEW o \in c.outcomes,
                      o.ok, Visible(o.to) # Visible(account)
               PROVE  \E d \in registerTools(o.to) : d.tool \in c.back /\ Undoes(d, account)
    BY DEF UndoneAsPromised
  <2>2. o.to # account
    OBVIOUS
  <2> QED
    BY <2>1, <2>2, BackAsPromised
<1> QED
  BY <1>1, ToolsSound, PTL

================================================================================
