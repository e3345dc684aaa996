--------------------------- MODULE GroupUpdateProofs ---------------------------
(***************************************************************************)
(* Proofs about GroupUpdate, for groups and lists of any size and any      *)
(* behaviour of WhatsApp and of the other admins.  Inv says which          *)
(* participants a running call has still to ask about and to record, that  *)
(* their addresses differ, and that WhatsApp has changed none of them yet. *)
(***************************************************************************)
EXTENDS GroupUpdate, FiniteSetTheorems, WellFoundedInduction, TLAPS

\* A set of numbers has a first one.
LEMMA FirstOfSet ==
    ASSUME NEW S \in SUBSET Nat, S # {}
    PROVE  First(S) \in S
<1> DEFINE R == {ss \in Nat \X Nat : ss[1] < ss[2]}
<1>1. OpToRel(<, Nat) = R
  BY DEF OpToRel
<1>2. IsWellFoundedOn(R, Nat)
  BY NatLessThanWellFounded, <1>1
<1>3. PICK x \in S : \A y \in S : <<y, x>> \notin R
  BY <1>2, WFMin
<1>4. \A y \in S : x <= y
  <2> TAKE y \in S
  <2>1. ~(y < x)
    BY <1>3
  <2> QED
    BY <2>1
<1> QED
  BY <1>4 DEF First

-------------------------------------------------------------------------------
(* The call.                                                               *)

Verdict == {"ok", "present", "blocked", "refused", "silent"}
Answer == UNION {[S -> Verdict] : S \in SUBSET Nat}
CallType ==
    [at : {"request", "record", "report", "error"}, action : Action, invite : BOOLEAN,
     wish : Wish, target : Seq(JID), status : Seq(Status), todo : SUBSET Nat,
     left : SUBSET Nat, answer : Answer, asked : Nat, lost : BOOLEAN]

-------------------------------------------------------------------------------
(* The invariant of a running call.                                        *)

\* What the lists of the call have in common, and whom its addresses name.
ShapeOK ==
    /\ call \in CallType
    /\ DOMAIN call.status = DOMAIN call.wish
    /\ DOMAIN call.target = DOMAIN call.wish
    /\ \A i \in DOMAIN call.wish :
          /\ call.target[i].who = call.wish[i].who
          /\ call.action # "add" => call.target[i] = Own(call.wish[i].who)

\* What is still to be asked and to be recorded is pending.
WorkOK ==
    /\ call.todo \cap call.left = {}
    /\ \A i \in call.todo \union call.left :
          i \in DOMAIN call.wish /\ call.status[i] = "pending"
    /\ call.at = "request" => call.todo # {}
    /\ call.at = "record" <=> call.left # {}

\* No address is asked about twice.
TargetsOK ==
    call.at # "error" => \A i, k \in DOMAIN call.wish :
        i # k /\ call.status[i] # "not_member" /\ call.status[k] # "not_member"
        => call.target[i] # call.target[k]

\* Nobody whose mapping is known is asked about by number and by LID.
OnceOK ==
    call.at # "error" => \A i, k \in DOMAIN call.wish :
        /\ i # k /\ call.status[i] = "pending" /\ call.status[k] = "pending"
        /\ call.wish[i].who = call.wish[k].who
        => call.wish[i].who \notin facts.known

\* WhatsApp has changed nobody the call has not asked about.
ChangedOK ==
    /\ \A j \in changed : \E i \in DOMAIN call.wish \ call.todo :
          call.status[i] # "not_member" /\ j = call.target[i]
    /\ call.asked = 0 => changed = {}

\* The reply being read says truly whom the request changed, and blocks nobody
\* it changed.
AnswerOK ==
    call.at = "record" =>
        /\ call.left \subseteq DOMAIN call.answer
        /\ \A i \in DOMAIN call.answer :
              /\ i \in DOMAIN call.wish \ call.todo /\ call.status[i] # "not_member"
              /\ call.answer[i] = "ok" <=> call.target[i] \in changed
        /\ \A i, k \in DOMAIN call.answer :
              call.answer[i] = "ok" /\ call.answer[k] = "blocked"
              => call.target[i].who # call.target[k].who
        /\ call.action = "add" /\ facts.lidMode => \E x \in DOMAIN call.wish : DOMAIN call.answer = {x}

GroupOK ==
    /\ role \in [Person -> Role] /\ facts \in Facts /\ changed \subseteq JID
    /\ invites \subseteq [to : Person, code : Person] /\ IsFiniteSet(invites)
    /\ spent \in Nat /\ changes \in 0..MaxChanges

RunOK == ShapeOK /\ WorkOK /\ TargetsOK /\ OnceOK /\ ChangedOK /\ AnswerOK

Inv ==
    /\ GroupOK
    /\ call = Idle \/ RunOK
    /\ call = Idle => changed = {} /\ invites = {}
    /\ ReportIsTrue /\ InvitesArePaidAndTheirs

-------------------------------------------------------------------------------
(* What the operators of the model give.                                   *)

\* The lists of a call, and the people on them.
LEMMA CallLists ==
    ASSUME ShapeOK
    PROVE  /\ call.wish \in Seq(JID) /\ call.target \in Seq(JID) /\ call.status \in Seq(Status)
           /\ DOMAIN call.wish \subseteq Nat /\ IsFiniteSet(DOMAIN call.wish)
           /\ call # Idle
           /\ \A i \in DOMAIN call.wish :
                 /\ call.wish[i] \in JID /\ call.target[i] \in JID /\ call.status[i] \in Status
                 /\ call.wish[i].who \in Person
<1>1. call \in CallType /\ call.wish \in Seq(JID) /\ call.target \in Seq(JID)
      /\ call.status \in Seq(Status) /\ call.at # "idle"
  BY GroupAssumption DEF ShapeOK, CallType
<1>2. call # Idle
  BY <1>1 DEF Idle
<1>3. /\ Len(call.wish) \in Nat /\ DOMAIN call.wish = 1..Len(call.wish)
      /\ \A i \in DOMAIN call.wish : call.wish[i] \in JID
  BY <1>1
<1>4. IsFiniteSet(DOMAIN call.wish)
  BY <1>3, FS_Interval
<1>5. \A i \in DOMAIN call.target : call.target[i] \in JID
  BY <1>1
<1>6. \A i \in DOMAIN call.status : call.status[i] \in Status
  BY <1>1
<1>7. \A j \in JID : j.who \in Person
  BY DEF JID
<1> QED
  BY <1>1, <1>2, <1>3, <1>4, <1>5, <1>6, <1>7 DEF ShapeOK

\* Every address a group shows for a person is that person's.
LEMMA NamesOfPerson ==
    ASSUME NEW p \in Person
    PROVE  /\ Own(p) \in JID /\ Own(p).who = p
           /\ \A j \in Names(p) : j \in JID /\ j.who = p
BY DEF Own, Names, JID

\* A stored mapping leads from a number to the LID of the same person.
LEMMA LidOfSamePerson ==
    ASSUME NEW j \in JID
    PROVE  /\ \A l \in LidForPN(j) : l \in JID /\ l.who = j.who /\ l.form = "lid"
           /\ LidForPN(j) # {} <=> j.form = "pn" /\ j.who \in facts.known
<1>1. [j EXCEPT !.form = "lid"] \in JID /\ [j EXCEPT !.form = "lid"].who = j.who
      /\ [j EXCEPT !.form = "lid"].form = "lid"
  BY DEF JID
<1> QED
  BY <1>1 DEF LidForPN

\* A batch is a part of what is still to be asked.
LEMMA BatchOfTodo ==
    ASSUME ShapeOK, WorkOK, call.at = "request"
    PROVE  /\ Batch \subseteq call.todo /\ Batch # {}
           /\ Batch \subseteq DOMAIN call.wish /\ Batch \in SUBSET Nat
           /\ call.action = "add" /\ facts.lidMode =>
                 \E x \in DOMAIN call.wish : Batch = {x}
<1>1. call.todo \in SUBSET Nat /\ call.todo # {} /\ call.todo \subseteq DOMAIN call.wish
  BY DEF ShapeOK, CallType, WorkOK
<1>2. First(call.todo) \in call.todo
  BY <1>1, FirstOfSet
<1> QED
  BY <1>1, <1>2 DEF Batch

\* WhatsApp decides once about each person of a request: nobody it changes is
\* also blocked from being added.
LEMMA DecidedOnce ==
    ASSUME NEW batch \in SUBSET Nat, NEW v \in Answers(batch)
    PROVE  /\ v \in Answer /\ DOMAIN v = batch
           /\ \A i, k \in batch :
                 v[i] = "ok" /\ v[k] = "blocked" => call.target[i].who # call.target[k].who
<1> DEFINE Who(k) == call.target[k].who
           Before(k) == {v[i] : i \in {n \in batch : n < k /\ call.target[n].who = Who(k)}}
                           \ {"silent"}
<1>1. v \in [batch -> Verdict] /\ \A k \in batch : v[k] \in Verdicts(batch, k, v)
  BY DEF Answers, Verdict
<1>2. v \in Answer /\ DOMAIN v = batch
  BY <1>1 DEF Answer
<1>3. \A k \in batch : v[k] = "blocked" =>
         /\ "ok" \notin Before(k)
  BY <1>1 DEF Verdicts
<1>4. \A i \in batch : v[i] = "ok" => "blocked" \notin Before(i)
  BY <1>1 DEF Verdicts
<1>5. SUFFICES ASSUME NEW i \in batch, NEW k \in batch, v[i] = "ok", v[k] = "blocked",
                      Who(i) = Who(k)
               PROVE  FALSE
  BY <1>2
<1>6. CASE i < k
  BY <1>3, <1>5, <1>6
<1>7. CASE k < i
  BY <1>4, <1>5, <1>7
<1>8. CASE i = k
  BY <1>5, <1>8
<1> QED
  BY <1>6, <1>7, <1>8

\* Whom a request about a batch serves: nobody asked about before, and of the
\* batch exactly those it says "ok" of.
LEMMA ServedOfBatch ==
    ASSUME RunOK, call.at = "request", NEW v \in Answers(Batch)
    PROVE  /\ \A j \in Served(Batch, v) :
                 \E k \in Batch : v[k] = "ok" /\ j = call.target[k]
           /\ \A i \in DOMAIN call.wish \ call.todo : call.status[i] # "not_member" =>
                 call.target[i] \notin Served(Batch, v)
           /\ \A i \in Batch : v[i] = "ok" <=> call.target[i] \in changed \union Served(Batch, v)
<1>1. Batch \subseteq call.todo /\ Batch \subseteq DOMAIN call.wish
  BY BatchOfTodo DEF RunOK
<1>2. \A j \in Served(Batch, v) : \E k \in Batch : v[k] = "ok" /\ j = call.target[k]
  BY DEF Served
<1>3. \A k \in Batch : call.status[k] = "pending"
  BY <1>1 DEF RunOK, WorkOK
<1>4. \A i, k \in DOMAIN call.wish :
         i # k /\ call.status[i] # "not_member" /\ call.status[k] # "not_member"
         => call.target[i] # call.target[k]
  BY DEF RunOK, TargetsOK
<1>5. \A i \in DOMAIN call.wish \ call.todo : call.status[i] # "not_member" =>
         call.target[i] \notin Served(Batch, v)
  BY <1>1, <1>2, <1>3, <1>4
<1>6. \A i \in Batch : call.target[i] \notin changed
  BY <1>1, <1>3, <1>4 DEF RunOK, ChangedOK
<1>7. \A i \in Batch : v[i] = "ok" <=> call.target[i] \in Served(Batch, v)
  <2> TAKE i \in Batch
  <2>1. v[i] = "ok" => call.target[i] \in Served(Batch, v)
    BY DEF Served
  <2>2. ASSUME call.target[i] \in Served(Batch, v)
        PROVE  v[i] = "ok"
    <3>1. PICK k \in Batch : v[k] = "ok" /\ call.target[i] = call.target[k]
      BY <1>2, <2>2
    <3>2. i = k
      BY <1>1, <1>3, <1>4, <3>1
    <3> QED
      BY <3>1, <3>2
  <2> QED
    BY <2>1, <2>2
<1> QED
  BY <1>2, <1>5, <1>6, <1>7

\* Whatever entries of a reply are taken for a participant are about that person,
\* and when there are none the reply did not mention the participant.
LEMMA Attributed ==
    ASSUME RunOK, call.at = "record", facts \in Facts, NEW i \in call.left
    PROVE  /\ i \in DOMAIN call.answer /\ i \in DOMAIN call.wish
           /\ ResultFor(i) \subseteq DOMAIN call.answer
           /\ \A e \in ResultFor(i) :
                 /\ call.answer[e] # "silent"
                 /\ call.target[e].who = call.target[i].who
           /\ ResultFor(i) = {} => call.answer[i] = "silent"
<1> DEFINE entries == {e \in DOMAIN call.answer : call.answer[e] # "silent"}
           direct == {e \in entries : call.target[i] \in EntryNames(e)}
           mapped == {e \in entries : facts.lidMode
                                      /\ Own(call.target[e].who) \in LidForPN(call.target[i])}
<1>1. /\ ResultFor(i) = CASE direct # {} -> direct
                          [] direct = {} /\ mapped # {} -> mapped
                          [] OTHER -> IF Cardinality(DOMAIN call.answer) = 1
                                      THEN entries ELSE {}
  BY DEF ResultFor
<1>2. /\ i \in DOMAIN call.answer /\ i \in DOMAIN call.wish
      /\ DOMAIN call.answer \subseteq DOMAIN call.wish
  BY DEF RunOK, AnswerOK
<1>3. \A e \in DOMAIN call.wish : call.target[e] \in JID /\ call.target[e].who \in Person
  BY CallLists, NamesOfPerson DEF RunOK, JID
<1>4. \A e \in direct : call.target[e].who = call.target[i].who
  BY <1>2, <1>3, NamesOfPerson DEF EntryNames
<1>5. \A e \in mapped : call.target[e].who = call.target[i].who
  <2> TAKE e \in mapped
  <2>1. Own(call.target[e].who).who = call.target[i].who
    BY <1>2, <1>3, LidOfSamePerson
  <2> QED
    BY <1>2, <1>3, <2>1, NamesOfPerson
<1>6. Cardinality(DOMAIN call.answer) = 1 => DOMAIN call.answer = {i}
  <2>1. IsFiniteSet(DOMAIN call.answer)
    BY <1>2, CallLists, FS_Subset DEF RunOK
  <2>2. Cardinality(DOMAIN call.answer) = 1 => \E x : DOMAIN call.answer = {x}
    BY <2>1, FS_Singleton
  <2> QED
    BY <1>2, <2>2
<1>7. \A e \in ResultFor(i) : e \in entries /\ call.target[e].who = call.target[i].who
  <2>1. CASE direct # {}
    BY <1>1, <1>4, <2>1
  <2>2. CASE direct = {} /\ mapped # {}
    BY <1>1, <1>5, <2>2
  <2>3. CASE direct = {} /\ mapped = {}
    <3>1. ResultFor(i) = IF Cardinality(DOMAIN call.answer) = 1 THEN entries ELSE {}
      BY <1>1, <2>3
    <3> QED
      BY <1>6, <3>1
  <2> QED
    BY <2>1, <2>2, <2>3
<1>8. ASSUME call.answer[i] # "silent", ResultFor(i) = {}
      PROVE  FALSE
  <2>1. i \in entries /\ direct = {} /\ mapped = {}
    BY <1>1, <1>2, <1>8
  <2>2. call.target[i] \notin EntryNames(i)
    BY <2>1
  <2>3. facts.lidMode
    BY <2>2 DEF EntryNames
  <2>4. CASE call.action = "add"
    <3>1. DOMAIN call.answer = {i}
      BY <1>2, <2>3, <2>4 DEF RunOK, AnswerOK
    <3>2. Cardinality(DOMAIN call.answer) = 1
      BY <3>1, FS_Singleton
    <3>3. ResultFor(i) = entries
      BY <1>1, <2>1, <3>2
    <3> QED
      BY <1>8, <2>1, <3>3
  <2>5. CASE call.action # "add"
    <3>1. call.target[i] = Own(call.target[i].who)
      BY <1>2, <2>5 DEF RunOK, ShapeOK
    <3>2. call.target[i] \in Names(call.target[i].who)
      BY <1>2, <1>3, <3>1 DEF Names
    <3> QED
      BY <2>2, <3>2 DEF EntryNames
  <2> QED
    BY <2>4, <2>5
<1> QED
  BY <1>2, <1>7, <1>8

-------------------------------------------------------------------------------
(* Every step keeps the invariant.                                         *)

LEMMA InitInv == Init => Inv
<1> SUFFICES ASSUME Init PROVE Inv
  OBVIOUS
<1>1. GroupOK
  BY GroupAssumption, FS_EmptySet DEF Init, GroupOK
<1>2. ReportIsTrue
  BY DEF Init, ReportIsTrue, SuccessIsTheirs, SilenceIsUnchanged, ErrorIsUnchanged, OncePerPerson
<1>3. InvitesArePaidAndTheirs
  BY FS_EmptySet DEF Init, InvitesArePaidAndTheirs
<1> QED
  BY <1>1, <1>2, <1>3 DEF Init, Inv

\* What only moves the roles, or nothing, keeps it.
LEMMA SameCallInv ==
    ASSUME Inv, UNCHANGED <<facts, call, changed, invites, spent>>,
           role' \in [Person -> Role], changes' \in 0..MaxChanges
    PROVE  Inv'
<1>1. GroupOK'
  BY DEF Inv, GroupOK
<1>2. call' = Idle \/ RunOK'
  BY DEF Inv, RunOK, ShapeOK, WorkOK, TargetsOK, OnceOK, ChangedOK, AnswerOK, Own
<1>3. ReportIsTrue'
  BY DEF Inv, ReportIsTrue, SuccessIsTheirs, SilenceIsUnchanged, ErrorIsUnchanged, OncePerPerson
<1>4. InvitesArePaidAndTheirs'
  BY DEF Inv, InvitesArePaidAndTheirs
<1> QED
  BY <1>1, <1>2, <1>3, <1>4 DEF Inv

LEMMA OthersInv ==
    ASSUME Inv, NEW p \in Person, NEW r \in Role, OthersChange(p, r)
    PROVE  Inv'
<1>1. role' \in [Person -> Role]
  BY DEF Inv, GroupOK, OthersChange
<1>2. changes' \in 0..MaxChanges
  BY GroupAssumption DEF Inv, GroupOK, OthersChange
<1> QED
  BY <1>1, <1>2, SameCallInv DEF OthersChange

\* Two addresses the plan takes for different people, neither left out as
\* "not_member", differ, and are not one person's whose mapping is known.
LEMMA PlannedApart ==
    ASSUME facts \in Facts, NEW action, NEW j \in JID, NEW k \in JID,
           Identity(j) # Identity(k)
    PROVE  /\ Planned(action, j) # "not_member" /\ Planned(action, k) # "not_member" =>
                 Target(action, j) # Target(action, k)
           /\ Planned(action, j) = "pending" /\ Planned(action, k) = "pending"
              /\ j.who = k.who => j.who \notin facts.known
<1>1. CASE action = "add"
  <2>1. Target(action, j) = j /\ Target(action, k) = k
    BY <1>1 DEF Target
  <2>2. ASSUME ~Found(j), ~Found(k), j.who = k.who, j.who \in facts.known
        PROVE  FALSE
    <3>1. \A x \in JID : ~Found(x) /\ x.who \in facts.known =>
             Identity(x).who = x.who /\ Identity(x) \in JID /\ Identity(x).form = "lid"
      <4> SUFFICES ASSUME NEW x \in JID, ~Found(x), x.who \in facts.known
                   PROVE  Identity(x).who = x.who /\ Identity(x) \in JID
                          /\ Identity(x).form = "lid"
        OBVIOUS
      <4>1. CASE LidForPN(x) # {}
        <5>1. Identity(x) \in LidForPN(x)
          BY <4>1 DEF Identity
        <5> QED
          BY <5>1, LidOfSamePerson
      <4>2. CASE LidForPN(x) = {}
        <5>1. Identity(x) = x
          BY <4>2 DEF Identity
        <5>2. x.form # "pn"
          BY <4>2, LidOfSamePerson
        <5> QED
          BY <5>1, <5>2 DEF JID
      <4> QED
        BY <4>1, <4>2
    <3>2. Identity(j) = Identity(k)
      BY <2>2, <3>1 DEF JID
    <3> QED
      BY <3>2
  <2>3. \A x : Planned(action, x) = "pending" => ~Found(x)
    BY <1>1 DEF Planned
  <2> QED
    BY <2>1, <2>2, <2>3
<1>2. CASE action # "add"
  <2>1. \A x : Planned(action, x) # "not_member" => Found(x)
    BY <1>2 DEF Planned
  <2>2. \A x : Found(x) => Identity(x) = Target(action, x)
    BY <1>2 DEF Identity, Target
  <2>3. Target(action, j) = Own(j.who) /\ Target(action, k) = Own(k.who)
    BY <1>2 DEF Target
  <2> QED
    BY <2>1, <2>2, <2>3
<1> QED
  BY <1>1, <1>2

\* GetGroupInfo and the plan.
LEMMA BeginInv ==
    ASSUME Inv, NEW action \in Action, NEW wish \in Wish, NEW invite \in BOOLEAN,
           Begin(action, wish, invite)
    PROVE  Inv'
<1> DEFINE status == [i \in DOMAIN wish |-> Planned(action, wish[i])]
           target == [i \in DOMAIN wish |-> Target(action, wish[i])]
           pending == {i \in DOMAIN wish : status[i] = "pending"}
           refused == ~Permitted(action) \/ SamePersonTwice(wish) \/ RemovesSelf(action, wish)
           at == CASE refused -> "error"
                   [] ~refused /\ pending = {} -> "report"
                   [] OTHER -> "request"
<1>1. /\ call = Idle
      /\ call' = [at |-> at, action |-> action, invite |-> invite, wish |-> wish,
                  target |-> target, status |-> status, todo |-> pending, left |-> {},
                  answer |-> NoAnswer, asked |-> 0, lost |-> FALSE]
      /\ UNCHANGED <<role, facts, changed, invites, spent, changes>>
  BY DEF Begin
<1>2. changed = {} /\ invites = {} /\ facts \in Facts /\ spent \in Nat
  BY <1>1 DEF Inv, GroupOK
<1>3. wish \in Seq(JID) /\ (\A i \in DOMAIN wish : wish[i] \in JID)
      /\ DOMAIN wish = 1..Len(wish) /\ Len(wish) \in Nat
  BY GroupAssumption
<1>4. status \in Seq(Status) /\ DOMAIN status = DOMAIN wish
  <2>1. \A i \in 1..Len(wish) : Planned(action, wish[i]) \in Status
    BY DEF Planned, Status
  <2> QED
    BY <1>3, <2>1
<1>5. /\ target \in Seq(JID) /\ DOMAIN target = DOMAIN wish
      /\ \A i \in DOMAIN wish :
            target[i].who = wish[i].who /\ (action # "add" => target[i] = Own(wish[i].who))
  <2>1. \A i \in DOMAIN wish : wish[i].who \in Person
    BY <1>3 DEF JID
  <2>2. \A i \in DOMAIN wish : /\ Target(action, wish[i]) \in JID
                               /\ Target(action, wish[i]).who = wish[i].who
    BY <1>3, <2>1, NamesOfPerson DEF Target
  <2>3. target \in Seq(JID) /\ DOMAIN target = DOMAIN wish
    BY <1>3, <2>2
  <2> QED
    BY <2>2, <2>3 DEF Target
<1>6. pending \in SUBSET Nat /\ (\A i \in pending : i \in DOMAIN wish /\ status[i] = "pending")
  BY <1>3
<1>7. at \in {"request", "report", "error"} /\ (at = "request" => pending # {})
      /\ (at # "error" => ~SamePersonTwice(wish))
  OBVIOUS
<1>8. \A i, k \in DOMAIN wish : at # "error" /\ i # k => Identity(wish[i]) # Identity(wish[k])
  <2> SUFFICES ASSUME NEW i \in DOMAIN wish, NEW k \in DOMAIN wish, at # "error", i # k
               PROVE  Identity(wish[i]) # Identity(wish[k])
    OBVIOUS
  <2>1. i < k \/ k < i
    BY <1>3
  <2> QED
    BY <1>7, <2>1 DEF SamePersonTwice
<1>9. \A i, k \in DOMAIN wish : at # "error" /\ i # k =>
         /\ status[i] # "not_member" /\ status[k] # "not_member" => target[i] # target[k]
         /\ status[i] = "pending" /\ status[k] = "pending" /\ wish[i].who = wish[k].who
            => wish[i].who \notin facts.known
  BY <1>2, <1>3, <1>8, PlannedApart
<1>10. \A i \in DOMAIN wish : status[i] \in {"already_member", "not_member", "pending"}
  BY DEF Planned
<1>11. NoAnswer \in Answer
  <2>1. NoAnswer \in [{} -> Verdict]
    BY DEF NoAnswer
  <2> QED
    BY <2>1 DEF Answer
<1> HIDE DEF status, target, pending, refused, at
<1>12. /\ call' \in CallType
       /\ call'.at = at /\ call'.action = action /\ call'.wish = wish /\ call'.target = target
       /\ call'.status = status /\ call'.todo = pending /\ call'.left = {} /\ call'.asked = 0
  BY <1>1, <1>4, <1>5, <1>6, <1>7, <1>11 DEF CallType
<1>13. call' # Idle
  BY <1>12, <1>7 DEF Idle
<1>14. ShapeOK'
  BY <1>1, <1>4, <1>5, <1>12 DEF ShapeOK, Own
<1>15. WorkOK'
  BY <1>6, <1>7, <1>12 DEF WorkOK
<1>16. TargetsOK'
  BY <1>9, <1>12 DEF TargetsOK
<1>17. ChangedOK' /\ AnswerOK'
  BY <1>1, <1>2, <1>7, <1>12 DEF ChangedOK, AnswerOK
<1>18. GroupOK'
  BY <1>1 DEF Inv, GroupOK
<1>19. SuccessIsTheirs' /\ SilenceIsUnchanged' /\ ErrorIsUnchanged'
  BY <1>1, <1>2, <1>10, <1>12 DEF SuccessIsTheirs, SilenceIsUnchanged, ErrorIsUnchanged
<1>20. OnceOK'
  BY <1>1, <1>9, <1>12 DEF OnceOK
<1>22. OncePerPerson'
  BY <1>12, <1>20 DEF OnceOK, OncePerPerson
<1>21. InvitesArePaidAndTheirs'
  BY <1>1, <1>2, FS_EmptySet DEF InvitesArePaidAndTheirs
<1> QED
  BY <1>13, <1>14, <1>15, <1>16, <1>17, <1>18, <1>19, <1>20, <1>21, <1>22
     DEF Inv, RunOK, ReportIsTrue

\* What a request that serves some of its batch, answered or not, leaves of the
\* report and of the invites.
LEMMA RequestKeepsReport ==
    ASSUME Inv, call # Idle, call.at = "request", NEW v \in Answers(Batch),
           changed' = changed \/ changed' = changed \union Served(Batch, v),
           UNCHANGED <<facts, invites, spent>>, call' # Idle,
           call'.wish = call.wish, call'.target = call.target, call'.invite = call.invite,
           \A i \in DOMAIN call.wish : call'.status[i] = call.status[i]
              \/ (call.status[i] = "pending" /\ call'.status[i] = "undelivered")
    PROVE  SuccessIsTheirs' /\ SilenceIsUnchanged' /\ OnceOK' /\ OncePerPerson'
           /\ InvitesArePaidAndTheirs'
<1>1. RunOK /\ OnceOK /\ WorkOK /\ ShapeOK
  BY DEF Inv, RunOK
<1>2. \A i \in DOMAIN call.wish : call.status[i] \notin {"pending", "not_member"} =>
         (call.target[i] \in changed' <=> call.target[i] \in changed)
  BY <1>1, ServedOfBatch DEF WorkOK
<1>3. SuccessIsTheirs'
  BY DEF Inv, ReportIsTrue, SuccessIsTheirs
<1>4. SilenceIsUnchanged'
  BY <1>2 DEF Inv, ReportIsTrue, SilenceIsUnchanged
<1>5. OnceOK' /\ OncePerPerson'
  BY <1>1 DEF OnceOK, OncePerPerson
<1>6. InvitesArePaidAndTheirs'
  <2>1. ASSUME NEW inv \in invites
        PROVE  /\ inv.to = inv.code /\ call'.invite
               /\ \E i \in DOMAIN call'.wish :
                     /\ call'.wish[i].who = inv.to /\ call'.status[i] = "invite_sent"
                     /\ call'.target[i] \notin changed'
    <3>1. PICK i \in DOMAIN call.wish :
             /\ call.wish[i].who = inv.to /\ call.status[i] = "invite_sent"
             /\ call.target[i] \notin changed
      BY DEF Inv, InvitesArePaidAndTheirs
    <3>2. call'.status[i] = "invite_sent" /\ call.target[i] \notin changed'
      BY <1>2, <3>1
    <3> QED
      BY <3>1, <3>2 DEF Inv, InvitesArePaidAndTheirs
  <2>2. Cardinality(invites') <= spent'
    BY DEF Inv, InvitesArePaidAndTheirs
  <2> QED
    BY <2>1, <2>2 DEF InvitesArePaidAndTheirs
<1> QED
  BY <1>3, <1>4, <1>5, <1>6

\* What WhatsApp decides about a batch gives everybody a role, and changes only
\* addresses of the batch.
LEMMA ApplyGroup ==
    ASSUME Inv, call # Idle, call.at = "request", NEW v \in Answers(Batch), Apply(Batch, v),
           UNCHANGED <<facts, invites, spent, changes>>
    PROVE  GroupOK' /\ changed' = changed \union Served(Batch, v)
<1>1. changed' = changed \union Served(Batch, v)
  BY DEF Apply
<1>2. RunOK /\ ShapeOK /\ WorkOK /\ call.action \in {"add", "remove", "promote", "demote"}
  BY GroupAssumption DEF Inv, RunOK, ShapeOK, CallType
<1>3. Served(Batch, v) \subseteq JID
  BY <1>2, BatchOfTodo, CallLists, ServedOfBatch
<1>4. RoleAfter[call.action] \in Role
  BY <1>2 DEF RoleAfter, Role
<1>5. role' \in [Person -> Role]
  BY <1>4 DEF Inv, GroupOK, Apply
<1> QED
  BY <1>1, <1>3, <1>5 DEF Inv, GroupOK

\* A request that is answered.
LEMMA RequestAnsweredInv ==
    ASSUME Inv, RequestAnswered
    PROVE  Inv'
<1>1. call.at = "request" /\ call # Idle
  BY DEF RequestAnswered, Idle
<1>2. RunOK /\ ShapeOK /\ WorkOK /\ TargetsOK /\ ChangedOK
  BY <1>1 DEF Inv, RunOK
<1>3. PICK v \in Answers(Batch) :
         /\ Apply(Batch, v)
         /\ call' = [call EXCEPT !.at = "record", !.todo = @ \ Batch, !.left = Batch,
                                 !.answer = v, !.asked = @ + 1]
  BY DEF RequestAnswered
<1>4. UNCHANGED <<facts, invites, spent, changes>>
  BY DEF RequestAnswered
<1>5. GroupOK' /\ changed' = changed \union Served(Batch, v)
  BY <1>1, <1>3, <1>4, ApplyGroup
<1>6. /\ Batch \subseteq call.todo /\ Batch # {} /\ Batch \in SUBSET Nat
      /\ Batch \subseteq DOMAIN call.wish
      /\ call.action = "add" /\ facts.lidMode => \E x \in DOMAIN call.wish : Batch = {x}
  BY <1>1, <1>2, BatchOfTodo
<1>7. /\ v \in Answer /\ DOMAIN v = Batch
      /\ \A i, k \in Batch :
            v[i] = "ok" /\ v[k] = "blocked" => call.target[i].who # call.target[k].who
  BY <1>6, DecidedOnce
<1>8. call \in CallType /\ call.todo \ Batch \in SUBSET Nat /\ call.asked \in Nat
      /\ call.asked + 1 \in Nat
  BY <1>2 DEF ShapeOK, CallType
<1>9. /\ call' \in CallType
      /\ call'.at = "record" /\ call'.todo = call.todo \ Batch /\ call'.left = Batch
      /\ call'.answer = v /\ call'.asked = call.asked + 1
      /\ call'.action = call.action /\ call'.invite = call.invite /\ call'.wish = call.wish
      /\ call'.target = call.target /\ call'.status = call.status /\ call'.lost = call.lost
  BY <1>3, <1>6, <1>7, <1>8 DEF CallType
<1>10. call' # Idle
  BY <1>9 DEF Idle
<1>11. ShapeOK'
  BY <1>2, <1>4, <1>9 DEF ShapeOK, Own
<1>12. WorkOK'
  BY <1>2, <1>6, <1>9 DEF WorkOK
<1>13. TargetsOK'
  BY <1>1, <1>2, <1>9 DEF TargetsOK
<1>14. \A i \in Batch : call.status[i] = "pending"
  BY <1>2, <1>6 DEF WorkOK
<1>15. ChangedOK'
  <2>1. \A j \in changed : \E i \in DOMAIN call.wish \ (call.todo \ Batch) :
           call.status[i] # "not_member" /\ j = call.target[i]
    BY <1>2 DEF ChangedOK
  <2>2. \A j \in Served(Batch, v) : \E i \in DOMAIN call.wish \ (call.todo \ Batch) :
           call.status[i] # "not_member" /\ j = call.target[i]
    BY <1>1, <1>2, <1>6, <1>14, ServedOfBatch
  <2>3. call'.asked # 0
    BY <1>8, <1>9
  <2> QED
    BY <1>5, <1>9, <2>1, <2>2, <2>3 DEF ChangedOK
<1>16. AnswerOK'
  <2>1. \A i \in Batch : v[i] = "ok" <=> call.target[i] \in changed'
    BY <1>1, <1>2, <1>5, ServedOfBatch
  <2>2. Batch \subseteq DOMAIN call.wish \ (call.todo \ Batch)
    BY <1>6
  <2>3. call.action = "add" /\ facts'.lidMode => \E x \in DOMAIN call.wish : DOMAIN v = {x}
    BY <1>4, <1>6, <1>7
  <2> QED
    BY <1>7, <1>9, <1>14, <2>1, <2>2, <2>3 DEF AnswerOK
<1>17. SuccessIsTheirs' /\ SilenceIsUnchanged' /\ OnceOK' /\ OncePerPerson'
       /\ InvitesArePaidAndTheirs'
  BY <1>1, <1>4, <1>5, <1>9, <1>10, RequestKeepsReport
<1>18. ErrorIsUnchanged'
  BY <1>9 DEF ErrorIsUnchanged
<1> QED
  BY <1>5, <1>10, <1>11, <1>12, <1>13, <1>15, <1>16, <1>17, <1>18
     DEF Inv, RunOK, ReportIsTrue

\* A request that fails, whether or not WhatsApp has served it.
LEMMA RequestFailsInv ==
    ASSUME Inv, RequestFails
    PROVE  Inv'
<1>1. call.at = "request" /\ call # Idle
  BY DEF RequestFails, Idle
<1>2. RunOK /\ ShapeOK /\ WorkOK /\ TargetsOK /\ ChangedOK
  BY <1>1 DEF Inv, RunOK
<1>3. UNCHANGED <<facts, invites, spent, changes>>
  BY DEF RequestFails
<1>4. /\ Batch \subseteq call.todo /\ Batch # {} /\ Batch \in SUBSET Nat
      /\ Batch \subseteq DOMAIN call.wish
  BY <1>1, <1>2, BatchOfTodo
<1>5. ASSUME NEW lost \in BOOLEAN, call' = AfterFailure(lost),
             NEW v \in Answers(Batch), GroupOK',
             ~lost => changed' = changed,
             changed' = changed \/ changed' = changed \union Served(Batch, v)
      PROVE  Inv'
  <2> DEFINE at == IF call.asked = 0 THEN "error" ELSE Following(call.todo \ Batch)
             status == [i \in DOMAIN call.status |-> IF call.asked > 0 /\ i \in Batch
                                                     THEN "undelivered" ELSE call.status[i]]
  <2>1. /\ call \in CallType /\ call.status \in Seq(Status)
        /\ call.todo \ Batch \in SUBSET Nat /\ call.asked \in Nat /\ call.asked + 1 \in Nat
        /\ (lost \/ call.lost) \in BOOLEAN
    BY <1>2 DEF ShapeOK, CallType
  <2>2. at \in {"request", "record", "report", "error"}
    BY DEF Following
  <2>3. /\ status \in Seq(Status) /\ DOMAIN status = DOMAIN call.status
        /\ \A i \in DOMAIN call.status :
              /\ status[i] = call.status[i] \/ (i \in Batch /\ status[i] = "undelivered")
              /\ call.asked > 0 /\ i \in Batch => status[i] = "undelivered"
    <3>1. \A i \in DOMAIN call.status : call.status[i] \in Status
      BY <2>1
    <3>2. \A i \in DOMAIN call.status : status[i] \in Status
      BY <3>1 DEF Status
    <3>3. DOMAIN call.status = 1..Len(call.status) /\ Len(call.status) \in Nat
      BY <2>1
    <3>4. status \in [1..Len(call.status) -> Status]
      BY <3>2, <3>3
    <3>5. status \in Seq(Status)
      BY <3>3, <3>4
    <3> QED
      BY <3>5
  <2>4. call' = [call EXCEPT !.at = at, !.status = status, !.todo = call.todo \ Batch,
                             !.asked = call.asked + 1, !.lost = lost \/ call.lost]
    BY <1>5 DEF AfterFailure
  <2> HIDE DEF status, at
  <2>5. /\ call' \in CallType
        /\ call'.at = at /\ call'.status = status /\ call'.todo = call.todo \ Batch
        /\ call'.asked = call.asked + 1 /\ call'.lost = (lost \/ call.lost)
        /\ call'.action = call.action /\ call'.invite = call.invite /\ call'.wish = call.wish
        /\ call'.target = call.target /\ call'.left = call.left /\ call'.answer = call.answer
    BY <2>1, <2>2, <2>3, <2>4 DEF CallType
  <2>6. call' # Idle
    BY <2>2, <2>5 DEF Idle
  <2>7. /\ call.left = {} /\ at # "record" /\ (at = "request" => call.todo \ Batch # {})
        /\ (at = "error" <=> call.asked = 0)
    BY <1>1, <1>2 DEF WorkOK, Following, at
  <2>8. \A i \in DOMAIN call.wish : call.status[i] = "pending" \/ i \notin Batch
    BY <1>2, <1>4 DEF WorkOK
  <2>9. \A i \in DOMAIN call.wish : status[i] = call.status[i]
           \/ (call.status[i] = "pending" /\ status[i] = "undelivered")
    BY <1>2, <2>3, <2>8 DEF ShapeOK
  <2>10. ShapeOK'
    BY <1>2, <1>3, <2>3, <2>5 DEF ShapeOK, Own
  <2>11. WorkOK'
    <3>1. \A i \in call.todo \ Batch : i \in DOMAIN call.wish /\ status[i] = "pending"
      BY <1>2, <2>3 DEF WorkOK, ShapeOK
    <3> QED
      BY <2>5, <2>7, <3>1 DEF WorkOK
  <2>12. TargetsOK'
    BY <1>1, <1>2, <2>5, <2>9 DEF TargetsOK
  <2>13. ChangedOK'
    <3>1. \A j \in changed : \E i \in DOMAIN call.wish \ (call.todo \ Batch) :
             status[i] # "not_member" /\ j = call.target[i]
      BY <1>2, <2>9 DEF ChangedOK
    <3>2. \A j \in Served(Batch, v) : \E i \in DOMAIN call.wish \ (call.todo \ Batch) :
             status[i] # "not_member" /\ j = call.target[i]
      <4> TAKE j \in Served(Batch, v)
      <4>1. PICK i \in Batch : j = call.target[i]
        BY <1>1, <1>2, ServedOfBatch
      <4>2. i \in DOMAIN call.wish \ (call.todo \ Batch) /\ call.status[i] = "pending"
        BY <1>4, <2>8
      <4> QED
        BY <2>9, <4>1, <4>2
    <3>3. call'.asked # 0
      BY <2>1, <2>5
    <3> QED
      BY <1>5, <2>5, <3>1, <3>2, <3>3 DEF ChangedOK
  <2>14. AnswerOK'
    BY <2>5, <2>7 DEF AnswerOK
  <2>15. SuccessIsTheirs' /\ SilenceIsUnchanged' /\ OnceOK' /\ OncePerPerson'
         /\ InvitesArePaidAndTheirs'
    BY <1>1, <1>3, <1>5, <2>5, <2>6, <2>9, RequestKeepsReport
  <2>16. ErrorIsUnchanged'
    <3>1. call.asked = 0 => changed = {}
      BY <1>2 DEF ChangedOK
    <3> QED
      BY <1>5, <2>1, <2>5, <2>7, <3>1 DEF ErrorIsUnchanged
  <2> QED
    BY <1>5, <2>6, <2>10, <2>11, <2>12, <2>13, <2>14, <2>15, <2>16 DEF Inv, RunOK, ReportIsTrue
<1>6. CASE UNCHANGED <<role, changed>> /\ call' = AfterFailure(FALSE)
  <2>1. GroupOK'
    BY <1>3, <1>6 DEF Inv, GroupOK
  <2>2. [k \in Batch |-> "silent"] \in Answers(Batch)
    BY DEF Answers, Verdicts
  <2> QED
    BY <1>5, <1>6, <2>1, <2>2
<1>7. CASE (\E v \in Answers(Batch) : Apply(Batch, v)) /\ call' = AfterFailure(TRUE)
  <2>1. PICK v \in Answers(Batch) : Apply(Batch, v)
    BY <1>7
  <2>2. GroupOK' /\ changed' = changed \union Served(Batch, v)
    BY <1>1, <1>3, <2>1, ApplyGroup
  <2> QED
    BY <1>5, <1>7, <2>2
<1> QED
  BY <1>6, <1>7 DEF RequestFails

\* A participant of a reply is settled with status s.
LEMMA SettleRun ==
    ASSUME Inv, call # Idle, call.at = "record", NEW s \in Status \ {"pending", "not_member"},
           Settle(s), UNCHANGED <<facts, changed>>,
           s = "done" => \E j \in changed : j.who = call.wish[First(call.left)].who,
           s = "unanswered" => call.target[First(call.left)] \notin changed
    PROVE  /\ RunOK' /\ ReportIsTrue' /\ call' # Idle
           /\ call'.wish = call.wish /\ call'.target = call.target
           /\ call'.invite = call.invite
           /\ First(call.left) \in call.left /\ First(call.left) \in DOMAIN call.wish
           /\ call'.status[First(call.left)] = s
           /\ \A k \in DOMAIN call.wish :
                 call.status[k] # "pending" => call'.status[k] = call.status[k]
<1> DEFINE i == First(call.left)
           left == call.left \ {i}
           at == IF call.left = {i} THEN Following(call.todo) ELSE "record"
<1>1. RunOK /\ ShapeOK /\ WorkOK /\ TargetsOK /\ OnceOK /\ ChangedOK /\ AnswerOK
      /\ call \in CallType
  BY DEF Inv, RunOK, ShapeOK
<1>2. call.left \in SUBSET Nat /\ call.left # {}
  BY <1>1 DEF CallType, WorkOK
<1>3. i \in call.left /\ i \in DOMAIN call.wish /\ i \in DOMAIN call.status
      /\ call.status[i] = "pending"
  BY <1>1, <1>2, FirstOfSet DEF WorkOK, ShapeOK
<1>4. at \in {"request", "record", "report"}
  BY DEF Following
<1>5. left \in SUBSET Nat
  BY <1>2
<1>6. call' = [call EXCEPT !.status[i] = s, !.left = left, !.at = at]
  BY DEF Settle
<1>7. /\ (at = "record" <=> left # {}) /\ (at = "request" => call.todo # {})
  BY <1>2, <1>3 DEF Following
<1> HIDE DEF i, left, at
<1>8. /\ call' \in CallType
      /\ call'.at = at /\ call'.left = left
      /\ DOMAIN call'.status = DOMAIN call.status /\ call'.status[i] = s
      /\ \A k \in DOMAIN call.status \ {i} : call'.status[k] = call.status[k]
      /\ call'.action = call.action /\ call'.invite = call.invite /\ call'.wish = call.wish
      /\ call'.target = call.target /\ call'.todo = call.todo /\ call'.answer = call.answer
      /\ call'.asked = call.asked /\ call'.lost = call.lost
  <2> DEFINE t == [call.status EXCEPT ![i] = s]
  <2>1. call.status \in Seq(Status)
    BY <1>1 DEF CallType
  <2>2. /\ t \in Seq(Status) /\ DOMAIN t = DOMAIN call.status /\ t[i] = s
        /\ \A k \in DOMAIN call.status \ {i} : t[k] = call.status[k]
    BY <1>3, <2>1
  <2>3. call' = [call EXCEPT !.status = t, !.left = left, !.at = at]
    BY <1>1, <1>6 DEF CallType
  <2> HIDE DEF t
  <2>4. /\ call' \in CallType
        /\ call'.at = at /\ call'.left = left /\ call'.status = t
        /\ call'.action = call.action /\ call'.invite = call.invite /\ call'.wish = call.wish
        /\ call'.target = call.target /\ call'.todo = call.todo /\ call'.answer = call.answer
        /\ call'.asked = call.asked /\ call'.lost = call.lost
    BY <1>1, <1>4, <1>5, <2>2, <2>3 DEF CallType
  <2> QED
    BY <2>2, <2>4
<1>9. call' # Idle
  BY <1>4, <1>8 DEF Idle
<1>10. \A k \in DOMAIN call.wish :
          /\ call.status[k] # "pending" => call'.status[k] = call.status[k]
          /\ call'.status[k] = call.status[k] \/ (k = i /\ call'.status[k] = s)
  BY <1>1, <1>3, <1>8 DEF ShapeOK
<1>11. ShapeOK'
  BY <1>1, <1>8 DEF ShapeOK, Own
<1>12. WorkOK'
  <2>1. left \subseteq call.left /\ i \notin left
    BY DEF left
  <2>2. i \notin call.todo
    BY <1>1, <1>3 DEF WorkOK
  <2>3. call.todo \cap left = {}
    BY <1>1, <2>1 DEF WorkOK
  <2>4. \A k \in call.todo \union left : k \in DOMAIN call.wish /\ call'.status[k] = "pending"
    BY <1>1, <1>8, <2>1, <2>2 DEF WorkOK, ShapeOK
  <2> QED
    BY <1>7, <1>8, <2>3, <2>4 DEF WorkOK
<1>13. \A k \in DOMAIN call.wish : call'.status[k] = "not_member" <=> call.status[k] = "not_member"
  BY <1>3, <1>10
<1>14. TargetsOK'
  BY <1>1, <1>8, <1>13 DEF TargetsOK
<1>15. ChangedOK'
  BY <1>1, <1>8, <1>13 DEF ChangedOK
<1>16. AnswerOK'
  <2>1. left \subseteq DOMAIN call.answer
    BY <1>1 DEF AnswerOK, left
  <2> QED
    BY <1>1, <1>8, <1>13, <2>1 DEF AnswerOK
<1>17. SuccessIsTheirs'
  BY <1>8, <1>10 DEF Inv, ReportIsTrue, SuccessIsTheirs, i
<1>18. SilenceIsUnchanged'
  BY <1>8, <1>10 DEF Inv, ReportIsTrue, SilenceIsUnchanged, i
<1>19. ErrorIsUnchanged'
  BY <1>4, <1>8 DEF ErrorIsUnchanged
<1>20. OnceOK' /\ OncePerPerson'
  BY <1>1, <1>4, <1>8, <1>10 DEF OnceOK, OncePerPerson
<1> QED
  BY <1>3, <1>8, <1>9, <1>10, <1>11, <1>12, <1>14, <1>15, <1>16, <1>17, <1>18, <1>19, <1>20
     DEF RunOK, ReportIsTrue, i

\* The invites are left as they are while a participant is settled.
LEMMA SettleKeepsInvites ==
    ASSUME Inv, call # Idle, call.at = "record", NEW s \in Status \ {"pending", "not_member"},
           Settle(s), UNCHANGED <<facts, changed>>,
           s = "done" => \E j \in changed : j.who = call.wish[First(call.left)].who,
           s = "unanswered" => call.target[First(call.left)] \notin changed
    PROVE  \A inv \in invites :
               /\ inv.to = inv.code /\ call'.invite
               /\ \E i \in DOMAIN call'.wish :
                     /\ call'.wish[i].who = inv.to /\ call'.status[i] = "invite_sent"
                     /\ call'.target[i] \notin changed'
<1> TAKE inv \in invites
<1>1. /\ inv.to = inv.code /\ call.invite
      /\ \E i \in DOMAIN call.wish :
            /\ call.wish[i].who = inv.to /\ call.status[i] = "invite_sent"
            /\ call.target[i] \notin changed
  BY DEF Inv, InvitesArePaidAndTheirs
<1> QED
  BY <1>1, SettleRun

LEMMA UnansweredInv ==
    ASSUME Inv, Unanswered
    PROVE  Inv'
<1>1. call.at = "record" /\ call # Idle /\ Settle("unanswered")
      /\ UNCHANGED <<role, facts, changed, invites, spent, changes>>
  BY DEF Unanswered, Idle
<1>2. RunOK /\ facts \in Facts /\ WorkOK /\ AnswerOK /\ call.left \in SUBSET Nat /\ call.left # {}
  BY <1>1 DEF Inv, GroupOK, RunOK, ShapeOK, WorkOK, CallType
<1>3. First(call.left) \in call.left
  BY <1>2, FirstOfSet
<1>4. call.target[First(call.left)] \notin changed
  <2>1. ResultFor(First(call.left)) = {}
    BY DEF Unanswered
  <2>2. First(call.left) \in DOMAIN call.answer /\ call.answer[First(call.left)] = "silent"
    BY <1>1, <1>2, <1>3, <2>1, Attributed
  <2> QED
    BY <1>1, <1>2, <2>2 DEF AnswerOK
<1>5. RunOK' /\ ReportIsTrue' /\ call' # Idle
  BY <1>1, <1>4, SettleRun DEF Status
<1>6. InvitesArePaidAndTheirs'
  <2>1. \A inv \in invites' :
           /\ inv.to = inv.code /\ call'.invite
           /\ \E i \in DOMAIN call'.wish :
                 /\ call'.wish[i].who = inv.to /\ call'.status[i] = "invite_sent"
                 /\ call'.target[i] \notin changed'
    BY <1>1, <1>4, SettleKeepsInvites DEF Status
  <2>2. Cardinality(invites') <= spent'
    BY <1>1 DEF Inv, InvitesArePaidAndTheirs
  <2> QED
    BY <2>1, <2>2 DEF InvitesArePaidAndTheirs
<1>7. GroupOK'
  BY <1>1 DEF Inv, GroupOK
<1> QED
  BY <1>5, <1>6, <1>7 DEF Inv

\* The entry taken for the first participant left of a reply.
LEMMA EntryOfFirst ==
    ASSUME Inv, call # Idle, call.at = "record", ResultFor(First(call.left)) # {}
    PROVE  LET i == First(call.left)
               e == First(ResultFor(i))
           IN /\ i \in DOMAIN call.answer /\ i \in DOMAIN call.wish /\ e \in DOMAIN call.answer
              /\ call.target[i].who = call.wish[i].who
              /\ call.target[e].who = call.target[i].who
              /\ call.wish[i].who \in Person
              /\ call.answer[e] = "ok" => call.target[e] \in changed
              /\ call.answer[e] = "blocked" => call.target[i] \notin changed
<1> DEFINE i == First(call.left)
           e == First(ResultFor(i))
<1>1. RunOK /\ ShapeOK /\ facts \in Facts /\ AnswerOK /\ call.left \in SUBSET Nat /\ call.left # {}
  BY DEF Inv, GroupOK, RunOK, ShapeOK, WorkOK, CallType
<1>2. i \in call.left
  BY <1>1, FirstOfSet
<1> HIDE DEF i
<1>3. /\ i \in DOMAIN call.answer /\ i \in DOMAIN call.wish
      /\ ResultFor(i) \subseteq DOMAIN call.answer
      /\ \A d \in ResultFor(i) : call.target[d].who = call.target[i].who
  BY <1>1, <1>2, Attributed
<1>4. DOMAIN call.answer \subseteq Nat
  BY <1>1, CallLists DEF AnswerOK
<1>5. e \in ResultFor(i)
  BY <1>3, <1>4, FirstOfSet DEF i
<1> HIDE DEF e
<1>6. call.wish[i].who \in Person /\ call.target[i].who = call.wish[i].who
  BY <1>1, <1>3, CallLists DEF ShapeOK
<1>7. call.answer[e] = "blocked" => call.target[i] \notin changed
  BY <1>1, <1>3, <1>5 DEF AnswerOK
<1>8. call.answer[e] = "ok" => call.target[e] \in changed
  BY <1>1, <1>3, <1>5 DEF AnswerOK
<1> QED
  BY <1>3, <1>5, <1>6, <1>7, <1>8 DEF i, e

LEMMA AnsweredInv ==
    ASSUME Inv, Answered
    PROVE  Inv'
<1> DEFINE i == First(call.left)
           e == First(ResultFor(i))
           s == Outcome(call.answer[e])
<1>1. /\ call.at = "record" /\ call # Idle /\ ResultFor(i) # {} /\ Settle(s)
      /\ UNCHANGED <<role, facts, changed, invites, spent, changes>>
  BY DEF Answered, Idle
<1>2. /\ call.target[i].who = call.wish[i].who /\ call.target[e].who = call.target[i].who
      /\ call.answer[e] = "ok" => call.target[e] \in changed
  BY <1>1, EntryOfFirst
<1>3. s \in {"done", "invite_required", "already_member", "failed"}
      /\ (s = "done" => call.answer[e] = "ok")
  BY DEF Outcome
<1> HIDE DEF e, s
<1>4. s \in Status \ {"pending", "not_member"} /\ s # "unanswered"
  BY <1>3 DEF Status
<1>5. s = "done" => \E j \in changed : j.who = call.wish[i].who
  BY <1>2, <1>3
<1>6. RunOK' /\ ReportIsTrue' /\ call' # Idle
  BY <1>1, <1>4, <1>5, SettleRun
<1>7. InvitesArePaidAndTheirs'
  <2>1. \A inv \in invites' :
           /\ inv.to = inv.code /\ call'.invite
           /\ \E n \in DOMAIN call'.wish :
                 /\ call'.wish[n].who = inv.to /\ call'.status[n] = "invite_sent"
                 /\ call'.target[n] \notin changed'
    BY <1>1, <1>4, <1>5, SettleKeepsInvites
  <2>2. Cardinality(invites') <= spent'
    BY <1>1 DEF Inv, InvitesArePaidAndTheirs
  <2> QED
    BY <2>1, <2>2 DEF InvitesArePaidAndTheirs
<1>8. GroupOK'
  BY <1>1 DEF Inv, GroupOK
<1> QED
  BY <1>6, <1>7, <1>8 DEF Inv

LEMMA InviteInv ==
    ASSUME Inv, Invite
    PROVE  Inv'
<1> DEFINE i == First(call.left)
           e == First(ResultFor(i))
           sent == [to |-> call.target[i].who, code |-> call.target[e].who]
<1>1. /\ call.at = "record" /\ call # Idle /\ ResultFor(i) # {}
      /\ call.invite /\ call.answer[e] = "blocked"
      /\ UNCHANGED <<role, facts, changed, changes>>
  BY DEF Invite, Idle
<1>2. \/ Settle("invite_required") /\ UNCHANGED <<invites, spent>>
      \/ Settle("invite_failed") /\ spent' = spent + 1 /\ UNCHANGED invites
      \/ Settle("invite_sent") /\ spent' = spent + 1 /\ invites' = invites \union {sent}
  BY DEF Invite
<1>3. /\ i \in DOMAIN call.wish
      /\ call.target[i].who = call.wish[i].who /\ call.target[e].who = call.target[i].who
      /\ call.wish[i].who \in Person /\ call.target[i] \notin changed
  BY <1>1, EntryOfFirst
<1>4. /\ spent \in Nat /\ IsFiniteSet(invites) /\ invites \subseteq [to : Person, code : Person]
      /\ Cardinality(invites) <= spent /\ Cardinality(invites) \in Nat
  BY FS_CardinalityType DEF Inv, GroupOK, InvitesArePaidAndTheirs
<1> HIDE DEF i, e
<1>5. sent \in [to : Person, code : Person] /\ sent.to = sent.code
      /\ sent.to = call.wish[i].who
  BY <1>3
<1> HIDE DEF sent
<1>6. ASSUME NEW s \in {"invite_required", "invite_failed", "invite_sent"}, Settle(s)
      PROVE  /\ RunOK' /\ ReportIsTrue' /\ call' # Idle
             /\ call'.wish = call.wish /\ call'.target = call.target /\ call'.invite
             /\ call'.status[i] = s
             /\ \A inv \in invites :
                   /\ inv.to = inv.code
                   /\ \E n \in DOMAIN call'.wish :
                         /\ call'.wish[n].who = inv.to /\ call'.status[n] = "invite_sent"
                         /\ call'.target[n] \notin changed'
  <2>1. s \in Status \ {"pending", "not_member"} /\ s # "done" /\ s # "unanswered"
    BY DEF Status
  <2>2. /\ RunOK' /\ ReportIsTrue' /\ call' # Idle
        /\ call'.wish = call.wish /\ call'.target = call.target /\ call'.invite = call.invite
        /\ call'.status[i] = s
    BY <1>1, <1>6, <2>1, SettleRun DEF i
  <2>3. \A inv \in invites :
           /\ inv.to = inv.code
           /\ \E n \in DOMAIN call'.wish :
                 /\ call'.wish[n].who = inv.to /\ call'.status[n] = "invite_sent"
                 /\ call'.target[n] \notin changed'
    BY <1>1, <1>6, <2>1, SettleKeepsInvites
  <2> QED
    BY <1>1, <2>2, <2>3
<1>7. CASE UNCHANGED invites /\ (spent' = spent \/ spent' = spent + 1)
           /\ \E s \in {"invite_required", "invite_failed"} : Settle(s)
  <2>1. PICK s \in {"invite_required", "invite_failed"} : Settle(s)
    BY <1>7
  <2>2. RunOK' /\ ReportIsTrue' /\ call' # Idle /\ InvitesArePaidAndTheirs'
    BY <1>4, <1>6, <1>7, <2>1 DEF InvitesArePaidAndTheirs
  <2>3. GroupOK'
    BY <1>1, <1>4, <1>7 DEF Inv, GroupOK
  <2> QED
    BY <2>2, <2>3 DEF Inv
<1>8. CASE Settle("invite_sent") /\ spent' = spent + 1 /\ invites' = invites \union {sent}
  <2>1. /\ IsFiniteSet(invites')
        /\ Cardinality(invites') = Cardinality(invites)
           \/ Cardinality(invites') = Cardinality(invites) + 1
    BY <1>4, <1>8, FS_AddElement
  <2>2. Cardinality(invites') <= spent'
    BY <1>4, <1>8, <2>1
  <2>3. /\ RunOK' /\ ReportIsTrue' /\ call' # Idle
        /\ call'.wish = call.wish /\ call'.target = call.target /\ call'.invite
        /\ call'.status[i] = "invite_sent"
        /\ \A inv \in invites :
              /\ inv.to = inv.code
              /\ \E n \in DOMAIN call'.wish :
                    /\ call'.wish[n].who = inv.to /\ call'.status[n] = "invite_sent"
                    /\ call'.target[n] \notin changed'
    BY <1>6, <1>8
  <2>4. \E n \in DOMAIN call'.wish :
           /\ call'.wish[n].who = sent.to /\ call'.status[n] = "invite_sent"
           /\ call'.target[n] \notin changed'
    BY <1>1, <1>3, <1>5, <2>3
  <2>5. InvitesArePaidAndTheirs'
    BY <1>5, <1>8, <2>2, <2>3, <2>4 DEF InvitesArePaidAndTheirs
  <2>6. GroupOK'
    BY <1>1, <1>4, <1>5, <1>8, <2>1 DEF Inv, GroupOK
  <2> QED
    BY <2>3, <2>5, <2>6 DEF Inv
<1> QED
  BY <1>2, <1>7, <1>8

\* Inv is an invariant: no step of a call, of WhatsApp or of the other admins
\* breaks it.
LEMMA InvHolds == Spec => []Inv
<1>1. Inv /\ [Next]_vars => Inv'
  <2> SUFFICES ASSUME Inv, [Next]_vars PROVE Inv'
    OBVIOUS
  <2>1. ASSUME NEW action \in Action, NEW wish \in Wish, NEW invite \in BOOLEAN,
               Begin(action, wish, invite)
        PROVE  Inv'
    BY <2>1, BeginInv
  <2>2. ASSUME NEW p \in Person, NEW r \in Role, OthersChange(p, r)
        PROVE  Inv'
    BY <2>2, OthersInv
  <2>3. CASE RequestAnswered
    BY <2>3, RequestAnsweredInv
  <2>4. CASE RequestFails
    BY <2>4, RequestFailsInv
  <2>5. CASE Unanswered
    BY <2>5, UnansweredInv
  <2>6. CASE Answered
    BY <2>6, AnsweredInv
  <2>7. CASE Invite
    BY <2>7, InviteInv
  <2>8. CASE UNCHANGED vars
    BY <2>8, SameCallInv DEF vars, Inv, GroupOK
  <2> QED
    BY <2>1, <2>2, <2>3, <2>4, <2>5, <2>6, <2>7, <2>8 DEF Next
<1> QED
  BY <1>1, InitInv, PTL DEF Spec

-------------------------------------------------------------------------------
(* The theorems.                                                           *)

\* Roles, calls, invites and counters keep their types.
THEOREM GroupTypeCorrect == Spec => []TypeOK
<1>1. Inv => TypeOK
  <2> SUFFICES ASSUME Inv PROVE TypeOK
    OBVIOUS
  <2>1. CASE call = Idle
    BY <2>1 DEF Inv, GroupOK, TypeOK
  <2>2. CASE call # Idle
    <3>1. /\ call.at \in {"request", "record", "report", "error"}
          /\ \A i \in DOMAIN call.wish : call.status[i] \in Status /\ call.target[i] \in JID
      BY <2>2, CallLists DEF Inv, RunOK, ShapeOK, CallType
    <3> QED
      BY <3>1 DEF Inv, GroupOK, TypeOK
  <2> QED
    BY <2>1, <2>2
<1> QED
  BY <1>1, InvHolds, PTL

\* UpdateGroupParticipants reports truly: "done" only for somebody WhatsApp
\* changed for the call, "unanswered" only for somebody it did not change, an
\* error only when nothing was changed unless the answer was lost; and nobody
\* whose mapping is known is asked about under both addresses.
THEOREM ReportAlwaysTrue == Spec => []ReportIsTrue
<1>1. Inv => ReportIsTrue
  BY DEF Inv
<1> QED
  BY <1>1, InvHolds, PTL

\* Every invite goes to the person its code was issued for, is asked for and
\* reported, and was admitted by the limiter first.
THEOREM InvitesAlwaysPaidAndTheirs == Spec => []InvitesArePaidAndTheirs
<1>1. Inv => InvitesArePaidAndTheirs
  BY DEF Inv
<1> QED
  BY <1>1, InvHolds, PTL

===============================================================================
