-------------------------- MODULE Commands_proofs ---------------------------
(***************************************************************************)
(* Theorems about the rows that chat commands write: GameSession, for any  *)
(* groups, users, cards and numbers of sessions, commands, requests and    *)
(* crashes; IdentityBinding, for any endpoints, real numbers, tables and   *)
(* numbers of identities and failures; CloudCards, for any contexts,       *)
(* fields and bounds; and MCCommands, which runs one of these or the dice. *)
(***************************************************************************)
EXTENDS MCCommands, Dice_proofs, SequenceTheorems, FiniteSetTheorems, TLAPS

(* What each command does, its last step first: position n of a plan is    *)
(* the step at which n steps are left.                                     *)
OpenPlan(s, t) ==
  <<[op |-> "join", at |-> s], [op |-> "areas", at |-> s], Map(s),
    Map(None), [op |-> "leave", at |-> t], [op |-> "areas", at |-> t]>>
NewPlan(s, g, u, t) ==
  <<[op |-> "enter", at |-> s], [op |-> "index"], Put(None, "areas", {g}), Put(None, "gms", {u}),
    Put(None, "code", TRUE), Put(None, "name", TRUE), Put(s, "areas", {}),
    [op |-> "join", at |-> s], [op |-> "areas", at |-> s], Map(s),
    Map(None), [op |-> "leave", at |-> t], [op |-> "areas", at |-> t]>>
FirstPlan(s, g, u) ==
  <<[op |-> "enter", at |-> s], [op |-> "index"], Put(None, "areas", {g}), Put(None, "gms", {u}),
    Put(None, "code", TRUE), Put(None, "name", TRUE), Put(s, "areas", {}),
    [op |-> "join", at |-> s], [op |-> "areas", at |-> s], Map(s),
    [op |-> "clear", at |-> g], [op |-> "list", at |-> g]>>
LeavePlan(t) == <<Map(None), [op |-> "leave", at |-> t], [op |-> "areas", at |-> t]>>
OverPlan(s) ==
  <<[op |-> "drop", at |-> s], [op |-> "index"], [op |-> "clear", at |-> s],
    [op |-> "list", at |-> s], [op |-> "release"]>>
UnlistedPlan(s) ==
  <<[op |-> "clear", at |-> s], [op |-> "list", at |-> s], [op |-> "release"]>>
ClearPlan(x) == <<[op |-> "clear", at |-> x], [op |-> "list", at |-> x]>>

Follows(todo, plan) ==
  /\ Len(todo) \in 1..Len(plan)
  /\ \A i \in 1..Len(todo) : todo[i] = plan[Len(todo) - i + 1]

-----------------------------------------------------------------------------
(* The invariant.                                                          *)

Exist == 1..used
StepsLeft == Len(job.todo)
Injective(d) == \A i, j \in Card : d.order[i] = d.order[j] => i = j

(* What holds whatever the command that runs.                              *)
SharedInv ==
  /\ GameTypeOK /\ Injective(job.deck)
  /\ \A s \in Session \ Exist : conf[s] = NoRows
  /\ \A h \in Group : session[h] = None \/ session[h] \in Exist
  /\ job.index \cup panel.index \subseteq Exist
  /\ panel.pc # "idle" => panel.s \in Exist

(* What Mapped says, of a group and of the index.                          *)
Named == {s \in Session : conf[s].name}
Placed(h) == /\ \A s \in Session : h \in conf[s].areas <=> session[h] = s
             /\ session[h] # None => conf[session[h]].name
Nowhere(h) == \A s \in Session : h \notin conf[s].areas
Coded == \A s \in Named : conf[s].code
Settled == index = Named /\ Coded /\ \A h \in Group : Placed(h)
Others == \A h \in Group \ {job.g} : Placed(h)

(* With n steps left of detachGameArea and of attachGameArea.              *)
LeaveAt(t, n) ==
  /\ session[job.g] = t /\ conf[t].name
  /\ n = 3 => Placed(job.g)
  /\ n = 2 => Placed(job.g) /\ job.seen = conf[t].areas
  /\ n = 1 => Nowhere(job.g)
AttachAt(s, n) ==
  /\ Nowhere(job.g)
  /\ session[job.g] = IF n = 3 THEN None ELSE s
  /\ n = 1 => job.seen = conf[s].areas

OpenMap(s) ==
  /\ index = Named /\ Coded /\ Others /\ conf[s].name
  /\ StepsLeft > 3 => LeaveAt(job.s, StepsLeft - 3)
  /\ StepsLeft <= 3 => AttachAt(s, StepsLeft)

MakeMap(s) ==
  /\ Others /\ \A x \in Named \ {s} : conf[x].code
  /\ index = Named \ {s}
  /\ conf[s].name = (StepsLeft <= 5)
  /\ StepsLeft <= 4 => conf[s].code
  /\ conf[s].areas = IF StepsLeft \in {7, 2, 1} THEN {job.g} ELSE {}
  /\ StepsLeft <= 10 => /\ \A x \in Session \ {s} : job.g \notin conf[x].areas
                        /\ session[job.g] = IF StepsLeft = 10 THEN None ELSE s
  /\ StepsLeft = 8 => job.seen = {}
  /\ StepsLeft = 1 => job.index = index

OthersStay(s) ==
  /\ index = Named \cup {s}
  /\ \A x \in Named \ {s} : conf[x].code
  /\ \A h \in Group : /\ \A x \in Session \ {s} : h \in conf[x].areas <=> session[h] = x
                      /\ session[h] \notin {None, s} => conf[session[h]].name
EndMap(s) ==
  /\ job.s = s /\ OthersStay(s)
  /\ IF StepsLeft = 5 THEN \A h \in Group : session[h] = s <=> h \in job.seen
     ELSE \A h \in Group : session[h] # s
  /\ StepsLeft = 3 => job.keys = RowsOf(s)
  /\ StepsLeft <= 2 => conf[s] = NoRows
  /\ StepsLeft = 1 => job.index = index

(* The command that runs, with the steps it has left.                      *)
NoDeal == job.deck = NoDeck /\ job.cards = NoCards

Opening(s) ==
  /\ NoDeal /\ Follows(job.todo, OpenPlan(s, job.s))
  /\ StepsLeft > 3 => job.s \in Exist
  /\ ~cut => OpenMap(s)

Naming(s) ==
  StepsLeft >= 6 =>
    /\ conf[s].deck = NoDeck /\ s \notin index \cup panel.index
    /\ panel.pc # "idle" => panel.s # s
    /\ StepsLeft <= 9 => session[job.g] \in {None, s}

Moving(s, u) ==
  /\ NoDeal /\ Follows(job.todo, NewPlan(s, job.g, u, job.s))
  /\ StepsLeft > 10 => job.s \in Exist
  /\ s = used /\ Naming(s)
  /\ ~cut => MakeMap(s) /\ (StepsLeft > 10 => job.s # s /\ LeaveAt(job.s, StepsLeft - 10))
Founding(s, u) ==
  /\ NoDeal /\ Follows(job.todo, FirstPlan(s, job.g, u))
  /\ s = used /\ Naming(s)
  /\ ~cut => MakeMap(s) /\ (StepsLeft > 10 => session[job.g] = None /\ Nowhere(job.g))

Leaving ==
  /\ NoDeal /\ Follows(job.todo, LeavePlan(job.s)) /\ job.s \in Exist
  /\ ~cut => index = Named /\ Coded /\ Others /\ LeaveAt(job.s, StepsLeft)

Ending(s) == NoDeal /\ Follows(job.todo, OverPlan(s)) /\ (~cut => EndMap(s))
Unlisted(s) == NoDeal /\ Follows(job.todo, UnlistedPlan(s)) /\ cut
Clearing == NoDeal /\ Follows(job.todo, ClearPlan(job.g)) /\ (~cut => Settled)

Putting ==
  /\ NoDeal /\ (~cut => Settled)
  /\ \/ Follows(job.todo, <<Put(None, "closed", TRUE)>>)
     \/ \E U \in SUBSET User : Follows(job.todo, <<Put(None, "gms", U)>>)

Decking ==
  /\ ~cut => Settled
  /\ StepsLeft >= 1
  /\ \A i \in 1..StepsLeft : job.todo[i] = [op |-> IF i = StepsLeft THEN "save" ELSE "draw"]

JobInv ==
  \/ job = NoJob /\ (~cut => Settled)
  \/ \E s \in Exist : \/ Opening(s) \/ Ending(s) \/ Unlisted(s)
                      \/ \E u \in User : Moving(s, u) \/ Founding(s, u)
  \/ Leaving \/ Clearing \/ Putting \/ Decking

PanelInv ==
  /\ panel.pc = "commit" /\ conf[panel.s].name => "name" \in panel.keys
  /\ ~cut => /\ job # NoJob => panel.pc = "idle"
             /\ panel.pc # "idle" => panel.index = index
             /\ panel.pc = "commit" => panel.groups = conf[panel.s].areas /\ panel.keys = RowsOf(panel.s)

(* The decks.                                                              *)
Dead(x) == x \in Exist /\ ~conf[x].name
Whole(d) == d.number <= decks /\ (d.number = 0 => d = NoDeck)
Undealt(d) == d.number # 0 => \A i \in 1..d.size : dealt[d.number][d.order[i]] = 0

DrawnInv ==
  job.deck # NoDeck =>
    /\ Undealt(job.deck)
    /\ \A i \in 1..job.deck.size : job.cards[job.deck.order[i]] = 0
    /\ \A c \in Card : job.cards[c] <= 1 /\ (job.cards[c] = 1 => dealt[job.deck.number][c] = 0)
    /\ \A y \in Scope : y # ScopeOf(job.g) /\ conf[y].deck.number = job.deck.number => Dead(y)

DeckInv ==
  /\ decks <= cmds
  /\ \A x \in Scope : Whole(conf[x].deck)
  /\ Whole(job.deck)
  /\ job.deck = NoDeck => job.cards = NoCards
  /\ \A n \in 1..MaxCmds : n > decks => dealt[n] = NoCards
  /\ ~astray =>
     /\ \A n \in 1..MaxCmds, c \in Card : dealt[n][c] <= 1
     /\ \A x, y \in Scope : x # y /\ conf[x].deck.number # 0 /\ conf[x].deck.number = conf[y].deck.number
            => Dead(x) \/ Dead(y)
     /\ \A x \in Scope : ~Dead(x) => Undealt(conf[x].deck)
     /\ DrawnInv

GameInv == SharedInv /\ JobInv /\ PanelInv /\ DeckInv

-----------------------------------------------------------------------------
(* Lists of steps.                                                         *)

LEMMA StepKinds ==
  /\ \A x \in Scope : /\ [op |-> "areas", at |-> x] \in Step
                      /\ [op |-> "leave", at |-> x] \in Step
                      /\ [op |-> "join", at |-> x] \in Step
                      /\ [op |-> "enter", at |-> x] \in Step
                      /\ [op |-> "drop", at |-> x] \in Step
                      /\ [op |-> "list", at |-> x] \in Step
                      /\ [op |-> "clear", at |-> x] \in Step
  /\ \A s \in Session \cup {None} : Map(s) \in Step
  /\ [op |-> "index"] \in Step /\ [op |-> "release"] \in Step
  /\ [op |-> "draw"] \in Step /\ [op |-> "save"] \in Step
BY DEF Step, Map

LEMMA NoDeckIsDeck == NoDeck \in Deck /\ NoDeck.size = 0 /\ NoDeck.number = 0
BY BoundAssumption DEF NoDeck, Deck, Card

LEMMA NoRowsAreRows ==
  /\ NoRows \in Rows /\ NoRows.areas = {} /\ ~NoRows.closed /\ ~NoRows.code
  /\ NoRows.deck = NoDeck /\ NoRows.gms = {} /\ ~NoRows.name
BY NoDeckIsDeck DEF NoRows, Rows

LEMMA PutKinds ==
  ASSUME NEW x \in Scope \cup {None}
  PROVE  /\ \A G \in SUBSET Group : Put(x, "areas", G) \in Step
         /\ \A U \in SUBSET User : Put(x, "gms", U) \in Step
         /\ Put(x, "closed", TRUE) \in Step /\ Put(x, "code", TRUE) \in Step
         /\ Put(x, "name", TRUE) \in Step
<1> DEFINE P(k, v) == [op |-> "put", at |-> x, key |-> k, rows |-> v]
<1>1. \A k \in Key, v \in Rows : P(k, v) \in Step
  BY DEF Step
<1>2. /\ \A G \in SUBSET Group : [NoRows EXCEPT !["areas"] = G] \in Rows
      /\ \A U \in SUBSET User : [NoRows EXCEPT !["gms"] = U] \in Rows
      /\ [NoRows EXCEPT !["closed"] = TRUE] \in Rows /\ [NoRows EXCEPT !["code"] = TRUE] \in Rows
      /\ [NoRows EXCEPT !["name"] = TRUE] \in Rows
  BY NoRowsAreRows DEF Rows
<1>3. {"areas", "gms", "closed", "code", "name"} \subseteq Key
  BY DEF Key
<1>4. \A k, v : Put(x, k, v) = P(k, [NoRows EXCEPT ![k] = v])
  BY DEF Put
<1> HIDE DEF P
<1>5. ASSUME NEW G \in SUBSET Group PROVE Put(x, "areas", G) \in Step
  <2>1. Put(x, "areas", G) = P("areas", [NoRows EXCEPT !["areas"] = G])
    BY <1>4
  <2> QED BY <1>1, <1>2, <1>3, <2>1
<1>6. ASSUME NEW U \in SUBSET User PROVE Put(x, "gms", U) \in Step
  <2>1. Put(x, "gms", U) = P("gms", [NoRows EXCEPT !["gms"] = U])
    BY <1>4
  <2> QED BY <1>1, <1>2, <1>3, <2>1
<1>7. /\ Put(x, "closed", TRUE) = P("closed", [NoRows EXCEPT !["closed"] = TRUE])
      /\ Put(x, "code", TRUE) = P("code", [NoRows EXCEPT !["code"] = TRUE])
      /\ Put(x, "name", TRUE) = P("name", [NoRows EXCEPT !["name"] = TRUE])
  BY <1>4
<1> QED BY <1>1, <1>2, <1>3, <1>5, <1>6, <1>7

LEMMA FollowsTail ==
  ASSUME NEW todo \in Seq(Step), NEW plan, Len(plan) \in Nat, Follows(todo, plan)
  PROVE  /\ todo # <<>> /\ Head(todo) = plan[Len(todo)] /\ Head(todo) = todo[1]
         /\ Tail(todo) \in Seq(Step) /\ Len(Tail(todo)) = Len(todo) - 1
         /\ Len(todo) > 1 => Follows(Tail(todo), plan)
<1>1. Len(todo) \in Nat /\ Len(todo) >= 1 /\ todo # <<>> /\ Head(todo) = todo[1]
  BY EmptySeq DEF Follows
<1>2. /\ Tail(todo) \in Seq(Step) /\ Len(Tail(todo)) = Len(todo) - 1
      /\ \A i \in 1..Len(Tail(todo)) : Tail(todo)[i] = todo[i + 1]
  BY <1>1, HeadTailProperties
<1>3. todo[1] = plan[Len(todo)]
  BY <1>1 DEF Follows
<1>4. ASSUME Len(todo) > 1 PROVE Follows(Tail(todo), plan)
  <2>1. ASSUME NEW i \in 1..Len(Tail(todo)) PROVE Tail(todo)[i] = plan[Len(Tail(todo)) - i + 1]
    <3>1. i + 1 \in 1..Len(todo) /\ Len(todo) - (i + 1) + 1 = Len(Tail(todo)) - i + 1
      BY <1>1, <1>2
    <3> QED BY <1>2, <3>1 DEF Follows
  <2>2. Len(Tail(todo)) \in 1..Len(plan)
    BY <1>1, <1>2, <1>4 DEF Follows
  <2> QED BY <2>1, <2>2 DEF Follows
<1> QED BY <1>1, <1>2, <1>3, <1>4

(* Steps that stand in a plan with k steps to come after them.             *)
Part(todo, plan, k) ==
  /\ todo \in Seq(Step)
  /\ \A i \in 1..Len(todo) : todo[i] = plan[k + Len(todo) - i + 1]

LEMMA PartsJoin ==
  ASSUME NEW p, NEW q, NEW plan, NEW k \in Nat, NEW n,
         n = k + Len(q), Part(p, plan, n), Part(q, plan, k)
  PROVE  Part(p \o q, plan, k) /\ Len(p \o q) = Len(p) + Len(q)
<1> DEFINE r == p \o q
<1>1. p \in Seq(Step) /\ q \in Seq(Step) /\ Len(p) \in Nat /\ Len(q) \in Nat
  BY LenProperties DEF Part
<1>2. /\ r \in Seq(Step) /\ Len(r) = Len(p) + Len(q)
      /\ \A i \in 1..Len(p) + Len(q) : r[i] = IF i <= Len(p) THEN p[i] ELSE q[i - Len(p)]
  BY <1>1, ConcatProperties
<1> HIDE DEF r
<1>3. ASSUME NEW i \in 1..Len(r) PROVE r[i] = plan[k + Len(r) - i + 1]
  <2>1. CASE i <= Len(p)
    <3>1. k + Len(q) + Len(p) - i + 1 = k + Len(r) - i + 1 /\ i \in 1..Len(p)
      BY <1>1, <1>2, <2>1
    <3> QED BY <1>2, <2>1, <3>1 DEF Part
  <2>2. CASE i > Len(p)
    <3>1. i - Len(p) \in 1..Len(q) /\ k + Len(q) - (i - Len(p)) + 1 = k + Len(r) - i + 1
      BY <1>1, <1>2, <2>2
    <3>2. r[i] = q[i - Len(p)]
      BY <1>1, <1>2, <2>2
    <3>3. q[i - Len(p)] = plan[k + Len(q) - (i - Len(p)) + 1]
      BY <3>1 DEF Part
    <3> QED BY <3>1, <3>2, <3>3
  <2> QED BY <1>1, <1>2, <2>1, <2>2
<1>4. Part(r, plan, k)
  BY <1>2, <1>3 DEF Part
<1> QED BY <1>2, <1>4 DEF r

LEMMA PartFollows ==
  ASSUME NEW todo, NEW plan, Part(todo, plan, 0), Len(todo) \in 1..Len(plan), Len(plan) \in Nat
  PROVE  Follows(todo, plan)
<1>1. \A i \in 1..Len(todo) : 0 + Len(todo) - i + 1 = Len(todo) - i + 1
  OBVIOUS
<1> QED BY <1>1 DEF Part, Follows

LEMMA Pieces ==
  ASSUME NEW s \in Session
  PROVE  /\ <<>> \in Seq(Step) /\ Len(<<>>) = 0
         /\ Detach(s) \in Seq(Step) /\ Len(Detach(s)) = 3
         /\ Attach(s) \in Seq(Step) /\ Len(Attach(s)) = 3
         /\ \A x \in Scope : Clear(x) \in Seq(Step) /\ Len(Clear(x)) = 2
         /\ Enter(s) \in Seq(Step) /\ Len(Enter(s)) = 2
         /\ Drop(s) \in Seq(Step) /\ Len(Drop(s)) = 2
         /\ <<[op |-> "release"]>> \in Seq(Step) /\ Len(<<[op |-> "release"]>>) = 1
<1>1. s \in Scope /\ s \in Session \cup {None} /\ None \in Session \cup {None}
  BY DEF Scope
<1>2. /\ [op |-> "areas", at |-> s] \in Step /\ [op |-> "leave", at |-> s] \in Step
      /\ [op |-> "join", at |-> s] \in Step /\ Map(s) \in Step /\ Map(None) \in Step
      /\ [op |-> "enter", at |-> s] \in Step /\ [op |-> "drop", at |-> s] \in Step
      /\ [op |-> "index"] \in Step /\ [op |-> "release"] \in Step
  BY <1>1, StepKinds
<1>3. ASSUME NEW x \in Scope PROVE Clear(x) \in Seq(Step) /\ Len(Clear(x)) = 2
  <2>1. [op |-> "list", at |-> x] \in Step /\ [op |-> "clear", at |-> x] \in Step
    BY StepKinds
  <2> QED BY <2>1 DEF Clear
<1>4. /\ Detach(s) \in Seq(Step) /\ Attach(s) \in Seq(Step) /\ Enter(s) \in Seq(Step)
      /\ Drop(s) \in Seq(Step) /\ <<[op |-> "release"]>> \in Seq(Step)
  BY <1>2 DEF Detach, Attach, Enter, Drop
<1>5. /\ Len(Detach(s)) = 3 /\ Len(Attach(s)) = 3 /\ Len(Enter(s)) = 2 /\ Len(Drop(s)) = 2
  BY DEF Detach, Attach, Enter, Drop
<1> QED BY <1>3, <1>4, <1>5, EmptySeq

LEMMA OpenStarts ==
  ASSUME NEW s \in Session, NEW t
  PROVE  /\ Attach(s) \in Seq(Step) /\ Len(<<>> \o Attach(s)) = 3 /\ <<>> \o Attach(s) \in Seq(Step)
         /\ Follows(<<>> \o Attach(s), OpenPlan(s, t))
         /\ t \in Session => /\ Detach(t) \o Attach(s) \in Seq(Step)
                             /\ Len(Detach(t) \o Attach(s)) = 6
                             /\ Follows(Detach(t) \o Attach(s), OpenPlan(s, t))
<1> DEFINE plan == OpenPlan(s, t)
<1>1. Part(Attach(s), plan, 0) /\ Len(Attach(s)) = 3 /\ Len(plan) = 6
  BY Pieces DEF Part, Attach, OpenPlan
<1>2. Part(<<>>, plan, 0 + Len(Attach(s))) /\ Len(<<>>) = 0
  BY <1>1, EmptySeq DEF Part
<1>3. ASSUME t \in Session PROVE Part(Detach(t), plan, 0 + Len(Attach(s))) /\ Len(Detach(t)) = 3
  BY <1>1, <1>3, Pieces DEF Part, Detach, OpenPlan
<1> HIDE DEF plan
<1>4. Part(<<>> \o Attach(s), plan, 0) /\ Len(<<>> \o Attach(s)) = 3
  BY <1>1, <1>2, PartsJoin
<1>5. ASSUME t \in Session
      PROVE  Part(Detach(t) \o Attach(s), plan, 0) /\ Len(Detach(t) \o Attach(s)) = 6
  <2>1. Part(Detach(t), plan, 0 + Len(Attach(s))) /\ Len(Detach(t)) = 3
    BY <1>3, <1>5
  <2>2. /\ Part(Detach(t) \o Attach(s), plan, 0)
        /\ Len(Detach(t) \o Attach(s)) = Len(Detach(t)) + Len(Attach(s))
    BY <1>1, <2>1, PartsJoin
  <2> QED BY <1>1, <2>1, <2>2
<1>6. Follows(<<>> \o Attach(s), plan)
  BY <1>1, <1>4, PartFollows
<1>7. ASSUME t \in Session PROVE Follows(Detach(t) \o Attach(s), plan)
  <2> DEFINE q == Detach(t) \o Attach(s)
  <2>1. Part(q, plan, 0) /\ Len(q) \in 1..Len(plan) /\ Len(plan) \in Nat
    BY <1>1, <1>5, <1>7
  <2> HIDE DEF q
  <2>2. Follows(q, plan)
    BY <2>1, PartFollows
  <2> QED BY <2>2 DEF q
<1> QED BY <1>1, <1>4, <1>5, <1>6, <1>7 DEF Part, plan

LEMMA FiveSteps ==
  ASSUME NEW a \in Step, NEW b \in Step, NEW c \in Step, NEW d \in Step, NEW e \in Step
  PROVE  <<a, b, c, d, e>> \in Seq(Step) /\ Len(<<a, b, c, d, e>>) = 5
OBVIOUS

NewRows(s, g, u) ==
  <<Put(s, "areas", {}), Put(None, "name", TRUE), Put(None, "code", TRUE),
    Put(None, "gms", {u}), Put(None, "areas", {g})>>

LEMMA NewStarts ==
  ASSUME NEW s \in Session, NEW g \in Group, NEW u \in User, NEW before \in Seq(Step),
         NEW after, after = NewRows(s, g, u),
         NEW todo, todo = before \o Attach(s) \o after \o Enter(s)
  PROVE  /\ todo \in Seq(Step)
         /\ \A t \in Session : before = Detach(t) =>
               Len(todo) = 13 /\ Follows(todo, NewPlan(s, g, u, t))
         /\ before = Clear(g) => Len(todo) = 12 /\ Follows(todo, FirstPlan(s, g, u))
<1>1. s \in Scope \cup {None} /\ None \in Scope \cup {None} /\ g \in Scope
      /\ {g} \in SUBSET Group /\ {} \in SUBSET Group /\ {u} \in SUBSET User
  BY DEF Scope
<1>2. /\ Put(s, "areas", {}) \in Step /\ Put(None, "name", TRUE) \in Step
      /\ Put(None, "code", TRUE) \in Step /\ Put(None, "gms", {u}) \in Step
      /\ Put(None, "areas", {g}) \in Step
  BY <1>1, PutKinds
<1>3. after \in Seq(Step) /\ Len(after) = 5
  BY <1>2, FiveSteps DEF NewRows
<1>4. /\ Attach(s) \in Seq(Step) /\ Len(Attach(s)) = 3
      /\ Enter(s) \in Seq(Step) /\ Len(Enter(s)) = 2
  BY Pieces
<1>45. /\ after[1] = Put(s, "areas", {}) /\ after[2] = Put(None, "name", TRUE)
       /\ after[3] = Put(None, "code", TRUE) /\ after[4] = Put(None, "gms", {u})
       /\ after[5] = Put(None, "areas", {g})
  BY DEF NewRows
<1> DEFINE r == before \o Attach(s)
           q == r \o after
<1>5. ASSUME NEW plan, Part(before, plan, 10), Part(Attach(s), plan, 7), Part(after, plan, 2),
             Part(Enter(s), plan, 0)
      PROVE  Part(todo, plan, 0) /\ Len(todo) = Len(before) + 10
  <2>0. /\ 7 \in Nat /\ 10 = 7 + Len(Attach(s)) /\ 2 \in Nat /\ 7 = 2 + Len(after)
        /\ 0 \in Nat /\ 2 = 0 + Len(Enter(s)) /\ Len(before) \in Nat
    BY <1>3, <1>4, LenProperties
  <2>1. Part(r, plan, 7) /\ Len(r) = Len(before) + Len(Attach(s))
    BY <1>5, <2>0, PartsJoin
  <2> HIDE DEF r
  <2>2. Part(q, plan, 2) /\ Len(q) = Len(r) + Len(after)
    BY <1>5, <2>0, <2>1, PartsJoin
  <2>3. todo = q \o Enter(s)
    BY DEF r
  <2> HIDE DEF q
  <2>4. Part(q \o Enter(s), plan, 0) /\ Len(q \o Enter(s)) = Len(q) + Len(Enter(s))
    BY <1>5, <2>0, <2>2, PartsJoin
  <2>5. Part(todo, plan, 0) /\ Len(todo) = Len(q) + Len(Enter(s))
    BY <2>3, <2>4
  <2> QED BY ONLY <1>3, <1>4, <2>0, <2>1, <2>2, <2>5
<1>6. ASSUME NEW t \in Session, before = Detach(t)
      PROVE  Part(todo, NewPlan(s, g, u, t), 0) /\ Len(todo) = 13
  <2>1. Part(before, NewPlan(s, g, u, t), 10) /\ Len(before) = 3
    BY <1>6, Pieces DEF Part, Detach, NewPlan
  <2>2. Part(Attach(s), NewPlan(s, g, u, t), 7) /\ Part(Enter(s), NewPlan(s, g, u, t), 0)
    BY <1>4 DEF Part, Attach, Enter, NewPlan
  <2>3. Part(after, NewPlan(s, g, u, t), 2)
    <3> DEFINE plan == NewPlan(s, g, u, t)
    <3>1. /\ plan[7] = Put(s, "areas", {}) /\ plan[6] = Put(None, "name", TRUE)
          /\ plan[5] = Put(None, "code", TRUE) /\ plan[4] = Put(None, "gms", {u})
          /\ plan[3] = Put(None, "areas", {g})
      BY DEF NewPlan
    <3> HIDE DEF plan
    <3>2. ASSUME NEW i \in 1..Len(after) PROVE after[i] = plan[2 + Len(after) - i + 1]
      <4>1. i \in {1, 2, 3, 4, 5} /\ 2 + Len(after) - i + 1 = 8 - i
        BY <1>3
      <4>2. /\ 8 - 1 = 7 /\ 8 - 2 = 6 /\ 8 - 3 = 5 /\ 8 - 4 = 4 /\ 8 - 5 = 3
        OBVIOUS
      <4> QED BY <1>45, <3>1, <4>1, <4>2
    <3> QED BY <1>3, <3>2 DEF Part, plan
  <2>4. Part(todo, NewPlan(s, g, u, t), 0) /\ Len(todo) = Len(before) + 10
    BY <1>5, <2>1, <2>2, <2>3
  <2> QED BY ONLY <1>6, <2>1, <2>4
<1>7. ASSUME before = Clear(g) PROVE Part(todo, FirstPlan(s, g, u), 0) /\ Len(todo) = 12
  <2>1. Part(before, FirstPlan(s, g, u), 10) /\ Len(before) = 2
    BY <1>1, <1>7, Pieces DEF Part, Clear, FirstPlan
  <2>2. Part(Attach(s), FirstPlan(s, g, u), 7) /\ Part(Enter(s), FirstPlan(s, g, u), 0)
    BY <1>4 DEF Part, Attach, Enter, FirstPlan
  <2>3. Part(after, FirstPlan(s, g, u), 2)
    <3> DEFINE plan == FirstPlan(s, g, u)
    <3>1. /\ plan[7] = Put(s, "areas", {}) /\ plan[6] = Put(None, "name", TRUE)
          /\ plan[5] = Put(None, "code", TRUE) /\ plan[4] = Put(None, "gms", {u})
          /\ plan[3] = Put(None, "areas", {g})
      BY DEF FirstPlan
    <3> HIDE DEF plan
    <3>2. ASSUME NEW i \in 1..Len(after) PROVE after[i] = plan[2 + Len(after) - i + 1]
      <4>1. i \in {1, 2, 3, 4, 5} /\ 2 + Len(after) - i + 1 = 8 - i
        BY <1>3
      <4>2. /\ 8 - 1 = 7 /\ 8 - 2 = 6 /\ 8 - 3 = 5 /\ 8 - 4 = 4 /\ 8 - 5 = 3
        OBVIOUS
      <4> QED BY <1>45, <3>1, <4>1, <4>2
    <3> QED BY <1>3, <3>2 DEF Part, plan
  <2>4. Part(todo, FirstPlan(s, g, u), 0) /\ Len(todo) = Len(before) + 10
    BY <1>5, <2>1, <2>2, <2>3
  <2> QED BY ONLY <2>1, <2>4
<1>8. todo \in Seq(Step)
  BY <1>3, <1>4, ConcatProperties
<1>9. ASSUME NEW t \in Session, before = Detach(t) PROVE Follows(todo, NewPlan(s, g, u, t))
  <2>1. Len(NewPlan(s, g, u, t)) = 13
    BY DEF NewPlan
  <2>2. /\ Part(todo, NewPlan(s, g, u, t), 0) /\ Len(todo) \in 1..Len(NewPlan(s, g, u, t))
        /\ Len(NewPlan(s, g, u, t)) \in Nat
    BY ONLY <1>6, <1>9, <2>1
  <2> QED BY <2>2, PartFollows
<1>10. ASSUME before = Clear(g) PROVE Follows(todo, FirstPlan(s, g, u))
  <2>1. Len(FirstPlan(s, g, u)) = 12
    BY DEF FirstPlan
  <2>2. /\ Part(todo, FirstPlan(s, g, u), 0) /\ Len(todo) \in 1..Len(FirstPlan(s, g, u))
        /\ Len(FirstPlan(s, g, u)) \in Nat
    BY ONLY <1>7, <1>10, <2>1
  <2> QED BY <2>2, PartFollows
<1> QED BY <1>6, <1>7, <1>8, <1>9, <1>10

LEMMA NewMoves ==
  ASSUME NEW s \in Session, NEW t \in Session, NEW g \in Group, NEW u \in User,
         NEW todo, todo = Detach(t) \o Attach(s) \o NewRows(s, g, u) \o Enter(s)
  PROVE  Len(todo) = 13 /\ Follows(todo, NewPlan(s, g, u, t))
<1>1. t \in Scope /\ Detach(t) \in Seq(Step)
  BY Pieces DEF Scope
<1>2. PICK before, after : before = Detach(t) /\ after = NewRows(s, g, u)
  OBVIOUS
<1>3. todo = before \o Attach(s) \o after \o Enter(s) /\ before \in Seq(Step)
  BY <1>1, <1>2
<1> QED BY <1>2, <1>3, NewStarts

LEMMA OverStarts ==
  ASSUME NEW s \in Session
  PROVE  /\ <<[op |-> "release"]>> \o Clear(s) \o Drop(s) \in Seq(Step)
         /\ Len(<<[op |-> "release"]>> \o Clear(s) \o Drop(s)) = 5
         /\ Follows(<<[op |-> "release"]>> \o Clear(s) \o Drop(s), OverPlan(s))
         /\ <<[op |-> "release"]>> \o Clear(s) \o <<>> \in Seq(Step)
         /\ Len(<<[op |-> "release"]>> \o Clear(s) \o <<>>) = 3
         /\ Follows(<<[op |-> "release"]>> \o Clear(s) \o <<>>, UnlistedPlan(s))
<1> DEFINE r == <<[op |-> "release"]>>
           q == r \o Clear(s)
           long == q \o Drop(s)
           short == q \o <<>>
<1>1. /\ r \in Seq(Step) /\ Len(r) = 1 /\ Clear(s) \in Seq(Step) /\ Len(Clear(s)) = 2
      /\ Drop(s) \in Seq(Step) /\ Len(Drop(s)) = 2 /\ <<>> \in Seq(Step) /\ Len(<<>>) = 0
  BY Pieces DEF Scope
<1>2. /\ Part(r, OverPlan(s), 4) /\ Part(Clear(s), OverPlan(s), 2) /\ Part(Drop(s), OverPlan(s), 0)
      /\ Len(OverPlan(s)) = 5
  BY <1>1 DEF Part, Clear, Drop, OverPlan
<1>3. /\ Part(r, UnlistedPlan(s), 2) /\ Part(Clear(s), UnlistedPlan(s), 0)
      /\ Part(<<>>, UnlistedPlan(s), 0) /\ Len(UnlistedPlan(s)) = 3
  BY <1>1 DEF Part, Clear, UnlistedPlan
<1> HIDE DEF r
<1>4. Part(q, OverPlan(s), 2) /\ Part(q, UnlistedPlan(s), 0) /\ Len(q) = 3
  <2>1. Part(q, OverPlan(s), 2) /\ Len(q) = Len(r) + Len(Clear(s))
    <3>1. 2 \in Nat /\ 4 = 2 + Len(Clear(s))
      BY <1>1
    <3> QED BY <1>1, <1>2, <3>1, PartsJoin
  <2>2. Part(q, UnlistedPlan(s), 0)
    <3>1. 0 \in Nat /\ 2 = 0 + Len(Clear(s))
      BY <1>1
    <3> QED BY <1>3, <3>1, PartsJoin
  <2> QED BY <1>1, <2>1, <2>2
<1> HIDE DEF q
<1>5. Part(long, OverPlan(s), 0) /\ Len(long) = 5
  <2>1. Part(long, OverPlan(s), 0) /\ Len(long) = Len(q) + Len(Drop(s))
    <3>1. 0 \in Nat /\ 2 = 0 + Len(Drop(s))
      BY <1>1
    <3> QED BY <1>2, <1>4, <3>1, PartsJoin
  <2> QED BY <1>1, <1>4, <2>1
<1>6. Part(short, UnlistedPlan(s), 0) /\ Len(short) = 3
  <2>1. Part(short, UnlistedPlan(s), 0) /\ Len(short) = Len(q) + Len(<<>>)
    <3>1. 0 \in Nat /\ 0 = 0 + Len(<<>>)
      BY <1>1
    <3> QED BY <1>3, <1>4, <3>1, PartsJoin
  <2> QED BY <1>1, <1>4, <2>1
<1> HIDE DEF long, short
<1>7. Follows(long, OverPlan(s)) /\ long \in Seq(Step)
  <2>1. Len(long) \in 1..Len(OverPlan(s)) /\ Len(OverPlan(s)) \in Nat
    BY <1>2, <1>5
  <2> QED BY <1>5, <2>1, PartFollows DEF Part
<1>8. Follows(short, UnlistedPlan(s)) /\ short \in Seq(Step)
  <2>1. Len(short) \in 1..Len(UnlistedPlan(s)) /\ Len(UnlistedPlan(s)) \in Nat
    BY <1>3, <1>6
  <2> QED BY <1>6, <2>1, PartFollows DEF Part
<1> QED BY <1>5, <1>6, <1>7, <1>8 DEF long, short, q, r

-----------------------------------------------------------------------------
(* What one step changes.                                                  *)

LEMMA Scopes ==
  ASSUME GameTypeOK
  PROVE  /\ Session \subseteq Scope /\ Group \subseteq Scope /\ None \notin Scope
         /\ Session \cap Group = {} /\ Exist \subseteq Session
         /\ \A g \in Group : /\ ScopeOf(g) \in Scope
                             /\ session[g] = None => ScopeOf(g) = g
                             /\ session[g] # None => ScopeOf(g) = session[g] /\ session[g] \in Session
<1>1. Session \subseteq Nat /\ Exist \subseteq Session
  BY BoundAssumption DEF Session, Exist, GameTypeOK
<1>2. Session \subseteq Scope /\ Group \subseteq Scope /\ None \notin Scope /\ Session \cap Group = {}
  BY <1>1, NameAssumption DEF Scope
<1>3. ASSUME NEW g \in Group
      PROVE  /\ ScopeOf(g) \in Scope
             /\ session[g] = None => ScopeOf(g) = g
             /\ session[g] # None => ScopeOf(g) = session[g] /\ session[g] \in Session
  BY <1>2 DEF GameTypeOK, ScopeOf
<1> QED BY <1>1, <1>2, <1>3

LEMMA StepIs ==
  ASSUME CommandStep, NEW o, Head(job.todo).op = o
  PROVE  /\ job.todo # <<>>
         /\ o = "areas" => ReadAreas
         /\ o \in {"leave", "join"} => WriteAreas
         /\ o = "put" => PutRow
         /\ o = "list" => ListRows
         /\ o = "clear" => ClearRows
         /\ o = "map" => MapGroup
         /\ o = "release" => Release
         /\ o = "index" => ReadIndex
         /\ o \in {"enter", "drop"} => WriteIndex
         /\ o = "draw" => DrawCard
         /\ o = "save" => Save \/ SaveFails
BY DEF CommandStep, Doing, ReadAreas, WriteAreas, PutRow, ListRows, ClearRows, MapGroup, Release,
       ReadIndex, WriteIndex, DrawCard, Save, SaveFails

(* One row of one scope is written.                                        *)
Wrote(a, k, r) ==
  /\ conf' \in [Scope -> Rows]
  /\ \A x \in Scope :
       /\ x # a => conf'[x] = conf[x]
       /\ conf'[x].areas = IF x = a /\ k = "areas" THEN r.areas ELSE conf[x].areas
       /\ conf'[x].code = IF x = a /\ k = "code" THEN r.code ELSE conf[x].code
       /\ conf'[x].deck = IF x = a /\ k = "deck" THEN r.deck ELSE conf[x].deck
       /\ conf'[x].name = IF x = a /\ k = "name" THEN r.name ELSE conf[x].name

LEMMA RowWritten ==
  ASSUME conf \in [Scope -> Rows], NEW a \in Scope, NEW k \in Key, NEW r \in Rows,
         conf' = [conf EXCEPT ![a][k] = r[k]]
  PROVE  Wrote(a, k, r)
<1>1. conf[a] \in Rows
  OBVIOUS
<1>2. [conf[a] EXCEPT ![k] = r[k]] \in Rows
  BY <1>1 DEF Rows, Key
<1>3. conf' = [conf EXCEPT ![a] = [conf[a] EXCEPT ![k] = r[k]]]
  OBVIOUS
<1>4. conf' \in [Scope -> Rows]
  BY <1>2, <1>3
<1> QED BY <1>1, <1>3, <1>4 DEF Wrote, Rows, Key

LEMMA AreasWritten ==
  ASSUME conf \in [Scope -> Rows], NEW a \in Scope, NEW G \in SUBSET Group,
         conf' = [conf EXCEPT ![a].areas = G]
  PROVE  Wrote(a, "areas", [NoRows EXCEPT !.areas = G])
BY NoRowsAreRows DEF Wrote, Rows

LEMMA DeckWritten ==
  ASSUME conf \in [Scope -> Rows], NEW a \in Scope, NEW d \in Deck,
         conf' = [conf EXCEPT ![a].deck = d]
  PROVE  Wrote(a, "deck", [NoRows EXCEPT !.deck = d])
BY NoRowsAreRows DEF Wrote, Rows

LEMMA NoJobIsJob ==
  /\ NoJob \in Job /\ NoJob.todo = <<>> /\ NoJob.g \in Group /\ NoJob.s = 1 /\ NoJob.seen = {}
  /\ NoJob.keys = {} /\ NoJob.index = {} /\ NoJob.deck = NoDeck /\ NoJob.cards = NoCards
<1>1. (CHOOSE g \in Group : TRUE) \in Group
  BY NameAssumption
<1>2. 1 \in Scope /\ <<>> \in Seq(Step) /\ NoCards \in [Card -> Nat]
  BY BoundAssumption, EmptySeq DEF Scope, Session, NoCards
<1> QED BY <1>1, <1>2, NoDeckIsDeck DEF NoJob, Job

LEMMA NoDeckIsInjective == Injective(NoDeck)
BY DEF Injective, NoDeck

(* A command goes on to its next step, or is done.                         *)
LEMMA DoneIs ==
  ASSUME NEW j \in Job, j.todo # <<>>
  PROVE  /\ Done(j) \in Job /\ Len(j.todo) \in Nat \ {0}
         /\ Len(j.todo) = 1 => Done(j) = NoJob
         /\ Len(j.todo) # 1 => Done(j) = [j EXCEPT !.todo = Tail(j.todo)]
         /\ Done(j).index \subseteq j.index
         /\ \/ Done(j).deck = NoDeck /\ Done(j).cards = NoCards
            \/ Done(j).deck = j.deck /\ Done(j).cards = j.cards
<1>1. j.todo \in Seq(Step) /\ Len(j.todo) \in Nat \ {0} /\ Tail(j.todo) \in Seq(Step)
  BY EmptySeq, LenProperties, HeadTailProperties DEF Job
<1>2. /\ Len(j.todo) = 1 => Done(j) = NoJob
      /\ Len(j.todo) # 1 => Done(j) = [j EXCEPT !.todo = Tail(j.todo)]
  BY DEF Done
<1>3. [j EXCEPT !.todo = Tail(j.todo)] \in Job
  BY <1>1 DEF Job
<1>4. /\ [j EXCEPT !.todo = Tail(j.todo)].index = j.index
      /\ [j EXCEPT !.todo = Tail(j.todo)].deck = j.deck
      /\ [j EXCEPT !.todo = Tail(j.todo)].cards = j.cards
  BY DEF Job
<1>5. CASE Len(j.todo) = 1
  <2>1. Done(j) = NoJob
    BY <1>2, <1>5
  <2>2. Len(j.todo) \in Nat \ {0}
    BY <1>1
  <2> QED BY <1>5, <2>1, <2>2, NoJobIsJob
<1>6. CASE Len(j.todo) # 1
  <2>1. Done(j) = [j EXCEPT !.todo = Tail(j.todo)]
    BY <1>2, <1>6
  <2> QED BY <1>1, <1>3, <1>4, <1>6, <2>1
<1> QED BY <1>5, <1>6

LEMMA GoesOn ==
  ASSUME GameTypeOK, NEW plan, Len(plan) \in Nat, Follows(job.todo, plan),
         NEW j \in Job, j.todo = job.todo, j.g = job.g, j.s = job.s, j.deck = job.deck,
         j.cards = job.cards, job' = Done(j)
  PROVE  /\ StepsLeft \in 1..Len(plan)
         /\ StepsLeft = 1 => job' = NoJob
         /\ StepsLeft > 1 =>
              /\ Follows(job'.todo, plan) /\ StepsLeft' = StepsLeft - 1
              /\ job'.g = job.g /\ job'.s = job.s /\ job'.deck = job.deck
              /\ job'.cards = job.cards /\ job'.seen = j.seen /\ job'.keys = j.keys
              /\ job'.index = j.index
         /\ NoDeal => NoDeal'
<1>1. job.todo \in Seq(Step) /\ StepsLeft \in 1..Len(plan)
  BY DEF GameTypeOK, Job, Follows, StepsLeft
<1>2. /\ job.todo # <<>> /\ Len(Tail(job.todo)) = Len(job.todo) - 1
      /\ Len(job.todo) > 1 => Follows(Tail(job.todo), plan)
  BY <1>1, FollowsTail
<1>3. CASE StepsLeft = 1
  <2>1. job' = NoJob
    BY <1>2, <1>3, DoneIs DEF StepsLeft
  <2> QED BY <1>1, <1>3, <2>1, NoJobIsJob DEF NoDeal
<1>4. CASE StepsLeft > 1
  <2>0. j.todo # <<>> /\ Len(j.todo) # 1 /\ Tail(j.todo) = Tail(job.todo)
    <3>1. StepsLeft \in 1..Len(plan)
      BY <1>1
    <3>2. StepsLeft # 1
      BY ONLY <1>4, <3>1
    <3>3. Len(job.todo) # 1
      BY <3>2 DEF StepsLeft
    <3> QED BY <1>2, <3>3
  <2>1. job' = [j EXCEPT !.todo = Tail(j.todo)]
    BY <2>0, DoneIs
  <2>2. /\ job'.todo = Tail(job.todo) /\ job'.g = job.g /\ job'.s = job.s /\ job'.deck = job.deck
        /\ job'.cards = job.cards /\ job'.seen = j.seen /\ job'.keys = j.keys /\ job'.index = j.index
    BY <2>1 DEF Job
  <2>3. Follows(job'.todo, plan) /\ StepsLeft' = StepsLeft - 1
    BY <1>2, <1>4, <2>2 DEF StepsLeft
  <2> QED BY <1>1, <1>4, <2>2, <2>3 DEF NoDeal
<1> QED BY <1>1, <1>3, <1>4

-----------------------------------------------------------------------------
(* The step that comes next.                                               *)

LEMMA HeadOf ==
  ASSUME NEW todo, NEW plan, Follows(todo, plan), NEW n \in Nat, Len(plan) = n
  PROVE  Head(todo) = plan[Len(todo)] /\ Len(todo) \in 1..n
<1>1. Head(todo) = todo[1] /\ Len(todo) \in 1..n /\ todo[1] = plan[Len(todo) - 1 + 1]
  BY DEF Follows
<1>2. Len(todo) - 1 + 1 = Len(todo)
  BY <1>1
<1> QED BY <1>1, <1>2

OpenHead(s, t) ==
  LET h == Head(job.todo) IN
  \/ StepsLeft = 6 /\ h = [op |-> "areas", at |-> t]
  \/ StepsLeft = 5 /\ h = [op |-> "leave", at |-> t]
  \/ StepsLeft = 4 /\ h = Map(None)
  \/ StepsLeft = 3 /\ h = Map(s)
  \/ StepsLeft = 2 /\ h = [op |-> "areas", at |-> s]
  \/ StepsLeft = 1 /\ h = [op |-> "join", at |-> s]

MakeHead(s, g, u) ==
  LET h == Head(job.todo) IN
  \/ StepsLeft = 10 /\ h = Map(s)
  \/ StepsLeft = 9 /\ h = [op |-> "areas", at |-> s]
  \/ StepsLeft = 8 /\ h = [op |-> "join", at |-> s]
  \/ StepsLeft = 7 /\ h = Put(s, "areas", {})
  \/ StepsLeft = 6 /\ h = Put(None, "name", TRUE)
  \/ StepsLeft = 5 /\ h = Put(None, "code", TRUE)
  \/ StepsLeft = 4 /\ h = Put(None, "gms", {u})
  \/ StepsLeft = 3 /\ h = Put(None, "areas", {g})
  \/ StepsLeft = 2 /\ h = [op |-> "index"]
  \/ StepsLeft = 1 /\ h = [op |-> "enter", at |-> s]

LeaveHead(t, n) ==
  LET h == Head(job.todo) IN
  \/ n = 3 /\ h = [op |-> "areas", at |-> t]
  \/ n = 2 /\ h = [op |-> "leave", at |-> t]
  \/ n = 1 /\ h = Map(None)

LEMMA OpenHeads ==
  ASSUME NEW s, NEW t, Follows(job.todo, OpenPlan(s, t))
  PROVE  OpenHead(s, t)
<1> DEFINE plan == OpenPlan(s, t)
<1>1. Len(plan) = 6
  BY DEF OpenPlan
<1>2. Head(job.todo) = plan[StepsLeft] /\ StepsLeft \in 1..6
  BY <1>1, HeadOf DEF StepsLeft
<1> QED BY <1>2 DEF OpenPlan, OpenHead

LEMMA NewHeads ==
  ASSUME NEW s, NEW g, NEW u, NEW t, Follows(job.todo, NewPlan(s, g, u, t))
  PROVE  /\ StepsLeft \in 1..13
         /\ \/ MakeHead(s, g, u)
            \/ StepsLeft > 10 /\ LeaveHead(t, StepsLeft - 10)
<1> DEFINE plan == NewPlan(s, g, u, t)
<1>1. Len(plan) = 13
  BY DEF NewPlan
<1>2. Head(job.todo) = plan[StepsLeft] /\ StepsLeft \in 1..13
  BY <1>1, HeadOf DEF StepsLeft
<1>3. CASE StepsLeft <= 10
  <2>1. /\ plan[10] = Map(s) /\ plan[9] = [op |-> "areas", at |-> s]
        /\ plan[8] = [op |-> "join", at |-> s] /\ plan[7] = Put(s, "areas", {})
        /\ plan[6] = Put(None, "name", TRUE) /\ plan[5] = Put(None, "code", TRUE)
        /\ plan[4] = Put(None, "gms", {u}) /\ plan[3] = Put(None, "areas", {g})
        /\ plan[2] = [op |-> "index"] /\ plan[1] = [op |-> "enter", at |-> s]
    BY DEF NewPlan
  <2>2. StepsLeft \in {1, 2, 3, 4, 5, 6, 7, 8, 9, 10}
    BY <1>2, <1>3
  <2> HIDE DEF plan
  <2>3. CASE StepsLeft \in {1, 2, 3, 4, 5}
    BY ONLY <1>2, <2>1, <2>3 DEF MakeHead
  <2>4. CASE StepsLeft \in {6, 7, 8, 9, 10}
    BY ONLY <1>2, <2>1, <2>4 DEF MakeHead
  <2> QED BY <2>2, <2>3, <2>4
<1>4. CASE StepsLeft > 10
  <2>1. \/ StepsLeft = 13 /\ StepsLeft - 10 = 3
        \/ StepsLeft = 12 /\ StepsLeft - 10 = 2
        \/ StepsLeft = 11 /\ StepsLeft - 10 = 1
    BY <1>2, <1>4
  <2> QED BY <1>2, <2>1 DEF NewPlan, LeaveHead
<1> QED BY <1>2, <1>3, <1>4

LEMMA FirstHeads ==
  ASSUME NEW s, NEW g, NEW u, Follows(job.todo, FirstPlan(s, g, u))
  PROVE  /\ StepsLeft \in 1..12
         /\ \/ MakeHead(s, g, u)
            \/ StepsLeft = 12 /\ Head(job.todo) = [op |-> "list", at |-> g]
            \/ StepsLeft = 11 /\ Head(job.todo) = [op |-> "clear", at |-> g]
<1> DEFINE plan == FirstPlan(s, g, u)
<1>1. Len(plan) = 12
  BY DEF FirstPlan
<1>2. Head(job.todo) = plan[StepsLeft] /\ StepsLeft \in 1..12
  BY <1>1, HeadOf DEF StepsLeft
<1>3. CASE StepsLeft <= 10
  <2>1. /\ plan[10] = Map(s) /\ plan[9] = [op |-> "areas", at |-> s]
        /\ plan[8] = [op |-> "join", at |-> s] /\ plan[7] = Put(s, "areas", {})
        /\ plan[6] = Put(None, "name", TRUE) /\ plan[5] = Put(None, "code", TRUE)
        /\ plan[4] = Put(None, "gms", {u}) /\ plan[3] = Put(None, "areas", {g})
        /\ plan[2] = [op |-> "index"] /\ plan[1] = [op |-> "enter", at |-> s]
    BY DEF FirstPlan
  <2>2. StepsLeft \in {1, 2, 3, 4, 5, 6, 7, 8, 9, 10}
    BY <1>2, <1>3
  <2> HIDE DEF plan
  <2>3. CASE StepsLeft \in {1, 2, 3, 4, 5}
    BY ONLY <1>2, <2>1, <2>3 DEF MakeHead
  <2>4. CASE StepsLeft \in {6, 7, 8, 9, 10}
    BY ONLY <1>2, <2>1, <2>4 DEF MakeHead
  <2> QED BY <2>2, <2>3, <2>4
<1>4. CASE StepsLeft > 10
  BY <1>2, <1>4 DEF FirstPlan
<1> QED BY <1>2, <1>3, <1>4

LEMMA LeaveHeads ==
  ASSUME NEW t, Follows(job.todo, LeavePlan(t))
  PROVE  StepsLeft \in 1..3 /\ LeaveHead(t, StepsLeft)
<1>1. Len(LeavePlan(t)) = 3
  BY DEF LeavePlan
<1>2. Head(job.todo) = LeavePlan(t)[StepsLeft] /\ StepsLeft \in 1..3
  BY <1>1, HeadOf DEF StepsLeft
<1> QED BY <1>2 DEF LeavePlan, LeaveHead

OverHead(s) ==
  LET h == Head(job.todo) IN
  \/ StepsLeft = 5 /\ h = [op |-> "release"]
  \/ StepsLeft = 4 /\ h = [op |-> "list", at |-> s]
  \/ StepsLeft = 3 /\ h = [op |-> "clear", at |-> s]
  \/ StepsLeft = 2 /\ h = [op |-> "index"]
  \/ StepsLeft = 1 /\ h = [op |-> "drop", at |-> s]

LEMMA OverHeads == ASSUME NEW s, Follows(job.todo, OverPlan(s)) PROVE OverHead(s)
<1>1. Len(OverPlan(s)) = 5
  BY DEF OverPlan
<1>2. Head(job.todo) = OverPlan(s)[StepsLeft] /\ StepsLeft \in 1..5
  BY <1>1, HeadOf DEF StepsLeft
<1> QED BY <1>2 DEF OverPlan, OverHead

LEMMA UnlistedHeads ==
  ASSUME NEW s, Follows(job.todo, UnlistedPlan(s))
  PROVE  \/ StepsLeft = 3 /\ Head(job.todo) = [op |-> "release"]
         \/ StepsLeft = 2 /\ Head(job.todo) = [op |-> "list", at |-> s]
         \/ StepsLeft = 1 /\ Head(job.todo) = [op |-> "clear", at |-> s]
<1>1. Len(UnlistedPlan(s)) = 3
  BY DEF UnlistedPlan
<1>2. Head(job.todo) = UnlistedPlan(s)[StepsLeft] /\ StepsLeft \in 1..3
  BY <1>1, HeadOf DEF StepsLeft
<1> QED BY <1>2 DEF UnlistedPlan

LEMMA ClearHeads ==
  ASSUME NEW x, Follows(job.todo, ClearPlan(x))
  PROVE  \/ StepsLeft = 2 /\ Head(job.todo) = [op |-> "list", at |-> x]
         \/ StepsLeft = 1 /\ Head(job.todo) = [op |-> "clear", at |-> x]
<1>1. Len(ClearPlan(x)) = 2
  BY DEF ClearPlan
<1>2. Head(job.todo) = ClearPlan(x)[StepsLeft] /\ StepsLeft \in 1..2
  BY <1>1, HeadOf DEF StepsLeft
<1> QED BY <1>2 DEF ClearPlan

LEMMA OneHead ==
  ASSUME NEW st, Follows(job.todo, <<st>>)
  PROVE  StepsLeft = 1 /\ Head(job.todo) = st
<1>1. Len(<<st>>) = 1
  OBVIOUS
<1>2. Head(job.todo) = <<st>>[StepsLeft] /\ StepsLeft \in 1..1
  BY <1>1, HeadOf DEF StepsLeft
<1> QED BY <1>2

-----------------------------------------------------------------------------
(* The types, and what no command ever touches.                            *)

StepFits(st) ==
  \/ st.op \in {"areas", "leave", "join", "enter", "drop"} /\ st.at \in Exist
  \/ /\ st.op = "put" /\ st.at \in Exist \cup {None}
     /\ st.key \in Key \ {"deck"} /\ st.rows \in Rows
  \/ st.op = "map" /\ st.to \in Exist \cup {None}
  \/ st.op \in {"list", "clear"} /\ st.at \in Exist \cup Group
  \/ st.op \in {"index", "release", "draw", "save"}

LEMMA PutFits ==
  ASSUME NEW x \in Exist \cup {None}
  PROVE  /\ \A G \in SUBSET Group : StepFits(Put(x, "areas", G))
         /\ \A U \in SUBSET User : StepFits(Put(x, "gms", U))
         /\ StepFits(Put(x, "closed", TRUE)) /\ StepFits(Put(x, "code", TRUE)) /\ StepFits(Put(x, "name", TRUE))
<1>1. ASSUME NEW k, NEW v PROVE /\ Put(x, k, v).op = "put" /\ Put(x, k, v).at = x
                                /\ Put(x, k, v).key = k
                                /\ Put(x, k, v).rows = [NoRows EXCEPT ![k] = v]
  BY DEF Put
<1>2. /\ \A G \in SUBSET Group : [NoRows EXCEPT !["areas"] = G] \in Rows
      /\ \A U \in SUBSET User : [NoRows EXCEPT !["gms"] = U] \in Rows
      /\ [NoRows EXCEPT !["closed"] = TRUE] \in Rows /\ [NoRows EXCEPT !["code"] = TRUE] \in Rows
      /\ [NoRows EXCEPT !["name"] = TRUE] \in Rows
  BY NoRowsAreRows DEF Rows
<1>3. ASSUME NEW k \in Key \ {"deck"}, NEW v, [NoRows EXCEPT ![k] = v] \in Rows
      PROVE  StepFits(Put(x, k, v))
  BY <1>1, <1>3 DEF StepFits
<1>4. {"areas", "gms", "closed", "code", "name"} \subseteq Key \ {"deck"}
  BY DEF Key
<1> QED BY <1>2, <1>3, <1>4

LEMMA HeadFits ==
  ASSUME SharedInv, JobInv, job # NoJob
  PROVE  /\ job.todo # <<>> /\ StepFits(Head(job.todo))
         /\ NoDeal \/ Decking
<1>1. job.g \in Group /\ {job.g} \in SUBSET Group /\ {} \in SUBSET Group /\ None \in Exist \cup {None}
  BY DEF SharedInv, GameTypeOK, Job
<1>2. /\ \A x \in Exist \cup {None} : StepFits(Map(x))
      /\ \A x \in Exist : /\ StepFits([op |-> "areas", at |-> x]) /\ StepFits([op |-> "leave", at |-> x])
                          /\ StepFits([op |-> "join", at |-> x]) /\ StepFits([op |-> "enter", at |-> x])
                          /\ StepFits([op |-> "drop", at |-> x])
      /\ \A x \in Exist \cup Group : /\ StepFits([op |-> "list", at |-> x])
                                     /\ StepFits([op |-> "clear", at |-> x])
      /\ StepFits([op |-> "index"]) /\ StepFits([op |-> "release"])
      /\ StepFits([op |-> "draw"]) /\ StepFits([op |-> "save"])
  BY DEF StepFits, Map
<1>3. job.todo \in Seq(Step) /\ (StepsLeft >= 1 => job.todo # <<>>)
  BY EmptySeq DEF StepsLeft, SharedInv, GameTypeOK, Job
<1>4. ASSUME NEW s \in Exist, Opening(s) PROVE StepsLeft >= 1 /\ StepFits(Head(job.todo)) /\ NoDeal
  <2>1. OpenHead(s, job.s) /\ (StepsLeft > 3 => job.s \in Exist) /\ NoDeal
    BY <1>4, OpenHeads DEF Opening
  <2>2. /\ StepFits([op |-> "areas", at |-> s]) /\ StepFits([op |-> "join", at |-> s])
        /\ StepFits(Map(s)) /\ StepFits(Map(None))
    BY <1>1, <1>2
  <2>3. ASSUME job.s \in Exist
        PROVE  StepFits([op |-> "areas", at |-> job.s]) /\ StepFits([op |-> "leave", at |-> job.s])
    BY <1>2, <2>3
  <2> QED BY <2>1, <2>2, <2>3 DEF OpenHead
<1>5. ASSUME NEW s \in Exist, NEW u \in User, MakeHead(s, job.g, u)
      PROVE  StepFits(Head(job.todo))
  <2>1. {u} \in SUBSET User /\ s \in Exist \cup {None}
    OBVIOUS
  <2>2. /\ StepFits(Put(s, "areas", {})) /\ StepFits(Put(None, "name", TRUE)) /\ StepFits(Put(None, "code", TRUE))
        /\ StepFits(Put(None, "gms", {u})) /\ StepFits(Put(None, "areas", {job.g}))
    BY <1>1, <2>1, PutFits
  <2>3. /\ StepFits([op |-> "areas", at |-> s]) /\ StepFits([op |-> "join", at |-> s]) /\ StepFits(Map(s))
        /\ StepFits([op |-> "enter", at |-> s]) /\ StepFits([op |-> "index"])
    BY <1>2, <2>1
  <2> QED BY ONLY <1>5, <2>2, <2>3, Zenon DEF MakeHead
<1>6. ASSUME NEW t \in Exist, NEW n \in 1..3, LeaveHead(t, n) PROVE StepFits(Head(job.todo))
  BY <1>1, <1>2, <1>6 DEF LeaveHead
<1>7. ASSUME NEW s \in Exist, NEW u \in User, Moving(s, u)
      PROVE  StepsLeft >= 1 /\ StepFits(Head(job.todo)) /\ NoDeal
  <2>1. /\ StepsLeft \in 1..13 /\ (StepsLeft > 10 => job.s \in Exist) /\ NoDeal
        /\ \/ MakeHead(s, job.g, u)
           \/ StepsLeft > 10 /\ LeaveHead(job.s, StepsLeft - 10)
    BY <1>7, NewHeads DEF Moving
  <2>2. CASE StepsLeft > 10 /\ LeaveHead(job.s, StepsLeft - 10)
    <3>1. StepsLeft - 10 \in 1..3
      BY <2>1, <2>2
    <3> QED BY <1>6, <2>1, <2>2, <3>1
  <2> QED BY <1>5, <2>1, <2>2
<1>8. ASSUME NEW s \in Exist, NEW u \in User, Founding(s, u)
      PROVE  StepsLeft >= 1 /\ StepFits(Head(job.todo)) /\ NoDeal
  <2>1. /\ StepsLeft \in 1..12 /\ NoDeal
        /\ \/ MakeHead(s, job.g, u)
           \/ Head(job.todo) \in {[op |-> "list", at |-> job.g], [op |-> "clear", at |-> job.g]}
    BY <1>8, FirstHeads DEF Founding
  <2>2. StepFits([op |-> "list", at |-> job.g]) /\ StepFits([op |-> "clear", at |-> job.g])
    BY <1>1, <1>2
  <2> QED BY <1>5, <2>1, <2>2
<1>9. ASSUME Leaving PROVE StepsLeft >= 1 /\ StepFits(Head(job.todo)) /\ NoDeal
  <2>1. StepsLeft \in 1..3 /\ LeaveHead(job.s, StepsLeft) /\ job.s \in Exist /\ NoDeal
    BY <1>9, LeaveHeads DEF Leaving
  <2> QED BY <1>6, <2>1
<1>10. ASSUME NEW s \in Exist, Ending(s) PROVE StepsLeft >= 1 /\ StepFits(Head(job.todo)) /\ NoDeal
  <2>1. OverHead(s) /\ NoDeal
    BY <1>10, OverHeads DEF Ending
  <2>2. /\ StepFits([op |-> "list", at |-> s]) /\ StepFits([op |-> "clear", at |-> s])
        /\ StepFits([op |-> "release"]) /\ StepFits([op |-> "index"]) /\ StepFits([op |-> "drop", at |-> s])
    BY <1>2
  <2> QED BY ONLY <2>1, <2>2 DEF OverHead
<1>11. ASSUME NEW s \in Exist, Unlisted(s) PROVE StepsLeft >= 1 /\ StepFits(Head(job.todo)) /\ NoDeal
  <2>1. NoDeal /\ Follows(job.todo, UnlistedPlan(s))
    BY <1>11 DEF Unlisted
  <2>2. \/ StepsLeft = 3 /\ Head(job.todo) = [op |-> "release"]
        \/ StepsLeft = 2 /\ Head(job.todo) = [op |-> "list", at |-> s]
        \/ StepsLeft = 1 /\ Head(job.todo) = [op |-> "clear", at |-> s]
    BY <2>1, UnlistedHeads
  <2> QED BY <1>2, <2>1, <2>2
<1>12. ASSUME Clearing PROVE StepsLeft >= 1 /\ StepFits(Head(job.todo)) /\ NoDeal
  <2>1. NoDeal /\ Follows(job.todo, ClearPlan(job.g))
    BY <1>12 DEF Clearing
  <2>2. \/ StepsLeft = 2 /\ Head(job.todo) = [op |-> "list", at |-> job.g]
        \/ StepsLeft = 1 /\ Head(job.todo) = [op |-> "clear", at |-> job.g]
    BY <2>1, ClearHeads
  <2> QED BY <1>1, <1>2, <2>1, <2>2
<1>13. ASSUME Putting PROVE StepsLeft >= 1 /\ StepFits(Head(job.todo)) /\ NoDeal
  <2>1. \/ Follows(job.todo, <<Put(None, "closed", TRUE)>>)
        \/ \E U \in SUBSET User : Follows(job.todo, <<Put(None, "gms", U)>>)
    BY <1>13 DEF Putting
  <2>2. CASE Follows(job.todo, <<Put(None, "closed", TRUE)>>)
    <3>1. StepsLeft = 1 /\ Head(job.todo) = Put(None, "closed", TRUE)
      BY <2>2, OneHead
    <3>2. StepFits(Put(None, "closed", TRUE))
      BY <1>1, PutFits
    <3>3. NoDeal
      BY <1>13 DEF Putting
    <3>4. StepFits(Head(job.todo))
      BY <3>1, <3>2
    <3> QED BY <3>1, <3>3, <3>4
  <2>3. ASSUME NEW U \in SUBSET User, Follows(job.todo, <<Put(None, "gms", U)>>)
        PROVE  StepsLeft >= 1 /\ StepFits(Head(job.todo)) /\ NoDeal
    <3>1. StepsLeft = 1 /\ Head(job.todo) = Put(None, "gms", U)
      BY <2>3, OneHead
    <3>2. StepFits(Put(None, "gms", U))
      BY <1>1, PutFits
    <3>3. NoDeal
      BY <1>13 DEF Putting
    <3>4. StepFits(Head(job.todo))
      BY <3>1, <3>2
    <3> QED BY <3>1, <3>3, <3>4
  <2> QED BY <2>1, <2>2, <2>3
<1>14. ASSUME Decking PROVE StepsLeft >= 1 /\ StepFits(Head(job.todo))
  <2>1. StepsLeft >= 1 /\ Head(job.todo) = job.todo[1] /\ StepsLeft \in Nat
    BY <1>3, <1>14, LenProperties DEF Decking, StepsLeft
  <2>2. 1 \in 1..StepsLeft
    BY <2>1
  <2>3. Head(job.todo) \in {[op |-> "draw"], [op |-> "save"]}
    BY <1>14, <2>1, <2>2 DEF Decking
  <2> QED BY <1>2, <2>1, <2>3
<1> QED BY <1>3, <1>4, <1>7, <1>8, <1>9, <1>10, <1>11, <1>12, <1>13, <1>14 DEF JobInv

ConfOK ==
  /\ conf \in [Scope -> Rows] /\ \A x \in Scope : Injective(conf[x].deck)
  /\ \A s \in Session \ Exist : conf[s] = NoRows

LEMMA BaseHas ==
  ASSUME SharedInv
  PROVE  /\ ConfOK /\ session \in [Group -> Exist \cup {None}] /\ job \in Job /\ Injective(job.deck)
         /\ job.index \subseteq Exist /\ index \subseteq Exist
BY DEF SharedInv, GameTypeOK, ConfOK, Injective, Exist

(* Of the state a step of a command writes this is to be shown.            *)
LEMMA BaseFrom ==
  ASSUME SharedInv, UNCHANGED <<panel, used, cmds, requests, crashes, decks, cut, astray>>,
         dealt' \in [1..MaxCmds -> [Card -> Nat]],
         job' \in Job, Injective(job'.deck), job'.index \subseteq Exist,
         session' \in [Group -> Exist \cup {None}], index' \subseteq Exist, ConfOK'
  PROVE  SharedInv'
<1>1. Exist' = Exist /\ Exist \subseteq Session
  BY Scopes DEF Exist, SharedInv
<1>2. GameTypeOK'
  BY <1>1 DEF SharedInv, GameTypeOK, ConfOK, Injective, Exist
<1> QED BY <1>1, <1>2 DEF SharedInv, ConfOK

LEMMA WroteFits ==
  ASSUME SharedInv, UNCHANGED used, NEW a \in Exist \cup Group, NEW k, NEW r, Wrote(a, k, r),
         k = "deck" => Injective(r.deck)
  PROVE  ConfOK'
<1>1. Exist' = Exist /\ Exist \subseteq Session /\ Session \subseteq Scope /\ Session \cap Group = {}
  BY Scopes DEF Exist, SharedInv
<1>2. ConfOK
  BY BaseHas
<1>3. \A x \in Scope : Injective(conf'[x].deck)
  BY <1>2 DEF Wrote, ConfOK
<1>4. \A s \in Session \ Exist : conf'[s] = NoRows
  BY <1>1, <1>2 DEF Wrote, ConfOK
<1> QED BY <1>1, <1>3, <1>4 DEF Wrote, ConfOK

(* session_deck::draw.                                                     *)
LEMMA TakeIs ==
  ASSUME NEW d \in Deck, NEW i \in 1..d.size
  PROVE  /\ Take(d, i) \in Deck /\ d.size \in Card /\ i \in Card
         /\ Take(d, i).size = d.size - 1 /\ Take(d, i).number = d.number
         /\ \A j \in 1..(d.size - 1) : Take(d, i).order[j] = d.order[IF j = i THEN d.size ELSE j]
         /\ Injective(d) => Injective(Take(d, i))
<1>1. d.size \in Card /\ i \in Card /\ d.size \in Nat
  BY BoundAssumption DEF Deck, Card
<1>2. d.order \in [Card -> Card]
  BY DEF Deck
<1> DEFINE o == [[d.order EXCEPT ![i] = d.order[d.size]] EXCEPT ![d.size] = d.order[i]]
<1>3. /\ o \in [Card -> Card] /\ o[d.size] = d.order[i]
      /\ \A j \in Card \ {d.size} : o[j] = IF j = i THEN d.order[d.size] ELSE d.order[j]
  BY <1>1, <1>2
<1>4. Take(d, i) = [d EXCEPT !.order = o, !.size = d.size - 1]
  BY DEF Take, Deck
<1> HIDE DEF o
<1>5. /\ Take(d, i) \in Deck /\ Take(d, i).size = d.size - 1 /\ Take(d, i).number = d.number
      /\ Take(d, i).order = o
  <2>1. d.size - 1 \in 0..NCards
    BY <1>1, BoundAssumption DEF Card
  <2> QED BY <1>3, <1>4, <2>1 DEF Deck
<1>6. \A j \in 1..(d.size - 1) : j \in Card \ {d.size}
  BY <1>1, BoundAssumption DEF Card
<1>7. ASSUME NEW j \in 1..(d.size - 1)
      PROVE  Take(d, i).order[j] = d.order[IF j = i THEN d.size ELSE j]
  BY <1>3, <1>5, <1>6
<1>8. ASSUME Injective(d) PROVE Injective(Take(d, i))
  <2>1. \A j \in Card : o[j] = d.order[IF j = d.size THEN i ELSE IF j = i THEN d.size ELSE j]
    BY <1>1, <1>3
  <2>2. ASSUME NEW j \in Card, NEW l \in Card, o[j] = o[l] PROVE j = l
    <3> DEFINE m(x) == IF x = d.size THEN i ELSE IF x = i THEN d.size ELSE x
    <3>1. m(j) \in Card /\ m(l) \in Card /\ d.order[m(j)] = d.order[m(l)]
      BY <1>1, <2>1, <2>2
    <3>2. m(j) = m(l)
      BY <1>8, <3>1 DEF Injective
    <3> QED BY <3>2
  <2> QED BY <1>5, <2>2 DEF Injective
<1> QED BY <1>1, <1>5, <1>7, <1>8

(* A card is drawn: only a command on a deck does that, and not last.      *)
LEMMA Drawing ==
  ASSUME SharedInv, JobInv, DrawCard, NEW i \in 1..job.deck.size,
         job' = [Done(job) EXCEPT !.deck = Take(@, i), !.cards[job.deck.order[i]] = @ + 1]
  PROVE  /\ Decking /\ job.deck \in Deck /\ job.deck.order[i] \in Card
         /\ job' = [job EXCEPT !.todo = Tail(job.todo), !.deck = Take(job.deck, i),
                                !.cards = [job.cards EXCEPT ![job.deck.order[i]] = @ + 1]]
         /\ StepsLeft > 1 /\ Tail(job.todo) \in Seq(Step) /\ Len(Tail(job.todo)) = StepsLeft - 1
         /\ \A n \in 1..(StepsLeft - 1) : Tail(job.todo)[n] = job.todo[n + 1]
<1>1. job.todo # <<>> /\ Head(job.todo).op = "draw" /\ job \in Job
  BY BaseHas DEF DrawCard, Doing
<1>2. job # NoJob
  BY <1>1, NoJobIsJob
<1>3. job.deck \in Deck /\ job.deck.order[i] \in Card /\ job.deck # NoDeck
  <2>1. job.deck \in Deck
    BY <1>1 DEF Job
  <2>2. job.deck # NoDeck
    BY <2>1, NoDeckIsDeck
  <2>3. i \in Card /\ job.deck.order \in [Card -> Card]
    BY <2>1, TakeIs DEF Deck
  <2> QED BY <2>1, <2>2, <2>3
<1>4. Decking
  BY <1>2, <1>3, HeadFits DEF NoDeal
<1>5. job.todo \in Seq(Step) /\ StepsLeft \in Nat /\ StepsLeft >= 1 /\ Head(job.todo) = job.todo[1]
  BY <1>1, <1>4, LenProperties DEF Job, Decking, StepsLeft
<1>6. ASSUME StepsLeft = 1 PROVE FALSE
  <2>1. job.todo[1] = [op |-> "save"]
    BY <1>4, <1>6 DEF Decking
  <2> QED BY <1>1, <1>5, <2>1
<1>7. Done(job) = [job EXCEPT !.todo = Tail(job.todo)]
  BY <1>1, <1>6, DoneIs DEF StepsLeft
<1>8. job' = [job EXCEPT !.todo = Tail(job.todo), !.deck = Take(job.deck, i),
                         !.cards = [job.cards EXCEPT ![job.deck.order[i]] = @ + 1]]
  BY <1>1, <1>7 DEF Job
<1>9. /\ Tail(job.todo) \in Seq(Step) /\ Len(Tail(job.todo)) = StepsLeft - 1
      /\ \A n \in 1..Len(Tail(job.todo)) : Tail(job.todo)[n] = job.todo[n + 1]
  BY <1>1, <1>5, HeadTailProperties DEF StepsLeft
<1> QED BY <1>3, <1>4, <1>5, <1>6, <1>8, <1>9

LEMMA DoneFits ==
  ASSUME NEW j \in Job, j.todo # <<>>, job' = Done(j), Injective(j.deck), j.index \subseteq Exist
  PROVE  job' \in Job /\ Injective(job'.deck) /\ job'.index \subseteq Exist
BY DoneIs, NoDeckIsInjective

(* At what scope a step reads or writes.                                   *)
LEMMA AtIs ==
  ASSUME SharedInv, StepFits(Head(job.todo))
  PROVE  LET st == Head(job.todo) IN
         /\ st.op \in {"areas", "leave", "join", "enter", "drop"} => At = st.at /\ At \in Exist
         /\ st.op \in {"list", "clear"} => At = st.at /\ At \in Exist \cup Group
         /\ st.op = "put" => At \in Exist \cup Group /\ st.key \in Key \ {"deck"} /\ st.rows \in Rows
         /\ st.op = "map" => st.to \in Exist \cup {None}
<1> DEFINE st == Head(job.todo)
<1>1. /\ \A g \in Group : ScopeOf(g) \in Exist \cup Group
      /\ None \notin Exist \cup Group /\ job.g \in Group
  <2>1. \A g \in Group : ScopeOf(g) \in Exist \cup Group
    BY BaseHas DEF ScopeOf
  <2>2. None \notin Exist \cup Group /\ job.g \in Group
    BY NameAssumption DEF Exist, SharedInv, GameTypeOK, Job
  <2> QED BY <2>1, <2>2
<1>2. CASE st.op \in {"areas", "leave", "join", "enter", "drop"}
  BY <1>1, <1>2 DEF StepFits, At
<1>3. CASE st.op \in {"list", "clear"}
  BY <1>1, <1>3 DEF StepFits, At
<1>4. CASE st.op = "put"
  BY <1>1, <1>4 DEF StepFits, At
<1>5. CASE st.op = "map"
  BY <1>5 DEF StepFits
<1> QED BY <1>2, <1>3, <1>4, <1>5

LEMMA BaseStep == ASSUME SharedInv, JobInv, CommandStep PROVE SharedInv'
<1> DEFINE st == Head(job.todo)
<1>1. job.todo # <<>> /\ StepFits(st)
  <2>1. job.todo # <<>>
    BY DEF CommandStep, Doing, ReadAreas, WriteAreas, PutRow, ListRows, ClearRows, MapGroup, Release,
           ReadIndex, WriteIndex, DrawCard, Save, SaveFails
  <2>2. job # NoJob
    BY <2>1, NoJobIsJob
  <2> QED BY <2>1, <2>2, HeadFits
<1>2. /\ ConfOK /\ session \in [Group -> Exist \cup {None}] /\ job \in Job /\ Injective(job.deck)
      /\ job.index \subseteq Exist /\ index \subseteq Exist
  BY BaseHas
<1>3. /\ dealt \in [1..MaxCmds -> [Card -> Nat]] /\ Exist \subseteq Scope
      /\ Exist \cup Group \subseteq Scope /\ conf \in [Scope -> Rows]
  BY Scopes DEF SharedInv, GameTypeOK
<1>4. ASSUME UNCHANGED <<conf, used>> PROVE ConfOK'
  BY <1>2, <1>4 DEF ConfOK, Exist
<1>5. CASE ReadAreas
  <2>1. At \in Exist
    BY <1>1, <1>5, AtIs DEF ReadAreas, Doing
  <2> DEFINE j == [job EXCEPT !.seen = conf[At].areas]
  <2>2. conf[At].areas \subseteq Group
    BY <1>3, <2>1 DEF Rows
  <2>3. j \in Job /\ j.todo # <<>> /\ Injective(j.deck) /\ j.index \subseteq Exist
    BY <1>1, <1>2, <2>2 DEF Job
  <2>4. job' = Done(j)
    BY <1>5 DEF ReadAreas
  <2> HIDE DEF j
  <2>5. job' \in Job /\ Injective(job'.deck) /\ job'.index \subseteq Exist
    BY <2>3, <2>4, DoneFits
  <2> QED BY <1>2, <1>3, <1>4, <1>5, <2>5, BaseFrom DEF ReadAreas, stored, world
<1>6. ASSUME job' = Done(job) PROVE job' \in Job /\ Injective(job'.deck) /\ job'.index \subseteq Exist
  BY <1>1, <1>2, <1>6, DoneFits
<1>7. CASE WriteAreas
  <2>1. At \in Exist
    BY <1>1, <1>7, AtIs DEF WriteAreas, Doing
  <2>2. job.seen \subseteq Group /\ job.g \in Group
    BY <1>2 DEF Job
  <2>3. PICK G \in SUBSET Group : conf' = [conf EXCEPT ![At].areas = G]
    <3>1. job.seen \ {job.g} \in SUBSET Group /\ job.seen \cup {job.g} \in SUBSET Group
      BY <2>2
    <3> QED BY <1>7, <3>1 DEF WriteAreas
  <2>4. Wrote(At, "areas", [NoRows EXCEPT !.areas = G])
    BY <1>3, <2>1, <2>3, AreasWritten
  <2>5. ConfOK'
    BY <1>7, <2>1, <2>4, WroteFits DEF WriteAreas, world
  <2> QED BY <1>2, <1>3, <1>6, <1>7, <2>5, BaseFrom DEF WriteAreas, world
<1>8. CASE PutRow
  <2>1. At \in Exist \cup Group /\ st.key \in Key \ {"deck"} /\ st.rows \in Rows
    BY <1>1, <1>8, AtIs DEF PutRow, Doing
  <2>2. conf' = [conf EXCEPT ![At][st.key] = st.rows[st.key]]
    BY <1>8 DEF PutRow
  <2>3. Wrote(At, st.key, st.rows)
    BY <1>3, <2>1, <2>2, RowWritten
  <2>4. ConfOK'
    BY <1>8, <2>1, <2>3, WroteFits DEF PutRow, world
  <2> QED BY <1>2, <1>3, <1>6, <1>8, <2>4, BaseFrom DEF PutRow, world
<1>9. CASE ListRows
  <2> DEFINE j == [job EXCEPT !.keys = RowsOf(At)]
  <2>1. j \in Job /\ j.todo # <<>> /\ Injective(j.deck) /\ j.index \subseteq Exist
    BY <1>1, <1>2 DEF Job, RowsOf
  <2>2. job' = Done(j)
    BY <1>9 DEF ListRows
  <2> HIDE DEF j
  <2>3. job' \in Job /\ Injective(job'.deck) /\ job'.index \subseteq Exist
    BY <2>1, <2>2, DoneFits
  <2> QED BY <1>2, <1>3, <1>4, <1>9, <2>3, BaseFrom DEF ListRows, stored, world
<1>10. CASE ClearRows
  <2>1. CASE job' = Done(job) /\ UNCHANGED conf
    BY <1>2, <1>3, <1>4, <1>6, <1>10, <2>1, BaseFrom DEF ClearRows, world
  <2>2. ASSUME NEW k \in job.keys, job' = [job EXCEPT !.keys = @ \ {k}],
               conf' = [conf EXCEPT ![At][k] = NoRows[k]]
        PROVE  SharedInv'
    <3>1. At \in Exist \cup Group
      BY <1>1, <1>10, AtIs DEF ClearRows, Doing
    <3>2. k \in Key
      BY <1>2 DEF Job
    <3>3. Wrote(At, k, NoRows)
      BY <1>3, <2>2, <3>1, <3>2, NoRowsAreRows, RowWritten
    <3>4. ConfOK'
      BY <1>10, <3>1, <3>3, WroteFits, NoRowsAreRows, NoDeckIsInjective DEF ClearRows, world
    <3>5. job' \in Job /\ Injective(job'.deck) /\ job'.index \subseteq Exist
      BY <1>2, <2>2 DEF Job
    <3> QED BY <1>2, <1>3, <1>10, <3>4, <3>5, BaseFrom DEF ClearRows, world
  <2> QED BY <1>10, <2>1, <2>2 DEF ClearRows
<1>11. CASE MapGroup
  <2>1. st.to \in Exist \cup {None}
    BY <1>1, <1>11, AtIs DEF MapGroup, Doing
  <2>2. session' \in [Group -> Exist \cup {None}]
    BY <1>2, <1>11, <2>1 DEF MapGroup
  <2> QED BY <1>2, <1>3, <1>4, <1>6, <1>11, <2>2, BaseFrom DEF MapGroup, world
<1>12. CASE Release
  <2>1. CASE job' = Done(job) /\ UNCHANGED session
    BY <1>2, <1>3, <1>4, <1>6, <1>12, <2>1, BaseFrom DEF Release, world
  <2>2. ASSUME NEW g \in job.seen, job' = [job EXCEPT !.seen = @ \ {g}],
               session' = [session EXCEPT ![g] = None]
        PROVE  SharedInv'
    <3>1. session' \in [Group -> Exist \cup {None}]
      BY <1>2, <2>2
    <3>2. job' \in Job /\ Injective(job'.deck) /\ job'.index \subseteq Exist
      BY <1>2, <2>2 DEF Job
    <3> QED BY <1>2, <1>3, <1>4, <1>12, <3>1, <3>2, BaseFrom DEF Release, world
  <2> QED BY <1>12, <2>1, <2>2 DEF Release
<1>13. CASE ReadIndex
  <2> DEFINE j == [job EXCEPT !.index = index]
  <2>1. j \in Job /\ j.todo # <<>> /\ Injective(j.deck) /\ j.index \subseteq Exist
    <3>1. index \subseteq Session
      BY <1>2, Scopes DEF SharedInv
    <3> QED BY <1>1, <1>2, <3>1 DEF Job
  <2>2. job' = Done(j)
    BY <1>13 DEF ReadIndex
  <2> HIDE DEF j
  <2>3. job' \in Job /\ Injective(job'.deck) /\ job'.index \subseteq Exist
    BY <2>1, <2>2, DoneFits
  <2> QED BY <1>2, <1>3, <1>4, <1>13, <2>3, BaseFrom DEF ReadIndex, stored, world
<1>14. CASE WriteIndex
  <2>1. At \in Exist
    BY <1>1, <1>14, AtIs DEF WriteIndex, Doing
  <2>2. index' \subseteq Exist
    BY <1>2, <1>14, <2>1 DEF WriteIndex
  <2> QED BY <1>2, <1>3, <1>4, <1>6, <1>14, <2>2, BaseFrom DEF WriteIndex, world
<1>15. CASE DrawCard
  <2>1. job' \in Job /\ Injective(job'.deck) /\ job'.index \subseteq Exist
    <3>1. CASE job.deck.size = 0 /\ job' = IF job.cards = NoCards THEN NoJob ELSE Done(job)
      BY <1>6, <3>1, NoJobIsJob, NoDeckIsInjective
    <3>2. ASSUME NEW i \in 1..job.deck.size,
                 job' = [Done(job) EXCEPT !.deck = Take(@, i), !.cards[job.deck.order[i]] = @ + 1]
          PROVE  job' \in Job /\ Injective(job'.deck) /\ job'.index \subseteq Exist
      <4>1. /\ job' = [job EXCEPT !.todo = Tail(job.todo), !.deck = Take(job.deck, i),
                          !.cards = [job.cards EXCEPT ![job.deck.order[i]] = @ + 1]]
            /\ job.deck \in Deck /\ Tail(job.todo) \in Seq(Step) /\ job.deck.order[i] \in Card
        BY <1>15, <3>2, Drawing
      <4>2. Take(job.deck, i) \in Deck /\ Injective(Take(job.deck, i))
        BY <1>2, <4>1, TakeIs
      <4>3. [job.cards EXCEPT ![job.deck.order[i]] = @ + 1] \in [Card -> Nat]
        BY <1>2, <4>1 DEF Job
      <4> QED BY <1>2, <4>1, <4>2, <4>3 DEF Job
    <3> QED BY <1>15, <3>1, <3>2 DEF DrawCard
  <2> QED BY <1>2, <1>3, <1>4, <1>15, <2>1, BaseFrom DEF DrawCard, stored, world
<1>16. CASE Save
  <2>1. ScopeOf(job.g) \in Exist \cup Group /\ job.deck \in Deck
    BY <1>2 DEF Job, ScopeOf
  <2>2. Wrote(ScopeOf(job.g), "deck", [NoRows EXCEPT !.deck = job.deck])
    BY <1>3, <1>16, <2>1, DeckWritten DEF Save
  <2>3. ConfOK'
    <3>1. [NoRows EXCEPT !.deck = job.deck].deck = job.deck
      BY NoRowsAreRows DEF Rows
    <3> QED BY <1>2, <1>16, <2>1, <2>2, <3>1, WroteFits DEF Save, world
  <2>4. dealt' \in [1..MaxCmds -> [Card -> Nat]]
    <3>1. job.cards \in [Card -> Nat]
      BY <1>2 DEF Job
    <3> QED BY <1>3, <1>16, <3>1 DEF Save
  <2> QED BY <1>2, <1>16, <2>3, <2>4, NoJobIsJob, NoDeckIsInjective, BaseFrom DEF Save, world
<1>17. CASE SaveFails
  BY <1>2, <1>3, <1>4, <1>17, NoJobIsJob, NoDeckIsInjective, BaseFrom DEF SaveFails, stored, world
<1> QED BY <1>5, <1>7, <1>8, <1>9, <1>10, <1>11, <1>12, <1>13, <1>14, <1>15, <1>16, <1>17 DEF CommandStep

-----------------------------------------------------------------------------
(* The decks.                                                              *)

(* What a step may do to decks and to the names of sessions, unless it     *)
(* draws, saves or makes a deck.                                           *)
LEMMA DeckFrom ==
  ASSUME SharedInv, DeckInv, UNCHANGED <<decks, cmds, used, dealt>>, astray => astray',
         \/ job'.deck = NoDeck /\ job'.cards = NoCards
         \/ /\ job'.deck = job.deck /\ job'.cards = job.cards /\ job'.g = job.g
            /\ \/ job.deck = NoDeck \/ astray' \/ ScopeOf(job.g)' = ScopeOf(job.g)
               \/ \A x \in Scope : x = ScopeOf(job.g) => Dead(x)',
         \A x \in Scope : /\ conf'[x].deck \in {conf[x].deck, NoDeck}
                          /\ Dead(x) => Dead(x)' \/ conf[x].deck = NoDeck
  PROVE  DeckInv'
<1>1. /\ Whole(NoDeck)' /\ Undealt(NoDeck)' /\ NoDeck.number = 0
      /\ \A d : Whole(d) => Whole(d)'
      /\ \A d : Undealt(d) => Undealt(d)'
  <2>1. decks \in Nat /\ NoDeck.number = 0
    BY NoDeckIsDeck, BoundAssumption DEF SharedInv, GameTypeOK
  <2>2. Whole(NoDeck)' /\ \A d : Whole(d) => Whole(d)'
    BY <2>1 DEF Whole
  <2>3. Undealt(NoDeck)' /\ \A d : Undealt(d) => Undealt(d)'
    BY <2>1 DEF Undealt
  <2> QED BY <2>1, <2>2, <2>3
<1>2. /\ decks' <= cmds' /\ Whole(job.deck)' /\ \A x \in Scope : Whole(conf[x].deck)'
  BY <1>1 DEF DeckInv
<1>3. job'.deck = NoDeck => job'.cards = NoCards
  BY DEF DeckInv
<1>4. \A n \in 1..MaxCmds : n > decks' => dealt'[n] = NoCards
  BY DEF DeckInv
<1>5. ASSUME ~astray'
      PROVE  /\ \A n \in 1..MaxCmds, c \in Card : dealt'[n][c] <= 1
             /\ \A x \in Scope : ~Dead(x)' => Undealt(conf[x].deck)'
             /\ \A x, y \in Scope :
                  x # y /\ conf'[x].deck.number # 0 /\ conf'[x].deck.number = conf'[y].deck.number
                  => Dead(x)' \/ Dead(y)'
  <2>1. ~astray
    BY <1>5
  <2>2. \A n \in 1..MaxCmds, c \in Card : dealt'[n][c] <= 1
    BY <2>1 DEF DeckInv
  <2>3. ASSUME NEW x \in Scope, ~Dead(x)' PROVE Undealt(conf[x].deck)'
    <3>1. CASE conf'[x].deck = NoDeck
      BY <1>1, <3>1
    <3>2. CASE conf'[x].deck = conf[x].deck /\ conf[x].deck # NoDeck
      BY <1>1, <2>1, <2>3, <3>2 DEF DeckInv
    <3> QED BY <3>1, <3>2
  <2>4. ASSUME NEW x \in Scope, NEW y \in Scope, x # y, conf'[x].deck.number # 0,
               conf'[x].deck.number = conf'[y].deck.number
        PROVE  Dead(x)' \/ Dead(y)'
    <3>1. conf'[x].deck = conf[x].deck /\ conf'[y].deck = conf[y].deck
      BY <1>1, <2>4
    <3>2. conf[x].deck # NoDeck /\ conf[y].deck # NoDeck
      BY <1>1, <2>4, <3>1
    <3>3. Dead(x) \/ Dead(y)
      BY <2>1, <2>4, <3>1 DEF DeckInv
    <3> QED BY <3>2, <3>3
  <2> QED BY <2>2, <2>3, <2>4
<1>6. ASSUME ~astray', job'.deck # NoDeck
      PROVE  /\ Undealt(job.deck)'
             /\ \A i \in 1..job'.deck.size : job'.cards[job'.deck.order[i]] = 0
             /\ \A c \in Card : job'.cards[c] <= 1
                                /\ (job'.cards[c] = 1 => dealt'[job'.deck.number][c] = 0)
             /\ \A y \in Scope : y # ScopeOf(job.g)' /\ conf'[y].deck.number = job'.deck.number
                                 => Dead(y)'
  <2>1. /\ ~astray /\ job'.deck = job.deck /\ job'.cards = job.cards /\ job.deck # NoDeck
        /\ job'.g = job.g
        /\ \/ ScopeOf(job.g)' = ScopeOf(job.g)
           \/ \A x \in Scope : x = ScopeOf(job.g) => Dead(x)'
    BY <1>6
  <2>2. DrawnInv /\ job.deck.number # 0
    BY <2>1 DEF DeckInv, Whole
  <2>3. ASSUME NEW y \in Scope, y # ScopeOf(job.g)', conf'[y].deck.number = job'.deck.number
        PROVE  Dead(y)'
    <3>1. conf'[y].deck = conf[y].deck /\ conf[y].deck # NoDeck
      BY <1>1, <2>1, <2>2, <2>3
    <3>2. CASE y = ScopeOf(job.g)
      BY <2>1, <2>3, <3>2
    <3>3. CASE y # ScopeOf(job.g)
      BY <2>1, <2>2, <2>3, <3>1, <3>3 DEF DrawnInv
    <3> QED BY <3>2, <3>3
  <2> QED BY <1>1, <2>1, <2>2, <2>3 DEF DrawnInv
<1> QED BY <1>2, <1>3, <1>4, <1>5, <1>6 DEF DeckInv, DrawnInv

(* Only a session without a deck gets a name.                              *)
LEMMA NamesAreNew ==
  ASSUME SharedInv, JobInv, PutRow, Head(job.todo).key = "name"
  PROVE  At \in Group \/ (conf[At].deck = NoDeck /\ (panel.pc # "idle" => panel.s # At))
<1> DEFINE st == Head(job.todo)
<1>1. job.todo # <<>> /\ st.op = "put"
  BY DEF PutRow, Doing
<1>2. job # NoJob /\ job.g \in Group /\ None \notin Session
  BY <1>1, NoJobIsJob, NameAssumption, Scopes DEF SharedInv, GameTypeOK, Job
<1>3. /\ \A x, G : Put(x, "areas", G).key = "areas"
      /\ \A x, U : Put(x, "gms", U).key = "gms"
      /\ \A x : Put(x, "closed", TRUE).key = "closed" /\ Put(x, "code", TRUE).key = "code"
      /\ \A x : Put(x, "name", TRUE).at = x
      /\ \A x : Map(x).op = "map"
  BY DEF Put, Map
<1>4. ASSUME NEW s \in Exist, NEW u \in User, MakeHead(s, job.g, u)
      PROVE  StepsLeft = 6 /\ st.at = None
  <2>1. /\ Put(s, "areas", {}).key = "areas" /\ Put(None, "code", TRUE).key = "code"
        /\ Put(None, "gms", {u}).key = "gms" /\ Put(None, "areas", {job.g}).key = "areas"
        /\ Put(None, "name", TRUE).at = None /\ Map(s).op = "map"
    BY <1>3
  <2>2. st.key = "name"
    OBVIOUS
  <2>3. \/ StepsLeft = 6 /\ st = Put(None, "name", TRUE)
        \/ st = Map(s) \/ st = [op |-> "areas", at |-> s] \/ st = [op |-> "join", at |-> s]
        \/ st = [op |-> "index"] \/ st = [op |-> "enter", at |-> s]
        \/ st = Put(s, "areas", {}) \/ st = Put(None, "code", TRUE)
        \/ st = Put(None, "gms", {u}) \/ st = Put(None, "areas", {job.g})
    BY <1>4, Zenon DEF MakeHead
  <2>4. /\ st # [op |-> "areas", at |-> s] /\ st # [op |-> "join", at |-> s]
        /\ st # [op |-> "index"] /\ st # [op |-> "enter", at |-> s]
    BY <1>1
  <2>5. /\ st # Map(s) /\ st # Put(s, "areas", {}) /\ st # Put(None, "code", TRUE)
        /\ st # Put(None, "gms", {u}) /\ st # Put(None, "areas", {job.g})
    BY <1>1, <2>1, <2>2
  <2>6. StepsLeft = 6 /\ st = Put(None, "name", TRUE)
    BY ONLY <2>3, <2>4, <2>5, Zenon
  <2> QED BY <2>1, <2>6
<1>5. ASSUME NEW s \in Exist, Naming(s), StepsLeft = 6, st.at = None
      PROVE  At \in Group \/ (conf[At].deck = NoDeck /\ (panel.pc # "idle" => panel.s # At))
  BY <1>2, <1>5 DEF Naming, At, ScopeOf
<1>6. ASSUME NEW t, NEW n, LeaveHead(t, n) PROVE FALSE
  BY <1>1, <1>3, <1>6 DEF LeaveHead
<1>7. ASSUME NEW s \in Exist, NEW u \in User, Moving(s, u)
      PROVE  At \in Group \/ (conf[At].deck = NoDeck /\ (panel.pc # "idle" => panel.s # At))
  <2>1. MakeHead(s, job.g, u) /\ Naming(s)
    BY <1>6, <1>7, NewHeads DEF Moving
  <2> QED BY <1>4, <1>5, <2>1
<1>8. ASSUME NEW s \in Exist, NEW u \in User, Founding(s, u)
      PROVE  At \in Group \/ (conf[At].deck = NoDeck /\ (panel.pc # "idle" => panel.s # At))
  <2>1. MakeHead(s, job.g, u) /\ Naming(s)
    <3>1. Follows(job.todo, FirstPlan(s, job.g, u)) /\ Naming(s)
      BY <1>8 DEF Founding
    <3>2. \/ MakeHead(s, job.g, u)
          \/ st = [op |-> "list", at |-> job.g]
          \/ st = [op |-> "clear", at |-> job.g]
      BY <3>1, FirstHeads
    <3> QED BY <1>1, <3>1, <3>2
  <2> QED BY <1>4, <1>5, <2>1
<1>9. ASSUME NEW s \in Exist, Opening(s) PROVE FALSE
  <2>1. OpenHead(s, job.s)
    BY <1>9, OpenHeads DEF Opening
  <2> QED BY <1>1, <1>3, <2>1 DEF OpenHead
<1>10. ASSUME Leaving PROVE FALSE
  BY <1>6, <1>10, LeaveHeads DEF Leaving
<1>11. ASSUME NEW s \in Exist, Ending(s) PROVE FALSE
  <2>1. OverHead(s)
    BY <1>11, OverHeads DEF Ending
  <2> QED BY <1>1, <2>1 DEF OverHead
<1>12. ASSUME NEW s \in Exist, Unlisted(s) PROVE FALSE
  <2>1. Follows(job.todo, UnlistedPlan(s))
    BY <1>12 DEF Unlisted
  <2>2. \/ st = [op |-> "release"] \/ st = [op |-> "list", at |-> s]
        \/ st = [op |-> "clear", at |-> s]
    BY <2>1, UnlistedHeads
  <2> QED BY <1>1, <2>2
<1>13. ASSUME Clearing PROVE FALSE
  <2>1. Follows(job.todo, ClearPlan(job.g))
    BY <1>13 DEF Clearing
  <2>2. st = [op |-> "list", at |-> job.g] \/ st = [op |-> "clear", at |-> job.g]
    BY <2>1, ClearHeads
  <2> QED BY <1>1, <2>2
<1>14. ASSUME Putting PROVE FALSE
  <2>1. \/ Follows(job.todo, <<Put(None, "closed", TRUE)>>)
        \/ \E U \in SUBSET User : Follows(job.todo, <<Put(None, "gms", U)>>)
    BY <1>14 DEF Putting
  <2>2. st.key \in {"closed", "gms"}
    <3>1. CASE Follows(job.todo, <<Put(None, "closed", TRUE)>>)
      <4>1. st = Put(None, "closed", TRUE)
        BY <3>1, OneHead
      <4> QED BY <1>3, <4>1
    <3>2. ASSUME NEW U \in SUBSET User, Follows(job.todo, <<Put(None, "gms", U)>>)
          PROVE  st.key = "gms"
      <4>1. st = Put(None, "gms", U)
        BY <3>2, OneHead
      <4> QED BY <1>3, <4>1
    <3> QED BY <2>1, <3>1, <3>2
  <2> QED BY <2>2
<1>15. ASSUME Decking PROVE FALSE
  <2>1. job.todo \in Seq(Step)
    BY DEF SharedInv, GameTypeOK, Job
  <2>2. StepsLeft \in Nat /\ StepsLeft >= 1 /\ st = job.todo[1]
    BY <1>1, <1>15, <2>1, LenProperties DEF Decking, StepsLeft
  <2>3. st \in {[op |-> "draw"], [op |-> "save"]}
    <3>1. 1 \in 1..StepsLeft
      BY <2>2
    <3> QED BY <1>15, <2>2, <3>1 DEF Decking
  <2> QED BY <1>1, <2>3
<1> QED BY <1>2, <1>7, <1>8, <1>9, <1>10, <1>11, <1>12, <1>13, <1>14, <1>15 DEF JobInv

LEMMA DeckingHead ==
  ASSUME SharedInv, Decking
  PROVE  /\ StepsLeft \in Nat /\ job.todo # <<>>
         /\ StepsLeft = 1 => Head(job.todo) = [op |-> "save"]
         /\ StepsLeft # 1 => Head(job.todo) = [op |-> "draw"]
<1>1. job.todo \in Seq(Step)
  BY DEF SharedInv, GameTypeOK, Job
<1>2. StepsLeft \in Nat /\ StepsLeft >= 1 /\ job.todo # <<>>
  BY <1>1, LenProperties, EmptySeq DEF Decking, StepsLeft
<1>3. Head(job.todo) = job.todo[1] /\ 1 \in 1..StepsLeft
  BY <1>1, <1>2
<1> QED BY <1>2, <1>3 DEF Decking

LEMMA OtherJobsArePlain ==
  ASSUME SharedInv, JobInv, job.todo # <<>>, Head(job.todo).op \notin {"draw", "save"}
  PROVE  NoDeal
<1>1. job # NoJob
  BY NoJobIsJob
<1>2. ASSUME Decking PROVE FALSE
  <2>1. Head(job.todo) = [op |-> "draw"] \/ Head(job.todo) = [op |-> "save"]
    BY <1>2, DeckingHead
  <2> QED BY <2>1
<1> QED BY <1>1, <1>2, HeadFits

LEMMA PlainStays ==
  ASSUME NoDeal, NEW j \in Job, j.todo # <<>>, j.deck = job.deck, j.cards = job.cards, job' = Done(j)
  PROVE  job'.deck = NoDeck /\ job'.cards = NoCards
BY DoneIs DEF NoDeal

LEMMA SaveKeepsDecks == ASSUME SharedInv, JobInv, DeckInv, Save PROVE DeckInv'
<1> DEFINE d == job.deck
           x == ScopeOf(job.g)
<1>1. /\ job \in Job /\ d \in Deck /\ job.cards \in [Card -> Nat] /\ job.g \in Group /\ x \in Scope
      /\ conf \in [Scope -> Rows] /\ dealt \in [1..MaxCmds -> [Card -> Nat]] /\ x \in Exist \cup Group
      /\ d.number \in 0..MaxCmds /\ d.order \in [Card -> Card] /\ d.size \in 0..NCards
  BY BaseHas, Scopes DEF SharedInv, GameTypeOK, Job, Deck, ScopeOf
<1>2. /\ UNCHANGED <<decks, cmds, used, astray, session>> /\ job' = NoJob
      /\ dealt' = [n \in 1..MaxCmds |-> [c \in Card |->
           dealt[n][c] + IF n = d.number THEN job.cards[c] ELSE 0]]
  BY DEF Save, world
<1>3. Wrote(x, "deck", [NoRows EXCEPT !.deck = d])
  BY <1>1, DeckWritten DEF Save
<1>4. /\ \A y \in Scope : conf'[y].deck = IF y = x THEN d ELSE conf[y].deck
      /\ \A y \in Scope : Dead(y)' <=> Dead(y)
  <2>1. [NoRows EXCEPT !.deck = d].deck = d
    BY NoRowsAreRows DEF Rows
  <2> QED BY <1>2, <1>3, <2>1 DEF Wrote, Dead, Exist
<1>5. /\ Whole(d) /\ \A y \in Scope : Whole(conf[y].deck)
      /\ \A e : Whole(e) => Whole(e)'
  BY <1>2 DEF DeckInv, Whole
<1>6. \A n \in 1..MaxCmds : n # d.number => dealt'[n] = dealt[n]
  BY <1>1, <1>2
<1>7. job'.deck = NoDeck /\ job'.cards = NoCards /\ Whole(NoDeck)'
  BY <1>2, NoJobIsJob, NoDeckIsDeck, BoundAssumption DEF Whole, SharedInv, GameTypeOK
<1>8. \A n \in 1..MaxCmds : n > decks' => dealt'[n] = NoCards
  <2>1. decks \in Nat /\ d.number <= decks
    <3>1. decks \in 0..MaxCmds
      BY DEF SharedInv, GameTypeOK
    <3>2. d.number <= decks
      BY <1>5 DEF Whole
    <3> QED BY <3>1, <3>2
  <2>2. \A n \in 1..MaxCmds : n > decks => n # d.number
    BY <1>1, <2>1
  <2> QED BY <1>2, <1>6, <2>2 DEF DeckInv
<1> HIDE DEF d, x
<1>9. ASSUME ~astray'
      PROVE  /\ \A n \in 1..MaxCmds, c \in Card : dealt'[n][c] <= 1
             /\ \A y \in Scope : ~Dead(y)' => Undealt(conf[y].deck)'
             /\ \A y, z \in Scope :
                  y # z /\ conf'[y].deck.number # 0 /\ conf'[y].deck.number = conf'[z].deck.number
                  => Dead(y)' \/ Dead(z)'
  <2>1. ~astray
    BY <1>2, <1>9
  <2>2. ASSUME NEW n \in 1..MaxCmds, NEW c \in Card PROVE dealt'[n][c] <= 1
    <3>1. dealt[n][c] <= 1 /\ dealt[n][c] \in Nat /\ job.cards[c] \in Nat
      BY <1>1, <2>1 DEF DeckInv
    <3>2. CASE n = d.number
      <4>1. d # NoDeck
        BY <3>2, NoDeckIsDeck
      <4>2. job.cards[c] <= 1 /\ (job.cards[c] = 1 => dealt[n][c] = 0)
        BY <2>1, <3>2, <4>1 DEF DeckInv, DrawnInv, d
      <4>3. dealt'[n][c] = dealt[n][c] + job.cards[c]
        BY <1>2, <3>2
      <4> QED BY <3>1, <4>2, <4>3
    <3>3. CASE n # d.number
      BY <1>6, <3>1, <3>3
    <3> QED BY <3>2, <3>3
  <2>3. ASSUME NEW y \in Scope, ~Dead(y)' PROVE Undealt(conf[y].deck)'
    <3>1. CASE y = x /\ d # NoDeck
      <4>1. Undealt(d) /\ \A i \in 1..d.size : job.cards[d.order[i]] = 0
        BY <2>1, <3>1 DEF DeckInv, DrawnInv, d
      <4>2. d.number # 0 /\ d.number \in 1..MaxCmds
        BY <1>1, <1>5, <3>1 DEF Whole
      <4>3. ASSUME NEW i \in 1..d.size PROVE dealt'[d.number][d.order[i]] = 0
        <5>1. d.order[i] \in Card
          BY <1>1, BoundAssumption DEF Card
        <5>2. dealt[d.number][d.order[i]] = 0 /\ job.cards[d.order[i]] = 0
          BY <4>1, <4>2 DEF Undealt
        <5> QED BY <1>2, <4>2, <5>1, <5>2
      <4> QED BY <1>4, <3>1, <4>3 DEF Undealt
    <3>2. CASE y = x /\ d = NoDeck
      BY <1>4, <3>2, NoDeckIsDeck DEF Undealt
    <3>3. CASE y # x
      <4>1. conf'[y].deck = conf[y].deck /\ Undealt(conf[y].deck) /\ ~Dead(y)
        BY <1>4, <2>1, <2>3, <3>3 DEF DeckInv
      <4>2. CASE conf[y].deck.number = 0
        BY <4>1, <4>2 DEF Undealt
      <4>3. CASE conf[y].deck.number # 0
        <5>1. conf[y].deck.number \in 1..MaxCmds
          BY <1>1, <4>3 DEF Rows, Deck
        <5>2. conf[y].deck.number # d.number
          <6>1. ASSUME conf[y].deck.number = d.number PROVE FALSE
            <7>1. d # NoDeck
              BY <4>3, <6>1, NoDeckIsDeck
            <7> QED BY <2>1, <3>3, <4>1, <6>1, <7>1 DEF DeckInv, DrawnInv, d, x
          <6> QED BY <6>1
        <5>3. dealt'[conf[y].deck.number] = dealt[conf[y].deck.number]
          BY <1>6, <5>1, <5>2
        <5> QED BY <4>1, <5>3 DEF Undealt
      <4> QED BY <4>2, <4>3
    <3> QED BY <3>1, <3>2, <3>3
  <2>4. ASSUME NEW y \in Scope, NEW z \in Scope, y # z, conf'[y].deck.number # 0,
               conf'[y].deck.number = conf'[z].deck.number
        PROVE  Dead(y)' \/ Dead(z)'
    <3>1. CASE y # x /\ z # x
      <4>1. Dead(y) \/ Dead(z)
        BY <1>4, <2>1, <2>4, <3>1 DEF DeckInv
      <4> QED BY <1>4, <4>1
    <3>2. ASSUME NEW w \in Scope, w # x, conf[w].deck.number = d.number, d.number # 0
          PROVE  Dead(w)'
      <4>1. d # NoDeck
        BY <3>2, NoDeckIsDeck
      <4>2. Dead(w)
        BY <2>1, <3>2, <4>1 DEF DeckInv, DrawnInv, d, x
      <4> QED BY <1>4, <4>2
    <3>3. CASE y = x
      BY <1>4, <2>4, <3>2, <3>3
    <3>4. CASE z = x
      BY <1>4, <2>4, <3>2, <3>4
    <3> QED BY <3>1, <3>3, <3>4
  <2> QED BY <2>2, <2>3, <2>4
<1>10. /\ decks' <= cmds' /\ \A y \in Scope : Whole(conf[y].deck)'
  BY <1>2, <1>4, <1>5 DEF DeckInv
<1> QED BY <1>7, <1>8, <1>9, <1>10 DEF DeckInv, DrawnInv

LEMMA DrawKeepsDecks ==
  ASSUME SharedInv, JobInv, DeckInv, DrawCard, NEW i \in 1..job.deck.size,
         job' = [Done(job) EXCEPT !.deck = Take(@, i), !.cards[job.deck.order[i]] = @ + 1]
  PROVE  DeckInv'
<1> DEFINE d == job.deck
           e == Take(d, i)
           c0 == d.order[i]
<1>1. /\ job' = [job EXCEPT !.todo = Tail(job.todo), !.deck = e,
                            !.cards = [job.cards EXCEPT ![c0] = @ + 1]]
      /\ d \in Deck /\ c0 \in Card /\ job \in Job
  BY Drawing, BaseHas
<1>2. /\ job'.deck = e /\ job'.g = job.g /\ job'.cards = [job.cards EXCEPT ![c0] = @ + 1]
      /\ job.cards \in [Card -> Nat]
  BY <1>1 DEF Job
<1>3. /\ e \in Deck /\ e.size = d.size - 1 /\ e.number = d.number /\ Injective(d)
      /\ d.size \in Card /\ i \in Card
      /\ \A j \in 1..(d.size - 1) : e.order[j] = d.order[IF j = i THEN d.size ELSE j]
  BY <1>1, TakeIs, BaseHas
<1>4. UNCHANGED <<stored, used, decks, cmds, dealt, astray>>
  BY DEF DrawCard, world
<1>5. /\ \A y \in Scope : Dead(y)' <=> Dead(y)
      /\ ScopeOf(job.g)' = ScopeOf(job.g)
  BY <1>2, <1>4 DEF Dead, Exist, ScopeOf, stored
<1>6. /\ d # NoDeck /\ d.number # 0 /\ Whole(d)
  BY <1>1, NoDeckIsDeck DEF DeckInv, Whole
<1>7. Whole(e) /\ e # NoDeck
  BY <1>3, <1>6, NoDeckIsDeck DEF Whole
<1> HIDE DEF d, e, c0
<1>8. ASSUME ~astray PROVE DrawnInv'
  <2>1. DrawnInv
    BY <1>8 DEF DeckInv
  <2>2. /\ Undealt(d) /\ \A j \in 1..d.size : job.cards[d.order[j]] = 0
        /\ \A c \in Card : job.cards[c] <= 1 /\ (job.cards[c] = 1 => dealt[d.number][c] = 0)
        /\ \A y \in Scope : y # ScopeOf(job.g) /\ conf[y].deck.number = d.number => Dead(y)
    BY <1>6, <2>1 DEF DrawnInv, d
  <2>3. ASSUME NEW j \in 1..e.size
        PROVE  dealt[d.number][e.order[j]] = 0 /\ job'.cards[e.order[j]] = 0
    <3>1. PICK l \in 1..d.size : l # i /\ e.order[j] = d.order[l]
      <4>1. /\ j \in 1..(d.size - 1) /\ d.size \in 1..d.size /\ j # d.size /\ j \in 1..d.size
        BY <1>3 DEF Card
      <4> QED BY <1>3, <4>1
    <3>2. l \in Card /\ d.order[l] \in Card
      BY <1>1, <1>3, BoundAssumption DEF Card, Deck
    <3>3. d.order[l] # c0
      BY <1>3, <3>1, <3>2 DEF Injective, c0
    <3> QED BY <1>2, <1>6, <2>2, <3>1, <3>2, <3>3 DEF Undealt
  <2>4. ASSUME NEW c \in Card
        PROVE  job'.cards[c] <= 1 /\ (job'.cards[c] = 1 => dealt[d.number][c] = 0)
    <3>1. CASE c = c0
      <4>1. job.cards[c0] = 0 /\ dealt[d.number][c0] = 0
        BY <1>6, <2>2 DEF Undealt, c0, d
      <4> QED BY <1>1, <1>2, <3>1, <4>1
    <3>2. CASE c # c0
      BY <1>2, <2>2, <3>2
    <3> QED BY <3>1, <3>2
  <2>5. Undealt(job.deck)'
    BY <1>2, <1>3, <1>4, <2>3 DEF Undealt
  <2>6. \A j \in 1..job'.deck.size : job'.cards[job'.deck.order[j]] = 0
    BY <1>2, <2>3
  <2>7. \A y \in Scope : y # ScopeOf(job.g)' /\ conf'[y].deck.number = job'.deck.number => Dead(y)'
    BY <1>2, <1>3, <1>4, <1>5, <2>2 DEF stored
  <2>8. \A c \in Card : job'.cards[c] <= 1 /\ (job'.cards[c] = 1 => dealt'[job'.deck.number][c] = 0)
    BY <1>2, <1>3, <1>4, <2>4
  <2> QED BY <2>5, <2>6, <2>7, <2>8 DEF DrawnInv
<1>9. /\ \A x : Whole(x) => Whole(x)'
      /\ \A x : Undealt(x) => Undealt(x)'
  BY <1>4 DEF Whole, Undealt
<1>10. ASSUME ~astray
       PROVE  /\ \A n \in 1..MaxCmds, c \in Card : dealt'[n][c] <= 1
              /\ \A y \in Scope : ~Dead(y)' => Undealt(conf[y].deck)'
              /\ \A y, z \in Scope :
                   y # z /\ conf'[y].deck.number # 0 /\ conf'[y].deck.number = conf'[z].deck.number
                   => Dead(y)' \/ Dead(z)'
  BY <1>4, <1>5, <1>9, <1>10 DEF DeckInv, stored
<1>11. /\ decks' <= cmds' /\ (\A y \in Scope : Whole(conf[y].deck)') /\ Whole(job.deck)'
       /\ \A n \in 1..MaxCmds : n > decks' => dealt'[n] = NoCards
  BY <1>2, <1>4, <1>7, <1>9 DEF DeckInv, stored
<1> QED BY <1>2, <1>4, <1>7, <1>8, <1>10, <1>11 DEF DeckInv

LEMMA DeckStep == ASSUME SharedInv, JobInv, DeckInv, CommandStep PROVE DeckInv'
<1> DEFINE st == Head(job.todo)
<1>1. job.todo # <<>> /\ UNCHANGED <<used, cmds, decks, astray>>
  BY DEF CommandStep, Doing, ReadAreas, WriteAreas, PutRow, ListRows, ClearRows, MapGroup, Release,
         ReadIndex, WriteIndex, DrawCard, Save, SaveFails, world
<1>2. /\ job \in Job /\ conf \in [Scope -> Rows] /\ Exist \cup Group \subseteq Scope /\ StepFits(st)
      /\ Exist' = Exist
  <2>1. job # NoJob
    BY <1>1, NoJobIsJob
  <2> QED BY <1>1, <2>1, BaseHas, HeadFits, Scopes DEF SharedInv, GameTypeOK, Exist
<1>3. ASSUME UNCHANGED conf
      PROVE  \A x \in Scope : /\ conf'[x].deck \in {conf[x].deck, NoDeck}
                              /\ Dead(x) => Dead(x)' \/ conf[x].deck = NoDeck
  BY <1>2, <1>3 DEF Dead
<1>4. ASSUME NEW a \in Scope, NEW k \in Key, NEW r \in Rows, Wrote(a, k, r),
             k = "deck" => r.deck = NoDeck,
             k = "name" => ~r.name \/ conf[a].deck = NoDeck \/ a \notin Exist
      PROVE  \A x \in Scope : /\ conf'[x].deck \in {conf[x].deck, NoDeck}
                              /\ Dead(x) => Dead(x)' \/ conf[x].deck = NoDeck
  BY <1>2, <1>4 DEF Wrote, Dead
<1>5. ASSUME st.op \notin {"draw", "save"}
      PROVE  /\ NoDeal
             /\ \A j \in Job : /\ j.todo = job.todo /\ j.deck = job.deck /\ j.cards = job.cards
                               /\ job' = Done(j) \/ job' = j
                               => job'.deck = NoDeck /\ job'.cards = NoCards
  <2>1. NoDeal
    BY <1>1, <1>5, OtherJobsArePlain
  <2>2. ASSUME NEW j \in Job, j.todo = job.todo, j.deck = job.deck, j.cards = job.cards,
               job' = Done(j) \/ job' = j
        PROVE  job'.deck = NoDeck /\ job'.cards = NoCards
    <3>1. j.todo # <<>>
      BY <1>1, <2>2
    <3>2. CASE job' = Done(j)
      BY <2>1, <2>2, <3>1, <3>2, PlainStays
    <3>3. CASE job' = j
      BY <2>1, <2>2, <3>3 DEF NoDeal
    <3> QED BY <2>2, <3>2, <3>3
  <2> QED BY <2>1, <2>2
<1>6. CASE ReadAreas
  <2> DEFINE j == [job EXCEPT !.seen = conf[At].areas]
  <2>1. st.op = "areas" /\ job' = Done(j) /\ UNCHANGED <<conf, dealt>>
    BY <1>6 DEF ReadAreas, Doing, stored
  <2>2. At \in Exist
    BY <1>2, <2>1, AtIs
  <2>3. j \in Job /\ j.todo = job.todo /\ j.deck = job.deck /\ j.cards = job.cards
    <3>1. conf[At].areas \subseteq Group
      BY <1>2, <2>2 DEF Rows
    <3> QED BY <1>2, <3>1 DEF Job
  <2>4. job'.deck = NoDeck /\ job'.cards = NoCards
    BY <1>5, <2>1, <2>3
  <2> QED BY <1>1, <1>3, <2>1, <2>4, DeckFrom
<1>7. CASE WriteAreas
  <2>1. st.op \in {"leave", "join"} /\ job' = Done(job) /\ UNCHANGED dealt
    BY <1>7 DEF WriteAreas, Doing
  <2>2. At \in Exist
    BY <1>2, <2>1, AtIs
  <2>3. PICK G \in SUBSET Group : conf' = [conf EXCEPT ![At].areas = G]
    <3>1. job.seen \ {job.g} \in SUBSET Group /\ job.seen \cup {job.g} \in SUBSET Group
      BY <1>2 DEF Job
    <3> QED BY <1>7, <3>1 DEF WriteAreas
  <2>4. Wrote(At, "areas", [NoRows EXCEPT !.areas = G])
    BY <1>2, <2>2, <2>3, AreasWritten
  <2>5. [NoRows EXCEPT !.areas = G] \in Rows /\ "areas" \in Key
    BY NoRowsAreRows DEF Rows, Key
  <2>6. job'.deck = NoDeck /\ job'.cards = NoCards
    BY <1>2, <1>5, <2>1
  <2>7. \A x \in Scope : /\ conf'[x].deck \in {conf[x].deck, NoDeck}
                         /\ Dead(x) => Dead(x)' \/ conf[x].deck = NoDeck
    BY <1>2, <1>4, <2>2, <2>4, <2>5
  <2> QED BY <1>1, <2>1, <2>6, <2>7, DeckFrom
<1>8. CASE PutRow
  <2>1. /\ st.op = "put" /\ job' = Done(job) /\ UNCHANGED dealt
        /\ conf' = [conf EXCEPT ![At][st.key] = st.rows[st.key]]
    BY <1>8 DEF PutRow, Doing
  <2>2. At \in Exist \cup Group /\ st.key \in Key \ {"deck"} /\ st.rows \in Rows
    BY <1>2, <2>1, AtIs
  <2>3. Wrote(At, st.key, st.rows)
    BY <1>2, <2>1, <2>2, RowWritten
  <2>4. st.key = "name" => conf[At].deck = NoDeck \/ At \notin Exist
    <3>1. Group \cap Exist = {}
      BY Scopes DEF SharedInv
    <3> QED BY <1>8, <3>1, NamesAreNew
  <2>5. job'.deck = NoDeck /\ job'.cards = NoCards
    BY <1>2, <1>5, <2>1
  <2>6. \A x \in Scope : /\ conf'[x].deck \in {conf[x].deck, NoDeck}
                         /\ Dead(x) => Dead(x)' \/ conf[x].deck = NoDeck
    BY <1>2, <1>4, <2>2, <2>3, <2>4
  <2> QED BY <1>1, <2>1, <2>5, <2>6, DeckFrom
<1>9. CASE ListRows
  <2> DEFINE j == [job EXCEPT !.keys = RowsOf(At)]
  <2>1. st.op = "list" /\ job' = Done(j) /\ UNCHANGED <<conf, dealt>>
    BY <1>9 DEF ListRows, Doing, stored
  <2>2. j \in Job /\ j.todo = job.todo /\ j.deck = job.deck /\ j.cards = job.cards
    BY <1>2 DEF Job, RowsOf
  <2>3. job'.deck = NoDeck /\ job'.cards = NoCards
    BY <1>5, <2>1, <2>2
  <2> QED BY <1>1, <1>3, <2>1, <2>3, DeckFrom
<1>10. CASE ClearRows
  <2>1. st.op = "clear" /\ UNCHANGED dealt
    BY <1>10 DEF ClearRows, Doing
  <2>2. CASE job' = Done(job) /\ UNCHANGED conf
    <3>1. job'.deck = NoDeck /\ job'.cards = NoCards
      BY <1>2, <1>5, <2>1, <2>2
    <3> QED BY <1>1, <1>3, <2>1, <2>2, <3>1, DeckFrom
  <2>3. ASSUME NEW k \in job.keys, job' = [job EXCEPT !.keys = @ \ {k}],
               conf' = [conf EXCEPT ![At][k] = NoRows[k]]
        PROVE  DeckInv'
    <3>1. At \in Exist \cup Group /\ k \in Key
      BY <1>2, <2>1, AtIs DEF Job
    <3>2. Wrote(At, k, NoRows)
      BY <1>2, <2>3, <3>1, NoRowsAreRows, RowWritten
    <3>3. job'.deck = NoDeck /\ job'.cards = NoCards
      <4>1. NoDeal
        BY <1>5, <2>1
      <4> QED BY <1>2, <2>3, <4>1 DEF Job, NoDeal
    <3>4. \A x \in Scope : /\ conf'[x].deck \in {conf[x].deck, NoDeck}
                           /\ Dead(x) => Dead(x)' \/ conf[x].deck = NoDeck
      BY <1>2, <1>4, <3>1, <3>2, NoRowsAreRows
    <3> QED BY <1>1, <2>1, <3>3, <3>4, DeckFrom
  <2> QED BY <1>10, <2>2, <2>3 DEF ClearRows
<1>11. CASE MapGroup
  <2>1. st.op = "map" /\ job' = Done(job) /\ UNCHANGED <<conf, dealt>>
    BY <1>11 DEF MapGroup, Doing
  <2>2. job'.deck = NoDeck /\ job'.cards = NoCards
    BY <1>2, <1>5, <2>1
  <2> QED BY <1>1, <1>3, <2>1, <2>2, DeckFrom
<1>12. CASE Release
  <2>1. st.op = "release" /\ UNCHANGED <<conf, dealt>>
    BY <1>12 DEF Release, Doing
  <2>2. CASE job' = Done(job)
    <3>1. job'.deck = NoDeck /\ job'.cards = NoCards
      BY <1>2, <1>5, <2>1, <2>2
    <3> QED BY <1>1, <1>3, <2>1, <3>1, DeckFrom
  <2>3. ASSUME NEW g \in job.seen, job' = [job EXCEPT !.seen = @ \ {g}] PROVE DeckInv'
    <3>1. job'.deck = NoDeck /\ job'.cards = NoCards
      <4>1. NoDeal
        BY <1>5, <2>1
      <4> QED BY <1>2, <2>3, <4>1 DEF Job, NoDeal
    <3> QED BY <1>1, <1>3, <2>1, <3>1, DeckFrom
  <2> QED BY <1>12, <2>2, <2>3 DEF Release
<1>13. CASE ReadIndex
  <2> DEFINE j == [job EXCEPT !.index = index]
  <2>1. st.op = "index" /\ job' = Done(j) /\ UNCHANGED <<conf, dealt>>
    BY <1>13 DEF ReadIndex, Doing, stored
  <2>2. j \in Job /\ j.todo = job.todo /\ j.deck = job.deck /\ j.cards = job.cards
    <3>1. index \subseteq Session
      BY BaseHas, Scopes DEF SharedInv
    <3> QED BY <1>2, <3>1 DEF Job
  <2>3. job'.deck = NoDeck /\ job'.cards = NoCards
    BY <1>5, <2>1, <2>2
  <2> QED BY <1>1, <1>3, <2>1, <2>3, DeckFrom
<1>14. CASE WriteIndex
  <2>1. st.op \in {"enter", "drop"} /\ job' = Done(job) /\ UNCHANGED <<conf, dealt>>
    BY <1>14 DEF WriteIndex, Doing
  <2>2. job'.deck = NoDeck /\ job'.cards = NoCards
    BY <1>2, <1>5, <2>1
  <2> QED BY <1>1, <1>3, <2>1, <2>2, DeckFrom
<1>15. CASE DrawCard
  <2>1. CASE job' = IF job.cards = NoCards THEN NoJob ELSE Done(job)
    <3>1. UNCHANGED <<conf, dealt, session>>
      BY <1>15 DEF DrawCard, stored
    <3>2. CASE job' = NoJob
      <4>1. job'.deck = NoDeck /\ job'.cards = NoCards
        BY <3>2, NoJobIsJob
      <4> QED BY <1>1, <1>3, <3>1, <4>1, DeckFrom
    <3>3. CASE job' = [job EXCEPT !.todo = Tail(job.todo)]
      <4>1. job'.deck = job.deck /\ job'.cards = job.cards /\ job'.g = job.g
        BY <1>2, <3>3 DEF Job
      <4>2. ScopeOf(job.g)' = ScopeOf(job.g)
        BY <3>1, <4>1 DEF ScopeOf
      <4> QED BY <1>1, <1>3, <3>1, <4>1, <4>2, DeckFrom
    <3> QED BY <1>1, <1>2, <2>1, <3>2, <3>3, DoneIs
  <2>2. ASSUME NEW i \in 1..job.deck.size,
               job' = [Done(job) EXCEPT !.deck = Take(@, i), !.cards[job.deck.order[i]] = @ + 1]
        PROVE  DeckInv'
    BY <1>15, <2>2, DrawKeepsDecks
  <2> QED BY <1>15, <2>1, <2>2 DEF DrawCard
<1>16. CASE Save
  BY <1>16, SaveKeepsDecks
<1>17. CASE SaveFails
  <2>1. job'.deck = NoDeck /\ job'.cards = NoCards /\ UNCHANGED <<conf, dealt>>
    BY <1>17, NoJobIsJob DEF SaveFails, stored
  <2> QED BY <1>1, <1>3, <2>1, DeckFrom
<1> QED BY <1>6, <1>7, <1>8, <1>9, <1>10, <1>11, <1>12, <1>13, <1>14, <1>15, <1>16, <1>17 DEF CommandStep

-----------------------------------------------------------------------------
(* What each step of a command does.                                       *)

Goes(plan, seen, keys, codes) ==
  /\ UNCHANGED <<used, cut, panel>>
  /\ StepsLeft \in 1..Len(plan)
  /\ StepsLeft = 1 => job' = NoJob
  /\ StepsLeft > 1 =>
       /\ Follows(job'.todo, plan) /\ StepsLeft' = StepsLeft - 1
       /\ job'.g = job.g /\ job'.s = job.s
       /\ job'.seen = seen /\ job'.keys = keys /\ job'.index = codes
  /\ NoDeal => NoDeal'
Simple(plan) == Goes(plan, job.seen, job.keys, job.index)

(* A step that does not end: of a list of rows or of groups one is done.   *)
Stays(plan) ==
  /\ UNCHANGED <<used, cut, panel>>
  /\ Follows(job'.todo, plan) /\ StepsLeft' = StepsLeft
  /\ job'.g = job.g /\ job'.s = job.s /\ job'.index = job.index
  /\ NoDeal => NoDeal'

LEMMA JobGoes ==
  ASSUME SharedInv, NEW plan, Len(plan) \in Nat, Follows(job.todo, plan),
         NEW j \in Job, j.todo = job.todo, j.g = job.g, j.s = job.s, j.deck = job.deck,
         j.cards = job.cards, job' = Done(j), UNCHANGED <<used, cut, panel>>
  PROVE  Goes(plan, j.seen, j.keys, j.index)
<1>1. GameTypeOK
  BY DEF SharedInv
<1> QED BY <1>1, GoesOn DEF Goes

LEMMA AreasDoes ==
  ASSUME SharedInv, CommandStep, NEW plan, Len(plan) \in Nat, Follows(job.todo, plan),
         NEW a \in Exist, Head(job.todo) = [op |-> "areas", at |-> a]
  PROVE  Goes(plan, conf[a].areas, job.keys, job.index) /\ UNCHANGED stored
<1> DEFINE j == [job EXCEPT !.seen = conf[At].areas]
<1>1. ReadAreas
  BY StepIs
<1>2. At = a
  BY NameAssumption DEF At, Exist
<1>3. job' = Done(j) /\ UNCHANGED <<stored, used, cut, panel>>
  BY <1>1 DEF ReadAreas, world
<1>4. job \in Job /\ conf[a].areas \subseteq Group
  BY BaseHas, Scopes DEF ConfOK, Rows, SharedInv
<1>5. /\ j \in Job /\ j.todo = job.todo /\ j.g = job.g /\ j.s = job.s /\ j.deck = job.deck
      /\ j.cards = job.cards /\ j.seen = conf[a].areas /\ j.keys = job.keys /\ j.index = job.index
  BY <1>2, <1>4 DEF Job
<1> HIDE DEF j
<1>6. Goes(plan, j.seen, j.keys, j.index)
  BY <1>3, <1>5, JobGoes
<1> QED BY <1>3, <1>5, <1>6

LEMMA SimplyGoes ==
  ASSUME SharedInv, NEW plan, Len(plan) \in Nat, Follows(job.todo, plan),
         job' = Done(job), UNCHANGED <<used, cut, panel>>
  PROVE  Simple(plan)
<1>1. job \in Job
  BY BaseHas
<1> QED BY <1>1, JobGoes DEF Simple

(* Only the groups of one scope change.                                    *)
Counts(a, G) ==
  /\ \A x \in Scope : /\ conf'[x].areas = IF x = a THEN G ELSE conf[x].areas
                      /\ conf'[x].name = conf[x].name /\ conf'[x].code = conf[x].code
                      /\ conf'[x].deck = conf[x].deck
                      /\ x # a => conf'[x] = conf[x]
  /\ UNCHANGED <<session, index>>

LEMMA WriteAreasDoes ==
  ASSUME SharedInv, CommandStep, NEW plan, Len(plan) \in Nat, Follows(job.todo, plan), NEW a \in Exist
  PROVE  /\ Head(job.todo) = [op |-> "leave", at |-> a]
            => Simple(plan) /\ Counts(a, job.seen \ {job.g})
         /\ Head(job.todo) = [op |-> "join", at |-> a]
            => Simple(plan) /\ Counts(a, job.seen \cup {job.g})
<1>1. /\ conf \in [Scope -> Rows] /\ a \in Scope
      /\ job.seen \ {job.g} \in SUBSET Group /\ job.seen \cup {job.g} \in SUBSET Group
  BY BaseHas, Scopes DEF ConfOK, SharedInv, Job
<1>2. ASSUME NEW G \in SUBSET Group, conf' = [conf EXCEPT ![a].areas = G], UNCHANGED <<session, index>>
      PROVE  Counts(a, G)
  <2>1. Wrote(a, "areas", [NoRows EXCEPT !.areas = G])
    BY <1>1, <1>2, AreasWritten
  <2>2. [NoRows EXCEPT !.areas = G].areas = G
    BY NoRowsAreRows DEF Rows
  <2> QED BY <1>2, <2>1, <2>2 DEF Counts, Wrote
<1>3. ASSUME NEW o \in {"leave", "join"}, Head(job.todo) = [op |-> o, at |-> a]
      PROVE  /\ Simple(plan) /\ UNCHANGED <<session, index>>
             /\ conf' = [conf EXCEPT ![a].areas =
                           IF o = "leave" THEN job.seen \ {job.g} ELSE job.seen \cup {job.g}]
  <2>1. WriteAreas
    BY <1>3, StepIs
  <2>2. At = a
    BY <1>3, NameAssumption DEF At, Exist
  <2>3. job' = Done(job) /\ UNCHANGED <<used, cut, panel, session, index>>
    BY <2>1 DEF WriteAreas, world
  <2>4. Simple(plan)
    BY <2>3, SimplyGoes
  <2>5. conf' = [conf EXCEPT ![a].areas =
                   IF o = "leave" THEN job.seen \ {job.g} ELSE job.seen \cup {job.g}]
    BY <1>3, <2>1, <2>2 DEF WriteAreas, Doing
  <2> QED BY <2>3, <2>4, <2>5
<1>4. ASSUME Head(job.todo) = [op |-> "leave", at |-> a]
      PROVE  Simple(plan) /\ Counts(a, job.seen \ {job.g})
  BY <1>1, <1>2, <1>3, <1>4
<1>5. ASSUME Head(job.todo) = [op |-> "join", at |-> a]
      PROVE  Simple(plan) /\ Counts(a, job.seen \cup {job.g})
  BY <1>1, <1>2, <1>3, <1>5
<1> QED BY <1>4, <1>5

LEMMA MapDoes ==
  ASSUME SharedInv, CommandStep, NEW plan, Len(plan) \in Nat, Follows(job.todo, plan),
         NEW x, Head(job.todo) = Map(x)
  PROVE  /\ Simple(plan) /\ UNCHANGED <<conf, index>> /\ session' = [session EXCEPT ![job.g] = x]
         /\ job.g \in Group /\ session \in [Group -> Exist \cup {None}]
<1>0. Head(job.todo).op = "map" /\ Head(job.todo).to = x
  BY DEF Map
<1>1. MapGroup
  BY <1>0, StepIs
<1>2. /\ job' = Done(job) /\ UNCHANGED <<used, cut, panel, conf, index>>
      /\ session' = [session EXCEPT ![job.g] = x]
  BY <1>0, <1>1 DEF MapGroup, world
<1>3. Simple(plan)
  BY <1>2, SimplyGoes
<1>4. job.g \in Group /\ session \in [Group -> Exist \cup {None}]
  BY BaseHas DEF Job
<1> QED BY <1>2, <1>3, <1>4

LEMMA PutDoes ==
  ASSUME SharedInv, CommandStep, NEW plan, Len(plan) \in Nat, Follows(job.todo, plan),
         NEW x \in Exist \cup {None}, NEW k, NEW v, Head(job.todo) = Put(x, k, v),
         StepFits(Put(x, k, v))
  PROVE  /\ Simple(plan) /\ UNCHANGED <<session, index>> /\ job.g \in Group
         /\ At = IF x = None THEN ScopeOf(job.g) ELSE x
         /\ Wrote(At, k, [NoRows EXCEPT ![k] = v])
<1>0. /\ Head(job.todo).op = "put" /\ Head(job.todo).at = x /\ Head(job.todo).key = k
      /\ Head(job.todo).rows = [NoRows EXCEPT ![k] = v]
  <2>1. /\ Put(x, k, v).op = "put" /\ Put(x, k, v).at = x /\ Put(x, k, v).key = k
        /\ Put(x, k, v).rows = [NoRows EXCEPT ![k] = v]
    BY DEF Put
  <2> QED BY <2>1
<1>1. PutRow
  BY <1>0, StepIs
<1>2. /\ job' = Done(job) /\ UNCHANGED <<used, cut, panel, session, index>>
      /\ conf' = [conf EXCEPT ![At][k] = [NoRows EXCEPT ![k] = v][k]]
  BY <1>0, <1>1 DEF PutRow, world
<1>3. Simple(plan)
  BY <1>2, SimplyGoes
<1>4. job.g \in Group /\ At = IF x = None THEN ScopeOf(job.g) ELSE x
  BY <1>0, BaseHas DEF Job, At
<1>5. At \in Exist \cup Group /\ k \in Key /\ [NoRows EXCEPT ![k] = v] \in Rows
  BY <1>0, AtIs
<1>6. At \in Scope /\ conf \in [Scope -> Rows]
  BY <1>5, BaseHas, Scopes DEF SharedInv, ConfOK
<1>7. Wrote(At, k, [NoRows EXCEPT ![k] = v])
  BY <1>2, <1>5, <1>6, RowWritten
<1> QED BY <1>2, <1>3, <1>4, <1>7

LEMMA ListDoes ==
  ASSUME SharedInv, CommandStep, NEW plan, Len(plan) \in Nat, Follows(job.todo, plan),
         NEW a \in Exist \cup Group, Head(job.todo) = [op |-> "list", at |-> a]
  PROVE  Goes(plan, job.seen, RowsOf(a), job.index) /\ UNCHANGED stored
<1> DEFINE j == [job EXCEPT !.keys = RowsOf(At)]
<1>1. ListRows
  BY StepIs
<1>2. At = a
  BY NameAssumption DEF At, Exist
<1>3. job' = Done(j) /\ UNCHANGED <<stored, used, cut, panel>>
  BY <1>1 DEF ListRows, world
<1>4. job \in Job /\ RowsOf(a) \subseteq Key
  BY BaseHas DEF RowsOf
<1>5. /\ j \in Job /\ j.todo = job.todo /\ j.g = job.g /\ j.s = job.s /\ j.deck = job.deck
      /\ j.cards = job.cards /\ j.seen = job.seen /\ j.keys = RowsOf(a) /\ j.index = job.index
  BY <1>2, <1>4 DEF Job
<1> HIDE DEF j
<1>6. Goes(plan, j.seen, j.keys, j.index)
  BY <1>3, <1>5, JobGoes
<1> QED BY <1>3, <1>5, <1>6

LEMMA ClearDoes ==
  ASSUME SharedInv, CommandStep, NEW plan, Len(plan) \in Nat, Follows(job.todo, plan),
         NEW a \in Exist \cup Group, Head(job.todo) = [op |-> "clear", at |-> a]
  PROVE  /\ UNCHANGED <<session, index>>
         /\ \/ Simple(plan) /\ job.keys = {} /\ UNCHANGED conf
            \/ \E k \in job.keys : /\ Stays(plan) /\ job'.keys = job.keys \ {k}
                                   /\ job'.seen = job.seen /\ k \in Key
                                   /\ Wrote(a, k, NoRows)
                                   /\ conf' = [conf EXCEPT ![a][k] = NoRows[k]]
<1>1. ClearRows
  BY StepIs
<1>2. At = a
  BY NameAssumption DEF At, Exist
<1>3. UNCHANGED <<used, cut, panel, session, index>>
  BY <1>1 DEF ClearRows, world
<1>4. /\ job \in Job /\ conf \in [Scope -> Rows] /\ a \in Scope
  BY BaseHas, Scopes DEF SharedInv, ConfOK
<1>5. CASE job.keys = {} /\ job' = Done(job) /\ UNCHANGED conf
  <2>1. Simple(plan)
    BY <1>3, <1>5, SimplyGoes
  <2> QED BY <1>3, <1>5, <2>1
<1>6. ASSUME NEW k \in job.keys, job' = [job EXCEPT !.keys = @ \ {k}],
             conf' = [conf EXCEPT ![At][k] = NoRows[k]]
      PROVE  /\ Stays(plan) /\ job'.keys = job.keys \ {k} /\ job'.seen = job.seen
             /\ k \in Key /\ Wrote(a, k, NoRows) /\ conf' = [conf EXCEPT ![a][k] = NoRows[k]]
  <2>1. k \in Key
    BY <1>4 DEF Job
  <2>2. /\ job'.todo = job.todo /\ job'.g = job.g /\ job'.s = job.s /\ job'.index = job.index
        /\ job'.deck = job.deck /\ job'.cards = job.cards /\ job'.seen = job.seen
        /\ job'.keys = job.keys \ {k}
    BY <1>4, <1>6 DEF Job
  <2>3. Stays(plan)
    BY <1>3, <2>2 DEF Stays, NoDeal, StepsLeft
  <2>4. Wrote(a, k, NoRows)
    BY <1>2, <1>4, <1>6, <2>1, NoRowsAreRows, RowWritten
  <2> QED BY <1>2, <1>6, <2>1, <2>2, <2>3, <2>4
<1> QED BY <1>1, <1>3, <1>5, <1>6 DEF ClearRows

LEMMA ReleaseDoes ==
  ASSUME SharedInv, CommandStep, NEW plan, Len(plan) \in Nat, Follows(job.todo, plan),
         Head(job.todo) = [op |-> "release"]
  PROVE  /\ UNCHANGED <<conf, index>>
         /\ \/ Simple(plan) /\ job.seen = {} /\ UNCHANGED session
            \/ \E g \in job.seen : /\ Stays(plan) /\ job'.seen = job.seen \ {g}
                                   /\ job'.keys = job.keys /\ g \in Group
                                   /\ session' = [session EXCEPT ![g] = None]
<1>1. Release
  BY StepIs
<1>2. UNCHANGED <<used, cut, panel, conf, index>>
  BY <1>1 DEF Release, world
<1>3. job \in Job
  BY BaseHas
<1>4. CASE job.seen = {} /\ job' = Done(job) /\ UNCHANGED session
  <2>1. Simple(plan)
    BY <1>2, <1>4, SimplyGoes
  <2> QED BY <1>2, <1>4, <2>1
<1>5. ASSUME NEW g \in job.seen, job' = [job EXCEPT !.seen = @ \ {g}],
             session' = [session EXCEPT ![g] = None]
      PROVE  /\ Stays(plan) /\ job'.seen = job.seen \ {g} /\ job'.keys = job.keys /\ g \in Group
             /\ session' = [session EXCEPT ![g] = None]
  <2>1. /\ job'.todo = job.todo /\ job'.g = job.g /\ job'.s = job.s /\ job'.index = job.index
        /\ job'.deck = job.deck /\ job'.cards = job.cards /\ job'.keys = job.keys
        /\ job'.seen = job.seen \ {g} /\ g \in Group
    BY <1>3, <1>5 DEF Job
  <2>2. Stays(plan)
    BY <1>2, <2>1 DEF Stays, NoDeal, StepsLeft
  <2> QED BY <1>5, <2>1, <2>2
<1> QED BY <1>1, <1>2, <1>4, <1>5 DEF Release

LEMMA IndexDoes ==
  ASSUME SharedInv, CommandStep, NEW plan, Len(plan) \in Nat, Follows(job.todo, plan),
         Head(job.todo) = [op |-> "index"]
  PROVE  Goes(plan, job.seen, job.keys, index) /\ UNCHANGED stored
<1> DEFINE j == [job EXCEPT !.index = index]
<1>1. ReadIndex
  BY StepIs
<1>2. job' = Done(j) /\ UNCHANGED <<stored, used, cut, panel>>
  BY <1>1 DEF ReadIndex, world
<1>3. job \in Job /\ index \subseteq Session
  BY BaseHas, Scopes DEF SharedInv
<1>4. /\ j \in Job /\ j.todo = job.todo /\ j.g = job.g /\ j.s = job.s /\ j.deck = job.deck
      /\ j.cards = job.cards /\ j.seen = job.seen /\ j.keys = job.keys /\ j.index = index
  BY <1>3 DEF Job
<1> HIDE DEF j
<1>5. Goes(plan, j.seen, j.keys, j.index)
  BY <1>2, <1>4, JobGoes
<1> QED BY <1>2, <1>4, <1>5

LEMMA WriteIndexDoes ==
  ASSUME SharedInv, CommandStep, NEW plan, Len(plan) \in Nat, Follows(job.todo, plan), NEW a \in Exist,
         NEW o \in {"enter", "drop"}, Head(job.todo) = [op |-> o, at |-> a]
  PROVE  /\ Simple(plan) /\ UNCHANGED <<session, conf>>
         /\ index' = IF o = "enter" THEN job.index \cup {a} ELSE job.index \ {a}
<1>1. WriteIndex
  BY StepIs
<1>2. At = a
  BY NameAssumption DEF At, Exist
<1>3. job' = Done(job) /\ UNCHANGED <<used, cut, panel, session, conf>>
  BY <1>1 DEF WriteIndex, world
<1>4. Simple(plan)
  BY <1>3, SimplyGoes
<1> QED BY <1>1, <1>2, <1>3, <1>4 DEF WriteIndex, Doing

-----------------------------------------------------------------------------
(* The commands, step by step.                                             *)

SameNames == \A x \in Session : conf'[x].name = conf[x].name /\ conf'[x].code = conf[x].code
OnPlan(plan) == \E seen, keys, codes : Goes(plan, seen, keys, codes)

LEMMA NamesKept == ASSUME SameNames PROVE Named' = Named /\ (Coded <=> Coded')
BY DEF SameNames, Named, Coded

LEMMA PlacedKept ==
  ASSUME SharedInv, SameNames, NEW h \in Group, Placed(h), session'[h] = session[h],
         \A x \in Session : h \in conf'[x].areas <=> h \in conf[x].areas
  PROVE  Placed(h)'
<1>1. session[h] = None \/ session[h] \in Session
  BY Scopes DEF SharedInv
<1> QED BY <1>1 DEF Placed, SameNames

LEMMA AllKept ==
  ASSUME SharedInv, SameNames, UNCHANGED <<session, index>>,
         \A x \in Session : conf'[x].areas = conf[x].areas, Settled
  PROVE  Settled'
<1>1. Named' = Named /\ Coded'
  BY NamesKept DEF Settled
<1>2. \A h \in Group : Placed(h)'
  BY PlacedKept DEF Settled
<1> QED BY <1>1, <1>2 DEF Settled

LEMMA OnPlanIs ==
  ASSUME NEW plan, OnPlan(plan)
  PROVE  /\ UNCHANGED <<used, cut, panel>> /\ Exist' = Exist
         /\ StepsLeft \in 1..Len(plan) /\ (NoDeal => NoDeal')
         /\ StepsLeft = 1 => job' = NoJob
         /\ StepsLeft > 1 => /\ Follows(job'.todo, plan) /\ StepsLeft' = StepsLeft - 1
                             /\ job'.g = job.g /\ job'.s = job.s
BY DEF OnPlan, Goes, Exist

LEMMA LeaveIsOnPlan ==
  ASSUME SharedInv, CommandStep, NEW plan, Len(plan) \in Nat, Follows(job.todo, plan),
         NEW t \in Exist, NEW n, LeaveHead(t, n)
  PROVE  OnPlan(plan)
<1>1. CASE Head(job.todo) = [op |-> "areas", at |-> t]
  BY <1>1, AreasDoes DEF OnPlan
<1>2. CASE Head(job.todo) = [op |-> "leave", at |-> t]
  BY <1>2, WriteAreasDoes DEF OnPlan, Simple
<1>3. CASE Head(job.todo) = Map(None)
  BY <1>3, MapDoes DEF OnPlan, Simple
<1> QED BY <1>1, <1>2, <1>3 DEF LeaveHead

(* The first two steps of detachGameArea.                                  *)
LEMMA LeaveGoes ==
  ASSUME SharedInv, CommandStep, NEW plan, Len(plan) \in Nat, Follows(job.todo, plan), StepsLeft > 1,
         NEW t \in Exist, NEW n \in {2, 3}, LeaveHead(t, n), LeaveAt(t, n), Others
  PROVE  /\ Others' /\ LeaveAt(t, n - 1)' /\ SameNames /\ UNCHANGED <<session, index>>
         /\ \A x \in Session \ {t} : conf'[x] = conf[x]
<1>1. /\ job.g \in Group /\ Session \subseteq Scope /\ t \in Session /\ t \in Scope /\ t # None
      /\ session \in [Group -> Exist \cup {None}]
  BY BaseHas, Scopes DEF SharedInv, Job
<1>2. CASE n = 3
  <2>1. Head(job.todo) = [op |-> "areas", at |-> t]
    BY <1>2 DEF LeaveHead
  <2>2. Goes(plan, conf[t].areas, job.keys, job.index) /\ UNCHANGED stored
    BY <2>1, AreasDoes
  <2>3. job'.g = job.g /\ job'.seen = conf[t].areas
    BY <2>2 DEF Goes
  <2>4. LeaveAt(t, 2)'
    BY <1>2, <2>2, <2>3 DEF LeaveAt, Placed, stored
  <2>5. Others'
    BY <2>2, <2>3 DEF Others, Placed, stored
  <2> QED BY <1>2, <2>2, <2>4, <2>5 DEF SameNames, stored
<1>3. CASE n = 2
  <2>1. Head(job.todo) = [op |-> "leave", at |-> t]
    BY <1>3 DEF LeaveHead
  <2>2. Simple(plan) /\ Counts(t, job.seen \ {job.g})
    BY <2>1, WriteAreasDoes
  <2>3. job'.g = job.g
    BY <2>2 DEF Simple, Goes
  <2>4. /\ session[job.g] = t /\ conf[t].name /\ Placed(job.g) /\ job.seen = conf[t].areas
    BY <1>3 DEF LeaveAt
  <2>5. /\ SameNames /\ UNCHANGED <<session, index>>
        /\ \A x \in Session \ {t} : conf'[x] = conf[x]
        /\ conf'[t].areas = conf[t].areas \ {job.g}
    BY <1>1, <2>2, <2>4 DEF Counts, SameNames
  <2>6. Nowhere(job.g)'
    <3>1. ASSUME NEW x \in Session PROVE job.g \notin conf'[x].areas
      BY <1>1, <2>4, <2>5 DEF Placed
    <3> QED BY <2>3, <3>1 DEF Nowhere
  <2>7. LeaveAt(t, 1)'
    BY <1>1, <2>3, <2>4, <2>5, <2>6 DEF LeaveAt, SameNames
  <2>8. ASSUME NEW h \in Group \ {job.g} PROVE Placed(h)'
    <3>1. Placed(h)
      BY <2>8 DEF Others
    <3>2. \A x \in Session : h \in conf'[x].areas <=> h \in conf[x].areas
      BY <2>5, <2>8
    <3> QED BY <2>5, <3>1, <3>2, PlacedKept
  <2> QED BY <1>3, <2>3, <2>5, <2>7, <2>8 DEF Others
<1> QED BY <1>2, <1>3

(* The last one.                                                           *)
LEMMA LeaveEnds ==
  ASSUME SharedInv, CommandStep, NEW plan, Len(plan) \in Nat, Follows(job.todo, plan),
         NEW t \in Exist, LeaveHead(t, 1), LeaveAt(t, 1), Others
  PROVE  /\ \A h \in Group \ {job.g} : Placed(h)' /\ session'[h] = session[h]
         /\ Nowhere(job.g) /\ session'[job.g] = None /\ UNCHANGED <<conf, index>> /\ SameNames
<1>1. Head(job.todo) = Map(None)
  BY DEF LeaveHead
<1>2. /\ UNCHANGED <<conf, index>> /\ session' = [session EXCEPT ![job.g] = None]
      /\ job.g \in Group /\ session \in [Group -> Exist \cup {None}]
  BY <1>1, MapDoes
<1>3. SameNames
  BY <1>2 DEF SameNames
<1>4. ASSUME NEW h \in Group \ {job.g} PROVE Placed(h)' /\ session'[h] = session[h]
  <2>1. Placed(h) /\ session'[h] = session[h]
    BY <1>2 DEF Others
  <2> QED BY <1>2, <1>3, <2>1, PlacedKept
<1> QED BY <1>2, <1>3, <1>4 DEF LeaveAt

(* attachGameArea.                                                         *)
LEMMA AttachGoes ==
  ASSUME SharedInv, CommandStep, NEW s \in Exist, NEW t, Follows(job.todo, OpenPlan(s, t)),
         StepsLeft \in {2, 3}, AttachAt(s, StepsLeft), Others
  PROVE  /\ Others' /\ AttachAt(s, StepsLeft)' /\ SameNames /\ UNCHANGED index
         /\ UNCHANGED conf
<1> DEFINE plan == OpenPlan(s, t)
<1>1. /\ job.g \in Group /\ session \in [Group -> Exist \cup {None}] /\ Len(plan) \in Nat
      /\ OpenHead(s, t) /\ Follows(job.todo, plan)
  BY BaseHas, OpenHeads DEF Job, OpenPlan
<1> HIDE DEF plan
<1>2. CASE StepsLeft = 3
  <2>1. Head(job.todo) = Map(s)
    BY <1>1, <1>2 DEF OpenHead
  <2>2. Simple(plan) /\ UNCHANGED <<conf, index>> /\ session' = [session EXCEPT ![job.g] = s]
    BY <1>1, <2>1, MapDoes
  <2>3. job'.g = job.g /\ StepsLeft' = 2
    BY <1>2, <2>2 DEF Simple, Goes
  <2>4. SameNames
    BY <2>2 DEF SameNames
  <2>5. ASSUME NEW h \in Group \ {job.g} PROVE Placed(h)'
    <3>1. Placed(h) /\ session'[h] = session[h]
      BY <1>1, <2>2 DEF Others
    <3> QED BY <2>2, <2>4, <3>1, PlacedKept
  <2>6. AttachAt(s, StepsLeft)'
    BY <1>1, <1>2, <2>2, <2>3 DEF AttachAt, Nowhere
  <2> QED BY <2>2, <2>3, <2>4, <2>5, <2>6 DEF Others
<1>3. CASE StepsLeft = 2
  <2>1. Head(job.todo) = [op |-> "areas", at |-> s]
    BY <1>1, <1>3 DEF OpenHead
  <2>2. Goes(plan, conf[s].areas, job.keys, job.index) /\ UNCHANGED stored
    BY <1>1, <2>1, AreasDoes
  <2>3. job'.g = job.g /\ StepsLeft' = 1 /\ job'.seen = conf[s].areas
    BY <1>3, <2>2 DEF Goes
  <2>4. Others'
    BY <2>2, <2>3 DEF Others, Placed, stored
  <2>5. AttachAt(s, StepsLeft)'
    BY <1>3, <2>2, <2>3 DEF AttachAt, Nowhere, stored
  <2> QED BY <2>2, <2>4, <2>5 DEF SameNames, stored
<1> QED BY <1>2, <1>3

LEMMA AttachEnds ==
  ASSUME SharedInv, CommandStep, NEW s \in Exist, NEW t, Follows(job.todo, OpenPlan(s, t)),
         StepsLeft = 1, ~cut => OpenMap(s)
  PROVE  ~cut => Settled'
<1> DEFINE plan == OpenPlan(s, t)
<1>1. /\ job.g \in Group /\ session \in [Group -> Exist \cup {None}] /\ Len(plan) \in Nat
      /\ OpenHead(s, t) /\ Follows(job.todo, plan) /\ Session \subseteq Scope /\ s \in Session
      /\ s # None
  BY BaseHas, OpenHeads, Scopes DEF Job, OpenPlan, SharedInv
<1> HIDE DEF plan
<1>2. Head(job.todo) = [op |-> "join", at |-> s]
  BY <1>1 DEF OpenHead
<1>3. Counts(s, job.seen \cup {job.g})
  BY <1>1, <1>2, WriteAreasDoes
<1>4. SameNames /\ UNCHANGED <<session, index>>
  BY <1>1, <1>3 DEF Counts, SameNames
<1>5. ASSUME ~cut PROVE Settled'
  <2>1. /\ index = Named /\ Coded /\ Others /\ conf[s].name /\ Nowhere(job.g) /\ session[job.g] = s
        /\ job.seen = conf[s].areas
    BY <1>5 DEF OpenMap, AttachAt
  <2>2. Named' = Named /\ Coded'
    BY <1>4, <2>1, NamesKept
  <2>3. ASSUME NEW h \in Group \ {job.g} PROVE Placed(h)'
    <3>1. \A x \in Session : h \in conf'[x].areas <=> h \in conf[x].areas
      BY <1>1, <1>3, <2>1 DEF Counts
    <3> QED BY <1>4, <2>1, <3>1, PlacedKept DEF Others
  <2>5. /\ \A x \in Session : job.g \in conf'[x].areas <=> session'[job.g] = x
        /\ session'[job.g] # None => conf'[session'[job.g]].name
    BY <1>1, <1>3, <1>4, <2>1 DEF Counts, Nowhere
  <2>6. ASSUME NEW h \in Group, h = job.g PROVE Placed(h)'
    BY <2>5, <2>6 DEF Placed
  <2> QED BY <1>4, <2>1, <2>2, <2>3, <2>6 DEF Settled
<1> QED BY <1>5

LEMMA OpeningStep == ASSUME SharedInv, CommandStep, NEW s \in Exist, Opening(s) PROVE JobInv'
<1>0. PICK t, n : t = job.s /\ n = StepsLeft
  OBVIOUS
<1> DEFINE plan == OpenPlan(s, t)
<1>1. /\ Follows(job.todo, plan) /\ OpenHead(s, t) /\ Len(plan) \in Nat /\ NoDeal
      /\ (StepsLeft > 3 => t \in Exist) /\ (~cut => OpenMap(s))
  BY <1>0, OpenHeads DEF Opening, OpenPlan
<1>2. /\ n \in 1..6
      /\ n > 3 => LeaveHead(t, n - 3)
      /\ n = 3 => Head(job.todo) = Map(s)
      /\ n = 2 => Head(job.todo) = [op |-> "areas", at |-> s]
      /\ n = 1 => Head(job.todo) = [op |-> "join", at |-> s]
  <2>1. n \in 1..6
    BY <1>0, <1>1 DEF OpenHead
  <2>2. CASE n <= 3
    BY <1>0, <1>1, <2>1, <2>2 DEF OpenHead
  <2>3. CASE n = 4 /\ n - 3 = 1
    BY <1>0, <1>1, <2>3 DEF OpenHead, LeaveHead
  <2>4. CASE n = 5 /\ n - 3 = 2
    BY <1>0, <1>1, <2>4 DEF OpenHead, LeaveHead
  <2>5. CASE n = 6 /\ n - 3 = 3
    BY <1>0, <1>1, <2>5 DEF OpenHead, LeaveHead
  <2> QED BY <2>1, <2>2, <2>3, <2>4, <2>5
<1> HIDE DEF plan
<1>3. OnPlan(plan)
  <2>1. CASE n > 3
    BY <1>0, <1>1, <1>2, <2>1, LeaveIsOnPlan
  <2>2. CASE n = 3
    BY <1>1, <1>2, <2>2, MapDoes DEF OnPlan, Simple
  <2>3. CASE n = 2
    BY <1>1, <1>2, <2>3, AreasDoes DEF OnPlan
  <2>4. CASE n = 1
    BY <1>1, <1>2, <2>4, WriteAreasDoes DEF OnPlan, Simple
  <2> QED BY <1>2, <2>1, <2>2, <2>3, <2>4
<1>4. /\ UNCHANGED <<used, cut, panel>> /\ Exist' = Exist /\ NoDeal'
      /\ n = 1 => job' = NoJob
      /\ n > 1 => /\ Follows(job'.todo, plan) /\ StepsLeft' = n - 1
                  /\ job'.g = job.g /\ job'.s = t
  BY <1>0, <1>1, <1>3, OnPlanIs
<1>5. ASSUME n > 1, ~cut => OpenMap(s)' PROVE JobInv'
  <2>1. StepsLeft' > 3 => job'.s \in Exist'
    BY <1>0, <1>1, <1>2, <1>4, <1>5
  <2>2. Follows(job'.todo, OpenPlan(s, job'.s))
    BY <1>4, <1>5 DEF plan
  <2>3. Opening(s)'
    BY <1>4, <1>5, <2>1, <2>2 DEF Opening
  <2> QED BY <1>4, <2>3 DEF JobInv
<1>6. CASE n > 4
  <2>1. ASSUME ~cut PROVE OpenMap(s)'
    <3>1. n - 3 \in {2, 3} /\ n > 1 /\ n > 3 /\ (n - 3) - 1 = (n - 1) - 3 /\ n - 1 > 3
      BY <1>2, <1>6
    <3>2. /\ index = Named /\ Coded /\ Others /\ conf[s].name /\ LeaveAt(t, n - 3)
      BY <1>0, <1>1, <2>1, <3>1 DEF OpenMap
    <3>3. /\ Others' /\ LeaveAt(t, (n - 3) - 1)' /\ SameNames /\ UNCHANGED <<session, index>>
      BY <1>0, <1>1, <1>2, <3>1, <3>2, LeaveGoes
    <3>4. index' = Named' /\ Coded' /\ conf'[s].name
      BY <3>2, <3>3, NamesKept, Scopes DEF SameNames, SharedInv
    <3> QED BY <1>4, <3>1, <3>3, <3>4 DEF OpenMap
  <2> QED BY <1>5, <1>6, <2>1, <1>2
<1>7. CASE n = 4
  <2>1. ASSUME ~cut PROVE OpenMap(s)'
    <3>2. /\ index = Named /\ Coded /\ Others /\ conf[s].name /\ LeaveAt(t, 1) /\ LeaveHead(t, 1)
      BY <1>0, <1>1, <1>2, <1>7, <2>1 DEF OpenMap
    <3>3. /\ \A h \in Group \ {job.g} : Placed(h)' /\ session'[h] = session[h]
          /\ Nowhere(job.g) /\ session'[job.g] = None /\ UNCHANGED <<conf, index>> /\ SameNames
      BY <1>0, <1>1, <1>7, <3>2, LeaveEnds
    <3>4. index' = Named' /\ Coded' /\ conf'[s].name /\ Others'
      BY <1>4, <1>7, <3>2, <3>3, NamesKept DEF Others
    <3>5. AttachAt(s, StepsLeft)' /\ StepsLeft' = 3
      BY <1>4, <1>7, <3>3 DEF AttachAt, Nowhere
    <3> QED BY <3>4, <3>5 DEF OpenMap
  <2> QED BY <1>5, <1>7, <2>1
<1>8. CASE n \in {2, 3}
  <2>1. ASSUME ~cut PROVE OpenMap(s)'
    <3>1. index = Named /\ Coded /\ Others /\ conf[s].name /\ AttachAt(s, StepsLeft)
      BY <1>0, <1>1, <1>8, <2>1 DEF OpenMap
    <3>2. Others' /\ AttachAt(s, StepsLeft)' /\ SameNames /\ UNCHANGED <<conf, index>>
      BY <1>0, <1>1, <1>8, <3>1, AttachGoes DEF plan
    <3>3. index' = Named' /\ Coded' /\ conf'[s].name
      BY <3>1, <3>2, NamesKept
    <3>4. StepsLeft' <= 3 /\ ~(StepsLeft' > 3)
      BY <1>4, <1>8
    <3> QED BY <3>2, <3>3, <3>4 DEF OpenMap
  <2> QED BY <1>5, <1>8, <2>1
<1>9. CASE n = 1
  <2>1. ~cut => Settled'
    BY <1>0, <1>1, <1>9, AttachEnds DEF plan
  <2> QED BY <1>4, <1>9, <2>1 DEF JobInv
<1>10. n > 4 \/ n = 4 \/ n \in {2, 3} \/ n = 1
  BY <1>2
<1> QED BY <1>6, <1>7, <1>8, <1>9, <1>10

LEMMA LeavingStep == ASSUME SharedInv, CommandStep, Leaving PROVE JobInv'
<1>0. PICK t, n : t = job.s /\ n = StepsLeft
  OBVIOUS
<1> DEFINE plan == LeavePlan(t)
<1>1. /\ Follows(job.todo, plan) /\ Len(plan) \in Nat /\ NoDeal /\ t \in Exist
      /\ n \in 1..3 /\ LeaveHead(t, n)
      /\ ~cut => index = Named /\ Coded /\ Others /\ LeaveAt(t, n)
  BY <1>0, LeaveHeads DEF Leaving, LeavePlan
<1> HIDE DEF plan
<1>2. OnPlan(plan)
  BY <1>1, LeaveIsOnPlan
<1>3. /\ UNCHANGED <<used, cut, panel>> /\ Exist' = Exist /\ NoDeal'
      /\ n = 1 => job' = NoJob
      /\ n > 1 => /\ Follows(job'.todo, plan) /\ StepsLeft' = n - 1
                  /\ job'.g = job.g /\ job'.s = t
  BY <1>0, <1>1, <1>2, OnPlanIs
<1>4. CASE n \in {2, 3}
  <2>1. ASSUME ~cut PROVE index' = Named' /\ Coded' /\ Others' /\ LeaveAt(t, n - 1)'
    <3>1. Others' /\ LeaveAt(t, n - 1)' /\ SameNames /\ UNCHANGED index
      BY <1>0, <1>1, <1>4, <2>1, LeaveGoes
    <3> QED BY <1>1, <2>1, <3>1, NamesKept
  <2>2. Follows(job'.todo, LeavePlan(job'.s)) /\ job'.s = t /\ StepsLeft' = n - 1
    BY <1>3, <1>4 DEF plan
  <2>3. Leaving'
    BY <1>1, <1>3, <2>1, <2>2 DEF Leaving
  <2> QED BY <2>3 DEF JobInv
<1>5. CASE n = 1
  <2>1. ASSUME ~cut PROVE Settled'
    <3>1. index = Named /\ Coded /\ Others /\ LeaveAt(t, 1)
      BY <1>1, <1>5, <2>1
    <3>2. /\ \A h \in Group \ {job.g} : Placed(h)'
          /\ Nowhere(job.g) /\ session'[job.g] = None /\ UNCHANGED <<conf, index>> /\ SameNames
      BY <1>1, <1>5, <3>1, LeaveEnds
    <3>3. index' = Named' /\ Coded'
      BY <3>1, <3>2, NamesKept
    <3>4. None \notin Session
      BY NameAssumption DEF Session
    <3>5. ASSUME NEW h \in Group, h = job.g PROVE Placed(h)'
      BY <3>2, <3>4, <3>5 DEF Placed, Nowhere
    <3> QED BY <3>2, <3>3, <3>5 DEF Settled
  <2> QED BY <1>3, <1>5, <2>1 DEF JobInv
<1> QED BY <1>1, <1>4, <1>5

-----------------------------------------------------------------------------
(* .game new.                                                              *)

(* Nothing but the rows of s changes, and the session of the group.        *)
Makes(s) ==
  /\ UNCHANGED index /\ job'.g = job.g
  /\ \A h \in Group \ {job.g} : session'[h] = session[h]
  /\ \A x \in Session \ {s} : /\ conf'[x].areas = conf[x].areas /\ conf'[x].name = conf[x].name
                              /\ conf'[x].code = conf[x].code

LEMMA MakeFrom ==
  ASSUME SharedInv, NEW s \in Exist, Makes(s), MakeMap(s), StepsLeft \in 2..10,
         StepsLeft' = StepsLeft - 1,
         session'[job.g] = s, conf'[s].name = (StepsLeft <= 6), StepsLeft <= 5 => conf'[s].code,
         conf'[s].areas = IF StepsLeft \in {8, 3, 2} THEN {job.g} ELSE {},
         StepsLeft = 9 => job'.seen = {}, StepsLeft = 2 => job'.index = index
  PROVE  MakeMap(s)'
<1>1. s \in Session /\ \A h \in Group : session[h] = None \/ session[h] \in Session
  BY Scopes DEF SharedInv
<1>2. Named' \ {s} = Named \ {s}
  BY DEF Makes, Named
<1>3. \A x \in Named' \ {s} : conf'[x].code
  BY <1>2 DEF MakeMap, Makes, Named
<1>4. ASSUME NEW h \in Group \ {job.g} PROVE Placed(h)'
  <2>1. Placed(h) /\ session'[h] = session[h]
    BY DEF MakeMap, Others, Makes
  <2>2. h \notin conf[s].areas /\ h \notin conf'[s].areas
    BY DEF MakeMap
  <2>3. \A x \in Session : h \in conf'[x].areas <=> h \in conf[x].areas
    BY <2>2 DEF Makes
  <2>4. session[h] # s
    BY <1>1, <2>1, <2>2 DEF Placed
  <2> QED BY <1>1, <2>1, <2>3, <2>4 DEF Placed, Makes
<1>5. \A x \in Session \ {s} : job.g \notin conf'[x].areas
  BY DEF MakeMap, Makes
<1>6. /\ (StepsLeft' <= 5) = (StepsLeft <= 6) /\ (StepsLeft' <= 4) = (StepsLeft <= 5)
      /\ StepsLeft' # 10
      /\ (StepsLeft' \in {7, 2, 1}) = (StepsLeft \in {8, 3, 2})
      /\ (StepsLeft' = 8) = (StepsLeft = 9) /\ (StepsLeft' = 1) = (StepsLeft = 2)
  OBVIOUS
<1>7. index' = Named' \ {s}
  BY <1>2 DEF MakeMap, Makes
<1>8. Others'
  BY <1>4 DEF Others, Makes
<1> QED BY ONLY <1>3, <1>5, <1>6, <1>7, <1>8, session'[job.g] = s, conf'[s].name = (StepsLeft <= 6),
         StepsLeft <= 5 => conf'[s].code, index' = index, job'.g = job.g,
         conf'[s].areas = IF StepsLeft \in {8, 3, 2} THEN {job.g} ELSE {},
         StepsLeft = 9 => job'.seen = {}, StepsLeft = 2 => job'.index = index DEF MakeMap, Makes

(* One row of s is written, or of the scope of the group once it is in s.  *)
LEMMA MakePut ==
  ASSUME SharedInv, CommandStep, NEW plan, Len(plan) \in Nat, Follows(job.todo, plan), StepsLeft > 1,
         NEW s \in Exist, NEW x \in {s, None}, x = None => session[job.g] = s,
         NEW k, NEW v, Head(job.todo) = Put(x, k, v), StepFits(Put(x, k, v))
  PROVE  /\ Makes(s) /\ UNCHANGED session
         /\ Wrote(s, k, [NoRows EXCEPT ![k] = v]) /\ s \in Scope
<1>1. /\ Simple(plan) /\ UNCHANGED <<session, index>> /\ job.g \in Group
      /\ At = IF x = None THEN ScopeOf(job.g) ELSE x
      /\ Wrote(At, k, [NoRows EXCEPT ![k] = v])
  BY PutDoes
<1>2. At = s /\ s \in Scope /\ Session \subseteq Scope
  <2>1. None \notin Exist /\ Session \subseteq Scope /\ s \in Scope
    BY Scopes DEF SharedInv
  <2> QED BY <1>1, <2>1 DEF ScopeOf
<1>3. job'.g = job.g
  BY <1>1 DEF Simple, Goes
<1> QED BY <1>1, <1>2, <1>3 DEF Wrote, Makes

LEMMA PutRows ==
  [NoRows EXCEPT !["name"] = TRUE].name /\ [NoRows EXCEPT !["code"] = TRUE].code
BY DEF NoRows

LEMMA MakeIsOnPlan ==
  ASSUME SharedInv, CommandStep, NEW plan, Len(plan) \in Nat, Follows(job.todo, plan),
         NEW s \in Exist, NEW g \in Group, NEW u \in User, MakeHead(s, g, u)
  PROVE  OnPlan(plan)
<1> DEFINE h == Head(job.todo)
<1>1. CASE h = Map(s)
  BY <1>1, MapDoes DEF OnPlan, Simple
<1>2. CASE h = [op |-> "areas", at |-> s]
  BY <1>2, AreasDoes DEF OnPlan
<1>3. CASE h = [op |-> "join", at |-> s]
  BY <1>3, WriteAreasDoes DEF OnPlan, Simple
<1>4. ASSUME NEW x \in {s, None}, NEW k, NEW v, h = Put(x, k, v), StepFits(Put(x, k, v)) PROVE OnPlan(plan)
  BY <1>4, PutDoes DEF OnPlan, Simple
<1>5. /\ StepFits(Put(s, "areas", {})) /\ StepFits(Put(None, "name", TRUE)) /\ StepFits(Put(None, "code", TRUE))
      /\ StepFits(Put(None, "gms", {u})) /\ StepFits(Put(None, "areas", {g}))
  <2>1. {} \in SUBSET Group /\ {u} \in SUBSET User /\ {g} \in SUBSET Group
    OBVIOUS
  <2> QED BY <2>1, PutFits
<1>6. CASE h = Put(s, "areas", {}) \/ h = Put(None, "name", TRUE) \/ h = Put(None, "code", TRUE)
           \/ h = Put(None, "gms", {u}) \/ h = Put(None, "areas", {g})
  BY <1>4, <1>5, <1>6
<1>7. CASE h = [op |-> "index"]
  BY <1>7, IndexDoes DEF OnPlan
<1>8. CASE h = [op |-> "enter", at |-> s]
  BY <1>8, WriteIndexDoes DEF OnPlan, Simple
<1> QED BY <1>1, <1>2, <1>3, <1>6, <1>7, <1>8, Zenon DEF MakeHead

LEMMA MakeGoes ==
  ASSUME SharedInv, CommandStep, NEW plan, Len(plan) \in Nat, Follows(job.todo, plan),
         NEW s \in Exist, NEW u \in User, MakeHead(s, job.g, u), StepsLeft > 1, MakeMap(s)
  PROVE  MakeMap(s)'
<1>0. PICK n, g : n = StepsLeft /\ g = job.g
  OBVIOUS
<1> DEFINE h == Head(job.todo)
<1>1. /\ g \in Group /\ s \in Session /\ s \in Scope /\ Session \subseteq Scope /\ s # None
      /\ session \in [Group -> Exist \cup {None}] /\ n \in 2..10
  <2>1. StepsLeft \in {1, 2, 3, 4, 5, 6, 7, 8, 9, 10}
    BY Zenon DEF MakeHead
  <2>2. g \in Group
    BY <1>0, BaseHas DEF Job
  <2> QED BY <1>0, <2>1, <2>2, BaseHas, Scopes DEF SharedInv
<1>a. /\ n = 10 => h = Map(s)
      /\ n = 9 => h = [op |-> "areas", at |-> s]
      /\ n = 8 => h = [op |-> "join", at |-> s]
      /\ n = 7 => h = Put(s, "areas", {})
      /\ n = 6 => h = Put(None, "name", TRUE)
      /\ n = 5 => h = Put(None, "code", TRUE)
      /\ n = 4 => h = Put(None, "gms", {u})
      /\ n = 3 => h = Put(None, "areas", {g})
      /\ n = 2 => h = [op |-> "index"]
  <2>1. n = 10 => h = Map(s)
    BY ONLY <1>0, MakeHead(s, job.g, u) DEF MakeHead
  <2>2. n = 9 => h = [op |-> "areas", at |-> s]
    BY ONLY <1>0, MakeHead(s, job.g, u) DEF MakeHead
  <2>3. n = 8 => h = [op |-> "join", at |-> s]
    BY ONLY <1>0, MakeHead(s, job.g, u) DEF MakeHead
  <2>4. n = 7 => h = Put(s, "areas", {})
    BY ONLY <1>0, MakeHead(s, job.g, u) DEF MakeHead
  <2>5. ASSUME n = 6 PROVE h = Put(None, "name", TRUE)
    <3>1. /\ StepsLeft # 10 /\ StepsLeft # 9 /\ StepsLeft # 8 /\ StepsLeft # 7
          /\ StepsLeft # 5 /\ StepsLeft # 4 /\ StepsLeft # 3 /\ StepsLeft # 2 /\ StepsLeft # 1
      BY <1>0, <2>5
    <3> QED BY <3>1, Zenon DEF MakeHead
  <2>6. ASSUME n = 5 PROVE h = Put(None, "code", TRUE)
    <3>1. /\ StepsLeft # 10 /\ StepsLeft # 9 /\ StepsLeft # 8 /\ StepsLeft # 7 /\ StepsLeft # 6
          /\ StepsLeft # 4 /\ StepsLeft # 3 /\ StepsLeft # 2 /\ StepsLeft # 1
      BY <1>0, <2>6
    <3> QED BY <3>1, Zenon DEF MakeHead
  <2>7. n = 4 => h = Put(None, "gms", {u})
    BY ONLY <1>0, MakeHead(s, job.g, u) DEF MakeHead
  <2>8. n = 3 => h = Put(None, "areas", {g})
    BY ONLY <1>0, MakeHead(s, job.g, u) DEF MakeHead
  <2>9. n = 2 => h = [op |-> "index"]
    BY ONLY <1>0, MakeHead(s, job.g, u) DEF MakeHead
  <2> QED BY <2>1, <2>2, <2>3, <2>4, <2>5, <2>6, <2>7, <2>8, <2>9
<1>2. /\ conf[s].name = (n <= 5) /\ (n <= 4 => conf[s].code)
      /\ conf[s].areas = IF n \in {7, 2, 1} THEN {g} ELSE {}
      /\ session[g] = IF n = 10 THEN None ELSE s
      /\ n = 8 => job.seen = {}
  BY <1>0, <1>1 DEF MakeMap
<1>3. OnPlan(plan)
  BY <1>0, <1>1, MakeIsOnPlan
<1>4. StepsLeft' = n - 1 /\ job'.g = g
  BY <1>0, <1>3, OnPlanIs
<1>5. /\ StepFits(Put(s, "areas", {})) /\ StepFits(Put(None, "name", TRUE)) /\ StepFits(Put(None, "code", TRUE))
      /\ StepFits(Put(None, "gms", {u})) /\ StepFits(Put(None, "areas", {g}))
  <2>1. {} \in SUBSET Group /\ {u} \in SUBSET User /\ {g} \in SUBSET Group
    BY <1>1
  <2> QED BY <2>1, PutFits
<1>6. ASSUME Makes(s), session'[g] = s, conf'[s].name = (n <= 6), n <= 5 => conf'[s].code,
             conf'[s].areas = IF n \in {8, 3, 2} THEN {g} ELSE {},
             n = 9 => job'.seen = {}, n = 2 => job'.index = index
      PROVE  MakeMap(s)'
  BY <1>0, <1>1, <1>4, <1>6, MakeFrom
<1>7. ASSUME n < 10, NEW x \in {s, None}, NEW k, NEW v, h = Put(x, k, v), StepFits(Put(x, k, v))
      PROVE  Makes(s) /\ session'[g] = s /\ Wrote(s, k, [NoRows EXCEPT ![k] = v])
  <2>1. session[job.g] = s
    BY <1>0, <1>1, <1>2, <1>7
  <2>2. Makes(s) /\ UNCHANGED session /\ Wrote(s, k, [NoRows EXCEPT ![k] = v])
    BY <1>7, <2>1, MakePut
  <2> QED BY <1>0, <2>1, <2>2
<1>8. CASE n = 10 /\ h = Map(s)
  <2>1. Simple(plan) /\ UNCHANGED <<conf, index>> /\ session' = [session EXCEPT ![g] = s]
    BY <1>0, <1>8, MapDoes
  <2>2. Makes(s) /\ session'[g] = s
    BY <1>0, <1>1, <1>4, <2>1 DEF Makes
  <2> QED BY <1>2, <1>6, <1>8, <2>1, <2>2
<1>9. CASE n = 9 /\ h = [op |-> "areas", at |-> s]
  <2>1. Goes(plan, conf[s].areas, job.keys, job.index) /\ UNCHANGED stored
    BY <1>9, AreasDoes
  <2>2. Makes(s) /\ session'[g] = s /\ conf'[s] = conf[s]
    BY <1>0, <1>1, <1>2, <1>4, <1>9, <2>1 DEF Makes, stored
  <2>3. job'.seen = {}
    BY <1>0, <1>2, <1>9, <2>1 DEF Goes
  <2> QED BY <1>2, <1>6, <1>9, <2>2, <2>3
<1>10. CASE n = 8 /\ h = [op |-> "join", at |-> s]
  <2>1. Counts(s, job.seen \cup {g})
    BY <1>0, <1>10, WriteAreasDoes
  <2>2. Makes(s) /\ session'[g] = s /\ conf'[s].areas = {g} /\ conf'[s].name = conf[s].name
    BY <1>0, <1>1, <1>2, <1>4, <1>10, <2>1 DEF Makes, Counts
  <2> QED BY <1>2, <1>6, <1>10, <2>2
<1>11. CASE n = 7 /\ h = Put(s, "areas", {})
  <2>0. n < 10 /\ s \in {s, None} /\ None \in {s, None}
    BY <1>11
  <2>1. Makes(s) /\ session'[g] = s /\ Wrote(s, "areas", [NoRows EXCEPT !["areas"] = {}])
    BY <1>5, <1>7, <1>11, <2>0, Zenon
  <2>2. conf'[s].areas = {} /\ conf'[s].name = conf[s].name
    <3>1. [NoRows EXCEPT !["areas"] = {}].areas = {}
      BY DEF NoRows
    <3> QED BY <1>1, <2>1, <3>1 DEF Wrote
  <2> QED BY <1>2, <1>6, <1>11, <2>1, <2>2
<1>12. CASE n = 6 /\ h = Put(None, "name", TRUE)
  <2>0. n < 10 /\ s \in {s, None} /\ None \in {s, None}
    BY <1>12
  <2>1. Makes(s) /\ session'[g] = s /\ Wrote(s, "name", [NoRows EXCEPT !["name"] = TRUE])
    BY <1>5, <1>7, <1>12, <2>0, Zenon
  <2>2. conf'[s].areas = conf[s].areas /\ conf'[s].name = TRUE
    BY <1>1, <2>1 DEF Wrote, NoRows
  <2>3. (n <= 6) = TRUE /\ ~(n <= 5) /\ n \notin {7, 2, 1} /\ n \notin {8, 3, 2} /\ n # 9 /\ n # 2
    BY <1>12
  <2> QED BY <1>2, <1>6, <1>12, <2>1, <2>2, <2>3
<1>13. CASE n = 5 /\ h = Put(None, "code", TRUE)
  <2>0. n < 10 /\ s \in {s, None} /\ None \in {s, None}
    BY <1>13
  <2>1. Makes(s) /\ session'[g] = s /\ Wrote(s, "code", [NoRows EXCEPT !["code"] = TRUE])
    BY <1>5, <1>7, <1>13, <2>0, Zenon
  <2>2. conf'[s].areas = conf[s].areas /\ conf'[s].name = conf[s].name /\ conf'[s].code
    BY <1>1, <2>1, PutRows DEF Wrote
  <2> QED BY <1>2, <1>6, <1>13, <2>1, <2>2
<1>14. CASE n = 4 /\ h = Put(None, "gms", {u})
  <2>0. n < 10 /\ s \in {s, None} /\ None \in {s, None}
    BY <1>14
  <2>1. Makes(s) /\ session'[g] = s /\ Wrote(s, "gms", [NoRows EXCEPT !["gms"] = {u}])
    BY <1>5, <1>7, <1>14, <2>0, Zenon
  <2>2. /\ conf'[s].areas = conf[s].areas /\ conf'[s].name = conf[s].name
        /\ conf'[s].code = conf[s].code
    BY <1>1, <2>1 DEF Wrote
  <2> QED BY <1>2, <1>6, <1>14, <2>1, <2>2
<1>15. CASE n = 3 /\ h = Put(None, "areas", {g})
  <2>0. n < 10 /\ s \in {s, None} /\ None \in {s, None}
    BY <1>15
  <2>1. Makes(s) /\ session'[g] = s /\ Wrote(s, "areas", [NoRows EXCEPT !["areas"] = {g}])
    BY <1>5, <1>7, <1>15, <2>0, Zenon
  <2>2. conf'[s].areas = {g} /\ conf'[s].name = conf[s].name /\ conf'[s].code = conf[s].code
    <3>1. [NoRows EXCEPT !["areas"] = {g}].areas = {g}
      BY DEF NoRows
    <3> QED BY <1>1, <2>1, <3>1 DEF Wrote
  <2> QED BY <1>2, <1>6, <1>15, <2>1, <2>2
<1>16. CASE n = 2 /\ h = [op |-> "index"]
  <2>1. Goes(plan, job.seen, job.keys, index) /\ UNCHANGED stored
    BY <1>16, IndexDoes
  <2>2. Makes(s) /\ session'[g] = s /\ conf'[s] = conf[s]
    BY <1>0, <1>1, <1>2, <1>4, <1>16, <2>1 DEF Makes, stored
  <2>3. job'.index = index
    BY <1>0, <1>16, <2>1 DEF Goes
  <2> QED BY <1>2, <1>6, <1>16, <2>2, <2>3
<1>17. n \in {2, 3, 4, 5, 6, 7, 8, 9, 10}
  BY <1>1
<1> QED BY <1>a, <1>8, <1>9, <1>10, <1>11, <1>12, <1>13, <1>14, <1>15, <1>16, <1>17, Zenon

LEMMA MakeEnds ==
  ASSUME SharedInv, CommandStep, NEW plan, Len(plan) \in Nat, Follows(job.todo, plan),
         NEW s \in Exist, NEW u, MakeHead(s, job.g, u), StepsLeft = 1, MakeMap(s)
  PROVE  Settled'
<1>1. Head(job.todo) = [op |-> "enter", at |-> s]
  BY DEF MakeHead
<1>2. UNCHANGED <<session, conf>> /\ index' = job.index \cup {s}
  BY <1>1, WriteIndexDoes
<1>3. s \in Session /\ s # None /\ \A h \in Group : session[h] = None \/ session[h] \in Session
  BY Scopes DEF SharedInv
<1>4. /\ Others /\ index = Named \ {s} /\ conf[s].name /\ conf[s].code /\ conf[s].areas = {job.g}
      /\ \A x \in Session \ {s} : job.g \notin conf[x].areas
      /\ session[job.g] = s /\ job.index = index /\ \A x \in Named \ {s} : conf[x].code
  <2>1. StepsLeft <= 5 /\ StepsLeft <= 4 /\ StepsLeft <= 10 /\ StepsLeft # 10 /\ StepsLeft \in {7, 2, 1}
    OBVIOUS
  <2> QED BY <2>1 DEF MakeMap
<1>5. index' = Named' /\ Coded'
  BY <1>2, <1>3, <1>4 DEF Named, Coded
<1>6. ASSUME NEW h \in Group, h = job.g PROVE Placed(h)
  BY <1>3, <1>4, <1>6 DEF Placed
<1>7. \A h \in Group : Placed(h)
  BY <1>4, <1>6 DEF Others
<1> QED BY <1>2, <1>5, <1>7 DEF Settled, Placed

(* Until the first row of s is written.                                    *)
LEMMA MakeStarts ==
  ASSUME SharedInv, NEW s \in Exist, MakeMap(s), SameNames, UNCHANGED index, Others',
         conf'[s].areas = conf[s].areas, StepsLeft \in Nat, StepsLeft > 10,
         StepsLeft' \in Nat, StepsLeft' >= 10,
         StepsLeft' = 10 => Nowhere(job.g)' /\ session'[job'.g] = None
  PROVE  MakeMap(s)'
<1>1. s \in Session
  BY Scopes DEF SharedInv
<1>2. Named' = Named /\ \A x \in Named : conf'[x].code = conf[x].code
  BY NamesKept DEF SameNames, Named
<1>3. /\ ~(StepsLeft <= 5) /\ ~(StepsLeft' <= 5) /\ ~(StepsLeft' <= 4) /\ StepsLeft \notin {7, 2, 1}
      /\ StepsLeft' \notin {7, 2, 1} /\ StepsLeft' # 8 /\ StepsLeft' # 1
      /\ (StepsLeft' <= 10 => StepsLeft' = 10)
  OBVIOUS
<1>4. /\ index' = Named' \ {s} /\ \A x \in Named' \ {s} : conf'[x].code
  BY <1>2 DEF MakeMap
<1>5. conf[s].areas = {} /\ conf[s].name = (StepsLeft <= 5)
  BY <1>3 DEF MakeMap
<1>6. conf'[s].name = (StepsLeft' <= 5)
  BY <1>1, <1>3, <1>5 DEF SameNames
<1>7. StepsLeft' = 10 => \A x \in Session \ {s} : job'.g \notin conf'[x].areas
  BY DEF Nowhere
<1> QED BY <1>3, <1>4, <1>5, <1>6, <1>7 DEF MakeMap

(* Till it has a name, no one else has to do with s.                       *)
LEMMA NamingKept ==
  ASSUME NEW s, Naming(s), UNCHANGED panel, StepsLeft \in Nat, StepsLeft' \in Nat,
         StepsLeft' <= StepsLeft, job'.g = job.g,
         StepsLeft' >= 6 => /\ conf'[s].deck = conf[s].deck /\ UNCHANGED index
                            /\ StepsLeft' <= 9 => session'[job.g] \in {None, s}
  PROVE  Naming(s)'
<1>1. StepsLeft' >= 6 => StepsLeft >= 6
  OBVIOUS
<1> QED BY <1>1 DEF Naming

LEMMA MakeNames ==
  ASSUME SharedInv, CommandStep, NEW plan, Len(plan) \in Nat, Follows(job.todo, plan),
         NEW s \in Exist, NEW u \in User, MakeHead(s, job.g, u), StepsLeft > 1, Naming(s)
  PROVE  Naming(s)'
<1>0. PICK n, g : n = StepsLeft /\ g = job.g
  OBVIOUS
<1> DEFINE h == Head(job.todo)
<1>1. g \in Group /\ s \in Scope /\ session \in [Group -> Exist \cup {None}]
  BY <1>0, BaseHas, Scopes DEF SharedInv, Job
<1>2. OnPlan(plan)
  BY <1>0, <1>1, MakeIsOnPlan
<1>3. n \in Nat /\ StepsLeft' = n - 1 /\ job'.g = g /\ UNCHANGED panel
  <2>1. n \in Nat
    BY <1>0, <1>2, OnPlanIs
  <2> QED BY <1>0, <1>2, <2>1, OnPlanIs
<1>4. ASSUME StepsLeft' >= 6 => /\ conf'[s].deck = conf[s].deck /\ UNCHANGED index
                                /\ StepsLeft' <= 9 => session'[g] \in {None, s}
      PROVE  Naming(s)'
  <2>1. StepsLeft' \in Nat /\ StepsLeft' <= StepsLeft
    BY <1>0, <1>3
  <2> QED BY <1>0, <1>3, <1>4, <2>1, NamingKept
<1>5. n <= 9 /\ n >= 6 => session[g] \in {None, s}
  BY <1>0 DEF Naming
<1>6. CASE n = 10 /\ h = Map(s)
  <2>1. UNCHANGED <<conf, index>> /\ session' = [session EXCEPT ![g] = s]
    BY <1>0, <1>6, MapDoes
  <2> QED BY <1>1, <1>4, <2>1
<1>7. CASE n = 9 /\ h = [op |-> "areas", at |-> s]
  <2>1. UNCHANGED stored
    BY <1>7, AreasDoes
  <2> QED BY <1>4, <1>5, <1>7, <2>1 DEF stored
<1>8. CASE n = 8 /\ h = [op |-> "join", at |-> s]
  <2>1. Counts(s, job.seen \cup {g})
    BY <1>0, <1>8, WriteAreasDoes
  <2> QED BY <1>1, <1>4, <1>5, <1>8, <2>1 DEF Counts
<1>9. CASE n = 7 /\ h = Put(s, "areas", {})
  <2>1. {} \in SUBSET Group
    OBVIOUS
  <2>2. StepFits(Put(s, "areas", {}))
    BY <2>1, PutFits
  <2>3. UNCHANGED <<session, index>> /\ Wrote(At, "areas", [NoRows EXCEPT !["areas"] = {}])
    BY <1>9, <2>2, PutDoes
  <2>4. conf'[s].deck = conf[s].deck
    BY <1>1, <2>3 DEF Wrote
  <2> QED BY <1>4, <1>5, <1>9, <2>3, <2>4
<1>10. CASE n <= 6
  BY <1>3, <1>4, <1>10
<1>11. \/ n = 10 /\ h = Map(s)
       \/ n = 9 /\ h = [op |-> "areas", at |-> s]
       \/ n = 8 /\ h = [op |-> "join", at |-> s]
       \/ n = 7 /\ h = Put(s, "areas", {})
       \/ n \in {1, 2, 3, 4, 5, 6}
  BY <1>0, Zenon DEF MakeHead
<1> QED BY <1>6, <1>7, <1>8, <1>9, <1>10, <1>11

LEMMA MovingStep ==
  ASSUME SharedInv, CommandStep, NEW s \in Exist, NEW u \in User, Moving(s, u) PROVE JobInv'
<1>0. PICK t, n, g : t = job.s /\ n = StepsLeft /\ g = job.g
  OBVIOUS
<1> DEFINE plan == NewPlan(s, g, u, t)
<1>1. /\ Follows(job.todo, plan) /\ Len(plan) \in Nat /\ NoDeal
      /\ n > 10 => t \in Exist
      /\ s = used /\ Naming(s)
      /\ ~cut => MakeMap(s) /\ (n > 10 => t # s /\ LeaveAt(t, n - 10))
  BY <1>0 DEF Moving, NewPlan
<1>2. n \in 1..13 /\ (MakeHead(s, g, u) \/ (n > 10 /\ LeaveHead(t, n - 10)))
  BY <1>0, <1>1, NewHeads
<1>3. /\ g \in Group /\ s \in Session /\ s \in Scope /\ Session \subseteq Scope
      /\ session \in [Group -> Exist \cup {None}]
  <2>1. g \in Group
    BY <1>0, BaseHas DEF Job
  <2> QED BY <2>1, BaseHas, Scopes DEF SharedInv
<1> HIDE DEF plan
<1>4. OnPlan(plan)
  BY <1>0, <1>1, <1>2, <1>3, LeaveIsOnPlan, MakeIsOnPlan
<1>5. /\ UNCHANGED <<used, cut, panel>> /\ Exist' = Exist /\ NoDeal'
      /\ n = 1 => job' = NoJob
      /\ n > 1 => Follows(job'.todo, plan) /\ StepsLeft' = n - 1 /\ job'.g = g /\ job'.s = t
  BY <1>0, <1>1, <1>4, OnPlanIs
<1>6. ASSUME n > 1, Naming(s)',
             ~cut => MakeMap(s)' /\ (n > 11 => t # s /\ LeaveAt(t, n - 11)')
      PROVE  JobInv'
  <2>1. n - 1 > 10 <=> n > 11
    BY <1>2
  <2>2. Follows(job'.todo, NewPlan(s, job'.g, u, job'.s))
    BY <1>5, <1>6 DEF plan
  <2>3. ~cut' => MakeMap(s)' /\ (StepsLeft' > 10 => job'.s # s /\ LeaveAt(job.s, StepsLeft - 10)')
    <3>1. StepsLeft' - 10 = n - 11
      BY <1>2, <1>5, <1>6
    <3> QED BY <1>5, <1>6, <2>1, <3>1
  <2>4. StepsLeft' > 10 => job'.s \in Exist'
    BY <1>1, <1>2, <1>5, <1>6, <2>1
  <2>5. Moving(s, u)'
    BY <1>1, <1>5, <1>6, <2>2, <2>3, <2>4 DEF Moving
  <2> QED BY <1>5, <2>5 DEF JobInv
<1>7. CASE n > 11 /\ LeaveHead(t, n - 10)
  <2>1. n - 10 \in {2, 3} /\ (n - 10) - 1 = n - 11 /\ n > 1 /\ n > 10
    BY <1>2, <1>7
  <2>2. Naming(s)'
    <3>1. CASE Head(job.todo) = [op |-> "areas", at |-> t]
      <4>1. UNCHANGED stored
        BY <1>1, <2>1, <3>1, AreasDoes
      <4> QED BY <1>0, <1>1, <1>2, <1>5, <2>1, <4>1, NamingKept DEF stored
    <3>2. CASE Head(job.todo) = [op |-> "leave", at |-> t]
      <4>1. Counts(t, job.seen \ {g})
        BY <1>0, <1>1, <2>1, <3>2, WriteAreasDoes
      <4>2. conf'[s].deck = conf[s].deck /\ UNCHANGED index
        BY <1>3, <4>1 DEF Counts
      <4>3. StepsLeft' \in Nat /\ StepsLeft' <= StepsLeft /\ ~(StepsLeft' <= 9) /\ StepsLeft \in Nat
        BY <1>0, <1>2, <1>5, <2>1
      <4> QED BY <1>0, <1>1, <1>5, <2>1, <4>2, <4>3, NamingKept
    <3> QED BY <1>7, <2>1, <3>1, <3>2 DEF LeaveHead
  <2>3. ASSUME ~cut PROVE MakeMap(s)' /\ LeaveAt(t, n - 11)'
    <3>1. MakeMap(s) /\ t # s /\ LeaveAt(t, n - 10) /\ Others
      BY <1>1, <2>1, <2>3 DEF MakeMap
    <3>2. /\ Others' /\ LeaveAt(t, (n - 10) - 1)' /\ SameNames /\ UNCHANGED <<session, index>>
          /\ \A x \in Session \ {t} : conf'[x] = conf[x]
      BY <1>0, <1>1, <1>7, <2>1, <3>1, LeaveGoes
    <3>3. StepsLeft \in Nat /\ StepsLeft > 10 /\ StepsLeft' \in Nat /\ StepsLeft' >= 10 /\ StepsLeft' # 10
      BY <1>0, <1>2, <1>5, <1>7
    <3>4. conf'[s].areas = conf[s].areas
      BY <1>3, <3>1, <3>2
    <3> QED BY <2>1, <3>1, <3>2, <3>3, <3>4, MakeStarts
  <2> QED BY <1>1, <1>6, <2>1, <2>2, <2>3
<1>8. CASE n = 11 /\ LeaveHead(t, n - 10)
  <2>1. LeaveHead(t, 1) /\ Head(job.todo) = Map(None) /\ t \in Exist /\ n - 10 = 1
    BY <1>1, <1>8 DEF LeaveHead
  <2>2. UNCHANGED <<conf, index>>
    BY <1>1, <2>1, MapDoes
  <2>3. StepsLeft = 11 /\ StepsLeft' = 10 /\ job'.g = job.g
    BY <1>0, <1>5, <1>8
  <2>4. Naming(s)'
    BY <1>1, <1>5, <2>2, <2>3, NamingKept
  <2>5. ASSUME ~cut PROVE MakeMap(s)'
    <3>1. MakeMap(s) /\ LeaveAt(t, 1) /\ Others
      BY <1>1, <1>8, <2>1, <2>5 DEF MakeMap
    <3>2. /\ \A h \in Group \ {job.g} : Placed(h)'
          /\ Nowhere(job.g) /\ session'[job.g] = None /\ UNCHANGED <<conf, index>> /\ SameNames
      BY <1>1, <2>1, <3>1, LeaveEnds
    <3>3. Others' /\ Nowhere(job.g)' /\ session'[job'.g] = None
      BY <2>3, <3>2 DEF Others, Nowhere
    <3> QED BY <2>3, <3>1, <3>2, <3>3, MakeStarts
  <2> QED BY <1>6, <1>8, <2>4, <2>5
<1>9. CASE n \in 2..10 /\ MakeHead(s, g, u)
  <2>1. Naming(s)'
    BY <1>0, <1>1, <1>9, MakeNames
  <2>2. ~cut => MakeMap(s)'
    BY <1>0, <1>1, <1>9, MakeGoes
  <2> QED BY <1>6, <1>9, <2>1, <2>2
<1>10. CASE n = 1 /\ MakeHead(s, g, u)
  <2>1. ~cut => Settled'
    BY <1>0, <1>1, <1>10, MakeEnds
  <2> QED BY <1>5, <1>10, <2>1 DEF JobInv
<1>11. MakeHead(s, g, u) => n \in 1..10
  <2>1. MakeHead(s, g, u) => StepsLeft \in {1, 2, 3, 4, 5, 6, 7, 8, 9, 10}
    BY Zenon DEF MakeHead
  <2> QED BY <1>0, <2>1
<1>12. n > 11 \/ n = 11 \/ n \in 2..10 \/ n = 1
  BY <1>2
<1> QED BY <1>2, <1>7, <1>8, <1>9, <1>10, <1>11, <1>12

LEMMA FoundingStep ==
  ASSUME SharedInv, CommandStep, NEW s \in Exist, NEW u \in User, Founding(s, u) PROVE JobInv'
<1>0. PICK n, g : n = StepsLeft /\ g = job.g
  OBVIOUS
<1> DEFINE plan == FirstPlan(s, g, u)
<1>1. /\ Follows(job.todo, plan) /\ Len(plan) \in Nat /\ NoDeal /\ s = used /\ Naming(s)
      /\ ~cut => MakeMap(s) /\ (n > 10 => session[g] = None /\ Nowhere(g))
  BY <1>0 DEF Founding, FirstPlan
<1>2. /\ n \in 1..12
      /\ \/ MakeHead(s, g, u)
         \/ n = 12 /\ Head(job.todo) = [op |-> "list", at |-> g]
         \/ n = 11 /\ Head(job.todo) = [op |-> "clear", at |-> g]
  BY <1>0, <1>1, FirstHeads
<1>3. /\ g \in Group /\ s \in Session /\ s \in Scope /\ Session \subseteq Scope /\ g \notin Session
      /\ session \in [Group -> Exist \cup {None}]
  <2>1. g \in Group
    BY <1>0, BaseHas DEF Job
  <2> QED BY <2>1, BaseHas, Scopes DEF SharedInv
<1> HIDE DEF plan
<1>4. ASSUME NoDeal', UNCHANGED <<used, panel, cut>>, Follows(job'.todo, plan), job'.g = g, Naming(s)',
             ~cut => MakeMap(s)' /\ (StepsLeft' > 10 => session'[g] = None /\ Nowhere(g)')
      PROVE  JobInv'
  <2>1. Follows(job'.todo, FirstPlan(s, job'.g, u))
    BY <1>4 DEF plan
  <2>2. Founding(s, u)'
    BY <1>1, <1>4, <2>1 DEF Founding
  <2>3. Exist' = Exist
    BY <1>4 DEF Exist
  <2> QED BY <2>2, <2>3 DEF JobInv
(* The rows of the group alone change.                                     *)
<1>5. ASSUME n \in {11, 12}, StepsLeft' \in {10, 11, 12}, StepsLeft' <= n, NoDeal',
             UNCHANGED <<used, panel, cut, session, index>>, Follows(job'.todo, plan), job'.g = g,
             \A x \in Session : conf'[x] = conf[x]
      PROVE  JobInv'
  <2>1. Naming(s)'
    <3>1. StepsLeft \in Nat /\ StepsLeft' \in Nat /\ StepsLeft' <= StepsLeft /\ ~(StepsLeft' <= 9)
      BY <1>0, <1>5
    <3> QED BY <1>0, <1>1, <1>3, <1>5, <3>1, NamingKept
  <2>2. ASSUME ~cut PROVE MakeMap(s)' /\ session'[g] = None /\ Nowhere(g)'
    <3>1. MakeMap(s) /\ session[g] = None /\ Nowhere(g) /\ Others
      BY <1>1, <1>5, <2>2 DEF MakeMap
    <3>2. SameNames /\ Nowhere(g)' /\ Others'
      <4>1. SameNames /\ Nowhere(g)'
        BY <1>5, <3>1 DEF SameNames, Nowhere
      <4>2. ASSUME NEW h \in Group \ {job.g} PROVE Placed(h)'
        BY <1>5, <3>1, <4>1, PlacedKept DEF Others
      <4> QED BY <1>0, <1>5, <4>1, <4>2 DEF Others
    <3>3. StepsLeft \in Nat /\ StepsLeft > 10 /\ StepsLeft' \in Nat /\ StepsLeft' >= 10
      BY <1>0, <1>5
    <3>4. MakeMap(s)'
      BY <1>3, <1>5, <3>1, <3>2, <3>3, MakeStarts
    <3> QED BY <1>5, <3>1, <3>2, <3>4
  <2> QED BY <1>4, <1>5, <2>1, <2>2
<1>6. CASE n = 12 /\ Head(job.todo) = [op |-> "list", at |-> g]
  <2>1. Goes(plan, job.seen, RowsOf(g), job.index) /\ UNCHANGED stored
    BY <1>1, <1>3, <1>6, ListDoes
  <2>2. /\ UNCHANGED <<used, panel, cut, session, index, conf>> /\ Follows(job'.todo, plan)
        /\ StepsLeft' = 11 /\ job'.g = g /\ NoDeal'
    BY <1>0, <1>1, <1>6, <2>1 DEF Goes, stored
  <2> QED BY <1>5, <1>6, <2>2
<1>7. CASE n = 11 /\ Head(job.todo) = [op |-> "clear", at |-> g]
  <2>1. /\ UNCHANGED <<session, index>>
        /\ \/ Simple(plan) /\ job.keys = {} /\ UNCHANGED conf
           \/ \E k \in job.keys : Stays(plan) /\ Wrote(g, k, NoRows)
    BY <1>1, <1>3, <1>7, ClearDoes
  <2>2. CASE Simple(plan) /\ UNCHANGED conf
    <3>1. /\ UNCHANGED <<used, panel, cut>> /\ Follows(job'.todo, plan)
          /\ StepsLeft' = 10 /\ job'.g = g /\ NoDeal'
      BY <1>0, <1>1, <1>7, <2>2 DEF Simple, Goes
    <3> QED BY <1>5, <1>7, <2>1, <2>2, <3>1
  <2>3. ASSUME NEW k, Stays(plan), Wrote(g, k, NoRows) PROVE JobInv'
    <3>1. /\ UNCHANGED <<used, panel, cut>> /\ Follows(job'.todo, plan)
          /\ StepsLeft' = 11 /\ job'.g = g /\ NoDeal'
      BY <1>0, <1>1, <1>7, <2>3 DEF Stays
    <3>2. \A x \in Session : conf'[x] = conf[x]
      BY <1>3, <2>3 DEF Wrote
    <3> QED BY <1>5, <1>7, <2>1, <3>1, <3>2
  <2> QED BY <2>1, <2>2, <2>3
<1>8. CASE MakeHead(s, g, u)
  <2>1. n \in 1..10
    <3>1. StepsLeft \in {1, 2, 3, 4, 5, 6, 7, 8, 9, 10}
      BY <1>8, Zenon DEF MakeHead
    <3> QED BY <1>0, <3>1
  <2>2. OnPlan(plan)
    BY <1>0, <1>1, <1>3, <1>8, MakeIsOnPlan
  <2>3. /\ UNCHANGED <<used, cut, panel>> /\ NoDeal'
        /\ n = 1 => job' = NoJob
        /\ n > 1 => Follows(job'.todo, plan) /\ StepsLeft' = n - 1 /\ job'.g = g
    BY <1>0, <1>1, <2>2, OnPlanIs
  <2>4. CASE n > 1
    <3>1. Naming(s)'
      BY <1>0, <1>1, <1>8, <2>4, MakeNames
    <3>2. ~cut => MakeMap(s)'
      BY <1>0, <1>1, <1>8, <2>4, MakeGoes
    <3>3. ~(StepsLeft' > 10)
      BY <2>1, <2>3, <2>4
    <3> QED BY <1>4, <2>3, <2>4, <3>1, <3>2, <3>3
  <2>5. CASE n = 1
    <3>1. ~cut => Settled'
      BY <1>0, <1>1, <1>8, <2>5, MakeEnds
    <3> QED BY <2>3, <2>5, <3>1 DEF JobInv
  <2> QED BY <2>1, <2>4, <2>5
<1> QED BY <1>2, <1>6, <1>7, <1>8

-----------------------------------------------------------------------------
(* .game over.                                                             *)

LEMMA OthersAreKept ==
  ASSUME SharedInv, NEW s \in Exist, OthersStay(s), UNCHANGED index,
         \A x \in Session \ {s} : conf'[x] = conf[x],
         \A h \in Group : session'[h] = session[h] \/ (session[h] = s /\ session'[h] = None)
  PROVE  OthersStay(s)'
<1>1. /\ s \in Session /\ None \notin Session
      /\ \A h \in Group : session[h] = None \/ session[h] \in Session
  BY Scopes DEF SharedInv, Scope
<1>2. Named' \ {s} = Named \ {s}
  BY DEF Named
<1>3. index' = Named' \cup {s} /\ \A x \in Named' \ {s} : conf'[x].code
  BY <1>1, <1>2 DEF OthersStay, Named
<1>4. ASSUME NEW h \in Group
      PROVE  /\ session'[h] \notin {None, s} => conf'[session'[h]].name
             /\ \A x \in Session \ {s} : h \in conf'[x].areas <=> session'[h] = x
  <2>1. /\ \A x \in Session \ {s} : h \in conf[x].areas <=> session[h] = x
        /\ session[h] \notin {None, s} => conf[session[h]].name
    BY DEF OthersStay
  <2>2. CASE session'[h] = session[h]
    BY <1>1, <2>1, <2>2
  <2>3. CASE session[h] = s /\ session'[h] = None
    BY <1>1, <2>1, <2>3
  <2> QED BY <2>2, <2>3
<1> QED BY <1>3, <1>4 DEF OthersStay

LEMMA Emptied ==
  ASSUME NEW a \in Scope, conf \in [Scope -> Rows], RowsOf(a) = {}
  PROVE  conf[a] = NoRows
<1>1. \A k \in Key : conf[a][k] = NoRows[k]
  BY DEF RowsOf
<1>2. /\ conf[a].areas = NoRows.areas /\ conf[a].closed = NoRows.closed
      /\ conf[a].code = NoRows.code /\ conf[a].deck = NoRows.deck
      /\ conf[a].gms = NoRows.gms /\ conf[a].name = NoRows.name
  BY <1>1 DEF Key
<1>3. conf[a] \in Rows /\ NoRows \in Rows
  BY NoRowsAreRows
<1> QED BY <1>2, <1>3 DEF Rows

LEMMA RowsLeft ==
  ASSUME NEW a \in Scope, conf \in [Scope -> Rows], NEW k \in Key,
         conf' = [conf EXCEPT ![a][k] = NoRows[k]]
  PROVE  RowsOf(a)' = RowsOf(a) \ {k}
<1>1. conf[a] \in Rows /\ DOMAIN conf[a] = Key /\ DOMAIN NoRows = Key
  BY NoRowsAreRows DEF Rows, Key
<1>2. conf'[a] = [conf[a] EXCEPT ![k] = NoRows[k]]
  OBVIOUS
<1>3. \A l \in Key : conf'[a][l] = IF l = k THEN NoRows[k] ELSE conf[a][l]
  BY <1>1, <1>2
<1> QED BY <1>3 DEF RowsOf

LEMMA OverIsOnPlan ==
  ASSUME SharedInv, CommandStep, NEW plan, Len(plan) \in Nat, Follows(job.todo, plan),
         NEW a \in Exist \cup Group,
         \/ Head(job.todo) \in {[op |-> "release"], [op |-> "list", at |-> a],
                                [op |-> "clear", at |-> a], [op |-> "index"]}
         \/ a \in Exist /\ Head(job.todo) = [op |-> "drop", at |-> a]
  PROVE  OnPlan(plan) \/ Stays(plan)
<1>1. CASE Head(job.todo) = [op |-> "release"]
  BY <1>1, ReleaseDoes DEF OnPlan, Simple
<1>2. CASE Head(job.todo) = [op |-> "list", at |-> a]
  BY <1>2, ListDoes DEF OnPlan
<1>3. CASE Head(job.todo) = [op |-> "clear", at |-> a]
  BY <1>3, ClearDoes DEF OnPlan, Simple
<1>4. CASE Head(job.todo) = [op |-> "index"]
  BY <1>4, IndexDoes DEF OnPlan
<1>5. CASE a \in Exist /\ Head(job.todo) = [op |-> "drop", at |-> a]
  BY <1>5, WriteIndexDoes DEF OnPlan, Simple
<1> QED BY <1>1, <1>2, <1>3, <1>4, <1>5

LEMMA EndingStep == ASSUME SharedInv, CommandStep, NEW s \in Exist, Ending(s) PROVE JobInv'
<1>0. PICK n : n = StepsLeft
  OBVIOUS
<1> DEFINE plan == OverPlan(s)
<1>1. /\ Follows(job.todo, plan) /\ Len(plan) \in Nat /\ NoDeal /\ OverHead(s)
      /\ (~cut => EndMap(s))
  BY OverHeads DEF Ending, OverPlan
<1>2. /\ s \in Session /\ s \in Scope /\ Session \subseteq Scope /\ s # None /\ None \notin Session
      /\ session \in [Group -> Exist \cup {None}] /\ conf \in [Scope -> Rows]
  BY BaseHas, Scopes DEF SharedInv, ConfOK
<1> HIDE DEF plan
<1>3. ASSUME NoDeal', UNCHANGED <<used, cut>>, Follows(job'.todo, plan), ~cut => EndMap(s)'
      PROVE  JobInv'
  <2>1. Ending(s)'
    BY <1>3 DEF Ending, plan
  <2> QED BY <1>3, <2>1 DEF JobInv, Exist
<1>4. ASSUME ~cut
      PROVE  /\ job.s = s /\ OthersStay(s)
             /\ IF n = 5 THEN \A h \in Group : session[h] = s <=> h \in job.seen
                ELSE \A h \in Group : session[h] # s
             /\ n = 3 => job.keys = RowsOf(s)
             /\ n <= 2 => conf[s] = NoRows
             /\ n = 1 => job.index = index
  BY <1>0, <1>1, <1>4 DEF EndMap
<1>5. CASE n = 5 /\ Head(job.todo) = [op |-> "release"]
  <2>1. /\ UNCHANGED <<conf, index>>
        /\ \/ Simple(plan) /\ job.seen = {} /\ UNCHANGED session
           \/ \E g \in job.seen : /\ Stays(plan) /\ job'.seen = job.seen \ {g}
                                  /\ job'.keys = job.keys /\ g \in Group
                                  /\ session' = [session EXCEPT ![g] = None]
    BY <1>1, <1>5, ReleaseDoes
  <2>2. CASE Simple(plan) /\ job.seen = {} /\ UNCHANGED session
    <3>1. /\ UNCHANGED <<used, cut, panel>> /\ Follows(job'.todo, plan) /\ StepsLeft' = 4
          /\ job'.s = job.s /\ NoDeal'
      BY <1>0, <1>1, <1>5, <2>2 DEF Simple, Goes
    <3>2. ASSUME ~cut PROVE EndMap(s)'
      <4>1. OthersStay(s)'
        BY <1>4, <2>1, <2>2, <3>2, OthersAreKept
      <4>2. \A h \in Group : session'[h] # s
        BY <1>4, <1>5, <2>2, <3>2
      <4> QED BY <1>4, <3>1, <3>2, <4>1, <4>2 DEF EndMap
    <3> QED BY <1>3, <3>1, <3>2
  <2>3. ASSUME NEW g \in job.seen, Stays(plan), job'.seen = job.seen \ {g}, g \in Group,
               session' = [session EXCEPT ![g] = None]
        PROVE  JobInv'
    <3>1. /\ UNCHANGED <<used, cut, panel>> /\ Follows(job'.todo, plan) /\ StepsLeft' = 5
          /\ job'.s = job.s /\ NoDeal'
      BY <1>0, <1>1, <1>5, <2>3 DEF Stays
    <3>2. ASSUME ~cut PROVE EndMap(s)'
      <4>1. /\ session[g] = s
            /\ \A h \in Group : session'[h] = IF h = g THEN None ELSE session[h]
        BY <1>2, <1>4, <1>5, <2>3, <3>2
      <4>2. OthersStay(s)'
        BY <1>4, <2>1, <3>2, <4>1, OthersAreKept
      <4>3. \A h \in Group : session'[h] = s <=> h \in job'.seen
        BY <1>2, <1>4, <1>5, <2>3, <3>2, <4>1
      <4> QED BY <1>4, <3>1, <3>2, <4>2, <4>3 DEF EndMap
    <3> QED BY <1>3, <3>1, <3>2
  <2> QED BY <2>1, <2>2, <2>3
<1>6. CASE n = 4 /\ Head(job.todo) = [op |-> "list", at |-> s]
  <2>1. Goes(plan, job.seen, RowsOf(s), job.index) /\ UNCHANGED stored
    BY <1>1, <1>6, ListDoes
  <2>2. /\ UNCHANGED <<used, cut, panel, conf, session, index>> /\ Follows(job'.todo, plan)
        /\ StepsLeft' = 3 /\ job'.s = job.s /\ job'.keys = RowsOf(s) /\ NoDeal'
    BY <1>0, <1>1, <1>6, <2>1 DEF Goes, stored
  <2>3. ASSUME ~cut PROVE EndMap(s)'
    <3>1. OthersStay(s)'
      BY <1>4, <2>2, <2>3, OthersAreKept
    <3> QED BY <1>4, <1>6, <2>2, <2>3, <3>1 DEF EndMap, RowsOf
  <2> QED BY <1>3, <2>2, <2>3
<1>7. CASE n = 3 /\ Head(job.todo) = [op |-> "clear", at |-> s]
  <2>1. /\ UNCHANGED <<session, index>>
        /\ \/ Simple(plan) /\ job.keys = {} /\ UNCHANGED conf
           \/ \E k \in job.keys : /\ Stays(plan) /\ job'.keys = job.keys \ {k}
                                  /\ k \in Key
                                  /\ conf' = [conf EXCEPT ![s][k] = NoRows[k]]
    BY <1>1, <1>7, ClearDoes
  <2>2. CASE Simple(plan) /\ job.keys = {} /\ UNCHANGED conf
    <3>1. /\ UNCHANGED <<used, cut, panel>> /\ Follows(job'.todo, plan) /\ StepsLeft' = 2
          /\ job'.s = job.s /\ NoDeal'
      BY <1>0, <1>1, <1>7, <2>2 DEF Simple, Goes
    <3>2. ASSUME ~cut PROVE EndMap(s)'
      <4>1. OthersStay(s)'
        BY <1>4, <2>1, <2>2, <3>2, OthersAreKept
      <4>2. \A h \in Group : session'[h] # s
        BY <1>4, <1>7, <2>1, <3>2
      <4>3. conf'[s] = NoRows
        BY <1>2, <1>4, <1>7, <2>2, <3>2, Emptied
      <4> QED BY <1>4, <3>1, <3>2, <4>1, <4>2, <4>3 DEF EndMap
    <3> QED BY <1>3, <3>1, <3>2
  <2>3. ASSUME NEW k \in Key, Stays(plan), job'.keys = job.keys \ {k},
               conf' = [conf EXCEPT ![s][k] = NoRows[k]]
        PROVE  JobInv'
    <3>1. /\ UNCHANGED <<used, cut, panel>> /\ Follows(job'.todo, plan) /\ StepsLeft' = 3
          /\ job'.s = job.s /\ NoDeal'
      BY <1>0, <1>1, <1>7, <2>3 DEF Stays
    <3>2. ASSUME ~cut PROVE EndMap(s)'
      <4>1. OthersStay(s)'
        BY <1>2, <1>4, <2>1, <2>3, <3>2, OthersAreKept
      <4>2. \A h \in Group : session'[h] # s
        BY <1>4, <1>7, <2>1, <3>2
      <4>3. job'.keys = RowsOf(s)'
        BY <1>2, <1>4, <1>7, <2>3, <3>2, RowsLeft
      <4> QED BY <1>4, <3>1, <3>2, <4>1, <4>2, <4>3 DEF EndMap
    <3> QED BY <1>3, <3>1, <3>2
  <2> QED BY <2>1, <2>2, <2>3
<1>8. CASE n = 2 /\ Head(job.todo) = [op |-> "index"]
  <2>1. Goes(plan, job.seen, job.keys, index) /\ UNCHANGED stored
    BY <1>1, <1>8, IndexDoes
  <2>2. /\ UNCHANGED <<used, cut, panel, conf, session, index>> /\ Follows(job'.todo, plan)
        /\ StepsLeft' = 1 /\ job'.s = job.s /\ job'.index = index /\ NoDeal'
    BY <1>0, <1>1, <1>8, <2>1 DEF Goes, stored
  <2>3. ASSUME ~cut PROVE EndMap(s)'
    <3>1. OthersStay(s)'
      BY <1>4, <2>2, <2>3, OthersAreKept
    <3> QED BY <1>4, <1>8, <2>2, <2>3, <3>1 DEF EndMap
  <2> QED BY <1>3, <2>2, <2>3
<1>9. CASE n = 1 /\ Head(job.todo) = [op |-> "drop", at |-> s]
  <2>1. Simple(plan) /\ UNCHANGED <<session, conf>> /\ index' = job.index \ {s}
    BY <1>1, <1>9, WriteIndexDoes
  <2>2. UNCHANGED <<used, cut>> /\ job' = NoJob
    BY <1>0, <1>9, <2>1 DEF Simple, Goes
  <2>3. ASSUME ~cut PROVE Settled'
    <3>1. /\ OthersStay(s) /\ conf[s] = NoRows /\ job.index = index /\ \A h \in Group : session[h] # s
      BY <1>4, <1>9, <2>3
    <3>2. ~conf[s].name /\ conf[s].areas = {}
      BY <3>1, NoRowsAreRows
    <3>3. s \notin Named
      BY <3>2 DEF Named
    <3>4. index' = Named' /\ Coded'
      BY <2>1, <3>1, <3>3 DEF OthersStay, Named, Coded
    <3>5. ASSUME NEW h \in Group PROVE Placed(h)
      BY <1>2, <3>1, <3>2 DEF OthersStay, Placed
    <3> QED BY <2>1, <3>4, <3>5 DEF Settled, Placed
  <2> QED BY <2>2, <2>3 DEF JobInv
<1> QED BY <1>0, <1>1, <1>5, <1>6, <1>7, <1>8, <1>9 DEF OverHead

LEMMA UnlistedStep == ASSUME SharedInv, CommandStep, NEW s \in Exist, Unlisted(s) PROVE JobInv'
<1> DEFINE plan == UnlistedPlan(s)
<1>1. Follows(job.todo, plan) /\ Len(plan) \in Nat /\ NoDeal /\ cut
  BY DEF Unlisted, UnlistedPlan
<1>2. \/ Head(job.todo) = [op |-> "release"] \/ Head(job.todo) = [op |-> "list", at |-> s]
      \/ Head(job.todo) = [op |-> "clear", at |-> s]
  BY <1>1, UnlistedHeads
<1> HIDE DEF plan
<1>3. OnPlan(plan) \/ Stays(plan)
  BY <1>1, <1>2, OverIsOnPlan
<1>4. /\ UNCHANGED <<used, cut>> /\ NoDeal'
      /\ job' = NoJob \/ Follows(job'.todo, plan)
  <2>1. CASE Stays(plan)
    BY <1>1, <2>1 DEF Stays
  <2>2. CASE OnPlan(plan)
    <3>1. StepsLeft \in 1..Len(plan)
      BY <1>1, <2>2, OnPlanIs
    <3>2. StepsLeft = 1 \/ StepsLeft > 1
      BY <1>1, <3>1
    <3> QED BY <1>1, <2>2, <3>2, OnPlanIs
  <2> QED BY <1>3, <2>1, <2>2
<1>5. CASE job' = NoJob
  BY <1>1, <1>4, <1>5 DEF JobInv
<1>6. CASE Follows(job'.todo, plan)
  <2>1. Unlisted(s)'
    BY <1>1, <1>4, <1>6 DEF Unlisted, plan
  <2> QED BY <1>4, <2>1 DEF JobInv, Exist
<1> QED BY <1>4, <1>5, <1>6

LEMMA ClearingStep == ASSUME SharedInv, CommandStep, Clearing PROVE JobInv'
<1>0. PICK g : g = job.g
  OBVIOUS
<1> DEFINE plan == ClearPlan(g)
<1>1. Follows(job.todo, plan) /\ Len(plan) \in Nat /\ NoDeal /\ (~cut => Settled)
  BY <1>0 DEF Clearing, ClearPlan
<1>2. \/ StepsLeft = 2 /\ Head(job.todo) = [op |-> "list", at |-> g]
      \/ StepsLeft = 1 /\ Head(job.todo) = [op |-> "clear", at |-> g]
  BY <1>1, ClearHeads
<1>3. g \in Group /\ g \notin Session /\ Session \subseteq Scope
  <2>1. g \in Group
    BY <1>0, BaseHas DEF Job
  <2> QED BY <2>1, Scopes DEF SharedInv
<1> HIDE DEF plan
<1>4. /\ UNCHANGED <<used, cut, session, index>> /\ NoDeal'
      /\ job' = NoJob \/ (Follows(job'.todo, plan) /\ job'.g = g)
      /\ \A x \in Session : conf'[x] = conf[x]
  <2>1. CASE StepsLeft = 2 /\ Head(job.todo) = [op |-> "list", at |-> g]
    <3>1. Goes(plan, job.seen, RowsOf(g), job.index) /\ UNCHANGED stored
      BY <1>1, <1>3, <2>1, ListDoes
    <3> QED BY <1>0, <1>1, <2>1, <3>1 DEF Goes, stored
  <2>2. CASE StepsLeft = 1 /\ Head(job.todo) = [op |-> "clear", at |-> g]
    <3>1. /\ UNCHANGED <<session, index>>
          /\ \/ Simple(plan) /\ UNCHANGED conf
             \/ \E k \in job.keys : Stays(plan) /\ Wrote(g, k, NoRows)
      BY <1>1, <1>3, <2>2, ClearDoes
    <3>2. CASE Simple(plan) /\ UNCHANGED conf
      BY <1>0, <1>1, <2>2, <3>1, <3>2 DEF Simple, Goes
    <3>3. ASSUME NEW k, Stays(plan), Wrote(g, k, NoRows)
          PROVE  /\ UNCHANGED <<used, cut>> /\ NoDeal' /\ Follows(job'.todo, plan) /\ job'.g = g
                 /\ \A x \in Session : conf'[x] = conf[x]
      BY <1>0, <1>1, <1>3, <3>3 DEF Stays, Wrote
    <3> QED BY <3>1, <3>2, <3>3
  <2> QED BY <1>2, <2>1, <2>2
<1>5. ~cut' => Settled'
  BY <1>1, <1>4, AllKept DEF SameNames
<1>6. CASE job' = NoJob
  BY <1>5, <1>6 DEF JobInv
<1>7. CASE Follows(job'.todo, plan) /\ job'.g = g
  <2>1. Clearing'
    BY <1>4, <1>5, <1>7 DEF Clearing, plan
  <2> QED BY <2>1 DEF JobInv
<1> QED BY <1>4, <1>6, <1>7

LEMMA PuttingStep == ASSUME SharedInv, CommandStep, Putting PROVE JobInv'
<1>1. PICK k, v : /\ k \in {"closed", "gms"} /\ Follows(job.todo, <<Put(None, k, v)>>)
                  /\ StepFits(Put(None, k, v))
  BY PutFits DEF Putting
<1> DEFINE plan == <<Put(None, k, v)>>
<1>2. StepsLeft = 1 /\ Head(job.todo) = Put(None, k, v) /\ Len(plan) \in Nat
  BY <1>1, OneHead
<1> HIDE DEF plan
<1>3. /\ Simple(plan) /\ UNCHANGED <<session, index>>
      /\ Wrote(At, k, [NoRows EXCEPT ![k] = v])
  BY <1>1, <1>2, PutDoes DEF plan
<1>4. job' = NoJob /\ UNCHANGED cut
  BY <1>2, <1>3 DEF Simple, Goes
<1>5. Session \subseteq Scope
  BY Scopes DEF SharedInv
<1>6. SameNames /\ \A x \in Session : conf'[x].areas = conf[x].areas
  <2>1. k # "areas" /\ k # "name" /\ k # "code"
    BY <1>1
  <2> QED BY <1>3, <1>5, <2>1 DEF Wrote, SameNames
<1>7. ~cut => Settled'
  BY <1>3, <1>6, AllKept DEF Putting
<1> QED BY <1>4, <1>7 DEF JobInv

LEMMA DeckingStep == ASSUME SharedInv, JobInv, CommandStep, Decking PROVE JobInv'
<1>1. /\ StepsLeft \in Nat /\ StepsLeft >= 1 /\ job.todo # <<>> /\ job.todo \in Seq(Step)
      /\ Head(job.todo) = IF StepsLeft = 1 THEN [op |-> "save"] ELSE [op |-> "draw"]
      /\ job \in Job /\ (~cut => Settled) /\ Session \subseteq Scope
      /\ \A i \in 1..StepsLeft : job.todo[i] = [op |-> IF i = StepsLeft THEN "save" ELSE "draw"]
  BY DeckingHead, BaseHas, Scopes DEF Decking, SharedInv, Job
<1>2. UNCHANGED cut
  BY DEF CommandStep, ReadAreas, WriteAreas, PutRow, ListRows, ClearRows, MapGroup, Release,
         ReadIndex, WriteIndex, DrawCard, Save, SaveFails
<1>3. ASSUME UNCHANGED <<session, index>>, \A x \in Session : /\ conf'[x].areas = conf[x].areas
                                                              /\ conf'[x].name = conf[x].name
                                                              /\ conf'[x].code = conf[x].code
      PROVE  ~cut' => Settled'
  BY <1>1, <1>2, <1>3, AllKept DEF SameNames
<1>4. CASE StepsLeft = 1
  <2>1. Save \/ SaveFails
    BY <1>1, <1>4, StepIs
  <2>2. job' = NoJob /\ UNCHANGED <<session, index>>
    BY <2>1 DEF Save, SaveFails, stored
  <2>3. \A x \in Session : /\ conf'[x].areas = conf[x].areas /\ conf'[x].name = conf[x].name
                           /\ conf'[x].code = conf[x].code
    <3>1. CASE UNCHANGED conf
      BY <3>1
    <3>2. CASE Save
      <4>1. job.g \in Group /\ job.deck \in Deck /\ conf \in [Scope -> Rows]
        BY <1>1, BaseHas DEF Job, ConfOK
      <4>2. ScopeOf(job.g) \in Scope
        BY <4>1, Scopes DEF SharedInv
      <4>3. Wrote(ScopeOf(job.g), "deck", [NoRows EXCEPT !.deck = job.deck])
        BY <3>2, <4>1, <4>2, DeckWritten DEF Save
      <4> QED BY <1>1, <4>3 DEF Wrote
    <3> QED BY <2>1, <3>1, <3>2 DEF SaveFails, stored
  <2> QED BY <1>3, <2>2, <2>3 DEF JobInv
<1>5. CASE StepsLeft # 1
  <2>1. DrawCard
    BY <1>1, <1>5, StepIs
  <2>2. ~cut' => Settled'
    BY <1>3, <2>1 DEF DrawCard, stored
  <2>3. ASSUME job'.todo = Tail(job.todo) PROVE Decking'
    <3>1. /\ Len(Tail(job.todo)) = StepsLeft - 1
          /\ \A i \in 1..Len(Tail(job.todo)) : Tail(job.todo)[i] = job.todo[i + 1]
      BY <1>1, HeadTailProperties DEF StepsLeft
    <3>2. StepsLeft' = StepsLeft - 1
      BY <2>3, <3>1 DEF StepsLeft
    <3>3. ASSUME NEW i \in 1..StepsLeft'
          PROVE  job'.todo[i] = [op |-> IF i = StepsLeft' THEN "save" ELSE "draw"]
      <4>1. i + 1 \in 1..StepsLeft /\ (i + 1 = StepsLeft) = (i = StepsLeft')
        BY <1>1, <3>2
      <4>2. job'.todo[i] = job.todo[i + 1]
        BY <2>3, <3>1, <3>2
      <4> QED BY <1>1, <4>1, <4>2
    <3> QED BY <1>1, <1>5, <2>2, <3>2, <3>3 DEF Decking
  <2>4. CASE job' = IF job.cards = NoCards THEN NoJob ELSE Done(job)
    <3>1. Done(job) = [job EXCEPT !.todo = Tail(job.todo)]
      BY <1>1, <1>5, DoneIs DEF StepsLeft
    <3>2. job' = NoJob \/ job'.todo = Tail(job.todo)
      BY <1>1, <2>4, <3>1 DEF Job
    <3> QED BY <2>2, <2>3, <3>2 DEF JobInv
  <2>5. ASSUME NEW i \in 1..job.deck.size,
               job' = [Done(job) EXCEPT !.deck = Take(@, i), !.cards[job.deck.order[i]] = @ + 1]
        PROVE  JobInv'
    <3>1. job' = [job EXCEPT !.todo = Tail(job.todo), !.deck = Take(job.deck, i),
                             !.cards = [job.cards EXCEPT ![job.deck.order[i]] = @ + 1]]
      BY <2>1, <2>5, Drawing
    <3>2. job'.todo = Tail(job.todo)
      BY <1>1, <3>1 DEF Job
    <3> QED BY <2>3, <3>2 DEF JobInv
  <2> QED BY <2>1, <2>4, <2>5 DEF DrawCard
<1> QED BY <1>4, <1>5

LEMMA JobStep == ASSUME SharedInv, JobInv, CommandStep PROVE JobInv'
<1>1. job # NoJob
  <2>1. job.todo # <<>>
    BY DEF CommandStep, Doing, ReadAreas, WriteAreas, PutRow, ListRows, ClearRows, MapGroup, Release,
           ReadIndex, WriteIndex, DrawCard, Save, SaveFails
  <2> QED BY <2>1, NoJobIsJob
<1> QED BY <1>1, OpeningStep, EndingStep, UnlistedStep, MovingStep, FoundingStep, LeavingStep,
          ClearingStep, PuttingStep, DeckingStep, Zenon DEF JobInv

-----------------------------------------------------------------------------
(* What the panel has read.                                                *)

LEMMA NameRows ==
  ASSUME SharedInv, JobInv, CommandStep, NEW s \in Exist, conf'[s].name
  PROVE  conf[s].name \/ (PutRow /\ Head(job.todo).key = "name" /\ At = s)
<1>1. job.todo # <<>> /\ StepFits(Head(job.todo))
  <2>1. job.todo # <<>>
    BY DEF CommandStep, Doing, ReadAreas, WriteAreas, PutRow, ListRows, ClearRows, MapGroup, Release,
           ReadIndex, WriteIndex, DrawCard, Save, SaveFails
  <2> QED BY <2>1, NoJobIsJob, HeadFits
<1>2. /\ s \in Scope /\ Exist \cup Group \subseteq Scope /\ conf \in [Scope -> Rows] /\ job \in Job
      /\ job.g \in Group /\ ~NoRows.name
  BY BaseHas, Scopes, NoRowsAreRows DEF SharedInv, ConfOK, Job
<1>3. CASE UNCHANGED conf
  BY <1>3
<1>4. CASE WriteAreas
  <2>1. At \in Exist
    BY <1>1, <1>4, AtIs DEF WriteAreas, Doing
  <2>2. job.seen \ {job.g} \in SUBSET Group /\ job.seen \cup {job.g} \in SUBSET Group
    BY <1>2 DEF Job
  <2>3. PICK G \in SUBSET Group : conf' = [conf EXCEPT ![At].areas = G]
    BY <1>4, <2>2 DEF WriteAreas
  <2>4. Wrote(At, "areas", [NoRows EXCEPT !.areas = G])
    BY <1>2, <2>1, <2>3, AreasWritten
  <2> QED BY <1>2, <2>4 DEF Wrote
<1>5. CASE PutRow
  <2> DEFINE st == Head(job.todo)
  <2>1. At \in Exist \cup Group /\ st.key \in Key \ {"deck"} /\ st.rows \in Rows
    BY <1>1, <1>5, AtIs DEF PutRow, Doing
  <2>2. conf' = [conf EXCEPT ![At][st.key] = st.rows[st.key]]
    BY <1>5 DEF PutRow
  <2>3. Wrote(At, st.key, st.rows)
    BY <1>2, <2>1, <2>2, RowWritten
  <2> QED BY <1>2, <1>5, <2>3 DEF Wrote
<1>6. CASE ClearRows
  <2>1. At \in Exist \cup Group
    BY <1>1, <1>6, AtIs DEF ClearRows, Doing
  <2>2. ASSUME NEW k \in job.keys, conf' = [conf EXCEPT ![At][k] = NoRows[k]] PROVE conf[s].name
    <3>1. k \in Key
      BY <1>2 DEF Job
    <3>2. Wrote(At, k, NoRows)
      BY <1>2, <2>1, <2>2, <3>1, NoRowsAreRows, RowWritten
    <3> QED BY <1>2, <3>2 DEF Wrote
  <2> QED BY <1>6, <1>3, <2>2 DEF ClearRows
<1>7. CASE Save
  <2>1. job.deck \in Deck /\ ScopeOf(job.g) \in Scope
    BY <1>2, Scopes DEF Job, SharedInv
  <2>2. Wrote(ScopeOf(job.g), "deck", [NoRows EXCEPT !.deck = job.deck])
    BY <1>2, <1>7, <2>1, DeckWritten DEF Save
  <2> QED BY <1>2, <2>2 DEF Wrote
<1> QED BY <1>3, <1>4, <1>5, <1>6, <1>7
     DEF CommandStep, ReadAreas, ListRows, MapGroup, Release, ReadIndex, WriteIndex, DrawCard,
         SaveFails, stored

LEMMA PanelStays == ASSUME SharedInv, JobInv, PanelInv, CommandStep PROVE PanelInv'
<1>1. UNCHANGED <<panel, cut>>
  BY DEF CommandStep, ReadAreas, WriteAreas, PutRow, ListRows, ClearRows, MapGroup, Release,
         ReadIndex, WriteIndex, DrawCard, Save, SaveFails
<1>2. job # NoJob
  <2>1. job.todo # <<>>
    BY DEF CommandStep, Doing, ReadAreas, WriteAreas, PutRow, ListRows, ClearRows, MapGroup, Release,
           ReadIndex, WriteIndex, DrawCard, Save, SaveFails
  <2> QED BY <2>1, NoJobIsJob
<1>3. ASSUME panel.pc = "commit", conf'[panel.s].name PROVE "name" \in panel.keys
  <2>1. panel.s \in Exist /\ panel.pc # "idle" /\ panel.s \notin Group
    BY <1>3, Scopes DEF SharedInv
  <2>2. conf[panel.s].name
    BY <1>3, <2>1, NameRows, NamesAreNew
  <2> QED BY <1>3, <2>2 DEF PanelInv
<1>4. ~cut => panel.pc = "idle"
  BY <1>2 DEF PanelInv
<1> QED BY <1>1, <1>3, <1>4 DEF PanelInv

LEMMA CommandGoesOn == ASSUME GameInv, CommandStep PROVE GameInv'
BY BaseStep, JobStep, PanelStays, DeckStep DEF GameInv

-----------------------------------------------------------------------------
(* A command starts.                                                       *)

LEMMA BaseIs ==
  ASSUME SharedInv, used' \in 0..MaxSessions, used <= used',
         cmds' \in 0..MaxCmds, requests' \in 0..MaxPanel, crashes' \in 0..MaxCrashes,
         decks' \in 0..MaxCmds, dealt' \in [1..MaxCmds -> [Card -> Nat]],
         cut' \in BOOLEAN, astray' \in BOOLEAN,
         ConfOK', session' \in [Group -> Exist' \cup {None}], index' \subseteq Exist',
         job' \in Job, Injective(job'.deck), job'.index \subseteq Exist',
         panel' \in Request, panel'.index \subseteq Exist', panel'.pc # "idle" => panel'.s \in Exist'
  PROVE  SharedInv'
<1>1. Exist' \subseteq Session
  BY BoundAssumption DEF Exist, Session
<1>2. GameTypeOK'
  <2>1. session' \in [Group -> Session \cup {None}] /\ index' \subseteq 1..used'
    BY <1>1 DEF Exist
  <2>2. /\ conf' \in [Scope -> Rows]
        /\ \A x \in Scope, i, j \in Card : conf'[x].deck.order[i] = conf'[x].deck.order[j] => i = j
    BY DEF ConfOK, Injective
  <2> QED BY <2>1, <2>2 DEF GameTypeOK
<1> QED BY <1>1, <1>2 DEF SharedInv, ConfOK

LEMMA StaysOK == ASSUME SharedInv, UNCHANGED conf, used' \in Nat, used <= used' PROVE ConfOK'
<1>1. Exist \subseteq Exist'
  BY BoundAssumption DEF Exist, SharedInv, GameTypeOK
<1> QED BY <1>1, BaseHas DEF ConfOK

LEMMA Idle == ASSUME SharedInv, JobInv, job = NoJob PROVE ~cut => Settled
<1>1. job.todo = <<>> /\ StepsLeft = 0
  BY NoJobIsJob DEF StepsLeft
<1>2. ASSUME NEW plan, Follows(job.todo, plan) PROVE FALSE
  BY <1>1, <1>2 DEF Follows, StepsLeft
<1>3. ~Decking
  BY <1>1 DEF Decking
<1>4. ~Leaving /\ ~Clearing
  BY <1>2 DEF Leaving, Clearing
<1>5. ~Putting
  BY <1>2 DEF Putting
<1>6. \A s \in Exist : /\ ~Opening(s) /\ ~Ending(s) /\ ~Unlisted(s)
                       /\ \A u \in User : ~Moving(s, u) /\ ~Founding(s, u)
  BY <1>2 DEF Opening, Ending, Unlisted, Moving, Founding
<1> QED BY <1>3, <1>4, <1>5, <1>6 DEF JobInv

LEMMA Begun ==
  ASSUME GameInv, NEW g \in Group, NEW todo \in Seq(Step), NEW seen \in SUBSET Group,
         NEW d \in Deck, Begin(g, todo, seen, d)
  PROVE  /\ job'.g = g /\ job'.s = ScopeOf(g) /\ job'.todo = todo /\ job'.seen = seen
         /\ job'.keys = {} /\ job'.index = {} /\ job'.deck = d /\ job'.cards = NoCards
         /\ job' \in Job /\ (d = NoDeck => NoDeal')
         /\ UNCHANGED <<session, conf, index, panel, astray, dealt>> /\ cmds' = cmds + 1
         /\ cut' \in BOOLEAN /\ (~cut' => ~cut /\ panel.pc = "idle" /\ Settled)
<1>1. NoJob \in Job /\ job = NoJob /\ ScopeOf(g) \in Scope /\ cut \in BOOLEAN
  BY NoJobIsJob, Scopes DEF Begin, GameInv, SharedInv, GameTypeOK
<1>2. job' = [NoJob EXCEPT !.g = g, !.s = ScopeOf(g), !.todo = todo, !.seen = seen, !.deck = d]
  BY DEF Begin
<1>3. /\ job'.g = g /\ job'.s = ScopeOf(g) /\ job'.todo = todo /\ job'.seen = seen
      /\ job'.keys = NoJob.keys /\ job'.index = NoJob.index /\ job'.deck = d
      /\ job'.cards = NoJob.cards /\ job' \in Job
  BY <1>1, <1>2 DEF Job
<1>4. job'.keys = {} /\ job'.index = {} /\ job'.cards = NoCards
  BY <1>3, NoJobIsJob
<1>5. /\ UNCHANGED <<session, conf, index, panel, astray, dealt>> /\ cmds' = cmds + 1
      /\ cut' = (cut \/ panel.pc # "idle")
  BY DEF Begin, stored
<1>6. ~cut => Settled
  BY <1>1, Idle DEF GameInv
<1> QED BY <1>1, <1>3, <1>4, <1>5, <1>6 DEF NoDeal

(* What a command finds, if nothing came between.                          *)
LEMMA BeginKeeps ==
  ASSUME GameInv, NEW g \in Group, NEW todo \in Seq(Step), NEW seen \in SUBSET Group,
         NEW d \in Deck, Begin(g, todo, seen, d), Injective(d),
         used' \in 0..MaxSessions, used <= used', decks' \in {decks, decks + 1},
         \/ d = NoDeck
         \/ d.number = decks + 1 /\ decks' = decks + 1
         \/ d = Here(g).deck /\ Active(g),
         JobInv'
  PROVE  GameInv'
<1>1. /\ job'.g = g /\ job'.deck = d /\ job'.cards = NoCards /\ job'.index = {} /\ job' \in Job
      /\ UNCHANGED <<session, conf, index, panel, astray, dealt>> /\ cmds' = cmds + 1
      /\ cut' \in BOOLEAN /\ (~cut' => ~cut /\ panel.pc = "idle")
  BY Begun
<1>2. /\ cmds \in 0..MaxCmds /\ cmds < MaxCmds /\ UNCHANGED <<requests, crashes>> /\ decks \in Nat
      /\ decks <= cmds /\ MaxCmds \in Nat /\ used \in Nat /\ used' \in Nat
  BY BoundAssumption DEF Begin, GameInv, SharedInv, GameTypeOK, DeckInv
<1>3. cmds' \in 0..MaxCmds /\ decks' \in 0..MaxCmds /\ decks' <= cmds' /\ decks <= decks'
      /\ decks' \in Nat
  BY <1>1, <1>2
<1>4. Exist \subseteq Exist'
  BY <1>2 DEF Exist
<1>5. SharedInv'
  <2>1. ConfOK'
    BY <1>1, <1>2, StaysOK DEF GameInv
  <2>2. session' \in [Group -> Exist' \cup {None}] /\ index' \subseteq Exist'
    BY <1>1, <1>4, BaseHas DEF GameInv
  <2>3. /\ panel' \in Request /\ panel'.index \subseteq Exist'
        /\ panel'.pc # "idle" => panel'.s \in Exist'
    BY <1>1, <1>4 DEF GameInv, SharedInv, GameTypeOK
  <2>4. dealt' \in [1..MaxCmds -> [Card -> Nat]] /\ astray' \in BOOLEAN
    BY <1>1 DEF GameInv, SharedInv, GameTypeOK
  <2>5. requests' \in 0..MaxPanel /\ crashes' \in 0..MaxCrashes
    BY <1>2 DEF GameInv, SharedInv, GameTypeOK
  <2> QED BY <1>1, <1>3, <2>1, <2>2, <2>3, <2>4, <2>5, BaseIs DEF GameInv
<1>6. PanelInv'
  BY <1>1 DEF GameInv, PanelInv
<1>7. DeckInv'
  <2>1. /\ \A x \in Scope : Whole(conf[x].deck) /\ conf[x].deck \in Deck
        /\ \A n \in 1..MaxCmds : n > decks => dealt[n] = NoCards
        /\ ~astray =>
           /\ \A n \in 1..MaxCmds, c \in Card : dealt[n][c] <= 1
           /\ \A x, y \in Scope : x # y /\ conf[x].deck.number # 0
                  /\ conf[x].deck.number = conf[y].deck.number => Dead(x) \/ Dead(y)
           /\ \A x \in Scope : ~Dead(x) => Undealt(conf[x].deck)
    BY DEF GameInv, DeckInv, SharedInv, GameTypeOK, Rows
  <2>2. \A x : Dead(x) => Dead(x)'
    BY <1>1, <1>4 DEF Dead
  <2>3. /\ \A e : Undealt(e)' <=> Undealt(e)
        /\ \A e \in Deck : Whole(e) => Whole(e)'
    <3>1. \A e : Undealt(e)' <=> Undealt(e)
      BY <1>1 DEF Undealt
    <3>2. \A e \in Deck : e.number \in Nat
      BY <1>2 DEF Deck
    <3>3. \A e \in Deck : Whole(e) => Whole(e)'
      BY <1>2, <1>3, <3>2 DEF Whole
    <3> QED BY <3>1, <3>3
  <2>4. Here(g) = conf[ScopeOf(g)] /\ ScopeOf(g) \in Scope /\ ScopeOf(g)' = ScopeOf(g)
    BY <1>1, Scopes DEF Here, ScopeOf, GameInv, SharedInv
  <2>5. Whole(d)' /\ (d # NoDeck => d.number # 0)
    <3>1. CASE d = NoDeck
      BY <1>3, <3>1, NoDeckIsDeck DEF Whole
    <3>2. CASE d.number = decks + 1 /\ decks' = decks + 1
      BY <1>2, <3>2 DEF Whole
    <3>3. CASE d = Here(g).deck
      <4>1. Whole(d)
        BY <2>1, <2>4, <3>3
      <4> QED BY <2>3, <4>1 DEF Whole
    <3> QED BY <3>1, <3>2, <3>3
  <2>6. ASSUME NEW n \in 1..MaxCmds, n > decks' PROVE dealt'[n] = NoCards
    BY <1>1, <1>2, <1>3, <2>1, <2>6
  <2>7. ASSUME ~astray, d # NoDeck
        PROVE  /\ Undealt(d)
               /\ \A y \in Scope : y # ScopeOf(g) /\ conf[y].deck.number = d.number => Dead(y)
    <3>1. CASE d.number = decks + 1
      <4>1. decks + 1 \in 1..MaxCmds /\ decks + 1 > decks
        BY <1>2
      <4>2. dealt[d.number] = NoCards
        BY <2>1, <3>1, <4>1
      <4>3. d.order \in [Card -> Card] /\ \A i \in 1..d.size : i \in Card
        <5>1. d.order \in [Card -> Card] /\ d.size \in 0..NCards /\ NCards \in Nat
          BY BoundAssumption DEF Deck
        <5> QED BY <5>1 DEF Card
      <4>4. Undealt(d)
        BY <4>2, <4>3 DEF Undealt, NoCards
      <4>5. ASSUME NEW y \in Scope PROVE conf[y].deck.number # d.number
        <5>1. conf[y].deck.number <= decks /\ conf[y].deck.number \in Nat
          BY <1>2, <2>1 DEF Whole, Deck
        <5> QED BY <1>2, <3>1, <5>1
      <4> QED BY <4>4, <4>5
    <3>2. CASE d = Here(g).deck /\ Active(g)
      <4>1. ~Dead(ScopeOf(g))
        BY <2>4, <3>2 DEF Active, Exists, Dead
      <4>2. d = conf[ScopeOf(g)].deck /\ d.number # 0
        BY <2>4, <2>5, <2>7, <3>2
      <4> QED BY <2>1, <2>4, <2>7, <4>1, <4>2
    <3> QED BY <2>7, <3>1, <3>2
  <2>8. ASSUME ~astray PROVE DrawnInv'
    <3>1. CASE d = NoDeck
      BY <1>1, <3>1 DEF DrawnInv
    <3>2. CASE d # NoDeck
      <4>1. \A i \in 1..d.size : d.order[i] \in Card
        <5>1. d.order \in [Card -> Card] /\ d.size \in 0..NCards /\ NCards \in Nat
          BY BoundAssumption DEF Deck
        <5> QED BY <5>1 DEF Card
      <4>2. /\ \A c \in Card : NoCards[c] = 0
            /\ Undealt(d)' /\ \A y \in Scope : y # ScopeOf(g) /\ conf[y].deck.number = d.number => Dead(y)'
        BY <2>2, <2>3, <2>7, <2>8, <3>2 DEF NoCards
      <4>3. /\ \A i \in 1..d.size : NoCards[d.order[i]] = 0
            /\ \A c \in Card : NoCards[c] <= 1 /\ ~(NoCards[c] = 1)
        BY <4>1, <4>2
      <4> QED BY <1>1, <2>4, <4>2, <4>3 DEF DrawnInv
    <3> QED BY <3>1, <3>2
  <2>9. /\ \A x \in Scope : Whole(conf[x].deck)'
        /\ Whole(job.deck)' /\ (job'.deck = NoDeck => job'.cards = NoCards)
    BY <1>1, <2>1, <2>3, <2>5
  <2>10. ASSUME ~astray'
         PROVE  /\ \A n \in 1..MaxCmds, c \in Card : dealt'[n][c] <= 1
                /\ \A x, y \in Scope : x # y /\ conf'[x].deck.number # 0
                      /\ conf'[x].deck.number = conf'[y].deck.number => Dead(x)' \/ Dead(y)'
                /\ \A x \in Scope : ~Dead(x)' => Undealt(conf[x].deck)'
    BY <1>1, <2>1, <2>2, <2>3, <2>10
  <2> QED BY <1>1, <1>3, <2>6, <2>8, <2>9, <2>10 DEF DeckInv
<1> QED BY <1>5, <1>6, <1>7 DEF GameInv

LEMMA Found ==
  ASSUME GameInv, NEW g \in Group
  PROVE  /\ session[g] = None \/ session[g] \in Exist
         /\ None \notin Session /\ Exist \subseteq Session /\ Session \subseteq Scope
         /\ ScopeOf(g) = IF session[g] = None THEN g ELSE session[g]
         /\ ScopeOf(g) \in Scope /\ conf \in [Scope -> Rows] /\ Here(g) = conf[ScopeOf(g)]
         /\ Here(g).gms \in SUBSET User /\ used \in 0..MaxSessions /\ decks \in Nat
         /\ used <= used /\ Injective(NoDeck) /\ NoDeck \in Deck /\ {} \in SUBSET Group
         /\ \A s \in Session \ Exist : conf[s] = NoRows
<1>1. ConfOK /\ ScopeOf(g) \in Scope
  BY BaseHas, Scopes DEF GameInv, SharedInv
<1>2. conf \in [Scope -> Rows] /\ Here(g) = conf[ScopeOf(g)]
  BY <1>1 DEF ConfOK, Here
<1>3. Here(g).gms \in SUBSET User
  BY <1>1, <1>2 DEF Rows
<1>4. used \in 0..MaxSessions /\ used <= used /\ decks \in Nat
  BY BoundAssumption DEF GameInv, SharedInv, GameTypeOK
<1>5. /\ session[g] = None \/ session[g] \in Exist
      /\ Exist \subseteq Session /\ Session \subseteq Scope /\ None \notin Session
  BY Scopes DEF GameInv, SharedInv
<1> QED BY <1>1, <1>2, <1>3, <1>4, <1>5, NoDeckIsInjective, NoDeckIsDeck DEF ScopeOf, GameInv, SharedInv

(* .game master, exit and close change one row of the scope.               *)
LEMMA PutStarts ==
  ASSUME GameInv, NEW g \in Group, NEW k, NEW v, Simply(g, <<Put(None, k, v)>>),
         (k = "closed" /\ v = TRUE) \/ (k = "gms" /\ v \in SUBSET User)
  PROVE  GameInv'
<1> DEFINE st == Put(None, k, v)
<1>1. st \in Step
  BY PutKinds
<1> HIDE DEF st
<1>2. <<st>> \in Seq(Step) /\ Len(<<st>>) = 1 /\ <<st>>[1] = st
  BY <1>1
<1>3. /\ Begin(g, <<st>>, {}, NoDeck) /\ UNCHANGED <<used, decks>> /\ {} \in SUBSET Group
      /\ NoDeck \in Deck
  BY Found DEF Simply, st
<1>4. job'.todo = <<st>> /\ NoDeal' /\ (~cut' => Settled) /\ UNCHANGED <<session, conf, index>>
  BY <1>2, <1>3, Begun
<1>5. Follows(job'.todo, <<st>>)
  BY <1>2, <1>4 DEF Follows
<1>6. ~cut' => Settled'
  BY <1>4 DEF Settled, Named, Coded, Placed
<1>7. Putting'
  BY <1>4, <1>5, <1>6 DEF Putting, st
<1> QED BY <1>2, <1>3, <1>7, BeginKeeps, Found DEF JobInv

LEMMA LeavePlanned ==
  ASSUME NEW t \in Session
  PROVE  Follows(Detach(t), LeavePlan(t)) /\ Detach(t) \in Seq(Step) /\ Len(Detach(t)) = 3
<1>1. Detach(t) \in Seq(Step) /\ Len(Detach(t)) = 3 /\ Len(LeavePlan(t)) = 3
  BY Pieces DEF LeavePlan
<1>2. /\ Detach(t)[1] = LeavePlan(t)[3] /\ Detach(t)[2] = LeavePlan(t)[2]
      /\ Detach(t)[3] = LeavePlan(t)[1]
  BY DEF Detach, LeavePlan
<1>3. ASSUME NEW i \in 1..3 PROVE Detach(t)[i] = LeavePlan(t)[3 - i + 1]
  <2>1. (i = 1 /\ 3 - i + 1 = 3) \/ (i = 2 /\ 3 - i + 1 = 2) \/ (i = 3 /\ 3 - i + 1 = 1)
    OBVIOUS
  <2> QED BY ONLY <1>2, <2>1
<1> QED BY <1>1, <1>3 DEF Follows

LEMMA LeaveStarts ==
  ASSUME GameInv, NEW g \in Group, session[g] # None, Simply(g, Leave(g))
  PROVE  GameInv'
<1>1. PICK t \in Exist : t = session[g] /\ ScopeOf(g) = t /\ t \in Session
  BY Found
<1>2. /\ Leave(g) = Detach(t) /\ Detach(t) \in Seq(Step) /\ Len(Detach(t)) = 3
      /\ Follows(Detach(t), LeavePlan(t))
  BY <1>1, LeavePlanned DEF Leave
<1>3. /\ Begin(g, Detach(t), {}, NoDeck) /\ UNCHANGED <<used, decks>> /\ {} \in SUBSET Group
      /\ NoDeck \in Deck
  BY <1>2, Found DEF Simply
<1>4. /\ job'.g = g /\ job'.s = t /\ job'.todo = Detach(t) /\ NoDeal' /\ (~cut' => Settled)
      /\ UNCHANGED <<session, conf, index>> /\ Exist' = Exist
  BY <1>1, <1>2, <1>3, Begun DEF Exist
<1>5. StepsLeft' = 3
  BY <1>2, <1>4 DEF StepsLeft
<1>6. ASSUME ~cut' PROVE index' = Named' /\ Coded' /\ Others' /\ LeaveAt(job.s, StepsLeft)'
  <2>1. Settled /\ Placed(g) /\ conf[t].name
    BY <1>1, <1>4, <1>6, Found DEF Settled, Placed
  <2>2. index' = Named' /\ Coded' /\ Others'
    BY <1>4, <2>1 DEF Settled, Named, Coded, Others, Placed
  <2>3. LeaveAt(job.s, StepsLeft)'
    BY <1>1, <1>4, <1>5, <2>1 DEF LeaveAt, Placed
  <2> QED BY <2>2, <2>3
<1>7. Leaving'
  BY <1>2, <1>4, <1>6 DEF Leaving
<1> QED BY <1>2, <1>3, <1>7, BeginKeeps, Found DEF JobInv

LEMMA ClearStarts ==
  ASSUME GameInv, NEW g \in Group, Simply(g, Clear(g))
  PROVE  GameInv'
<1>1. /\ Clear(g) \in Seq(Step) /\ Len(Clear(g)) = 2 /\ Len(ClearPlan(g)) = 2
      /\ Clear(g)[1] = ClearPlan(g)[2] /\ Clear(g)[2] = ClearPlan(g)[1]
  <2>1. 1 \in Session /\ g \in Scope
    BY BoundAssumption, Scopes DEF Session, GameInv, SharedInv
  <2>2. Clear(g) \in Seq(Step) /\ Len(Clear(g)) = 2
    BY <2>1, Pieces
  <2>3. Len(ClearPlan(g)) = 2 /\ Clear(g)[1] = ClearPlan(g)[2] /\ Clear(g)[2] = ClearPlan(g)[1]
    BY DEF Clear, ClearPlan
  <2> QED BY <2>2, <2>3
<1>2. Follows(Clear(g), ClearPlan(g))
  <2>1. ASSUME NEW i \in 1..2 PROVE Clear(g)[i] = ClearPlan(g)[2 - i + 1]
    <3>1. (i = 1 /\ 2 - i + 1 = 2) \/ (i = 2 /\ 2 - i + 1 = 1)
      OBVIOUS
    <3> QED BY ONLY <1>1, <3>1
  <2> QED BY <1>1, <2>1 DEF Follows
<1>3. /\ Begin(g, Clear(g), {}, NoDeck) /\ UNCHANGED <<used, decks>> /\ {} \in SUBSET Group
      /\ NoDeck \in Deck
  BY Found DEF Simply
<1>4. /\ job'.g = g /\ job'.todo = Clear(g) /\ NoDeal' /\ (~cut' => Settled)
      /\ UNCHANGED <<session, conf, index>>
  BY <1>1, <1>3, Begun
<1>5. ~cut' => Settled'
  BY <1>4 DEF Settled, Named, Coded, Placed
<1>6. Clearing'
  BY <1>2, <1>4, <1>5 DEF Clearing
<1> QED BY <1>1, <1>3, <1>6, BeginKeeps, Found DEF JobInv

LEMMA OpenKeeps == ASSUME GameInv, NEW u \in User, NEW g \in Group, Open(u, g) PROVE GameInv'
<1>1. PICK s \in index \cup ({session[g]} \ {None}) :
        conf[s].name /\ Simply(g, Leave(g) \o Attach(s))
  BY DEF Open
<1>2. s \in Exist /\ s \in Session
  BY <1>1, Found, BaseHas DEF GameInv
<1>3. PICK t, todo : t = ScopeOf(g) /\ todo = Leave(g) \o Attach(s)
  OBVIOUS
<1>4. /\ session[g] # None => t = session[g] /\ t \in Exist /\ t \in Session
      /\ todo \in Seq(Step) /\ Follows(todo, OpenPlan(s, t))
      /\ Len(todo) = IF session[g] = None THEN 3 ELSE 6
  <2>1. CASE session[g] = None
    BY <1>2, <1>3, <2>1, OpenStarts DEF Leave
  <2>2. CASE session[g] # None
    <3>1. t = session[g] /\ t \in Exist /\ t \in Session
      BY <1>3, <2>2, Found
    <3>2. todo = Detach(t) \o Attach(s)
      BY <1>3, <2>2, <3>1 DEF Leave
    <3> QED BY <1>2, <2>2, <3>1, <3>2, OpenStarts
  <2> QED BY <2>1, <2>2
<1>5. /\ Begin(g, todo, {}, NoDeck) /\ UNCHANGED <<used, decks>> /\ {} \in SUBSET Group
      /\ NoDeck \in Deck
  BY <1>1, <1>3, Found DEF Simply
<1>6. /\ job'.g = g /\ job'.s = t /\ job'.todo = todo /\ NoDeal' /\ (~cut' => Settled)
      /\ UNCHANGED <<session, conf, index>> /\ Exist' = Exist
  BY <1>3, <1>4, <1>5, Begun DEF Exist
<1>7. StepsLeft' = IF session[g] = None THEN 3 ELSE 6
  BY <1>4, <1>6 DEF StepsLeft
<1>8. ASSUME ~cut' PROVE OpenMap(s)'
  <2>1. Settled /\ Placed(g)
    BY <1>6, <1>8 DEF Settled
  <2>2. index' = Named' /\ Coded' /\ Others' /\ conf'[s].name
    BY <1>1, <1>6, <2>1 DEF Settled, Named, Coded, Others, Placed
  <2>3. CASE session[g] = None
    <3>1. StepsLeft' = 3 /\ ~(StepsLeft' > 3) /\ ~(StepsLeft' = 1)
      BY <1>7, <2>3
    <3>2. AttachAt(s, StepsLeft)'
      BY <1>6, <2>1, <2>3, <3>1, Found DEF AttachAt, Nowhere, Placed
    <3> QED BY <2>2, <3>1, <3>2 DEF OpenMap
  <2>4. CASE session[g] # None
    <3>1. StepsLeft' = 6 /\ StepsLeft' - 3 = 3 /\ ~(StepsLeft' <= 3)
      BY <1>7, <2>4
    <3>2. /\ session'[job'.g] = job'.s /\ conf'[job'.s].name /\ Placed(job.g)'
      BY <1>4, <1>6, <2>1, <2>4 DEF Placed
    <3>3. LeaveAt(job.s, StepsLeft - 3)'
      BY <3>1, <3>2 DEF LeaveAt
    <3> QED BY <2>2, <3>1, <3>3 DEF OpenMap
  <2> QED BY <2>3, <2>4
<1>9. StepsLeft' > 3 => job'.s \in Exist'
  BY <1>4, <1>6, <1>7
<1>10. Opening(s)'
  BY <1>4, <1>6, <1>8, <1>9 DEF Opening
<1> QED BY <1>2, <1>4, <1>5, <1>6, <1>10, BeginKeeps, Found DEF JobInv

LEMMA OverKeeps == ASSUME GameInv, NEW u \in User, NEW g \in Group, Over(u, g) PROVE GameInv'
<1>0. Exists(g) /\ Here(g).name
  BY DEF Over, Exists
<1>1. CASE session[g] = None
  BY <1>1, ClearStarts DEF Over
<1>2. CASE session[g] # None
  <2>1. PICK s \in Exist : s = session[g] /\ s \in Session /\ ScopeOf(g) = s /\ s \in Scope
    BY <1>2, Found
  <2>2. PICK todo, seen : /\ todo = <<[op |-> "release"]>> \o Clear(s)
                                      \o (IF conf[s].code THEN Drop(s) ELSE <<>>)
                          /\ seen = conf[s].areas
    OBVIOUS
  <2>3. Begin(g, todo, seen, NoDeck) /\ UNCHANGED <<used, decks>>
    BY <1>2, <2>1, <2>2 DEF Over
  <2>4. seen \in SUBSET Group /\ NoDeck \in Deck /\ conf[s].name
    <3>1. conf[s] \in Rows /\ Here(g) = conf[s]
      BY <2>1, Found
    <3> QED BY <1>0, <2>2, <3>1, Found DEF Rows
  <2>5. /\ todo \in Seq(Step)
        /\ conf[s].code => Len(todo) = 5 /\ Follows(todo, OverPlan(s))
        /\ ~conf[s].code => Follows(todo, UnlistedPlan(s))
    BY <2>1, <2>2, OverStarts
  <2>6. /\ job'.g = g /\ job'.s = s /\ job'.todo = todo /\ job'.seen = seen /\ NoDeal'
        /\ (~cut' => Settled) /\ cut' \in BOOLEAN
        /\ UNCHANGED <<session, conf, index>> /\ Exist' = Exist
    BY <2>1, <2>3, <2>4, <2>5, Begun DEF Exist
  <2>7. CASE conf[s].code
    <3>1. StepsLeft' = 5
      BY <2>5, <2>6, <2>7 DEF StepsLeft
    <3>2. ASSUME ~cut' PROVE EndMap(s)'
      <4>1. Settled /\ s \in Named
        BY <2>1, <2>4, <2>6, <3>2 DEF Named
      <4>2. OthersStay(s)
        BY <4>1 DEF OthersStay, Settled, Named, Coded, Placed
      <4>3. OthersStay(s)'
        BY <2>6, <4>2 DEF OthersStay, Named
      <4>4. \A h \in Group : session'[h] = s <=> h \in job'.seen
        BY <2>1, <2>2, <2>6, <4>1 DEF Settled, Placed
      <4> QED BY <2>6, <3>1, <4>3, <4>4 DEF EndMap
    <3>3. Ending(s)'
      BY <2>5, <2>6, <2>7, <3>2 DEF Ending
    <3>4. JobInv'
      BY <2>6, <3>3 DEF JobInv
    <3> QED BY <2>3, <2>4, <2>5, <3>4, BeginKeeps, Found
  <2>8. CASE ~conf[s].code
    <3>1. cut'
      BY <2>1, <2>4, <2>6, <2>8 DEF Settled, Coded, Named
    <3>2. Unlisted(s)'
      BY <2>5, <2>6, <2>8, <3>1 DEF Unlisted
    <3>3. JobInv'
      BY <2>6, <3>2 DEF JobInv
    <3> QED BY <2>3, <2>4, <2>5, <3>3, BeginKeeps, Found
  <2> QED BY <2>7, <2>8
<1> QED BY <1>1, <1>2

LEMMA NewKeeps == ASSUME GameInv, NEW u \in User, NEW g \in Group, New(u, g) PROVE GameInv'
<1>1. PICK s, todo :
        /\ s = used' /\ used' = used + 1 /\ used < MaxSessions /\ UNCHANGED decks
        /\ todo = (IF session[g] = None THEN Clear(g) ELSE Leave(g)) \o Attach(s)
                  \o <<Put(s, "areas", {}), Put(None, "name", TRUE), Put(None, "code", TRUE),
                       Put(None, "gms", {u}), Put(None, "areas", {g})>> \o Enter(s)
        /\ Begin(g, todo, {}, NoDeck)
  BY DEF New
<1>2. /\ used \in Nat /\ used' \in 0..MaxSessions /\ used <= used' /\ s \in Session /\ s \notin Exist
      /\ s \in Exist' /\ Exist \subseteq Exist'
  <2>1. used \in Nat /\ MaxSessions \in Nat
    BY BoundAssumption, Found DEF GameInv
  <2> QED BY <1>1, <2>1 DEF Exist, Session
<1>3. conf[s] = NoRows /\ s \notin index /\ s \notin panel.index /\ (panel.pc # "idle" => panel.s # s)
  <2>1. conf[s] = NoRows
    BY <1>2, Found
  <2>2. index \subseteq Exist /\ panel.index \subseteq Exist /\ (panel.pc # "idle" => panel.s \in Exist)
    BY BaseHas DEF GameInv, SharedInv
  <2> QED BY <1>2, <2>1, <2>2
<1>4. ~conf[s].name /\ conf[s].areas = {} /\ conf[s].deck = NoDeck /\ s \notin Named
  BY <1>3, NoRowsAreRows DEF Named
<1>5. PICK before, t : /\ before = IF session[g] = None THEN Clear(g) ELSE Leave(g)
                       /\ t = ScopeOf(g)
  OBVIOUS
<1>6. /\ session[g] # None => t = session[g] /\ t \in Exist /\ t \in Session /\ before = Detach(t)
      /\ session[g] = None => before = Clear(g)
      /\ before \in Seq(Step)
  <2>1. g \in Scope /\ Group \subseteq Scope
    BY Scopes DEF GameInv, SharedInv
  <2>2. CASE session[g] = None
    BY <1>2, <1>5, <2>1, <2>2, Pieces
  <2>3. CASE session[g] # None
    <3>1. t = session[g] /\ t \in Exist /\ t \in Session
      BY <1>5, <2>3, Found
    <3>2. before = Detach(t)
      BY <1>5, <2>3, <3>1 DEF Leave
    <3> QED BY <2>3, <3>1, <3>2, Pieces
  <2> QED BY <2>2, <2>3
<1>7. /\ todo \in Seq(Step)
      /\ session[g] # None => Len(todo) = 13 /\ Follows(todo, NewPlan(s, g, u, t))
      /\ session[g] = None => Len(todo) = 12 /\ Follows(todo, FirstPlan(s, g, u))
  <2>1. PICK after : after = NewRows(s, g, u)
    OBVIOUS
  <2>2. todo = before \o Attach(s) \o after \o Enter(s)
    BY <1>1, <1>5, <2>1 DEF NewRows
  <2>3. before \in Seq(Step) /\ s \in Session
    BY <1>2, <1>6
  <2>4. todo \in Seq(Step)
    BY <2>1, <2>2, <2>3, NewStarts
  <2>5. ASSUME before = Clear(g) PROVE Len(todo) = 12 /\ Follows(todo, FirstPlan(s, g, u))
    BY <2>1, <2>2, <2>3, <2>5, NewStarts
  <2>6. ASSUME t \in Session, before = Detach(t)
        PROVE  Len(todo) = 13 /\ Follows(todo, NewPlan(s, g, u, t))
    <3>1. s \in Session /\ t \in Session /\ todo = Detach(t) \o Attach(s) \o NewRows(s, g, u) \o Enter(s)
      BY <2>1, <2>2, <2>3, <2>6
    <3> QED BY ONLY <3>1, NewMoves
  <2> QED BY <1>6, <2>4, <2>5, <2>6
<1>8. {} \in SUBSET Group /\ NoDeck \in Deck /\ Injective(NoDeck)
  BY Found
<1>9. /\ job'.g = g /\ job'.s = t /\ job'.todo = todo /\ NoDeal'
      /\ (~cut' => Settled) /\ cut' \in BOOLEAN
      /\ UNCHANGED <<session, conf, index, panel>>
  <2>1. /\ Begin(g, todo, {}, NoDeck) /\ todo \in Seq(Step) /\ t = ScopeOf(g) /\ {} \in SUBSET Group
        /\ NoDeck \in Deck
    BY <1>1, <1>5, <1>7, <1>8
  <2>2. /\ job'.g = g /\ job'.s = ScopeOf(g) /\ job'.todo = todo /\ NoDeal'
        /\ UNCHANGED <<session, conf, index, panel>> /\ cut' \in BOOLEAN /\ (~cut' => Settled)
    BY ONLY GameInv, <2>1, Begun
  <2> QED BY <2>1, <2>2
<1>10. StepsLeft' = IF session[g] = None THEN 12 ELSE 13
  BY <1>7, <1>9 DEF StepsLeft
<1>11. Naming(s)'
  <2>1. ~(StepsLeft' <= 9)
    BY <1>10
  <2> QED BY <1>3, <1>4, <1>9, <2>1 DEF Naming
<1>12. ASSUME ~cut' PROVE MakeMap(s)'
  <2>1. ~(StepsLeft' <= 5) /\ ~(StepsLeft' <= 4) /\ ~(StepsLeft' <= 10) /\ StepsLeft' \notin {7, 2, 1}
        /\ StepsLeft' # 8 /\ StepsLeft' # 1
    BY <1>10
  <2>2. Settled
    BY <1>9, <1>12
  <2>3. Others' /\ index' = Named' \ {s} /\ \A x \in Named' \ {s} : conf'[x].code
    BY <1>4, <1>9, <2>2 DEF Settled, Named, Coded, Others, Placed
  <2>4. conf'[s].name = FALSE /\ conf'[s].areas = {}
    BY <1>3, <1>9 DEF NoRows
  <2>5. conf'[s].name = (StepsLeft' <= 5)
    <3>1. (StepsLeft' <= 5) = FALSE
      BY <2>1
    <3> QED BY <2>4, <3>1
  <2> QED BY <2>1, <2>3, <2>4, <2>5 DEF MakeMap
<1>13. CASE session[g] = None
  <2>1. ~cut' => session'[job'.g] = None /\ Nowhere(job.g)'
    BY <1>9, <1>13, Found DEF Settled, Placed, Nowhere
  <2>2. Follows(job'.todo, FirstPlan(s, job'.g, u))
    BY <1>7, <1>9, <1>13
  <2>3. Founding(s, u)'
    BY <1>1, <1>9, <1>11, <1>12, <2>1, <2>2 DEF Founding
  <2> QED BY <1>1, <1>2, <1>7, <1>8, <2>3, BeginKeeps DEF JobInv
<1>14. CASE session[g] # None
  <2>1. StepsLeft' = 13 /\ StepsLeft' - 10 = 3
    BY <1>10, <1>14
  <2>2. ASSUME ~cut' PROVE job'.s # s /\ LeaveAt(job.s, StepsLeft - 10)'
    <3>1. Placed(g)
      BY <1>9, <2>2 DEF Settled
    <3>2. /\ session'[job'.g] = job'.s /\ conf'[job'.s].name /\ Placed(job.g)'
      BY <1>6, <1>9, <1>14, <3>1 DEF Placed
    <3>3. LeaveAt(job.s, StepsLeft - 10)'
      BY <2>1, <3>2 DEF LeaveAt
    <3> QED BY <1>2, <1>6, <1>9, <1>14, <3>3
  <2>3. job'.s \in Exist'
    BY <1>2, <1>6, <1>9, <1>14
  <2>4. Follows(job'.todo, NewPlan(s, job'.g, u, job'.s))
    BY <1>7, <1>9, <1>14
  <2>5. Moving(s, u)'
    BY <1>1, <1>9, <1>11, <1>12, <2>2, <2>3, <2>4 DEF Moving
  <2> QED BY <1>1, <1>2, <1>7, <1>8, <2>5, BeginKeeps DEF JobInv
<1> QED BY <1>13, <1>14

(* A deck is drawn from, made, refilled or removed.                        *)
LEMMA DeckStarts ==
  ASSUME GameInv, NEW g \in Group, NEW n \in Nat, NEW d \in Deck, Injective(d),
         Begin(g, [i \in 1..(n + 1) |-> [op |-> IF i = n + 1 THEN "save" ELSE "draw"]], {}, d),
         UNCHANGED used, decks' \in {decks, decks + 1},
         \/ d = NoDeck
         \/ d.number = decks + 1 /\ decks' = decks + 1
         \/ d = Here(g).deck /\ Active(g)
  PROVE  GameInv'
<1>1. PICK todo : todo = [i \in 1..(n + 1) |-> [op |-> IF i = n + 1 THEN "save" ELSE "draw"]]
  OBVIOUS
<1>2. todo \in Seq(Step) /\ Len(todo) = n + 1
  <2>1. \A i \in 1..(n + 1) : [op |-> IF i = n + 1 THEN "save" ELSE "draw"] \in Step
    BY StepKinds
  <2> QED BY <1>1, <2>1
<1>3. Begin(g, todo, {}, d) /\ {} \in SUBSET Group
  BY <1>1
<1>4. job'.todo = todo /\ (~cut' => Settled) /\ UNCHANGED <<session, conf, index>>
  BY <1>2, <1>3, Begun
<1>5. StepsLeft' = n + 1 /\ StepsLeft' >= 1
  BY <1>2, <1>4 DEF StepsLeft
<1>6. \A i \in 1..StepsLeft' : job'.todo[i] = [op |-> IF i = StepsLeft' THEN "save" ELSE "draw"]
  BY <1>1, <1>4, <1>5
<1>7. ~cut' => Settled'
  BY <1>4 DEF Settled, Named, Coded, Placed
<1>8. Decking'
  BY <1>5, <1>6, <1>7 DEF Decking
<1>9. JobInv' /\ used' \in 0..MaxSessions /\ used <= used'
  BY <1>8, Found DEF JobInv
<1> QED BY <1>2, <1>3, <1>9, BeginKeeps

LEMMA SetStarts ==
  ASSUME GameInv, NEW g \in Group, NEW d \in Deck, Injective(d), SetDeck(g, d),
         decks' \in {decks, decks + 1}, d = NoDeck \/ (d.number = decks + 1 /\ decks' = decks + 1)
  PROVE  GameInv'
<1>1. <<[op |-> "save"]>> = [i \in 1..(0 + 1) |-> [op |-> IF i = 0 + 1 THEN "save" ELSE "draw"]]
  OBVIOUS
<1>2. Begin(g, [i \in 1..(0 + 1) |-> [op |-> IF i = 0 + 1 THEN "save" ELSE "draw"]], {}, d)
  BY <1>1 DEF SetDeck
<1> QED BY <1>2, DeckStarts DEF SetDeck

LEMMA RefilledIs ==
  ASSUME GameInv, NEW d \in Deck, Injective(d), decks' = decks + 1, cmds < MaxCmds
  PROVE  Refilled(d) \in Deck /\ Injective(Refilled(d)) /\ Refilled(d).number = decks + 1
<1>1. decks + 1 \in 0..MaxCmds /\ NCards \in 0..NCards
  BY BoundAssumption DEF GameInv, SharedInv, GameTypeOK, DeckInv
<1> QED BY <1>1 DEF Refilled, Deck, Injective

LEMMA DeckKeeps ==
  ASSUME GameInv, NEW u \in User, NEW g \in Group,
         MakeDeck(u, g) \/ ResetDeck(u, g) \/ RemoveDeck(u, g) \/ Draw(g)
  PROVE  GameInv'
<1>1. /\ NoDeck \in Deck /\ Injective(NoDeck) /\ Here(g).deck \in Deck /\ Injective(Here(g).deck)
  <2>1. /\ ScopeOf(g) \in Scope /\ conf[ScopeOf(g)] \in Rows /\ Here(g) = conf[ScopeOf(g)]
        /\ NoDeck \in Deck /\ Injective(NoDeck) /\ Injective(conf[ScopeOf(g)].deck)
    BY Found, BaseHas DEF GameInv, ConfOK
  <2> QED BY <2>1 DEF Rows
<1>2. CASE MakeDeck(u, g)
  <2>1. decks' = decks + 1 /\ SetDeck(g, Refilled(NoDeck)) /\ cmds < MaxCmds
    BY <1>2 DEF MakeDeck, SetDeck, Begin
  <2> QED BY <1>1, <2>1, RefilledIs, SetStarts
<1>3. CASE ResetDeck(u, g)
  <2>1. decks' = decks + 1 /\ SetDeck(g, Refilled(Here(g).deck)) /\ cmds < MaxCmds
    BY <1>3 DEF ResetDeck, SetDeck, Begin
  <2> QED BY <1>1, <2>1, RefilledIs, SetStarts
<1>4. CASE RemoveDeck(u, g)
  <2>1. decks' = decks /\ SetDeck(g, NoDeck)
    BY <1>4 DEF RemoveDeck
  <2> QED BY <1>1, <2>1, SetStarts
<1>5. CASE Draw(g)
  <2>1. PICK n \in 1..MaxTimes : Begin(g,
          [i \in 1..(n + 1) |-> [op |-> IF i = n + 1 THEN "save" ELSE "draw"]], {}, Here(g).deck)
    BY <1>5 DEF Draw
  <2>2. n \in Nat /\ Active(g) /\ UNCHANGED used /\ decks' \in {decks, decks + 1}
    BY <1>5, BoundAssumption DEF Draw
  <2> QED BY <1>1, <2>1, <2>2, DeckStarts
<1> QED BY <1>2, <1>3, <1>4, <1>5

LEMMA GameBegins == ASSUME GameInv, NEW u \in User, NEW g \in Group, Command(u, g) PROVE GameInv'
<1>1. CASE Master(u, g)
  <2>1. Simply(g, <<Put(None, "gms", Here(g).gms \cup {u})>>) /\ Here(g).gms \cup {u} \in SUBSET User
    BY <1>1, Found DEF Master
  <2> QED BY <2>1, PutStarts
<1>2. CASE Exit(u, g)
  <2>1. Simply(g, <<Put(None, "gms", Here(g).gms \ {u})>>) /\ Here(g).gms \ {u} \in SUBSET User
    BY <1>2, Found DEF Exit
  <2> QED BY <2>1, PutStarts
<1>3. CASE Close(u, g)
  <2>1. CASE session[g] = None
    <3>1. Simply(g, <<Put(None, "closed", TRUE)>>)
      BY <1>3, <2>1 DEF Close
    <3> QED BY <3>1, PutStarts
  <2>2. CASE session[g] # None
    <3>1. Simply(g, Leave(g))
      BY <1>3, <2>2 DEF Close
    <3> QED BY <2>2, <3>1, LeaveStarts
  <2> QED BY <2>1, <2>2
<1> QED BY <1>1, <1>2, <1>3, NewKeeps, OpenKeeps, OverKeeps, DeckKeeps DEF Command

-----------------------------------------------------------------------------
(* The panel, and a crash.                                                 *)

LEMMA PanelBase ==
  ASSUME GameInv, UNCHANGED <<used, decks, dealt, cmds>>, requests' \in 0..MaxPanel,
         crashes' \in 0..MaxCrashes, cut' \in BOOLEAN, astray' \in BOOLEAN, ConfOK',
         session' \in [Group -> Exist \cup {None}], index' \subseteq Exist,
         job' \in {job, NoJob},
         panel' \in Request, panel'.index \subseteq Exist, panel'.pc # "idle" => panel'.s \in Exist
  PROVE  SharedInv' /\ Exist' = Exist
<1>1. Exist' = Exist /\ used \in 0..MaxSessions /\ used <= used
  BY BoundAssumption DEF GameInv, SharedInv, GameTypeOK, Exist
<1>2. /\ cmds' \in 0..MaxCmds /\ decks' \in 0..MaxCmds
      /\ dealt' \in [1..MaxCmds -> [Card -> Nat]]
  BY DEF GameInv, SharedInv, GameTypeOK
<1>3. job' \in Job /\ Injective(job'.deck) /\ job'.index \subseteq Exist
  BY BaseHas, NoJobIsJob, NoDeckIsInjective DEF GameInv
<1> QED BY <1>1, <1>2, <1>3, BaseIs DEF GameInv

LEMMA NoRequestIs ==
  /\ NoRequest \in Request /\ NoRequest.pc = "idle" /\ NoRequest.index = {}
BY BoundAssumption DEF NoRequest, Request, Session

(* A command is not disturbed by what leaves the rows as they are.         *)
LEMMA JobLasts ==
  ASSUME GameInv, UNCHANGED <<session, conf, index, job, used>>, cut => cut',
         ~cut' => ~cut \/ job = NoJob, panel'.index \subseteq index \cup panel.index,
         panel'.pc # "idle" => panel'.s \in index \/ (panel.pc # "idle" /\ panel'.s = panel.s)
  PROVE  JobInv'
<1>1. CASE job = NoJob
  <2>1. ~cut' => Settled
    BY <1>1, Idle DEF GameInv
  <2>2. ~cut' => Settled'
    BY <2>1 DEF Settled, Named, Coded, Placed
  <2> QED BY <1>1, <2>2 DEF JobInv
<1>2. CASE job # NoJob
  <2>0. /\ ~cut' => ~cut
        /\ Exist' = Exist /\ StepsLeft' = StepsLeft /\ (NoDeal <=> NoDeal')
    BY <1>2 DEF Exist, StepsLeft, NoDeal
  <2>1. Settled <=> Settled'
    BY DEF Settled, Named, Coded, Placed
  <2>2. \A s : Naming(s) => Naming(s)'
    BY <2>0 DEF Naming
  <2>3. \A s : OpenMap(s) => OpenMap(s)'
    BY DEF OpenMap, Named, Coded, Others, Placed, LeaveAt, AttachAt, Nowhere, StepsLeft
  <2>4. \A s : MakeMap(s) => MakeMap(s)'
    BY DEF MakeMap, Named, Others, Placed, StepsLeft
  <2>5. \A s : EndMap(s) => EndMap(s)'
    BY DEF EndMap, OthersStay, Named, StepsLeft, RowsOf
  <2>6. \A t, n : LeaveAt(t, n) => LeaveAt(t, n)'
    BY DEF LeaveAt, Placed, Nowhere
  <2>7. \A s : Opening(s) => Opening(s)'
    BY <2>0, <2>3 DEF Opening
  <2>8. \A s : /\ Ending(s) => Ending(s)'
               /\ Unlisted(s) => Unlisted(s)'
    BY <2>0, <2>5 DEF Ending, Unlisted
  <2>9. \A s, u : Moving(s, u) => Moving(s, u)'
    BY <2>0, <2>2, <2>4, <2>6 DEF Moving
  <2>10. \A s, u : Founding(s, u) => Founding(s, u)'
    BY <2>0, <2>2, <2>4 DEF Founding, Nowhere
  <2>11. Leaving => Leaving'
    BY <2>0, <2>6 DEF Leaving, Named, Coded, Others, Placed
  <2>12. (Clearing => Clearing') /\ (Putting => Putting') /\ (Decking => Decking')
    BY <2>0, <2>1 DEF Clearing, Putting, Decking
  <2> QED BY <1>2, <2>0, <2>7, <2>8, <2>9, <2>10, <2>11, <2>12 DEF JobInv, GameInv
<1> QED BY <1>1, <1>2

LEMMA ReadKeeps ==
  ASSUME GameInv, UNCHANGED <<session, conf, index, job, used, decks, dealt, cmds, astray, crashes>>,
         cut => cut', cut' \in BOOLEAN, ~cut' => ~cut \/ job = NoJob, requests' \in 0..MaxPanel,
         panel' \in Request, panel'.index \subseteq index \cup panel.index,
         panel'.pc # "idle" => panel'.s \in index \/ (panel.pc # "idle" /\ panel'.s = panel.s),
         PanelInv'
  PROVE  GameInv'
<1>1. JobInv'
  BY JobLasts
<1>2. index \subseteq Exist /\ panel.index \subseteq Exist /\ (panel.pc # "idle" => panel.s \in Exist)
  BY BaseHas DEF GameInv, SharedInv
<1>3. ConfOK' /\ session' \in [Group -> Exist \cup {None}]
  BY BaseHas DEF ConfOK, Exist, GameInv
<1>4. crashes' \in 0..MaxCrashes /\ astray' \in BOOLEAN
  BY DEF GameInv, SharedInv, GameTypeOK
<1>5. SharedInv'
  BY <1>2, <1>3, <1>4, PanelBase
<1>6. DeckInv'
  <2>1. ScopeOf(job.g)' = ScopeOf(job.g)
    BY DEF ScopeOf
  <2>2. \A x \in Scope : Dead(x)' <=> Dead(x)
    BY DEF Dead, Exist
  <2> QED BY <2>1, <2>2, DeckFrom DEF GameInv
<1> QED BY <1>1, <1>5, <1>6 DEF GameInv

LEMMA PanelIndexKeeps == ASSUME GameInv, PanelIndex PROVE GameInv'
<1>1. PICK s \in index : panel' = [NoRequest EXCEPT !.pc = "scan", !.s = s, !.index = index]
  BY DEF PanelIndex
<1>2. index \subseteq Session /\ s \in Session
  BY BaseHas, Scopes DEF GameInv, SharedInv
<1>3. /\ panel' \in Request /\ panel'.pc = "scan" /\ panel'.s = s /\ panel'.index = index
  BY <1>1, <1>2, NoRequestIs DEF Request
<1>4. /\ UNCHANGED <<session, conf, index, job, used, decks, dealt, cmds, astray, crashes>>
      /\ cut' = (cut \/ job # NoJob) /\ requests' \in 0..MaxPanel
  <2>1. requests \in 0..MaxPanel /\ MaxPanel \in Nat
    BY BoundAssumption DEF GameInv, SharedInv, GameTypeOK
  <2> QED BY <2>1 DEF PanelIndex, stored
<1>5. cut' \in BOOLEAN
  BY <1>4 DEF GameInv, SharedInv, GameTypeOK
<1>6. PanelInv'
  BY <1>3, <1>4 DEF PanelInv
<1> QED BY <1>3, <1>4, <1>5, <1>6, ReadKeeps

LEMMA PanelScanKeeps == ASSUME GameInv, PanelScan PROVE GameInv'
<1>1. panel.pc = "scan" /\ panel \in Request /\ panel.s \in Exist /\ panel.s \in Session
  BY Scopes DEF GameInv, SharedInv, GameTypeOK, PanelScan
<1>2. PICK G, K : /\ G = {g \in conf[panel.s].areas : session[g] = panel.s} /\ K = RowsOf(panel.s)
                  /\ panel' = [panel EXCEPT !.pc = "commit", !.groups = G, !.keys = K]
  BY DEF PanelScan
<1>3. G \in SUBSET Group /\ K \in SUBSET Key
  <2>1. conf[panel.s] \in Rows
    BY <1>1, BaseHas, Scopes DEF GameInv, SharedInv, ConfOK
  <2> QED BY <1>2, <2>1 DEF Rows, RowsOf
<1>4. /\ panel' \in Request /\ panel'.pc = "commit" /\ panel'.s = panel.s
      /\ panel'.index = panel.index /\ panel'.groups = G /\ panel'.keys = K
  BY <1>1, <1>2, <1>3 DEF Request
<1>5. /\ UNCHANGED <<session, conf, index, job, used, decks, dealt, cmds, astray, crashes, cut, requests>>
      /\ requests \in 0..MaxPanel /\ cut \in BOOLEAN
  BY DEF PanelScan, stored, world, GameInv, SharedInv, GameTypeOK
<1>6. PanelInv'
  <2>1. conf[panel.s].name => "name" \in K
    <3>1. "name" \in Key /\ conf[panel.s].name = conf[panel.s]["name"] /\ ~NoRows["name"]
      BY NoRowsAreRows DEF Key
    <3> QED BY <1>2, <3>1 DEF RowsOf
  <2>2. ASSUME ~cut PROVE job = NoJob /\ panel.index = index /\ G = conf[panel.s].areas
    <3>1. job = NoJob /\ panel.index = index
      BY <1>1, <2>2 DEF GameInv, PanelInv
    <3>2. Settled
      BY <2>2, <3>1, Idle DEF GameInv
    <3>3. conf[panel.s].areas \subseteq Group
      BY <1>1, BaseHas, Scopes DEF GameInv, SharedInv, ConfOK, Rows
    <3>4. \A g \in Group : g \in conf[panel.s].areas <=> session[g] = panel.s
      BY <1>1, <3>2 DEF Settled, Placed
    <3> QED BY <1>2, <3>1, <3>3, <3>4
  <2>3. RowsOf(panel.s)' = K
    BY <1>2, <1>4, <1>5 DEF RowsOf
  <2> QED BY <1>4, <1>5, <2>1, <2>2, <2>3 DEF PanelInv
<1> QED BY <1>1, <1>4, <1>5, <1>6, ReadKeeps

LEMMA PanelFailsKeeps ==
  ASSUME GameInv, PanelFails
  PROVE  GameInv'
<1>1. /\ panel' = NoRequest
      /\ UNCHANGED <<session, conf, index, job, used, decks, dealt, cmds, astray, crashes, cut, requests>>
      /\ requests \in 0..MaxPanel /\ cut \in BOOLEAN
  BY DEF PanelFails, stored, world, GameInv, SharedInv, GameTypeOK
<1>2. PanelInv'
  BY <1>1, NoRequestIs DEF PanelInv
<1> QED BY <1>1, <1>2, NoRequestIs, ReadKeeps

LEMMA CrashKeeps == ASSUME GameInv, Crash PROVE GameInv'
<1>1. /\ job' = NoJob /\ panel' = NoRequest /\ cut' = (cut \/ job # NoJob)
      /\ UNCHANGED <<session, conf, index, used, decks, dealt, cmds, astray, requests>>
      /\ requests \in 0..MaxPanel /\ cut' \in BOOLEAN /\ astray \in BOOLEAN
  BY DEF Crash, stored, GameInv, SharedInv, GameTypeOK
<1>2. crashes' \in 0..MaxCrashes
  BY BoundAssumption DEF Crash, GameInv, SharedInv, GameTypeOK
<1>3. ConfOK' /\ session' \in [Group -> Exist \cup {None}] /\ index' \subseteq Exist
  BY <1>1, BaseHas DEF ConfOK, Exist, GameInv
<1>4. SharedInv'
  BY <1>1, <1>2, <1>3, NoRequestIs, PanelBase
<1>5. JobInv'
  <2>1. ~cut' => Settled
    BY <1>1, Idle DEF GameInv
  <2>2. ~cut' => Settled'
    BY <1>1, <2>1 DEF Settled, Named, Coded, Placed
  <2> QED BY <1>1, <2>2 DEF JobInv
<1>6. PanelInv'
  BY <1>1, NoRequestIs DEF PanelInv
<1>7. DeckInv'
  <2>1. \A x \in Scope : Dead(x)' <=> Dead(x)
    BY <1>1 DEF Dead, Exist
  <2> QED BY <1>1, <2>1, NoJobIsJob, DeckFrom DEF GameInv
<1> QED BY <1>4, <1>5, <1>6, <1>7 DEF GameInv

(* What the panel's batch writes.                                          *)
LEMMA PanelWrites ==
  ASSUME GameInv, PanelCommit
  PROVE  /\ panel.s \in Exist /\ panel.s \in Session /\ panel.s \in Scope
         /\ conf' \in [Scope -> Rows] /\ \A x \in Scope \ {panel.s} : conf'[x] = conf[x]
         /\ ~conf'[panel.s].name /\ conf'[panel.s].deck \in {NoDeck, conf[panel.s].deck}
         /\ panel.keys = RowsOf(panel.s) => conf'[panel.s] = NoRows
         /\ \A h \in Group : session'[h] = IF h \in panel.groups THEN None ELSE session[h]
         /\ index' = panel.index \ {panel.s}
<1>1. /\ panel.pc = "commit" /\ panel.s \in Exist /\ panel.s \in Session /\ panel.s \in Scope
      /\ conf \in [Scope -> Rows]
  BY BaseHas, Scopes DEF PanelCommit, GameInv, SharedInv, ConfOK
<1>2. PICK new : new = [k \in Key |-> IF k \in panel.keys THEN NoRows[k] ELSE conf[panel.s][k]]
  OBVIOUS
<1>3. conf' = [conf EXCEPT ![panel.s] = new]
  BY <1>2 DEF PanelCommit
<1>4. /\ new \in Rows
      /\ new.name = IF "name" \in panel.keys THEN FALSE ELSE conf[panel.s].name
      /\ new.deck = IF "deck" \in panel.keys THEN NoDeck ELSE conf[panel.s].deck
      /\ (\A k \in Key \ panel.keys : conf[panel.s][k] = NoRows[k]) => new = NoRows
  <2>0. panel.keys \in SUBSET Key
    BY DEF GameInv, SharedInv, GameTypeOK, Request
  <2>1. PICK old \in Rows, K \in SUBSET Key : old = conf[panel.s] /\ K = panel.keys
    BY <1>1, <2>0
  <2>2. new = [k \in Key |-> IF k \in K THEN NoRows[k] ELSE old[k]]
    BY <1>2, <2>1
  <2>3. /\ new \in Rows
        /\ new.name = IF "name" \in K THEN FALSE ELSE old.name
        /\ new.deck = IF "deck" \in K THEN NoDeck ELSE old.deck
        /\ (\A k \in Key \ K : old[k] = NoRows[k]) => new = NoRows
    <3>1. /\ NoRows \in Rows /\ NoRows.deck = NoDeck /\ NoRows.name = FALSE
      BY NoRowsAreRows DEF Rows
    <3>2. \A k \in Key : new[k] = IF k \in K THEN NoRows[k] ELSE old[k]
      BY <2>2
    <3>3. DOMAIN new = {"areas", "closed", "code", "deck", "gms", "name"} /\ new = [k \in Key |-> new[k]]
      BY <2>2 DEF Key
    <3>4. /\ new["areas"] \in {NoRows.areas, old.areas} /\ new["closed"] \in {NoRows.closed, old.closed}
          /\ new["code"] \in {NoRows.code, old.code} /\ new["deck"] \in {NoRows.deck, old.deck}
          /\ new["gms"] \in {NoRows.gms, old.gms} /\ new["name"] \in {NoRows.name, old.name}
      BY <3>2 DEF Key
    <3>5. new = [areas |-> new["areas"], closed |-> new["closed"], code |-> new["code"],
                 deck |-> new["deck"], gms |-> new["gms"], name |-> new["name"]]
      BY <3>3 DEF Key
    <3>6. new \in Rows
      BY <3>1, <3>4, <3>5 DEF Rows
    <3>7. /\ new.name = IF "name" \in K THEN FALSE ELSE old.name
          /\ new.deck = IF "deck" \in K THEN NoDeck ELSE old.deck
      BY <3>1, <3>2 DEF Key
    <3>8. ASSUME \A k \in Key \ K : old[k] = NoRows[k] PROVE new = NoRows
      <4>1. \A k \in Key : new[k] = NoRows[k]
        BY <3>2, <3>8
      <4>2. /\ new.areas = NoRows.areas /\ new.closed = NoRows.closed /\ new.code = NoRows.code
            /\ new.deck = NoRows.deck /\ new.gms = NoRows.gms /\ new.name = NoRows.name
        BY <4>1 DEF Key
      <4> QED BY <3>1, <3>6, <4>2 DEF Rows
    <3> QED BY <3>6, <3>7, <3>8
  <2> QED BY <2>1, <2>3
<1>5. ~new.name
  BY <1>1, <1>4 DEF GameInv, PanelInv
<1>6. panel.keys = RowsOf(panel.s) => new = NoRows
  BY <1>4 DEF RowsOf
<1>7. /\ conf'[panel.s] = new /\ conf' \in [Scope -> Rows]
      /\ \A x \in Scope \ {panel.s} : conf'[x] = conf[x]
  BY <1>1, <1>3, <1>4
<1> QED BY <1>1, <1>4, <1>5, <1>6, <1>7 DEF PanelCommit

(* The groups the panel takes out were in the session it ends.             *)
LEMMA PanelSettles ==
  ASSUME GameInv, PanelCommit, ~cut
  PROVE  Settled'
<1>1. /\ job = NoJob /\ panel.index = index /\ panel.groups = conf[panel.s].areas
      /\ panel.keys = RowsOf(panel.s) /\ panel.pc = "commit"
  BY DEF GameInv, PanelInv, PanelCommit
<1>2. Settled
  BY <1>1, Idle DEF GameInv
<1>3. PICK s : s = panel.s
  OBVIOUS
<1>4. /\ s \in Session /\ s \in Scope /\ conf'[s] = NoRows /\ index' = index \ {s}
      /\ \A x \in Scope \ {s} : conf'[x] = conf[x]
      /\ \A h \in Group : session'[h] = IF h \in conf[s].areas THEN None ELSE session[h]
  BY <1>1, <1>3, PanelWrites
<1>5. /\ conf'[s].areas = {} /\ ~conf'[s].name /\ Session \subseteq Scope /\ None \notin Session
  BY <1>4, NoRowsAreRows, Scopes DEF GameInv, SharedInv
<1>6. Named' = Named \ {s}
  BY <1>4, <1>5 DEF Named
<1>7. index' = Named' /\ Coded'
  BY <1>2, <1>4, <1>5, <1>6 DEF Settled, Coded, Named
<1>8. ASSUME NEW h \in Group PROVE Placed(h)'
  <2>1. Placed(h) /\ session[h] \in Session \cup {None}
    BY <1>2 DEF Settled, GameInv, SharedInv, GameTypeOK
  <2>2. session'[h] = IF session[h] = s THEN None ELSE session[h]
    BY <1>4, <2>1 DEF Placed
  <2>3. ASSUME NEW x \in Session PROVE h \in conf'[x].areas <=> session'[h] = x
    <3>1. CASE x = s
      BY <1>5, <2>2, <3>1
    <3>2. CASE x # s
      <4>1. conf'[x] = conf[x] /\ (h \in conf[x].areas <=> session[h] = x)
        BY <1>4, <1>5, <2>1, <3>2 DEF Placed
      <4> QED BY <1>5, <2>2, <3>2, <4>1
    <3> QED BY <3>1, <3>2
  <2>4. session'[h] # None => conf'[session'[h]].name
    BY <1>4, <1>5, <2>1, <2>2 DEF Placed
  <2> QED BY <2>3, <2>4 DEF Placed
<1> QED BY <1>7, <1>8 DEF Settled

LEMMA PanelCommitKeeps == ASSUME GameInv, PanelCommit PROVE GameInv'
<1>1. /\ panel.s \in Exist /\ panel.s \in Session /\ panel.s \in Scope
      /\ conf' \in [Scope -> Rows] /\ \A x \in Scope \ {panel.s} : conf'[x] = conf[x]
      /\ ~conf'[panel.s].name /\ conf'[panel.s].deck \in {NoDeck, conf[panel.s].deck}
      /\ \A h \in Group : session'[h] = IF h \in panel.groups THEN None ELSE session[h]
      /\ index' = panel.index \ {panel.s}
  BY PanelWrites
<1>2. /\ panel' = NoRequest /\ panel.pc = "commit"
      /\ UNCHANGED <<job, used, cmds, requests, crashes, dealt, decks, cut>>
      /\ requests \in 0..MaxPanel /\ crashes \in 0..MaxCrashes /\ cut \in BOOLEAN
      /\ astray' = (astray \/ (job.deck # NoDeck /\ job.g \in panel.groups /\ session[job.g] # panel.s))
  BY DEF PanelCommit, world, GameInv, SharedInv, GameTypeOK
<1>3. Exist' = Exist /\ StepsLeft' = StepsLeft /\ (NoDeal <=> NoDeal')
  BY <1>2 DEF Exist, StepsLeft, NoDeal
<1>4. astray' \in BOOLEAN /\ (astray => astray')
  BY <1>2 DEF GameInv, SharedInv, GameTypeOK
<1>5. ConfOK'
  <2>1. \A x \in Scope : Injective(conf'[x].deck)
    BY <1>1, NoDeckIsInjective, BaseHas DEF GameInv, ConfOK
  <2>2. \A s \in Session \ Exist : conf'[s] = NoRows
    BY <1>1, BaseHas, Scopes DEF GameInv, SharedInv, ConfOK
  <2> QED BY <1>1, <1>3, <2>1, <2>2 DEF ConfOK
<1>6. SharedInv'
  <2>1. session' \in [Group -> Exist \cup {None}]
    <3>1. session' = [g \in Group |-> IF g \in panel.groups THEN None ELSE session[g]]
      BY DEF PanelCommit
    <3> QED BY <3>1, BaseHas DEF GameInv
  <2>2. index' \subseteq Exist
    BY <1>1 DEF GameInv, SharedInv
  <2> QED BY <1>2, <1>4, <1>5, <2>1, <2>2, NoRequestIs, PanelBase
<1>7. JobInv'
  <2>1. CASE job = NoJob
    <3>1. ~cut' => Settled'
      BY <1>2, PanelSettles
    <3> QED BY <1>2, <2>1, <3>1 DEF JobInv
  <2>2. CASE job # NoJob
    <3>1. cut /\ cut'
      BY <1>2, <2>2 DEF GameInv, PanelInv
    <3>2. ASSUME NEW s \in Exist, Naming(s) PROVE Naming(s)'
      <4>1. ASSUME StepsLeft >= 6
            PROVE  /\ conf'[s].deck = NoDeck /\ s \notin index' \cup panel'.index
                   /\ StepsLeft <= 9 => session'[job.g] \in {None, s}
        <5>1. /\ conf[s].deck = NoDeck /\ s \notin panel.index /\ panel.s # s
              /\ StepsLeft <= 9 => session[job.g] \in {None, s}
          BY <1>2, <3>2, <4>1 DEF Naming
        <5>2. s \in Scope /\ job.g \in Group
          BY Scopes, BaseHas DEF GameInv, SharedInv, Job
        <5>3. conf'[s] = conf[s] /\ session'[job.g] \in {None, session[job.g]}
          BY <1>1, <5>1, <5>2
        <5> QED BY <1>1, <1>2, <5>1, <5>3, NoRequestIs
      <4>2. panel'.pc = "idle" /\ job' = job
        BY <1>2, NoRequestIs
      <4> QED BY <1>3, <4>1, <4>2 DEF Naming
    <3>3. \A s \in Exist : /\ Opening(s) => Opening(s)'
                           /\ Ending(s) => Ending(s)'
                           /\ Unlisted(s) => Unlisted(s)'
      BY <1>2, <1>3, <3>1 DEF Opening, Ending, Unlisted
    <3>4. \A s \in Exist, u \in User : /\ Moving(s, u) => Moving(s, u)'
                                       /\ Founding(s, u) => Founding(s, u)'
      BY <1>2, <1>3, <3>1, <3>2 DEF Moving, Founding
    <3>5. /\ Leaving => Leaving'
          /\ Clearing => Clearing'
          /\ Putting => Putting'
          /\ Decking => Decking'
      BY <1>2, <1>3, <3>1 DEF Leaving, Clearing, Putting, Decking
    <3> QED BY <1>2, <1>3, <2>2, <3>3, <3>4, <3>5 DEF JobInv, GameInv
  <2> QED BY <2>1, <2>2
<1>8. PanelInv'
  BY <1>2, NoRequestIs DEF PanelInv
<1>9. DeckInv'
  <2>1. \A x \in Scope : /\ conf'[x].deck \in {conf[x].deck, NoDeck}
                         /\ Dead(x) => Dead(x)'
    <3>1. ASSUME NEW x \in Scope
          PROVE  conf'[x].deck \in {conf[x].deck, NoDeck} /\ (Dead(x) => Dead(x)')
      <4>1. CASE x = panel.s
        BY <1>1, <1>3, <4>1 DEF Dead
      <4>2. CASE x # panel.s
        BY <1>1, <1>3, <4>2 DEF Dead
      <4> QED BY <4>1, <4>2
    <3> QED BY <3>1
  <2>2. \A x \in Scope : x = panel.s => Dead(x)'
    BY <1>1, <1>3 DEF Dead
  <2>3. job.g \in Group
    BY BaseHas DEF GameInv, Job
  <2>4. \/ job.deck = NoDeck \/ astray' \/ ScopeOf(job.g)' = ScopeOf(job.g)
        \/ \A x \in Scope : x = ScopeOf(job.g) => Dead(x)'
    <3>1. CASE job.g \notin panel.groups
      BY <1>1, <1>2, <2>3, <3>1 DEF ScopeOf
    <3>2. CASE job.g \in panel.groups /\ session[job.g] # panel.s
      BY <1>2, <3>2
    <3>3. CASE job.g \in panel.groups /\ session[job.g] = panel.s
      <4>1. ScopeOf(job.g) = panel.s
        BY <1>1, <2>3, <3>3, Scopes DEF GameInv, SharedInv
      <4> QED BY <2>2, <4>1
    <3> QED BY <3>1, <3>2, <3>3
  <2> QED BY <1>2, <1>4, <2>1, <2>4, DeckFrom DEF GameInv
<1> QED BY <1>6, <1>7, <1>8, <1>9 DEF GameInv

-----------------------------------------------------------------------------
(* The invariant holds in every state.                                     *)

LEMMA GameStarts == ASSUME GameInit PROVE GameInv
<1>1. /\ Session \subseteq Scope /\ Session \cap Group = {} /\ Legacy \subseteq Group /\ None \notin Session
  BY NameAssumption DEF Session, Scope
<1>2. \A x \in Scope : /\ conf[x] \in Rows /\ conf[x].deck = NoDeck /\ conf[x].areas = {}
                       /\ x \in Session => conf[x] = NoRows
  <2>1. \A x \in Scope : conf[x] = IF x \in Legacy THEN [NoRows EXCEPT !.name = TRUE] ELSE NoRows
    BY DEF GameInit
  <2>2. /\ [NoRows EXCEPT !.name = TRUE] \in Rows /\ [NoRows EXCEPT !.name = TRUE].deck = NoDeck
        /\ [NoRows EXCEPT !.name = TRUE].areas = {}
    BY NoRowsAreRows DEF Rows
  <2> QED BY <1>1, <2>1, <2>2, NoRowsAreRows
<1>3. /\ \A h \in Group : session[h] = None
      /\ session \in [Group -> Session \cup {None}] /\ index = {} /\ job = NoJob /\ panel = NoRequest
      /\ used = 0 /\ cmds = 0 /\ requests = 0 /\ crashes = 0 /\ decks = 0 /\ cut = FALSE /\ astray = FALSE
      /\ DOMAIN conf = Scope /\ conf = [x \in Scope |-> conf[x]]
  BY DEF GameInit
<1>4. /\ 0 \in 0..MaxSessions /\ 0 \in 0..MaxCmds /\ 0 \in 0..MaxPanel /\ 0 \in 0..MaxCrashes
      /\ Exist = {}
  BY <1>3, BoundAssumption DEF Exist
<1>5. dealt = [n \in 1..MaxCmds |-> NoCards] /\ NoCards \in [Card -> Nat]
  BY DEF GameInit, NoCards
<1>6. GameTypeOK
  <2>1. conf \in [Scope -> Rows]
    BY <1>2, <1>3
  <2>2. \A x \in Scope, i, j \in Card : conf[x].deck.order[i] = conf[x].deck.order[j] => i = j
    BY <1>2, NoDeckIsInjective DEF Injective
  <2>3. job \in Job /\ panel \in Request /\ index \subseteq 1..used
    BY <1>3, NoJobIsJob, NoRequestIs
  <2>4. dealt \in [1..MaxCmds -> [Card -> Nat]] /\ {cut, astray} \subseteq BOOLEAN
    BY <1>3, <1>5
  <2> QED BY <1>3, <1>4, <2>1, <2>2, <2>3, <2>4 DEF GameTypeOK
<1>7. SharedInv
  <2>1. Injective(job.deck) /\ job.index = {} /\ panel.index = {} /\ panel.pc = "idle"
    BY <1>3, NoJobIsJob, NoRequestIs, NoDeckIsInjective
  <2> QED BY <1>1, <1>2, <1>3, <1>6, <2>1 DEF SharedInv
<1>8. JobInv
  <2>1. Named = {}
    BY <1>1, <1>2, NoRowsAreRows DEF Named
  <2>2. \A h \in Group : Placed(h)
    BY <1>1, <1>2, <1>3 DEF Placed
  <2> QED BY <1>3, <2>1, <2>2 DEF JobInv, Settled, Coded
<1>9. PanelInv
  BY <1>3, NoRequestIs DEF PanelInv
<1>10. DeckInv
  <2>1. NoDeck.number = 0 /\ NoDeck.size = 0 /\ job.deck = NoDeck /\ job.cards = NoCards
    BY <1>3, NoDeckIsDeck, NoJobIsJob
  <2>2. \A x \in Scope : Whole(conf[x].deck) /\ Undealt(conf[x].deck) /\ conf[x].deck.number = 0
    BY <1>2, <1>3, <2>1 DEF Whole, Undealt
  <2>3. Whole(job.deck) /\ DrawnInv
    BY <1>3, <2>1 DEF Whole, DrawnInv
  <2>4. \A n \in 1..MaxCmds : dealt[n] = NoCards
    BY <1>5
  <2>5. \A n \in 1..MaxCmds, c \in Card : dealt[n][c] <= 1
    BY <2>4 DEF NoCards
  <2> QED BY <1>3, <2>1, <2>2, <2>3, <2>4, <2>5 DEF DeckInv
<1> QED BY <1>7, <1>8, <1>9, <1>10 DEF GameInv

LEMMA GameGoesOn == ASSUME GameInv, [GameNext]_gameVars PROVE GameInv'
<1>1. CASE UNCHANGED gameVars
  <2>1. /\ UNCHANGED <<session, conf, index, job, used, decks, dealt, cmds, astray, crashes>>
        /\ UNCHANGED <<cut, requests, panel>>
    BY <1>1 DEF gameVars, stored, world
  <2>2. cut' \in BOOLEAN /\ requests' \in 0..MaxPanel /\ panel' \in Request
    BY <2>1 DEF GameInv, SharedInv, GameTypeOK
  <2>3. PanelInv'
    BY <2>1 DEF GameInv, PanelInv, RowsOf
  <2> QED BY <2>1, <2>2, <2>3, ReadKeeps
<1>2. ASSUME NEW u \in User, NEW g \in Group, Command(u, g) PROVE GameInv'
  BY <1>2, GameBegins
<1>3. CASE CommandStep
  BY <1>3, CommandGoesOn
<1>4. CASE Panel
  BY <1>4, PanelIndexKeeps, PanelScanKeeps, PanelCommitKeeps, PanelFailsKeeps DEF Panel
<1>5. CASE Crash
  BY <1>5, CrashKeeps
<1> QED BY <1>1, <1>2, <1>3, <1>4, <1>5 DEF GameNext

(* The inductive invariant: where the command that runs stands in its      *)
(* plan, what it and the panel have read so far and still holds, and which *)
(* decks may share a number.                                               *)
THEOREM GameInvariant == GameSpec => []GameInv
<1>1. GameInit => GameInv
  BY GameStarts
<1>2. GameInv /\ [GameNext]_gameVars => GameInv'
  BY GameGoesOn
<1> QED BY <1>1, <1>2, PTL DEF GameSpec

(* Rows, the index, the command and the request have their types, and the  *)
(* deck of every scope holds each card once.                               *)
THEOREM GameTypeCorrect == GameSpec => []GameTypeOK
<1>1. GameInv => GameTypeOK
  BY DEF GameInv, SharedInv
<1> QED BY <1>1, GameInvariant, PTL

(* Between commands, if nothing came between the steps of one: each group  *)
(* is counted by the session it is in and by no other, the session exists, *)
(* and the index has the codes of those that exist (attachGameArea,        *)
(* detachGameArea, clearGameScope and the index rows they leave behind).   *)
THEOREM GameMapped == GameSpec => []Mapped
<1>1. ASSUME GameInv, job = NoJob, ~cut
      PROVE  /\ \A g \in Group, s \in Session : g \in conf[s].areas <=> session[g] = s
             /\ \A g \in Group : session[g] # None => conf[session[g]].name
             /\ index = {s \in Session : conf[s].name}
  <2>1. Settled
    BY <1>1, Idle DEF GameInv
  <2> QED BY <2>1 DEF Settled, Placed, Named
<1>2. GameInv => Mapped
  BY <1>1 DEF Mapped
<1> QED BY <1>2, GameInvariant, PTL

(* No card is dealt twice between one making or refilling of a deck and    *)
(* the next, whatever groups draw, and whatever fails, crashes or is       *)
(* ended, unless the panel takes the drawing group out of another session  *)
(* than the one it ends (drawSessionDeck, session_deck::draw).             *)
THEOREM GameDealtOnce == GameSpec => []DealtOnce
<1>1. GameInv => DealtOnce
  BY DEF GameInv, DeckInv, DealtOnce
<1> QED BY <1>1, GameInvariant, PTL

-----------------------------------------------------------------------------
(* Who takes a group out of a session.                                     *)

LEMMA MapLeavesOwn ==
  ASSUME GameInv, MapGroup, ~cut, Head(job.todo).to = None
  PROVE  session[job.g] = job.s
<1> DEFINE h == Head(job.todo)
<1>1. h.op = "map" /\ job.todo # <<>> /\ None \notin Session
  BY NameAssumption DEF MapGroup, Doing, Session
<1>2. /\ \A x, k, v : Put(x, k, v).op = "put"
      /\ \A x : Map(x).op = "map" /\ Map(x).to = x
  BY DEF Put, Map
<1>3. job # NoJob /\ Exist \subseteq Session
  BY <1>1, NoJobIsJob, Scopes DEF GameInv, SharedInv
<1> HIDE DEF h
<1>4. ASSUME NEW s \in Exist, Opening(s) PROVE session[job.g] = job.s
  <2>1. OpenHead(s, job.s) /\ (StepsLeft > 3 => LeaveAt(job.s, StepsLeft - 3))
    BY <1>4, OpenHeads DEF Opening, OpenMap
  <2>2. StepsLeft = 4
    BY <1>1, <1>2, <1>3, <2>1 DEF OpenHead, h
  <2> QED BY <2>1, <2>2 DEF LeaveAt
<1>5. ASSUME NEW s \in Exist, NEW u, MakeHead(s, job.g, u) PROVE FALSE
  <2>0. /\ Put(s, "areas", {}).op = "put" /\ Put(None, "name", TRUE).op = "put"
        /\ Put(None, "code", TRUE).op = "put" /\ Put(None, "gms", {u}).op = "put"
        /\ Put(None, "areas", {job.g}).op = "put" /\ Map(s).op = "map"
        /\ [op |-> "areas", at |-> s].op = "areas" /\ [op |-> "join", at |-> s].op = "join"
        /\ [op |-> "index"].op = "index" /\ [op |-> "enter", at |-> s].op = "enter"
    BY DEF Put, Map
  <2>1. h \in {Map(s), [op |-> "areas", at |-> s], [op |-> "join", at |-> s], [op |-> "index"],
               [op |-> "enter", at |-> s], Put(s, "areas", {}), Put(None, "name", TRUE),
               Put(None, "code", TRUE), Put(None, "gms", {u}), Put(None, "areas", {job.g})}
    BY <1>5 DEF MakeHead, h
  <2>11. h = Map(s) \/ h.op \in {"areas", "join", "index", "enter", "put"}
    BY <2>0, <2>1, Zenon
  <2>2. h = Map(s)
    BY <1>1, <2>11
  <2> QED BY <1>1, <1>2, <1>3, <2>2 DEF h
<1>6. ASSUME NEW s \in Exist, NEW u \in User, Moving(s, u) PROVE session[job.g] = job.s
  <2>1. StepsLeft > 10 /\ LeaveAt(job.s, StepsLeft - 10)
    BY <1>5, <1>6, NewHeads DEF Moving
  <2> QED BY <2>1 DEF LeaveAt
<1>7. ASSUME NEW s \in Exist, NEW u \in User, Founding(s, u) PROVE FALSE
  <2>1. h = [op |-> "list", at |-> job.g] \/ h = [op |-> "clear", at |-> job.g]
    BY <1>5, <1>7, FirstHeads DEF Founding, h
  <2> QED BY <1>1, <2>1
<1>8. ASSUME NEW s \in Exist, Ending(s) PROVE FALSE
  <2>1. OverHead(s)
    BY <1>8, OverHeads DEF Ending
  <2> QED BY <1>1, <2>1 DEF OverHead, h
<1>9. ASSUME NEW s \in Exist, Unlisted(s) PROVE FALSE
  BY <1>9 DEF Unlisted
<1>10. ASSUME Leaving PROVE session[job.g] = job.s
  BY <1>10 DEF Leaving, LeaveAt
<1>11. ASSUME Clearing PROVE FALSE
  <2>1. h = [op |-> "list", at |-> job.g] \/ h = [op |-> "clear", at |-> job.g]
    BY <1>11, ClearHeads DEF Clearing, h
  <2> QED BY <1>1, <2>1
<1>12. ASSUME Putting PROVE FALSE
  <2>1. PICK k, v : Follows(job.todo, <<Put(None, k, v)>>)
    BY <1>12 DEF Putting
  <2>2. h = Put(None, k, v)
    BY <2>1, OneHead DEF h
  <2>3. Put(None, k, v).op = "put"
    BY DEF Put
  <2> QED BY <1>1, <2>2, <2>3
<1>13. ASSUME Decking PROVE FALSE
  <2>1. h = [op |-> "save"] \/ h = [op |-> "draw"]
    BY <1>13, DeckingHead DEF GameInv, h
  <2> QED BY <1>1, <2>1
<1> QED BY <1>3, <1>4, <1>6, <1>7, <1>8, <1>9, <1>10, <1>11, <1>12, <1>13 DEF JobInv, GameInv

LEMMA ReleaseLeavesOwn ==
  ASSUME GameInv, Release, ~cut, NEW g \in job.seen
  PROVE  session[g] = job.s
<1> DEFINE h == Head(job.todo)
<1>1. h.op = "release" /\ job.todo # <<>> /\ g \in Group
  BY BaseHas DEF Release, Doing, GameInv, Job
<1>2. /\ \A x, k, v : Put(x, k, v).op = "put"
      /\ \A x : Map(x).op = "map"
  BY DEF Put, Map
<1>3. job # NoJob
  BY <1>1, NoJobIsJob
<1> HIDE DEF h
<1>4. ASSUME NEW s \in Exist, Opening(s) PROVE FALSE
  <2>1. OpenHead(s, job.s)
    BY <1>4, OpenHeads DEF Opening
  <2> QED BY <1>1, <1>2, <2>1 DEF OpenHead, h
<1>5. ASSUME NEW s \in Exist, NEW u, MakeHead(s, job.g, u) PROVE FALSE
  <2>0. /\ Put(s, "areas", {}).op = "put" /\ Put(None, "name", TRUE).op = "put"
        /\ Put(None, "code", TRUE).op = "put" /\ Put(None, "gms", {u}).op = "put"
        /\ Put(None, "areas", {job.g}).op = "put" /\ Map(s).op = "map"
        /\ [op |-> "areas", at |-> s].op = "areas" /\ [op |-> "join", at |-> s].op = "join"
        /\ [op |-> "index"].op = "index" /\ [op |-> "enter", at |-> s].op = "enter"
    BY DEF Put, Map
  <2>1. h \in {Map(s), [op |-> "areas", at |-> s], [op |-> "join", at |-> s], [op |-> "index"],
               [op |-> "enter", at |-> s], Put(s, "areas", {}), Put(None, "name", TRUE),
               Put(None, "code", TRUE), Put(None, "gms", {u}), Put(None, "areas", {job.g})}
    BY <1>5 DEF MakeHead, h
  <2>2. h.op \in {"areas", "join", "index", "enter", "put", "map"}
    BY <2>0, <2>1, Zenon
  <2> QED BY <1>1, <2>2
<1>55. ASSUME NEW t, NEW n, LeaveHead(t, n) PROVE FALSE
  BY <1>1, <1>2, <1>55 DEF LeaveHead, h
<1>6. ASSUME NEW s \in Exist, NEW u \in User, Moving(s, u) PROVE FALSE
  BY <1>5, <1>55, <1>6, NewHeads DEF Moving
<1>7. ASSUME NEW s \in Exist, NEW u \in User, Founding(s, u) PROVE FALSE
  <2>1. h = [op |-> "list", at |-> job.g] \/ h = [op |-> "clear", at |-> job.g]
    BY <1>5, <1>7, FirstHeads DEF Founding, h
  <2> QED BY <1>1, <2>1
<1>8. ASSUME NEW s \in Exist, Ending(s) PROVE session[g] = job.s
  <2>1. OverHead(s) /\ EndMap(s)
    BY <1>8, OverHeads DEF Ending
  <2>2. StepsLeft = 5
    BY <1>1, <2>1 DEF OverHead, h
  <2> QED BY <1>1, <2>1, <2>2 DEF EndMap
<1>9. ASSUME NEW s \in Exist, Unlisted(s) PROVE FALSE
  BY <1>9 DEF Unlisted
<1>10. ASSUME Leaving PROVE FALSE
  BY <1>10, <1>55, LeaveHeads DEF Leaving
<1>11. ASSUME Clearing PROVE FALSE
  <2>1. h = [op |-> "list", at |-> job.g] \/ h = [op |-> "clear", at |-> job.g]
    BY <1>11, ClearHeads DEF Clearing, h
  <2> QED BY <1>1, <2>1
<1>12. ASSUME Putting PROVE FALSE
  <2>1. PICK k, v : Follows(job.todo, <<Put(None, k, v)>>)
    BY <1>12 DEF Putting
  <2>2. h = Put(None, k, v)
    BY <2>1, OneHead DEF h
  <2>3. Put(None, k, v).op = "put"
    BY DEF Put
  <2> QED BY <1>1, <2>2, <2>3
<1>13. ASSUME Decking PROVE FALSE
  <2>1. h = [op |-> "save"] \/ h = [op |-> "draw"]
    BY <1>13, DeckingHead DEF GameInv, h
  <2> QED BY <1>1, <2>1
<1> QED BY <1>3, <1>4, <1>6, <1>7, <1>8, <1>9, <1>10, <1>11, <1>12, <1>13 DEF JobInv, GameInv

LEMMA LeavesOwn ==
  ASSUME GameInv, GameNext, ~cut, NEW g \in Group, session[g] # None, session'[g] = None
  PROVE  \/ job # NoJob /\ session[g] = job.s
         \/ panel.pc # "idle" /\ session[g] = panel.s
<1>1. job.g \in Group /\ session \in [Group -> Exist \cup {None}] /\ job \in Job
  BY BaseHas DEF GameInv, Job
<1>2. CASE UNCHANGED session
  BY <1>2
<1>3. CASE MapGroup
  <2>1. session' = [session EXCEPT ![job.g] = Head(job.todo).to]
    BY <1>3 DEF MapGroup
  <2>2. g = job.g /\ Head(job.todo).to = None
    BY <1>1, <2>1
  <2>3. job # NoJob
    BY <1>3, NoJobIsJob DEF MapGroup, Doing
  <2> QED BY <1>3, <2>2, <2>3, MapLeavesOwn
<1>4. CASE Release
  <2>1. PICK h \in job.seen : session' = [session EXCEPT ![h] = None]
    BY <1>4 DEF Release
  <2>2. g = h
    BY <1>1, <2>1 DEF Job
  <2>3. session[h] = job.s
    BY <1>4, ReleaseLeavesOwn
  <2>4. job # NoJob
    BY <1>4, NoJobIsJob DEF Release, Doing
  <2> QED BY <2>2, <2>3, <2>4
<1>5. CASE PanelCommit
  <2>1. job = NoJob /\ panel.groups = conf[panel.s].areas /\ panel.s \in Session
    BY <1>5, PanelWrites DEF GameInv, PanelInv, PanelCommit
  <2>2. Settled
    BY <2>1, Idle DEF GameInv
  <2>3. g \in panel.groups
    BY <1>5, PanelWrites
  <2>4. panel.pc # "idle"
    BY <1>5 DEF PanelCommit
  <2> QED BY <2>1, <2>2, <2>3, <2>4 DEF Settled, Placed
<1>6. ASSUME NEW u \in User, NEW x \in Group, Command(u, x) PROVE UNCHANGED session
  BY <1>6 DEF Command, New, Open, Master, Exit, Close, Over, MakeDeck, ResetDeck, RemoveDeck, Draw,
              SetDeck, Simply, Begin, stored
<1>7. CASE CommandStep
  BY <1>2, <1>3, <1>4, <1>7
     DEF CommandStep, ReadAreas, WriteAreas, PutRow, ListRows, ClearRows, ReadIndex, WriteIndex,
         DrawCard, Save, SaveFails, stored
<1>8. CASE Panel \/ Crash
  BY <1>2, <1>5, <1>8 DEF Panel, PanelIndex, PanelScan, PanelFails, Crash, stored
<1> QED BY <1>2, <1>6, <1>7, <1>8 DEF GameNext

(* So long as nothing came between the steps of a command, a step takes a  *)
(* group out of no session but the one that a command under way leaves or  *)
(* ends or that a request of the panel under way ends (detachGameArea,     *)
(* .game over, detachLiveSession).                                         *)
THEOREM GameEndsOwnOnly == GameSpec => EndsOwnOnly
<1>1. GameInv /\ [GameNext]_gameVars =>
        [~cut => \A g \in Group :
           session[g] # None /\ session'[g] = None =>
             \/ job # NoJob /\ session[g] = job.s
             \/ panel.pc # "idle" /\ session[g] = panel.s]_gameVars
  BY LeavesOwn
<1> QED BY <1>1, GameInvariant, PTL DEF GameSpec, EndsOwnOnly


-----------------------------------------------------------------------------
(* IdentityBinding.  What is assumed of its constants: endpoints that are  *)
(* not both native and real, real numbers up to FirstVirtual, and tables   *)
(* other than those merge() writes itself.                                 *)
IdentityConstants ==
  /\ IsFiniteSet(Native \cup Real) /\ Native \cap Real = {}
  /\ FirstVirtual \in Nat /\ RealNumbers \subseteq 1..FirstVirtual
  /\ RealNumber \in [Real -> RealNumbers]
  /\ Tables \in Seq(TableSet) /\ {"endpoints", "identity"} \cap TableSet = {}
  /\ MaxIds \in Nat /\ MaxFailures \in Nat

(* What merge() may have left to do.                                       *)
TableWrites == TableSet \cup {"endpoints", "identity"}
Left(what, todo) == \E i \in 1..Len(todo) : todo[i] = what
Todo(s) ==
  /\ s \in Seq(TableWrites) /\ Len(s) > 0 /\ s[Len(s)] = "identity"
  /\ \A i \in 1..Len(s) : /\ s[i] = "identity" => i = Len(s)
                          /\ s[i] = "endpoints" => i = 1

Linking == [at : {"linking"}, endpoint : Endpoints, id : 1..MaxIds]
MergingOp == [at : {"merging"}, source : 1..MaxIds, target : 1..MaxIds, todo : Seq(TableWrites)]

(* No two identities have the same number, and of any numbers in use one   *)
(* is the greatest, so that nextVirtual() finds a new one.                 *)
UsedNumbers == {ids[i].number : i \in Existing} \cup {FirstVirtual}
NumberInv ==
  /\ lastId \in 0..MaxIds /\ Existing \subseteq 1..lastId
  /\ \A i \in Existing : /\ ids[i] \in [number : Numbers, virtual : BOOLEAN]
                         /\ ids[i].number <= FirstVirtual + lastId
                         /\ ids[i].virtual <=> ids[i].number > FirstVirtual
  /\ \A i, j \in Existing : ids[i].number = ids[j].number => i = j
  /\ \A T \in SUBSET UsedNumbers : T # {} => \E m \in T : \A n \in T : n <= m

LinkInv == \A e \in Endpoints : link[e] # 0 => link[e] \in Existing

OperationInv ==
  \/ operation = NoOperation
  \/ /\ operation \in Linking /\ operation.id \in Existing /\ link[operation.endpoint] = 0
  \/ /\ operation \in MergingOp /\ {operation.source, operation.target} \subseteq Existing
     /\ operation.source # operation.target
     /\ Todo(operation.todo)
     /\ IF operation.todo[1] = "endpoints" THEN \A t \in TableSet : Left(t, operation.todo)
        ELSE \A e \in Endpoints : link[e] # operation.source

(* While nothing is amiss a virtual identity has one endpoint, those of a  *)
(* real one belong to its number, and only virtual ones are merged away.   *)
OwnerInv ==
  amiss = {} =>
    /\ \A e \in Endpoints : link[e] # 0 =>
         IF ids[link[e]].virtual THEN \A f \in Endpoints : link[f] = link[e] => f = e
         ELSE owner[e] = ids[link[e]].number
    /\ operation.at = "linking" =>
         IF ids[operation.id].virtual THEN \A f \in Endpoints : link[f] # operation.id
         ELSE owner[operation.endpoint] = ids[operation.id].number
    /\ operation.at = "merging" =>
         /\ ids[operation.source].virtual /\ ~ids[operation.target].virtual
         /\ \A e \in Endpoints : link[e] = operation.source => owner[e] = ids[operation.target].number

(* A row has its owner's number, or still the one being merged away.       *)
RowInv ==
  amiss = {} => \A t \in TableSet, e \in Endpoints :
    \/ rows[<<t, e>>] \in {NoNumber, Number(e)}
    \/ /\ operation.at = "merging" /\ link[e] = operation.target
       /\ rows[<<t, e>>] = ids[operation.source].number
       /\ Left(t, operation.todo)

RealOwned == \A e \in Real : owner[e] = RealNumber[e]

IdentityInv == IdentityTypeOK /\ NumberInv /\ LinkInv /\ OperationInv /\ RealOwned /\ OwnerInv /\ RowInv

-----------------------------------------------------------------------------
LEMMA TodoStarts ==
  ASSUME IdentityConstants, NEW s, s = <<"endpoints">> \o Tables \o <<"identity">>
  PROVE  Todo(s) /\ s[1] = "endpoints" /\ \A t \in TableSet : Left(t, s)
<1>1. Tables \in Seq(TableSet) /\ Len(Tables) \in Nat /\ Tables \in Seq(TableWrites)
      /\ \A i \in 1..Len(Tables) : Tables[i] \in TableSet
  BY DEF IdentityConstants, TableWrites, TableSet
<1>2. <<"endpoints">> \in Seq(TableWrites) /\ <<"identity">> \in Seq(TableWrites)
  BY DEF TableWrites
<1>3. /\ s \in Seq(TableWrites) /\ Len(s) = Len(Tables) + 2
      /\ s[1] = "endpoints" /\ s[Len(Tables) + 2] = "identity"
      /\ \A i \in 1..Len(Tables) : s[i + 1] = Tables[i]
  BY <1>1, <1>2
<1>4. \A i \in 1..Len(s) : i = 1 \/ i = Len(s) \/ (i - 1 \in 1..Len(Tables) /\ s[i] = Tables[i - 1])
  <2> SUFFICES ASSUME NEW i \in 1..Len(s), i # 1, i # Len(s)
               PROVE  i - 1 \in 1..Len(Tables) /\ s[i] = Tables[i - 1]
    OBVIOUS
  <2>1. i - 1 \in 1..Len(Tables) /\ (i - 1) + 1 = i
    BY <1>1, <1>3
  <2> QED BY <1>3, <2>1
<1>5. \A i \in 1..Len(s) : i # 1 /\ i # Len(s) => s[i] \notin {"endpoints", "identity"}
  BY <1>1, <1>4 DEF IdentityConstants
<1>6. Todo(s)
  BY <1>1, <1>3, <1>5 DEF Todo
<1>7. \A t \in TableSet : Left(t, s)
  <2> SUFFICES ASSUME NEW t \in TableSet PROVE Left(t, s)
    OBVIOUS
  <2>1. PICK i \in 1..Len(Tables) : Tables[i] = t
    BY DEF TableSet
  <2>2. i + 1 \in 1..Len(s) /\ s[i + 1] = t
    BY <1>1, <1>3, <2>1
  <2> QED BY <2>2 DEF Left
<1> QED BY <1>3, <1>6, <1>7

LEMMA TodoGoesOn ==
  ASSUME NEW s, Todo(s)
  PROVE  /\ Head(s) = s[1] /\ (Head(s) = "identity" <=> Tail(s) = <<>>)
         /\ Tail(s) # <<>> => Todo(Tail(s)) /\ Tail(s)[1] # "endpoints"
         /\ \A t : Left(t, s) /\ t # Head(s) => Left(t, Tail(s))
<1> DEFINE r == Tail(s)
<1>0. s \in Seq(TableWrites) /\ Len(s) \in Nat /\ Len(s) > 0 /\ s # <<>>
  BY DEF Todo
<1>a. /\ r \in Seq(TableWrites) /\ Len(r) = Len(s) - 1 /\ Head(s) = s[1]
      /\ \A i \in 1..Len(r) : r[i] = s[i + 1]
  BY <1>0, HeadTailProperties
<1> HIDE DEF r
<1>1. /\ r \in Seq(TableWrites) /\ Len(r) = Len(s) - 1 /\ Head(s) = s[1] /\ Len(r) \in Nat
      /\ \A i \in 1..Len(r) : r[i] = s[i + 1]
      /\ r = <<>> <=> Len(r) = 0
  BY <1>0, <1>a, EmptySeq
<1>2. \A i \in 1..Len(r) : i + 1 \in 1..Len(s) /\ i + 1 # 1 /\ (i + 1 = Len(s) <=> i = Len(r))
  BY <1>0, <1>1
<1>3. Head(s) = "identity" <=> r = <<>>
  BY <1>0, <1>1 DEF Todo
<1>4. r # <<>> => Todo(r) /\ r[1] # "endpoints"
  BY <1>0, <1>1, <1>2 DEF Todo
<1>5. ASSUME NEW t, Left(t, s), t # Head(s) PROVE Left(t, r)
  <2>1. PICK i \in 1..Len(s) : s[i] = t
    BY <1>5 DEF Left
  <2>2. i # 1
    BY <1>1, <1>5, <2>1
  <2>3. i - 1 \in 1..Len(r) /\ (i - 1) + 1 = i
    BY <1>0, <1>1, <2>2
  <2> QED BY <1>1, <2>1, <2>3 DEF Left
<1> QED BY <1>1, <1>3, <1>4, <1>5 DEF r

LEMMA NumbersAreNumbers ==
  ASSUME IdentityConstants, NumberInv
  PROVE  /\ Numbers \subseteq Nat \ {0} /\ 0 \notin Numbers /\ FirstVirtual \in Nat
         /\ \A n \in RealNumbers : n \in Numbers /\ n \in Nat /\ n <= FirstVirtual
         /\ \A i \in Existing : i # 0 /\ ids[i].number \in Numbers /\ ids[i].virtual \in BOOLEAN
<1>1. FirstVirtual \in Nat /\ MaxIds \in Nat /\ RealNumbers \subseteq 1..FirstVirtual
  BY DEF IdentityConstants
<1>2. Numbers \subseteq Nat \ {0} /\ 0 \notin Numbers
  BY <1>1 DEF Numbers
<1>3. \A n \in RealNumbers : n \in Numbers /\ n \in Nat /\ n <= FirstVirtual
  BY <1>1 DEF Numbers
<1>4. \A i \in Existing : i # 0 /\ ids[i].number \in Numbers /\ ids[i].virtual \in BOOLEAN
  BY DEF NumberInv
<1> QED BY <1>1, <1>2, <1>3, <1>4

\* The number nextVirtual() finds is above all that are in use.
LEMMA NextVirtualIsNew ==
  ASSUME IdentityConstants, NumberInv
  PROVE  /\ NextVirtual \in (FirstVirtual + 1)..(FirstVirtual + lastId + 1)
         /\ \A i \in Existing : ids[i].number # NextVirtual
<1> DEFINE top == CHOOSE n \in UsedNumbers : \A m \in UsedNumbers : m <= n
<1>1. FirstVirtual \in Nat /\ lastId \in Nat /\ FirstVirtual \in UsedNumbers
  BY DEF IdentityConstants, NumberInv, UsedNumbers
<1>2. \A n \in UsedNumbers : n \in Nat /\ n <= FirstVirtual + lastId
  <2>1. \A i \in Existing : ids[i].number \in Nat
    BY NumbersAreNumbers
  <2> QED BY <1>1, <2>1 DEF NumberInv, UsedNumbers
<1>3. \E n \in UsedNumbers : \A m \in UsedNumbers : m <= n
  BY <1>1 DEF NumberInv
<1>4. top \in UsedNumbers /\ \A m \in UsedNumbers : m <= top
  BY <1>3
<1>5. NextVirtual = top + 1
  BY DEF NextVirtual, UsedNumbers
<1> HIDE DEF top
<1>6. \A i \in Existing : ids[i].number \in UsedNumbers
  BY DEF UsedNumbers
<1> QED BY <1>1, <1>2, <1>4, <1>5, <1>6

\* What creating an identity leaves as it was.
LEMMA AddFacts ==
  ASSUME NEW i, NEW number, NEW virtual, i \notin Existing, ids' = Add(i, number, virtual)
  PROVE  /\ Existing' = Existing \cup {i} /\ i \in Existing'
         /\ ids'[i] = [number |-> number, virtual |-> virtual]
         /\ \A j \in Existing : j # i /\ ids'[j] = ids[j]
BY DEF Add, Existing

LEMMA AddKeepsNumbers ==
  ASSUME IdentityConstants, NumberInv,
         NEW number \in Numbers, NEW virtual \in BOOLEAN,
         lastId < MaxIds, lastId' = lastId + 1, ids' = Add(lastId', number, virtual),
         virtual <=> number > FirstVirtual, number <= FirstVirtual + lastId',
         \A j \in Existing : ids[j].number # number
  PROVE  NumberInv' /\ lastId' \notin Existing
<1>1. FirstVirtual \in Nat /\ lastId \in Nat /\ MaxIds \in Nat /\ Existing \subseteq 1..lastId
  BY DEF IdentityConstants, NumberInv
<1>2. lastId' \notin Existing /\ lastId' \in 1..MaxIds
  BY <1>1
<1>3. /\ Existing' = Existing \cup {lastId'}
      /\ ids'[lastId'] = [number |-> number, virtual |-> virtual]
      /\ \A j \in Existing : ids'[j] = ids[j]
  BY <1>2, AddFacts
<1>4. /\ lastId' \in 0..MaxIds /\ Existing' \subseteq 1..lastId'
  BY <1>1, <1>2, <1>3
<1>N. number \in Nat /\ \A i \in Existing : ids[i].number \in Nat
  BY NumbersAreNumbers
<1>5. \A i \in Existing' : /\ ids'[i] \in [number : Numbers, virtual : BOOLEAN]
                           /\ ids'[i].number <= FirstVirtual + lastId'
                           /\ ids'[i].virtual <=> ids'[i].number > FirstVirtual
  <2> SUFFICES ASSUME NEW i \in Existing'
               PROVE  /\ ids'[i] \in [number : Numbers, virtual : BOOLEAN]
                      /\ ids'[i].number <= FirstVirtual + lastId'
                      /\ ids'[i].virtual <=> ids'[i].number > FirstVirtual
    OBVIOUS
  <2>1. CASE i \in Existing
    BY <1>1, <1>3, <1>N, <2>1 DEF NumberInv
  <2>2. CASE i = lastId'
    BY <1>3, <2>2
  <2> QED BY <1>3, <2>1, <2>2
<1>6. \A i, j \in Existing' : ids'[i].number = ids'[j].number => i = j
  BY <1>3 DEF NumberInv
<1>7. UsedNumbers' = UsedNumbers \cup {number}
  BY <1>3 DEF UsedNumbers
<1>8. \A n \in UsedNumbers' : n \in Nat
  BY <1>1, <1>N, <1>7 DEF UsedNumbers
<1>9. ASSUME NEW T \in SUBSET UsedNumbers', T # {} PROVE \E m \in T : \A n \in T : n <= m
  <2>1. T \ {number} \in SUBSET UsedNumbers
    BY <1>7
  <2>2. CASE T \ {number} = {}
    BY <1>9, <1>N, <2>2
  <2>3. CASE T \ {number} # {}
    <3>1. PICK m \in T \ {number} : \A n \in T \ {number} : n <= m
      BY <2>1, <2>3 DEF NumberInv
    <3>2. CASE number \in T /\ m <= number
      BY <1>8, <1>N, <3>1, <3>2
    <3>3. CASE number \notin T \/ ~(m <= number)
      BY <1>8, <1>N, <3>1, <3>3
    <3> QED BY <3>2, <3>3
  <2> QED BY <2>2, <2>3
<1> QED BY <1>2, <1>4, <1>5, <1>6, <1>9 DEF NumberInv

\* An operation in progress has the fields of its kind.
LEMMA OperationKinds ==
  ASSUME OperationInv
  PROVE  /\ operation.at \in {"idle", "linking", "merging"}
         /\ (operation.at = "idle" <=> operation = NoOperation)
         /\ operation.at = "linking" =>
              /\ operation.endpoint \in Endpoints /\ operation.id \in Existing
              /\ link[operation.endpoint] = 0
         /\ operation.at = "merging" =>
              /\ operation \in MergingOp
              /\ operation.source \in Existing /\ operation.target \in Existing
              /\ operation.source # operation.target
              /\ Todo(operation.todo)
              /\ IF operation.todo[1] = "endpoints" THEN \A t \in TableSet : Left(t, operation.todo)
                 ELSE \A e \in Endpoints : link[e] # operation.source
BY DEF OperationInv, NoOperation, Linking, MergingOp

-----------------------------------------------------------------------------
\* The arrival of a message.
LEMMA ObserveKeeps ==
  ASSUME IdentityConstants, IdentityInv, NEW e \in Endpoints, Observe(e)
  PROVE  IdentityInv'
<1> USE DEF IdentityInv
<1>0. operation = NoOperation /\ operation.at = "idle" /\ link[e] \in 0..MaxIds
  BY OperationKinds DEF Observe, IdentityTypeOK
<1>1. CASE link[e] # 0
  <2>1. /\ inflight' = [inflight EXCEPT ![e] = Number(e)]
        /\ UNCHANGED <<kind, ids, lastId, link, rows, operation, owner, amiss, failures>>
    BY <1>1 DEF Observe
  <2>2. Number(e) \in Numbers
    BY <1>1, NumbersAreNumbers DEF LinkInv, Number
  <2>3. IdentityTypeOK'
    BY <2>1, <2>2 DEF IdentityTypeOK, Existing
  <2>4. NumberInv'
    BY <2>1 DEF NumberInv, UsedNumbers, Existing
  <2>5. LinkInv' /\ OperationInv' /\ RealOwned'
    BY <2>1 DEF LinkInv, OperationInv, RealOwned, Existing
  <2>6. OwnerInv'
    BY <2>1 DEF OwnerInv
  <2>7. RowInv'
    BY <2>1 DEF RowInv, Number, Existing
  <2> QED BY <2>3, <2>4, <2>5, <2>6, <2>7
<1>2. CASE link[e] = 0 /\ e \in Real /\ FindByPublic(RealNumber[e]) # {}
  <2>1. PICK i \in FindByPublic(RealNumber[e]) :
          /\ operation' = [at |-> "linking", endpoint |-> e, id |-> i]
          /\ UNCHANGED <<kind, ids, lastId, link, rows, inflight, owner, amiss, failures>>
    BY <1>2 DEF Observe
  <2>2. i \in Existing /\ ids[i].number = RealNumber[e] /\ i \in 1..MaxIds
    BY <2>1 DEF FindByPublic, IdentityTypeOK
  <2>3. ~ids[i].virtual /\ owner[e] = ids[i].number
    BY <1>2, <2>2, NumbersAreNumbers DEF NumberInv, IdentityConstants, RealOwned
  <2>4. IdentityTypeOK'
    BY <2>1 DEF IdentityTypeOK, Existing
  <2>5. OperationInv'
    BY <1>2, <2>1, <2>2 DEF OperationInv, Linking, Existing
  <2>6. OwnerInv'
    BY <1>0, <2>1, <2>3 DEF OwnerInv
  <2>7. RowInv'
    BY <1>0, <2>1 DEF RowInv, Number, Existing
  <2>8. NumberInv'
    BY <2>1 DEF NumberInv, UsedNumbers, Existing
  <2>9. LinkInv' /\ RealOwned'
    BY <2>1 DEF LinkInv, Existing, RealOwned
  <2> QED BY <2>4, <2>5, <2>6, <2>7, <2>8, <2>9
<1>3. CASE link[e] = 0 /\ (e \in Real => FindByPublic(RealNumber[e]) = {})
  <2> DEFINE number == IF e \in Real THEN RealNumber[e] ELSE NextVirtual
             virtual == ~(e \in Real)
  <2>1. /\ lastId < MaxIds /\ lastId' = lastId + 1 /\ ids' = Add(lastId', number, virtual)
        /\ operation' = [at |-> "linking", endpoint |-> e, id |-> lastId']
        /\ UNCHANGED <<kind, link, rows, inflight, owner, amiss, failures>>
    BY <1>3 DEF Observe
  <2>2. FirstVirtual \in Nat /\ lastId \in Nat /\ MaxIds \in Nat
    BY DEF IdentityConstants, IdentityTypeOK
  <2>3. /\ number \in Numbers /\ virtual \in BOOLEAN /\ (virtual <=> number > FirstVirtual)
        /\ number <= FirstVirtual + lastId'
        /\ \A j \in Existing : ids[j].number # number
    <3>1. CASE e \in Real
      <4>1. RealNumber[e] \in RealNumbers
        BY <3>1 DEF IdentityConstants
      <4>2. \A j \in Existing : ids[j].number # RealNumber[e]
        BY <1>3, <3>1 DEF FindByPublic
      <4> QED BY <2>1, <2>2, <3>1, <4>1, <4>2, NumbersAreNumbers
    <3>2. CASE e \notin Real
      <4>1. NextVirtual \in Numbers
        BY <2>1, <2>2, NextVirtualIsNew DEF Numbers
      <4> QED BY <2>1, <2>2, <3>2, <4>1, NextVirtualIsNew
    <3> QED BY <3>1, <3>2
  <2> HIDE DEF number, virtual
  <2>4. NumberInv' /\ lastId' \notin Existing
    BY <2>1, <2>3, AddKeepsNumbers
  <2>5. /\ Existing' = Existing \cup {lastId'} /\ lastId' \in Existing'
        /\ ids'[lastId'] = [number |-> number, virtual |-> virtual]
        /\ \A j \in Existing : j # lastId' /\ ids'[j] = ids[j]
    BY <2>1, <2>4, AddFacts
  <2>6. IdentityTypeOK'
    BY <2>1, <2>2, <2>4, <2>5, NumbersAreNumbers DEF IdentityTypeOK, NumberInv
  <2>7. LinkInv'
    BY <2>1, <2>5 DEF LinkInv
  <2>8. OperationInv'
    BY <1>3, <2>1, <2>2, <2>5 DEF OperationInv, Linking
  <2>9. OwnerInv'
    <3> SUFFICES ASSUME amiss' = {}
                 PROVE  /\ \A f \in Endpoints : link'[f] # 0 =>
                             IF ids'[link'[f]].virtual
                             THEN \A g \in Endpoints : link'[g] = link'[f] => g = f
                             ELSE owner'[f] = ids'[link'[f]].number
                        /\ IF ids'[lastId'].virtual THEN \A f \in Endpoints : link'[f] # lastId'
                           ELSE owner'[e] = ids'[lastId'].number
      BY <2>1 DEF OwnerInv
    <3>1. amiss = {}
      BY <2>1
    <3>2. \A f \in Endpoints : link'[f] # 0 =>
             IF ids'[link'[f]].virtual
             THEN \A g \in Endpoints : link'[g] = link'[f] => g = f
             ELSE owner'[f] = ids'[link'[f]].number
      <4> SUFFICES ASSUME NEW f \in Endpoints, link[f] # 0
                   PROVE  IF ids'[link[f]].virtual
                          THEN \A g \in Endpoints : link[g] = link[f] => g = f
                          ELSE owner[f] = ids'[link[f]].number
        BY <2>1
      <4>1. ids'[link[f]] = ids[link[f]]
        BY <2>5 DEF LinkInv
      <4>2. IF ids[link[f]].virtual
            THEN \A g \in Endpoints : link[g] = link[f] => g = f
            ELSE owner[f] = ids[link[f]].number
        BY <3>1 DEF OwnerInv
      <4> QED BY <4>1, <4>2
    <3>3. \A f \in Endpoints : link'[f] # lastId'
      BY <2>1, <2>2, <2>5 DEF LinkInv
    <3>4. ~virtual => owner[e] = number
      BY DEF virtual, number, RealOwned
    <3> QED BY <2>1, <2>5, <3>2, <3>3, <3>4
  <2>10. \A f \in Endpoints : Number(f)' = Number(f)
    <3>1. 0 \notin Existing' /\ 0 \notin Existing
      BY <2>2, <2>4, <2>5 DEF NumberInv
    <3> SUFFICES ASSUME NEW f \in Endpoints PROVE Number(f)' = Number(f)
      OBVIOUS
    <3>2. CASE link[f] = 0
      BY <2>1, <3>1, <3>2 DEF Number
    <3>3. CASE link[f] \in Existing
      BY <2>1, <2>5, <3>3 DEF Number
    <3> QED BY <3>2, <3>3 DEF LinkInv
  <2>11. RowInv'
    BY <1>0, <2>1, <2>10 DEF RowInv
  <2> QED BY <2>1, <2>4, <2>6, <2>7, <2>8, <2>9, <2>11 DEF RealOwned
<1> QED BY <1>1, <1>2, <1>3

LEMMA LinkEndpointKeeps == ASSUME IdentityConstants, IdentityInv, LinkEndpoint PROVE IdentityInv'
<1> USE DEF IdentityInv
<1> DEFINE p == operation.endpoint
<1>1. /\ operation.at = "linking" /\ p \in Endpoints /\ operation.id \in Existing /\ link[p] = 0
      /\ link' = [link EXCEPT ![p] = operation.id]
      /\ inflight' = [inflight EXCEPT ![p] = ids[operation.id].number]
      /\ operation' = NoOperation /\ operation'.at = "idle"
      /\ UNCHANGED <<kind, ids, lastId, rows, owner, amiss, failures>>
  BY OperationKinds DEF LinkEndpoint, NoOperation
<1> HIDE DEF p
<1>2. link'[p] = operation.id /\ \A f \in Endpoints : f # p => link'[f] = link[f]
  BY <1>1 DEF IdentityTypeOK
<1>3. Existing' = Existing /\ operation.id # 0 /\ ids[operation.id].number \in Numbers /\ operation.id \in 0..MaxIds
  BY <1>1, NumbersAreNumbers DEF Existing, IdentityTypeOK
<1>4. IdentityTypeOK'
  BY <1>1, <1>3 DEF IdentityTypeOK
<1>5. NumberInv'
  BY <1>1 DEF NumberInv, UsedNumbers, Existing
<1>6. LinkInv'
  BY <1>1, <1>2, <1>3 DEF LinkInv
<1>7. OperationInv'
  BY <1>1 DEF OperationInv
<1>8. OwnerInv'
  <2> SUFFICES ASSUME amiss' = {}, NEW f \in Endpoints, link'[f] # 0
               PROVE  IF ids'[link'[f]].virtual
                      THEN \A g \in Endpoints : link'[g] = link'[f] => g = f
                      ELSE owner'[f] = ids'[link'[f]].number
    BY <1>1 DEF OwnerInv
  <2>1. /\ \A g \in Endpoints : link[g] # 0 =>
             IF ids[link[g]].virtual THEN \A h \in Endpoints : link[h] = link[g] => h = g
             ELSE owner[g] = ids[link[g]].number
        /\ IF ids[operation.id].virtual THEN \A g \in Endpoints : link[g] # operation.id
           ELSE owner[p] = ids[operation.id].number
    BY <1>1 DEF OwnerInv, p
  <2>2. CASE f = p
    BY <1>1, <1>2, <2>1, <2>2
  <2>3. CASE f # p
    BY <1>1, <1>2, <2>1, <2>3
  <2> QED BY <2>2, <2>3
<1>9. RowInv'
  <2> SUFFICES ASSUME amiss' = {}, NEW t \in TableSet, NEW f \in Endpoints
               PROVE  rows'[<<t, f>>] \in {NoNumber, Number(f)'}
    BY DEF RowInv
  <2>1. rows[<<t, f>>] \in {NoNumber, Number(f)}
    BY <1>1 DEF RowInv
  <2>2. CASE f = p
    <3>1. Number(f) = NoNumber
      BY <1>1, <2>2, NumbersAreNumbers DEF Number
    <3> QED BY <1>1, <2>1, <3>1
  <2>3. CASE f # p
    BY <1>1, <1>2, <1>3, <2>1, <2>3 DEF Number
  <2> QED BY <2>2, <2>3
<1> QED BY <1>1, <1>4, <1>5, <1>6, <1>7, <1>8, <1>9 DEF RealOwned

LEMMA StoreKeeps ==
  ASSUME IdentityConstants, IdentityInv, NEW e \in Endpoints, NEW t \in TableSet, Store(e, t)
  PROVE  IdentityInv'
<1> USE DEF IdentityInv
<1>1. /\ inflight[e] # NoNumber /\ inflight[e] \in Numbers
      /\ rows' = [rows EXCEPT ![<<t, e>>] = inflight[e]]
      /\ UNCHANGED <<kind, ids, lastId, link, inflight, operation, owner, failures>>
  BY DEF Store, IdentityTypeOK
<1>2. /\ amiss' = IF inflight[e] = Number(e) THEN amiss ELSE amiss \cup {"late"}
      /\ amiss' = {} => amiss = {} /\ inflight[e] = Number(e)
  BY DEF Store
<1>3. IdentityTypeOK'
  BY <1>1, <1>2 DEF IdentityTypeOK, Existing, Misses
<1>4. NumberInv' /\ LinkInv' /\ OperationInv' /\ RealOwned'
  BY <1>1 DEF NumberInv, UsedNumbers, Existing, LinkInv, OperationInv, RealOwned
<1>5. OwnerInv'
  BY <1>1, <1>2 DEF OwnerInv
<1>6. RowInv'
  <2> SUFFICES ASSUME amiss' = {}, NEW u \in TableSet, NEW f \in Endpoints
               PROVE  \/ rows'[<<u, f>>] \in {NoNumber, Number(f)}
                      \/ /\ operation.at = "merging" /\ link[f] = operation.target
                         /\ rows'[<<u, f>>] = ids[operation.source].number
                         /\ Left(u, operation.todo)
    BY <1>1 DEF RowInv, Number, Existing
  <2>1. CASE u = t /\ f = e
    BY <1>1, <1>2, <2>1 DEF IdentityTypeOK
  <2>2. CASE ~(u = t /\ f = e)
    <3>1. rows'[<<u, f>>] = rows[<<u, f>>]
      BY <1>1, <2>2 DEF IdentityTypeOK
    <3> QED BY <1>1, <1>2, <3>1 DEF RowInv
  <2> QED BY <2>1, <2>2
<1> QED BY <1>3, <1>4, <1>5, <1>6

LEMMA AnsweredKeeps ==
  ASSUME IdentityConstants, IdentityInv, NEW e \in Endpoints, Replied(e)
  PROVE  IdentityInv'
<1> USE DEF IdentityInv
<1>1. /\ inflight' = [inflight EXCEPT ![e] = NoNumber]
      /\ UNCHANGED <<kind, ids, lastId, link, rows, operation, owner, amiss, failures>>
  BY DEF Replied
<1>2. IdentityTypeOK'
  BY <1>1 DEF IdentityTypeOK, Existing
<1>3. NumberInv' /\ LinkInv' /\ OperationInv' /\ RealOwned'
  BY <1>1 DEF NumberInv, UsedNumbers, Existing, LinkInv, OperationInv, RealOwned
<1> QED BY <1>1, <1>2, <1>3 DEF OwnerInv, RowInv, Number, Existing

\* Bindings only concern endpoints without a real number of their own, and one
\* that goes well merges a virtual identity, with one endpoint, into n's.
LEMMA BindKeeps ==
  ASSUME IdentityConstants, IdentityInv, NEW e \in Native, NEW n \in RealNumbers, NEW reject \in BOOLEAN,
         Bind(e, n, reject)
  PROVE  IdentityInv'
<1> USE DEF IdentityInv
<1> DEFINE source == link[e]
           other == ~ids[source].virtual /\ ids[source].number # n
           found == FindByPublic(n)
           target == IF found = {} THEN lastId + 1 ELSE CHOOSE i \in found : TRUE
           todo == <<"endpoints">> \o Tables \o <<"identity">>
<1>1. /\ operation = NoOperation /\ operation.at = "idle" /\ source # 0 /\ source \in Existing
      /\ IF found = {} THEN target <= MaxIds /\ lastId' = target /\ ids' = Add(target, n, FALSE)
                       ELSE UNCHANGED <<ids, lastId>>
      /\ operation' = IF source = target THEN NoOperation
               ELSE [at |-> "merging", source |-> source, target |-> target, todo |-> todo]
      /\ amiss' = IF other THEN amiss \cup {"rebound"} ELSE amiss
      /\ owner' = [owner EXCEPT ![e] = n]
      /\ UNCHANGED <<kind, link, rows, inflight, failures>>
  BY OperationKinds DEF Bind, LinkInv, Endpoints
<1>2. /\ FirstVirtual \in Nat /\ lastId \in Nat /\ MaxIds \in Nat /\ e \in Endpoints
      /\ n \in Numbers /\ n \in Nat /\ n <= FirstVirtual /\ e \notin Real
  BY NumbersAreNumbers DEF IdentityConstants, IdentityTypeOK, Endpoints
<1>3. NumberInv' /\ Existing \subseteq Existing' /\ target \in Existing'
      /\ \A j \in Existing : ids'[j] = ids[j]
      /\ ids'[target].number = n /\ ~ids'[target].virtual
  <2>1. CASE found = {}
    <3>1. target = lastId + 1 /\ lastId < MaxIds /\ lastId' = lastId + 1 /\ ids' = Add(lastId', n, FALSE)
      BY <1>1, <1>2, <2>1
    <3>2. \A j \in Existing : ids[j].number # n
      BY <2>1 DEF FindByPublic
    <3>3. NumberInv' /\ lastId' \notin Existing
      <4>1. FALSE \in BOOLEAN /\ (FALSE <=> n > FirstVirtual) /\ n <= FirstVirtual + lastId'
        BY <1>2, <3>1
      <4> HIDE DEF target, found
      <4> QED BY <1>2, <3>1, <3>2, <4>1, AddKeepsNumbers
    <3>4. lastId' = target
      BY <3>1
    <3> HIDE DEF target, found
    <3>5. /\ Existing' = Existing \cup {target} /\ target \in Existing'
          /\ ids'[target] = [number |-> n, virtual |-> FALSE]
          /\ \A j \in Existing : ids'[j] = ids[j]
      BY <3>1, <3>3, <3>4, AddFacts
    <3> QED BY <3>3, <3>5
  <2>2. CASE found # {}
    <3>1. target \in found /\ UNCHANGED <<ids, lastId>>
      BY <1>1, <2>2
    <3>2. target \in Existing /\ ids[target].number = n
      BY <3>1 DEF FindByPublic
    <3> HIDE DEF target, found
    <3>3. ~ids[target].virtual
      <4>1. ids[target].virtual <=> n > FirstVirtual
        BY <3>2 DEF NumberInv
      <4>2. ~(n > FirstVirtual)
        BY <1>2
      <4> QED BY <4>1, <4>2
    <3>4. NumberInv'
      BY <3>1 DEF NumberInv, UsedNumbers, Existing
    <3> QED BY <3>1, <3>2, <3>3, <3>4 DEF Existing
  <2> QED BY <2>1, <2>2
<1>4. 0 \notin Existing' /\ Existing' \subseteq 1..MaxIds /\ lastId' \in 0..MaxIds
  BY <1>2, <1>3 DEF NumberInv
<1>5. Todo(todo) /\ todo[1] = "endpoints" /\ \A t \in TableSet : Left(t, todo)
  BY TodoStarts
<1> HIDE DEF source, other, found, target, todo
<1>6. \/ operation' = NoOperation
      \/ /\ operation' \in MergingOp /\ operation'.at = "merging" /\ operation'.source = source
         /\ operation'.target = target /\ operation'.todo = todo /\ source # target
  BY <1>1, <1>3, <1>4, <1>5 DEF MergingOp, Todo
<1>7. IdentityTypeOK'
  <2>1. operation'.at \in {"idle", "merging"}
    BY <1>6 DEF NoOperation
  <2>2. owner' \in [Endpoints -> Numbers \cup {NoNumber}] /\ amiss' \subseteq Misses
    BY <1>1, <1>2 DEF IdentityTypeOK, Misses
  <2> QED BY <1>1, <1>3, <1>4, <2>1, <2>2 DEF IdentityTypeOK, NumberInv
<1>8. LinkInv'
  BY <1>1, <1>3 DEF LinkInv
<1>9. OperationInv'
  BY <1>1, <1>3, <1>5, <1>6 DEF OperationInv
<1>10. RealOwned'
  BY <1>1, <1>2 DEF RealOwned, IdentityTypeOK, Endpoints
<1>11. \A f \in Endpoints : Number(f)' = Number(f)
  BY <1>1, <1>3, <1>4 DEF LinkInv, Number
<1>12. OwnerInv'
  <2> SUFFICES ASSUME amiss' = {}
               PROVE  OwnerInv'
    BY DEF OwnerInv
  <2>1. amiss = {} /\ ~other
    BY <1>1
  <2>2. /\ owner'[e] = n /\ \A f \in Endpoints : f # e => owner'[f] = owner[f]
    BY <1>1, <1>2 DEF IdentityTypeOK
  <2>3. \A f \in Endpoints : link[f] # 0 =>
             IF ids[link[f]].virtual THEN \A g \in Endpoints : link[g] = link[f] => g = f
             ELSE owner[f] = ids[link[f]].number
    BY <2>1 DEF OwnerInv
  <2>4. \A f \in Endpoints : link'[f] # 0 =>
             IF ids'[link'[f]].virtual THEN \A g \in Endpoints : link'[g] = link'[f] => g = f
             ELSE owner'[f] = ids'[link'[f]].number
    BY <1>1, <1>3, <2>1, <2>2, <2>3 DEF LinkInv, other, source
  <2>5. operation'.at = "merging" =>
          /\ ids'[operation'.source].virtual /\ ~ids'[operation'.target].virtual
          /\ \A f \in Endpoints : link'[f] = operation'.source => owner'[f] = ids'[operation'.target].number
    <3> SUFFICES ASSUME operation'.at = "merging" PROVE
          /\ ids'[source].virtual /\ ~ids'[target].virtual
          /\ \A f \in Endpoints : link[f] = source => owner'[f] = n
      BY <1>1, <1>3, <1>6 DEF NoOperation
    <3>1. source # target
      BY <1>6 DEF NoOperation
    <3>2. ids'[source].number # n
      <4>1. \A i, j \in Existing' : ids'[i].number = ids'[j].number => i = j
        BY <1>3 DEF NumberInv
      <4>2. source \in Existing' /\ target \in Existing' /\ ids'[target].number = n
        BY <1>1, <1>3
      <4> QED BY <3>1, <4>1, <4>2
    <3>3. ids[source].virtual
      BY <1>1, <1>3, <2>1, <3>2 DEF other
    <3>4. \A f \in Endpoints : link[f] = source => f = e
      BY <1>1, <1>2, <2>3, <3>3 DEF source
    <3> QED BY <1>1, <1>3, <2>2, <3>3, <3>4
  <2>6. operation'.at # "linking"
    BY <1>6 DEF NoOperation
  <2> QED BY <2>4, <2>5, <2>6 DEF OwnerInv
<1>13. RowInv'
  <2> SUFFICES ASSUME amiss' = {}, NEW t \in TableSet, NEW f \in Endpoints
               PROVE  rows'[<<t, f>>] \in {NoNumber, Number(f)'}
    BY DEF RowInv
  <2>1. amiss = {}
    BY <1>1
  <2> QED BY <1>1, <1>11, <2>1 DEF RowInv
<1> QED BY <1>3, <1>7, <1>8, <1>9, <1>10, <1>12, <1>13

-----------------------------------------------------------------------------
\* One write of merge() goes on to what is left, or ends the operation.
LEMMA MergeDone ==
  ASSUME OperationInv, operation.at = "merging", Finishes
  PROVE  \/ operation' = NoOperation /\ operation'.at = "idle" /\ Head(operation.todo) = "identity" /\ Tail(operation.todo) = <<>>
         \/ /\ operation' \in MergingOp /\ operation'.at = "merging"
            /\ operation'.source = operation.source
            /\ operation'.target = operation.target /\ operation'.todo = Tail(operation.todo)
            /\ Head(operation.todo) # "identity" /\ Todo(operation'.todo)
            /\ operation'.todo[1] # "endpoints"
            /\ \A t : Left(t, operation.todo) /\ t # Head(operation.todo) => Left(t, operation'.todo)
<1>1. operation \in MergingOp /\ Todo(operation.todo)
  BY OperationKinds
<1>2. CASE Tail(operation.todo) = <<>>
  BY <1>1, <1>2, TodoGoesOn DEF Finishes, NoOperation
<1>3. CASE Tail(operation.todo) # <<>>
  <2>1. operation' = [operation EXCEPT !.todo = Tail(operation.todo)]
    BY <1>3 DEF Finishes
  <2>2. Todo(Tail(operation.todo)) /\ Tail(operation.todo) \in Seq(TableWrites)
    BY <1>1, <1>3, TodoGoesOn DEF Todo
  <2>3. /\ operation' \in MergingOp /\ operation'.at = "merging"
        /\ operation'.source = operation.source
        /\ operation'.target = operation.target /\ operation'.todo = Tail(operation.todo)
    BY <1>1, <2>1, <2>2 DEF MergingOp
  <2> QED BY <1>1, <1>3, <2>2, <2>3, TodoGoesOn
<1> QED BY <1>2, <1>3

LEMMA MergeEndpointKeeps == ASSUME IdentityConstants, IdentityInv, MergeEndpoint PROVE IdentityInv'
<1> USE DEF IdentityInv
<1> DEFINE left == {f \in Endpoints : link[f] = operation.source}
<1>1. /\ operation.at = "merging" /\ Head(operation.todo) = "endpoints"
      /\ operation \in MergingOp /\ operation.source \in Existing /\ operation.target \in Existing
      /\ operation.source # operation.target
      /\ Todo(operation.todo) /\ operation.todo[1] = "endpoints"
      /\ \A t \in TableSet : Left(t, operation.todo)
      /\ UNCHANGED <<kind, ids, lastId, rows, inflight, owner, amiss, failures>>
  BY OperationKinds, TodoGoesOn DEF MergeEndpoint, Merging
<1>2. PICK e \in left : link' = [link EXCEPT ![e] = operation.target]
  BY DEF MergeEndpoint
<1>3. /\ e \in Endpoints /\ link[e] = operation.source /\ link'[e] = operation.target
      /\ \A f \in Endpoints : f # e => link'[f] = link[f]
  BY <1>2 DEF IdentityTypeOK
<1>4. Existing' = Existing /\ ids' = ids /\ 0 \notin Existing /\ operation.target \in 0..MaxIds
  BY <1>1, NumbersAreNumbers DEF Existing, IdentityTypeOK
<1>5. \/ operation' = operation
      \/ /\ operation' \in MergingOp /\ operation'.at = "merging"
         /\ operation'.source = operation.source
         /\ operation'.target = operation.target /\ Todo(operation'.todo)
         /\ operation'.todo[1] # "endpoints"
         /\ \A t \in TableSet : Left(t, operation'.todo)
         /\ \A f \in Endpoints : link'[f] # operation.source
  <2>1. CASE Cardinality(left) = 1
    <3>1. IsFiniteSet(left)
      BY FS_Subset DEF IdentityConstants, Endpoints
    <3>2. left = {e}
      <4>1. PICK x : left = {x}
        BY <2>1, <3>1, FS_Singleton
      <4> QED BY <1>2, <4>1
    <3>3. \A f \in Endpoints : link'[f] # operation.source
      BY <1>1, <1>3, <3>2
    <3>4. Finishes
      BY <2>1 DEF MergeEndpoint
    <3>5. \A t \in TableSet : t # "endpoints"
      BY DEF IdentityConstants
    <3> QED BY <1>1, <3>3, <3>4, <3>5, MergeDone
  <2>2. CASE Cardinality(left) # 1
    BY <2>2 DEF MergeEndpoint
  <2> QED BY <2>1, <2>2
<1>6. /\ operation' \in MergingOp /\ operation'.at = "merging"
      /\ operation'.source = operation.source
      /\ operation'.target = operation.target /\ Todo(operation'.todo)
      /\ \A t \in TableSet : Left(t, operation'.todo)
  BY <1>1, <1>5
<1> HIDE DEF left
<1>7. IdentityTypeOK'
  BY <1>1, <1>2, <1>3, <1>4, <1>6 DEF IdentityTypeOK
<1>8. NumberInv' /\ RealOwned'
  BY <1>1 DEF NumberInv, UsedNumbers, Existing, RealOwned
<1>9. LinkInv'
  BY <1>1, <1>3, <1>4 DEF LinkInv
<1>10. OperationInv'
  BY <1>1, <1>4, <1>5, <1>6 DEF OperationInv
<1>11. OwnerInv'
  <2> SUFFICES ASSUME amiss' = {}
               PROVE  /\ \A f \in Endpoints : link'[f] # 0 =>
                           IF ids[link'[f]].virtual
                           THEN \A g \in Endpoints : link'[g] = link'[f] => g = f
                           ELSE owner[f] = ids[link'[f]].number
                      /\ ids[operation.source].virtual /\ ~ids[operation.target].virtual
                      /\ \A f \in Endpoints : link'[f] = operation.source => owner[f] = ids[operation.target].number
    BY <1>1, <1>6 DEF OwnerInv
  <2>1. /\ \A f \in Endpoints : link[f] # 0 =>
             IF ids[link[f]].virtual THEN \A g \in Endpoints : link[g] = link[f] => g = f
             ELSE owner[f] = ids[link[f]].number
        /\ ids[operation.source].virtual /\ ~ids[operation.target].virtual
        /\ \A f \in Endpoints : link[f] = operation.source => owner[f] = ids[operation.target].number
    BY <1>1 DEF OwnerInv
  <2>2. \A f \in Endpoints : link'[f] # 0 =>
           IF ids[link'[f]].virtual
           THEN \A g \in Endpoints : link'[g] = link'[f] => g = f
           ELSE owner[f] = ids[link'[f]].number
    BY <1>3, <2>1
  <2> QED BY <1>1, <1>3, <2>1, <2>2
<1>12. RowInv'
  <2> SUFFICES ASSUME amiss' = {}, NEW t \in TableSet, NEW f \in Endpoints
               PROVE  \/ rows[<<t, f>>] \in {NoNumber, Number(f)'}
                      \/ link'[f] = operation.target /\ rows[<<t, f>>] = ids[operation.source].number
    BY <1>1, <1>6 DEF RowInv
  <2>1. \/ rows[<<t, f>>] \in {NoNumber, Number(f)}
        \/ link[f] = operation.target /\ rows[<<t, f>>] = ids[operation.source].number
    BY <1>1 DEF RowInv
  <2>2. CASE f = e
    BY <1>1, <1>3, <2>1, <2>2 DEF Number
  <2>3. CASE f # e
    BY <1>3, <1>4, <2>1, <2>3 DEF Number
  <2> QED BY <2>2, <2>3
<1> QED BY <1>7, <1>8, <1>9, <1>10, <1>11, <1>12

LEMMA MergeTableKeeps ==
  ASSUME IdentityConstants, IdentityInv, NEW u \in TableSet, MergeTable(u)
  PROVE  IdentityInv'
<1> USE DEF IdentityInv
<1>1. /\ operation.at = "merging" /\ Head(operation.todo) = u /\ Finishes
      /\ operation \in MergingOp /\ operation.source \in Existing /\ operation.target \in Existing
      /\ operation.source # operation.target
      /\ rows' = [x \in DOMAIN rows |->
                    IF x[1] = u /\ rows[x] = ids[operation.source].number
                    THEN ids[operation.target].number ELSE rows[x]]
      /\ UNCHANGED <<kind, ids, lastId, link, inflight, owner, amiss, failures>>
  BY OperationKinds DEF MergeTable, Merging
<1>2. u \notin {"endpoints", "identity"}
  BY DEF IdentityConstants
<1>3. \A f \in Endpoints : link[f] # operation.source
  BY <1>1, <1>2, OperationKinds, TodoGoesOn
<1>4. /\ operation' \in MergingOp /\ operation'.at = "merging"
      /\ operation'.source = operation.source
      /\ operation'.target = operation.target /\ Todo(operation'.todo)
      /\ operation'.todo[1] # "endpoints"
      /\ \A t : Left(t, operation.todo) /\ t # u => Left(t, operation'.todo)
  BY <1>1, <1>2, MergeDone
<1>5. /\ Existing' = Existing /\ 0 \notin Existing /\ NoNumber \notin Numbers
      /\ \A i \in Existing : ids[i].number \in Numbers
  BY <1>1, NumbersAreNumbers DEF Existing, NoNumber
<1>6. /\ rows \in [TableSet \X Endpoints -> Numbers \cup {NoNumber}]
      /\ \A t \in TableSet, f \in Endpoints :
            rows'[<<t, f>>] = IF t = u /\ rows[<<t, f>>] = ids[operation.source].number
                              THEN ids[operation.target].number ELSE rows[<<t, f>>]
  BY <1>1 DEF IdentityTypeOK
<1>7. IdentityTypeOK'
  <2>1. rows' \in [TableSet \X Endpoints -> Numbers \cup {NoNumber}]
    BY <1>1, <1>5 DEF IdentityTypeOK
  <2> QED BY <1>1, <1>4, <1>5, <2>1 DEF IdentityTypeOK
<1>8. NumberInv' /\ RealOwned' /\ LinkInv'
  BY <1>1 DEF NumberInv, UsedNumbers, Existing, RealOwned, LinkInv
<1>9. OperationInv'
  BY <1>1, <1>3, <1>4, <1>5 DEF OperationInv
<1>10. OwnerInv'
  BY <1>1, <1>4 DEF OwnerInv
<1>11. RowInv'
  <2>0. \A f \in Endpoints : Number(f)' = Number(f)
    BY <1>1, <1>5 DEF Number
  <2> SUFFICES ASSUME amiss' = {}, NEW t \in TableSet, NEW f \in Endpoints
               PROVE  \/ rows'[<<t, f>>] \in {NoNumber, Number(f)'}
                      \/ /\ operation'.at = "merging" /\ link'[f] = operation'.target
                         /\ rows'[<<t, f>>] = ids'[operation'.source].number
                         /\ Left(t, operation'.todo)
    BY DEF RowInv
  <2> SUFFICES \/ rows'[<<t, f>>] \in {NoNumber, Number(f)}
               \/ /\ link[f] = operation.target /\ rows'[<<t, f>>] = ids[operation.source].number
                  /\ Left(t, operation'.todo)
    BY <1>1, <1>4, <2>0
  <2>1. \/ rows[<<t, f>>] \in {NoNumber, Number(f)}
        \/ /\ link[f] = operation.target /\ rows[<<t, f>>] = ids[operation.source].number
           /\ Left(t, operation.todo)
    BY <1>1 DEF RowInv
  <2>2. CASE rows[<<t, f>>] \in {NoNumber, Number(f)}
    <3>1. Number(f) # ids[operation.source].number
      <4>1. CASE link[f] \in Existing
        BY <1>1, <1>3, <4>1 DEF NumberInv, Number
      <4>2. CASE link[f] \notin Existing
        BY <1>1, <1>5, <4>2 DEF Number
      <4> QED BY <4>1, <4>2
    <3>2. rows[<<t, f>>] # ids[operation.source].number
      BY <1>1, <1>5, <2>2, <3>1
    <3> QED BY <1>6, <2>2, <3>2
  <2>3. CASE /\ link[f] = operation.target /\ rows[<<t, f>>] = ids[operation.source].number
             /\ Left(t, operation.todo)
    <3>1. CASE t = u
      BY <1>1, <1>6, <2>3, <3>1 DEF Number
    <3>2. CASE t # u
      BY <1>4, <1>6, <2>3, <3>2
    <3> QED BY <3>1, <3>2
  <2> QED BY <2>1, <2>2, <2>3
<1> QED BY <1>7, <1>8, <1>9, <1>10, <1>11

LEMMA MergeIdentityKeeps == ASSUME IdentityConstants, IdentityInv, MergeIdentity PROVE IdentityInv'
<1> USE DEF IdentityInv
<1>1. /\ operation.at = "merging" /\ Head(operation.todo) = "identity" /\ Finishes
      /\ operation \in MergingOp /\ operation.source \in Existing /\ operation.target \in Existing
      /\ operation.source # operation.target
      /\ Todo(operation.todo)
      /\ ids' = [i \in Existing \ {operation.source} |-> ids[i]]
      /\ UNCHANGED <<kind, lastId, link, rows, inflight, owner, amiss, failures>>
  BY OperationKinds DEF MergeIdentity, Merging
<1>2. \A f \in Endpoints : link[f] # operation.source
  BY <1>1, OperationKinds, TodoGoesOn
<1>3. operation' = NoOperation /\ operation'.at = "idle" /\ Tail(operation.todo) = <<>>
  BY <1>1, MergeDone
<1>4. Existing' = Existing \ {operation.source} /\ \A i \in Existing' : ids'[i] = ids[i]
  BY <1>1 DEF Existing
<1>5. IdentityTypeOK'
  BY <1>1, <1>3, <1>4 DEF IdentityTypeOK
<1>6. NumberInv'
  <2>1. UsedNumbers' \subseteq UsedNumbers
    BY <1>1, <1>4 DEF UsedNumbers
  <2> QED BY <1>1, <1>4, <2>1 DEF NumberInv
<1>7. LinkInv' /\ RealOwned' /\ OperationInv'
  BY <1>1, <1>2, <1>3, <1>4 DEF LinkInv, RealOwned, OperationInv
<1>8. OwnerInv'
  BY <1>1, <1>2, <1>3, <1>4 DEF OwnerInv, LinkInv
<1>9. RowInv'
  <2> SUFFICES ASSUME amiss' = {}, NEW t \in TableSet, NEW f \in Endpoints
               PROVE  rows'[<<t, f>>] \in {NoNumber, Number(f)'}
    BY DEF RowInv
  <2>1. Number(f)' = Number(f)
    BY <1>1, <1>2, <1>4 DEF Number
  <2>2. ~Left(t, operation.todo)
    <3>1. t # "identity"
      BY DEF IdentityConstants
    <3>2. ~Left(t, Tail(operation.todo))
      <4>1. Len(Tail(operation.todo)) = 0
        <5>1. Len(<<>>) = 0
          OBVIOUS
        <5> QED BY <1>3, <5>1
      <4> QED BY <4>1 DEF Left
    <3> QED BY <1>1, <3>1, <3>2, TodoGoesOn
  <2> QED BY <1>1, <2>1, <2>2 DEF RowInv
<1> QED BY <1>5, <1>6, <1>7, <1>8, <1>9

\* What ends in the middle of a merge is amiss from then on.
LEMMA FailKeeps == ASSUME IdentityConstants, IdentityInv, Fail PROVE IdentityInv'
<1> USE DEF IdentityInv
<1>1. /\ failures < MaxFailures /\ failures' = failures + 1 /\ operation' = NoOperation
      /\ operation'.at = "idle"
      /\ amiss' = IF operation.at = "merging" THEN amiss \cup {"halfway"} ELSE amiss
      /\ UNCHANGED <<kind, ids, lastId, link, rows, inflight, owner>>
  BY DEF Fail, NoOperation
<1>2. failures' \in 0..MaxFailures /\ amiss' \subseteq Misses
  BY <1>1 DEF IdentityTypeOK, IdentityConstants, Misses
<1>3. IdentityTypeOK'
  BY <1>1, <1>2 DEF IdentityTypeOK, Existing
<1>4. NumberInv' /\ LinkInv' /\ OperationInv' /\ RealOwned'
  BY <1>1 DEF NumberInv, UsedNumbers, Existing, LinkInv, OperationInv, RealOwned
<1>5. amiss' = {} => amiss = {} /\ operation.at # "merging"
  BY <1>1
<1>6. OwnerInv'
  BY <1>1, <1>5 DEF OwnerInv
<1>7. RowInv'
  BY <1>1, <1>5 DEF RowInv, Number, Existing
<1> QED BY <1>3, <1>4, <1>6, <1>7

LEMMA RestartKeeps == ASSUME IdentityConstants, IdentityInv, Restart PROVE IdentityInv'
<1> USE DEF IdentityInv
<1> DEFINE gone(x) == kind = "group" /\ x[1] = Tables[1] /\ rows[x] > FirstVirtual
                        /\ FindByPublic(rows[x]) = {}
<1>1. /\ failures < MaxFailures /\ failures' = failures + 1 /\ operation' = NoOperation
      /\ operation'.at = "idle"
      /\ inflight' = [f \in Endpoints |-> NoNumber]
      /\ amiss' = IF operation.at = "merging" THEN amiss \cup {"halfway"} ELSE amiss
      /\ rows' = [x \in DOMAIN rows |-> IF gone(x) THEN NoNumber ELSE rows[x]]
      /\ UNCHANGED <<kind, ids, lastId, link, owner>>
  BY DEF Restart, NoOperation
<1> HIDE DEF gone
<1>2. failures' \in 0..MaxFailures /\ amiss' \subseteq Misses
  BY <1>1 DEF IdentityTypeOK, IdentityConstants, Misses
<1>3. rows' \in [TableSet \X Endpoints -> Numbers \cup {NoNumber}]
  BY <1>1 DEF IdentityTypeOK
<1>4. IdentityTypeOK'
  BY <1>1, <1>2, <1>3 DEF IdentityTypeOK, Existing
<1>5. NumberInv' /\ LinkInv' /\ OperationInv' /\ RealOwned'
  BY <1>1 DEF NumberInv, UsedNumbers, Existing, LinkInv, OperationInv, RealOwned
<1>6. amiss' = {} => amiss = {} /\ operation.at # "merging"
  BY <1>1
<1>7. OwnerInv'
  BY <1>1, <1>6 DEF OwnerInv
<1>8. RowInv'
  <2>1. \A t \in TableSet, f \in Endpoints : rows'[<<t, f>>] \in {NoNumber, rows[<<t, f>>]}
    BY <1>1 DEF IdentityTypeOK
  <2>2. \A f \in Endpoints : Number(f)' = Number(f)
    BY <1>1 DEF Number, Existing
  <2> QED BY <1>6, <2>1, <2>2 DEF RowInv
<1> QED BY <1>4, <1>5, <1>7, <1>8

-----------------------------------------------------------------------------
LEMMA IdentityStarts == ASSUME IdentityConstants, IdentityInit PROVE IdentityInv
<1>1. Existing = {} /\ operation.at = "idle" /\ amiss = {} /\ lastId = 0
  BY DEF IdentityInit, Existing, NoOperation
<1>2. IdentityTypeOK
  <2>1. owner \in [Endpoints -> Numbers \cup {NoNumber}]
    BY DEF IdentityInit, IdentityConstants, Numbers
  <2> QED BY <1>1, <2>1 DEF IdentityInit, IdentityTypeOK, IdentityConstants, NoNumber
<1>3. NumberInv
  <2>1. UsedNumbers = {FirstVirtual} /\ FirstVirtual \in Nat
    BY <1>1 DEF UsedNumbers, IdentityConstants
  <2>2. ASSUME NEW T \in SUBSET UsedNumbers, T # {} PROVE \E m \in T : \A n \in T : n <= m
    <3>1. FirstVirtual <= FirstVirtual
      BY <2>1
    <3>2. PICK m \in T : TRUE
      BY <2>2
    <3>3. \A n \in T : n = FirstVirtual
      BY <2>1
    <3> QED BY <3>1, <3>2, <3>3
  <2> QED BY <1>1, <2>2 DEF NumberInv, IdentityConstants
<1>4. LinkInv /\ OperationInv /\ RealOwned /\ OwnerInv
  BY <1>1 DEF IdentityInit, LinkInv, OperationInv, RealOwned, OwnerInv, Endpoints
<1>5. RowInv
  BY DEF IdentityInit, RowInv
<1> QED BY <1>2, <1>3, <1>4, <1>5 DEF IdentityInv

LEMMA IdentityGoesOn ==
  ASSUME IdentityConstants, IdentityInv, [IdentityNext]_identityVars
  PROVE  IdentityInv'
<1>1. CASE \E e \in Endpoints : Observe(e) \/ Replied(e) \/ \E t \in TableSet : Store(e, t)
  BY <1>1, ObserveKeeps, AnsweredKeeps, StoreKeeps
<1>2. CASE \E e \in Native, n \in RealNumbers, reject \in BOOLEAN : Bind(e, n, reject)
  BY <1>2, BindKeeps
<1>3. CASE LinkEndpoint \/ MergeEndpoint \/ MergeIdentity
  BY <1>3, LinkEndpointKeeps, MergeEndpointKeeps, MergeIdentityKeeps
<1>4. CASE \E t \in TableSet : MergeTable(t)
  BY <1>4, MergeTableKeeps
<1>5. CASE Fail \/ Restart
  BY <1>5, FailKeeps, RestartKeeps
<1>6. CASE UNCHANGED identityVars
  <2>1. IdentityTypeOK' /\ NumberInv'
    BY <1>6 DEF identityVars, IdentityInv, IdentityTypeOK, NumberInv, UsedNumbers, Existing
  <2>2. LinkInv' /\ OperationInv' /\ RealOwned'
    BY <1>6 DEF identityVars, IdentityInv, LinkInv, OperationInv, RealOwned, Existing
  <2>3. OwnerInv' /\ RowInv'
    BY <1>6 DEF identityVars, IdentityInv, OwnerInv, RowInv, Number, Existing
  <2> QED BY <2>1, <2>2, <2>3 DEF IdentityInv
<1> QED BY <1>1, <1>2, <1>3, <1>4, <1>5, <1>6 DEF IdentityNext

LEMMA IdentityInvariant == ASSUME IdentityConstants PROVE IdentitySpec => []IdentityInv
<1>1. IdentityInit => IdentityInv
  BY IdentityStarts
<1>2. IdentityInv /\ [IdentityNext]_identityVars => IdentityInv'
  BY IdentityGoesOn
<1> QED BY <1>1, <1>2, PTL DEF IdentitySpec

(* The registry, its operation in progress and the handlers' numbers stay  *)
(* well-formed, whatever is interrupted.                                   *)
THEOREM IdentityTypeCorrect == ASSUME IdentityConstants PROVE IdentitySpec => []IdentityTypeOK
<1>1. IdentityInv => IdentityTypeOK
  BY DEF IdentityInv
<1> QED BY <1>1, IdentityInvariant, PTL

(* Wherever an operation stops, every endpoint leads to an identity and a  *)
(* public number to one identity only.                                     *)
THEOREM EveryoneHasANumber == ASSUME IdentityConstants PROVE IdentitySpec => []EndpointsResolve
<1>1. IdentityInv => EndpointsResolve
  BY DEF IdentityInv, LinkInv, NumberInv, EndpointsResolve
<1> QED BY <1>1, IdentityInvariant, PTL

(* While no merge ended halfway, no handler wrote late and no endpoint was *)
(* moved from one real number to another, endpoints that share a number    *)
(* have one owner, and data is where its owner's number leads.             *)
THEOREM PeopleStayApart == ASSUME IdentityConstants PROVE IdentitySpec => []PeopleApart
<1>1. ASSUME IdentityInv PROVE PeopleApart
  <2> SUFFICES ASSUME amiss = {}, operation = NoOperation PROVE PeopleApart
    BY DEF PeopleApart
  <2>1. operation.at = "idle"
    BY DEF NoOperation
  <2>2. \A t \in TableSet, e \in Endpoints : rows[<<t, e>>] \in {NoNumber, Number(e)}
    BY <1>1, <2>1 DEF IdentityInv, RowInv
  <2>3. ASSUME NEW e \in Endpoints, NEW f \in Endpoints, e # f, link[e] = link[f], link[e] # 0
        PROVE  owner[e] = owner[f] /\ owner[e] # NoNumber
    <3>1. ids[link[e]].number \in Numbers /\ NoNumber \notin Numbers
      BY <1>1, <2>3, NumbersAreNumbers DEF IdentityInv, LinkInv, NoNumber
    <3>2. /\ ~ids[link[e]].virtual /\ owner[e] = ids[link[e]].number
          /\ owner[f] = ids[link[f]].number
      BY <1>1, <2>3 DEF IdentityInv, OwnerInv
    <3> QED BY <2>3, <3>1, <3>2
  <2> QED BY <2>2, <2>3 DEF PeopleApart
<1>2. IdentityInv => PeopleApart
  BY <1>1
<1> QED BY <1>2, IdentityInvariant, PTL

-----------------------------------------------------------------------------
(* CloudCards.                                                              *)

CloudConstants ==
  /\ MaxCards \in Nat \ {0} /\ MaxClouds \in Nat /\ MaxFaults \in Nat
  /\ MaxEdits \in Nat /\ MaxEdits >= 2 /\ Fields # {}

CloudOps ==
  [at : {"asking", "importing", "linking"}, upload : BOOLEAN, ctx : Contexts,
   cloud : 0..MaxClouds, card : 0..MaxCards, data : Data, base : Nat, links : BOOLEAN,
   doc : Data, rev : Nat]

(* All of a card has been typed; data e have been typed over data d.       *)
Full(d) == \A f \in Fields : d[f] \in 1..lastEdit
Before(d, e) == \A f \in Fields : d[f] = e[f] \/ d[f] \in past[e[f]]
Tracks(card, d) == ~raced /\ card \in Local => Before(d, local[card])

(* Replacing is transitive, and only what has been typed is replaced.      *)
PastInv ==
  /\ past \in [Edits -> SUBSET Edits] /\ lastEdit \in 2..MaxEdits
  /\ \A e \in Edits : past[e] \subseteq 1..lastEdit
  /\ \A b \in Edits : \A a \in past[b] : past[a] \subseteq past[b]

CardInv ==
  /\ local \in [Cards -> Data] /\ lastCard \in Cards
  /\ \A l \in Local : Full(local[l]) /\ l <= lastCard

(* Every revision of a cloud card has been typed over the earlier ones.    *)
CloudInv ==
  /\ cloud \in [Clouds -> Seq(Data)]
  /\ \A c \in Clouds : \A i \in 1..Len(cloud[c]) : Full(cloud[c][i])
ChainInv ==
  ~raced => \A c \in Clouds : \A i, j \in 1..Len(cloud[c]) :
                i <= j => Before(cloud[c][i], cloud[c][j])

LinkOK(x, c) ==
  LET saved == links[<<x, c>>] IN
  saved # NoLink =>
    /\ saved.card \in 1..lastCard /\ saved.rev \in 1..Len(cloud[c])
    /\ saved.data = cloud[c][saved.rev] /\ Tracks(saved.card, saved.data)
LocalInv ==
  /\ links \in [Contexts \X Clouds -> [card : 0..MaxCards, data : Data, rev : Nat]]
  /\ \A x \in Contexts, c \in Clouds : LinkOK(x, c)

WriterInv ==
  /\ writer \in [card : 0..MaxCards, data : Data]
  /\ writer # NoWriter => writer.card \in 1..lastCard /\ Full(writer.data)

(* What the worker knows of the card, and of the revision it uploads over. *)
Asking ==
  /\ command.upload => command.card # 0
  /\ command.cloud # 0 => 1 \in 1..Len(cloud[command.cloud])
  /\ command.cloud = 0 => command.upload /\ command.base = 0
  /\ command.cloud # 0 /\ command.base = 0 => ~command.upload /\ command.card = 0
  /\ command.base # 0 =>
       /\ command.base \in 1..Len(cloud[command.cloud])
       /\ IF command.upload THEN ~raced => Before(cloud[command.cloud][command.base], command.data)
          ELSE command.data = cloud[command.cloud][command.base]
AnswerOK == command.cloud # 0 /\ command.rev \in 1..Len(cloud[command.cloud]) /\ command.doc = cloud[command.cloud][command.rev]
OpInv ==
  \/ command = NoCommand
  \/ /\ command \in CloudOps
     /\ command.card # 0 => command.card <= lastCard /\ Full(command.data) /\ Tracks(command.card, command.data)
     /\ command.at = "asking" => Asking
     /\ command.at = "importing" =>
          /\ AnswerOK
          /\ command.card # 0 /\ ~raced => Before(command.data, command.doc)
          /\ command.upload => command.card # 0 /\ (command.base = 0 => command.data = command.doc)
     /\ command.at = "linking" =>
          /\ command.card # 0 /\ command.cloud # 0 /\ command.rev \in 1..Len(cloud[command.cloud])
          /\ command.data = cloud[command.cloud][command.rev]

CloudRest == raced \in BOOLEAN /\ faults \in 0..MaxFaults

SyncInv ==
  /\ PastInv /\ CardInv /\ CloudInv /\ ChainInv /\ LocalInv /\ WriterInv /\ OpInv /\ CloudRest

(* What no step takes back: an edit keeps its past, a card that is gone    *)
(* stays away, one that is not is only typed over, and cloud cards only    *)
(* get new revisions.                                                      *)
Extends ==
  /\ lastEdit' >= lastEdit /\ \A e \in 1..lastEdit : past'[e] = past[e]
  /\ raced => raced'
  /\ lastCard' >= lastCard
  /\ \A l \in 1..lastCard :
       \/ local'[l] = Gone
       \/ /\ local[l] # Gone
          /\ ~raced' => \A f \in Fields : \/ local[l][f] = local'[l][f]
                                          \/ local[l][f] \in past'[local'[l][f]]
  /\ \A c \in Clouds : /\ Len(cloud'[c]) >= Len(cloud[c])
                       /\ \A i \in 1..Len(cloud[c]) : cloud'[c][i] = cloud[c][i]
CloudShared == PastInv /\ CardInv /\ CloudInv

-----------------------------------------------------------------------------
LEMMA CloudSizes ==
  ASSUME CloudConstants, CloudShared
  PROVE  /\ MaxCards \in Nat /\ lastCard \in Nat /\ lastCard \in 1..MaxCards
         /\ lastEdit \in Nat /\ MaxEdits \in Nat /\ lastEdit <= MaxEdits /\ 1..lastEdit \subseteq Edits
         /\ \A c \in Clouds : cloud[c] \in Seq(Data) /\ Len(cloud[c]) \in Nat
BY DEF CloudConstants, CloudShared, PastInv, CardInv, CloudInv, Cards, Edits

\* Somebody types over an edit.
LEMMA TypedFacts ==
  ASSUME CloudConstants, PastInv, NEW old \in 1..lastEdit, Typed(old)
  PROVE  /\ PastInv' /\ lastEdit' = lastEdit + 1 /\ lastEdit' \in 1..MaxEdits
         /\ \A e \in 1..lastEdit : past'[e] = past[e]
         /\ old \in past'[lastEdit']
<1>1. /\ lastEdit \in Nat /\ MaxEdits \in Nat /\ lastEdit >= 2 /\ lastEdit' = lastEdit + 1
      /\ lastEdit' \in Edits /\ lastEdit' \in 2..MaxEdits /\ old \in Edits
      /\ past' = [past EXCEPT ![lastEdit'] = {old} \cup past[old]]
  BY DEF CloudConstants, PastInv, Typed, Edits
<1>2. /\ past'[lastEdit'] = {old} \cup past[old]
      /\ \A e \in Edits : e # lastEdit' => past'[e] = past[e]
      /\ DOMAIN past' = Edits
  BY <1>1 DEF PastInv
<1>3. \A e \in 1..lastEdit : e \in Edits /\ e # lastEdit' /\ e \in 1..lastEdit'
  BY <1>1 DEF Edits
<1>4. \A e \in Edits : past'[e] \subseteq 1..lastEdit /\ past'[e] \subseteq Edits
  BY <1>2, <1>3 DEF PastInv
<1>5. ASSUME NEW b \in Edits, NEW a \in past'[b] PROVE past'[a] \subseteq past'[b]
  <2>1. a \in 1..lastEdit /\ past'[a] = past[a]
    BY <1>2, <1>3, <1>4, <1>5
  <2>2. CASE b = lastEdit'
    BY <1>1, <1>2, <2>1, <2>2, <1>5 DEF PastInv
  <2>3. CASE b # lastEdit'
    BY <1>2, <1>5, <2>1, <2>3 DEF PastInv
  <2> QED BY <2>2, <2>3
<1>6. PastInv'
  <2>1. past' \in [Edits -> SUBSET Edits]
    BY <1>1, <1>4 DEF PastInv
  <2>2. \A e \in Edits : past'[e] \subseteq 1..lastEdit'
    BY <1>3, <1>4
  <2> QED BY <1>1, <1>5, <2>1, <2>2 DEF PastInv
<1> QED BY <1>1, <1>2, <1>3, <1>6 DEF Edits

\* Data typed over earlier ones are so for good, and over what these replaced.
LEMMA BeforeStays ==
  ASSUME CloudConstants, CloudShared, Extends, NEW d, NEW e, Full(e), Before(d, e)
  PROVE  \A f \in Fields : d[f] = e[f] \/ d[f] \in past'[e[f]]
BY DEF Extends, Full, Before

LEMMA BeforeGoesOn ==
  ASSUME CloudConstants, PastInv, NEW d, NEW e, NEW g, Before(d, e), Before(e, g), Full(g)
  PROVE  Before(d, g)
<1> SUFFICES ASSUME NEW f \in Fields PROVE d[f] = g[f] \/ d[f] \in past[g[f]]
  BY DEF Before
<1>1. g[f] \in Edits
  BY DEF CloudConstants, Full, Edits, PastInv
<1>2. (d[f] = e[f] \/ d[f] \in past[e[f]]) /\ (e[f] = g[f] \/ e[f] \in past[g[f]])
  BY DEF Before
<1> QED BY <1>1, <1>2 DEF PastInv

\* What was typed over d is not lost by a step.
LEMMA TracksStays ==
  ASSUME CloudConstants, CloudShared, CloudShared', Extends,
         NEW card \in 1..lastCard, NEW d, Tracks(card, d), ~raced', local'[card] # Gone
  PROVE  \A f \in Fields : d[f] = local'[card][f] \/ d[f] \in past'[local'[card][f]]
<1> SUFFICES ASSUME NEW f \in Fields
             PROVE  d[f] = local'[card][f] \/ d[f] \in past'[local'[card][f]]
  OBVIOUS
<1>1. card \in Cards /\ local[card] # Gone /\ ~raced /\ card \in Local
  BY CloudSizes DEF Extends, Cards, Local
<1>2. local[card][f] \in 1..lastEdit /\ local'[card][f] \in Edits
  <2>1. card \in Local'
    BY <1>1 DEF Local
  <2>2. lastEdit' \in 2..MaxEdits
    BY DEF CloudShared, PastInv
  <2> QED BY <1>1, <2>1, <2>2 DEF CloudShared, CardInv, Full, Edits, CloudConstants
<1>3. d[f] = local[card][f] \/ d[f] \in past'[local[card][f]]
  BY <1>1, <1>2 DEF Tracks, Before, Extends
<1>4. local[card][f] = local'[card][f] \/ local[card][f] \in past'[local'[card][f]]
  BY <1>1 DEF Extends
<1>5. \A b \in Edits : \A a \in past'[b] : past'[a] \subseteq past'[b]
  BY DEF CloudShared, PastInv
<1> QED BY <1>2, <1>3, <1>4, <1>5

\* A link or a command that is not written stays right.
LEMMA LinksStay ==
  ASSUME CloudConstants, SyncInv, CloudShared', Extends,
         NEW x \in Contexts, NEW c \in Clouds, links'[<<x, c>>] = links[<<x, c>>]
  PROVE  LinkOK(x, c)'
<1> DEFINE k == links[<<x, c>>]
<1> SUFFICES ASSUME k # NoLink
             PROVE  /\ k.card \in 1..lastCard' /\ k.rev \in 1..Len(cloud'[c])
                    /\ k.data = cloud'[c][k.rev]
                    /\ ~raced' /\ local'[k.card] # Gone =>
                         \A f \in Fields : \/ k.data[f] = local'[k.card][f]
                                           \/ k.data[f] \in past'[local'[k.card][f]]
  BY DEF LinkOK, Tracks, Before, Local
<1>0. CloudShared
  BY DEF SyncInv, CloudShared
<1>1. /\ k.card \in 1..lastCard /\ k.rev \in 1..Len(cloud[c])
      /\ k.data = cloud[c][k.rev] /\ Tracks(k.card, k.data)
  BY DEF SyncInv, LocalInv, LinkOK
<1> HIDE DEF k
<1>2. k.card \in 1..lastCard'
  BY <1>0, <1>1, CloudSizes DEF Extends, CloudShared, CardInv, Cards
<1>3. k.rev \in 1..Len(cloud'[c]) /\ k.data = cloud'[c][k.rev]
  <2>1. Len(cloud'[c]) \in Nat
    BY DEF CloudShared, CloudInv
  <2> QED BY <1>0, <1>1, <2>1, CloudSizes DEF Extends
<1> QED BY <1>0, <1>1, <1>2, <1>3, TracksStays

LEMMA OpStays ==
  ASSUME CloudConstants, SyncInv, CloudShared', Extends, command' = command
  PROVE  OpInv'
<1>0. CloudShared
  BY DEF SyncInv, CloudShared
<1>1. CASE command = NoCommand
  BY <1>1 DEF OpInv
<1>2. CASE command # NoCommand
  <2>1. /\ command \in CloudOps
        /\ command.card # 0 => command.card <= lastCard /\ Full(command.data) /\ Tracks(command.card, command.data)
        /\ command.at = "asking" => Asking
        /\ command.at = "importing" =>
             /\ AnswerOK
             /\ command.card # 0 /\ ~raced => Before(command.data, command.doc)
             /\ command.upload => command.card # 0 /\ (command.base = 0 => command.data = command.doc)
        /\ command.at = "linking" =>
             /\ command.card # 0 /\ command.cloud # 0 /\ command.rev \in 1..Len(cloud[command.cloud])
             /\ command.data = cloud[command.cloud][command.rev]
    BY <1>2 DEF SyncInv, OpInv
  <2>2. /\ command.cloud # 0 => command.cloud \in Clouds
        /\ command.card # 0 => command.card \in 1..MaxCards
    BY <2>1 DEF CloudOps, Clouds, CloudConstants
  <2>3. /\ lastCard' >= lastCard /\ lastCard' \in Nat /\ lastEdit' >= lastEdit /\ lastEdit' \in Nat
        /\ \A c \in Clouds : Len(cloud'[c]) \in Nat
    BY DEF Extends, CloudShared, CardInv, PastInv, CloudInv, Cards, CloudConstants
  <2>4. command.card # 0 => command.card <= lastCard' /\ Full(command.data)' /\ Tracks(command.card, command.data)'
    <3> SUFFICES ASSUME command.card # 0
                 PROVE  /\ command.card <= lastCard' /\ \A f \in Fields : command.data[f] \in 1..lastEdit'
                        /\ ~raced' /\ local'[command.card] # Gone =>
                             \A f \in Fields : \/ command.data[f] = local'[command.card][f]
                                               \/ command.data[f] \in past'[local'[command.card][f]]
      BY DEF Full, Tracks, Before, Local
    <3>1. command.card \in 1..lastCard /\ command.card <= lastCard'
      BY <1>0, <2>1, <2>2, <2>3, CloudSizes
    <3>2. \A f \in Fields : command.data[f] \in 1..lastEdit'
      BY <1>0, <2>1, <2>3, CloudSizes DEF Full
    <3> QED BY <1>0, <2>1, <3>1, <3>2, TracksStays
  <2>5. \A c \in Clouds : \A i \in 1..Len(cloud[c]) : i \in 1..Len(cloud'[c]) /\ cloud'[c][i] = cloud[c][i]
    BY <1>0, <2>3, CloudSizes DEF Extends
  <2>6. command.at = "asking" => Asking'
    <3> SUFFICES ASSUME command.at = "asking" PROVE Asking'
      OBVIOUS
    <3>1. Asking
      BY <2>1
    <3>2. ASSUME command.base # 0
          PROVE  /\ command.base \in 1..Len(cloud'[command.cloud])
                 /\ cloud'[command.cloud][command.base] = cloud[command.cloud][command.base]
      BY <2>2, <2>5, <3>1, <3>2 DEF Asking
    <3>3. ASSUME command.base # 0, command.upload, ~raced'
          PROVE  \A f \in Fields : \/ cloud'[command.cloud][command.base][f] = command.data[f]
                                   \/ cloud'[command.cloud][command.base][f] \in past'[command.data[f]]
      <4>1. Full(command.data) /\ ~raced /\ Before(cloud[command.cloud][command.base], command.data)
        BY <2>1, <3>1, <3>3 DEF Asking, Extends
      <4> QED BY <1>0, <3>2, <3>3, <4>1, BeforeStays
    <3>4. command.cloud # 0 => 1 \in 1..Len(cloud'[command.cloud])
      BY <2>2, <2>5, <3>1 DEF Asking
    <3> QED BY <3>1, <3>2, <3>3, <3>4 DEF Asking, Before
  <2>7. command.at = "importing" =>
          /\ AnswerOK'
          /\ command.card # 0 /\ ~raced' => Before(command.data, command.doc)'
    <3> SUFFICES ASSUME command.at = "importing"
                 PROVE  /\ AnswerOK'
                        /\ command.card # 0 /\ ~raced' => Before(command.data, command.doc)'
      OBVIOUS
    <3>1. AnswerOK /\ (command.card # 0 /\ ~raced => Before(command.data, command.doc))
      BY <2>1
    <3>2. Full(command.doc)
      BY <1>0, <2>2, <3>1 DEF AnswerOK, CloudShared, CloudInv
    <3>3. AnswerOK'
      BY <2>2, <2>5, <3>1 DEF AnswerOK
    <3>4. ASSUME command.card # 0, ~raced'
          PROVE \A f \in Fields : command.data[f] = command.doc[f] \/ command.data[f] \in past'[command.doc[f]]
      BY <1>0, <3>1, <3>2, <3>4, BeforeStays DEF Extends
    <3> QED BY <3>3, <3>4 DEF Before
  <2> QED BY <2>1, <2>2, <2>4, <2>5, <2>6, <2>7 DEF OpInv
<1> QED BY <1>1, <1>2

\* Steps of the worker that change neither side.
LEMMA SameStays ==
  ASSUME CloudConstants, SyncInv, UNCHANGED <<local, lastCard, cloud, past, lastEdit, raced>>
  PROVE  Extends /\ CloudShared' /\ ChainInv'
<1>0. CloudShared
  BY DEF SyncInv, CloudShared
<1>1. \A l \in 1..lastCard : local'[l] = Gone \/ local[l] # Gone
  BY DEF Gone
<1>2. Extends
  BY <1>0, <1>1, CloudSizes DEF Extends
<1>3. CloudShared'
  BY <1>0 DEF CloudShared, PastInv, CardInv, CloudInv, Full, Local
<1>4. ChainInv'
  BY DEF SyncInv, ChainInv, Before
<1> QED BY <1>2, <1>3, <1>4

\* The links that no step but SaveLink writes.
LEMMA LinksSame ==
  ASSUME CloudConstants, SyncInv, CloudShared', Extends, links' = links
  PROVE  LocalInv'
BY LinksStay DEF LocalInv, SyncInv

\* The same for a writer without the mutex.
LEMMA WriterSame ==
  ASSUME CloudConstants, SyncInv, CloudShared', Extends, writer' = writer
  PROVE  WriterInv'
<1>1. lastCard' >= lastCard /\ lastCard' \in Nat /\ lastEdit' >= lastEdit /\ lastEdit' \in Nat
  BY DEF Extends, CloudShared, CardInv, PastInv, Cards, CloudConstants
<1>2. lastCard \in Nat /\ lastEdit \in Nat
  BY CloudSizes DEF SyncInv, CloudShared
<1> QED BY <1>1, <1>2 DEF SyncInv, WriterInv, Full

-----------------------------------------------------------------------------
\* A card is written: with one field typed over d, which is what the card is, or
\* was when it was read.
LEMMA CardTyped ==
  ASSUME CloudConstants, SyncInv, NEW l \in Local, NEW f \in Fields, NEW d \in Data, Full(d),
         Typed(d[f]), local' = [local EXCEPT ![l] = [d EXCEPT ![f] = lastEdit']],
         raced' = (raced \/ local[l] # d), UNCHANGED <<lastCard, cloud>>
  PROVE  Extends /\ CloudShared' /\ ChainInv'
<1>0. CloudShared
  BY DEF SyncInv, CloudShared
<1>1. /\ PastInv' /\ lastEdit' = lastEdit + 1 /\ lastEdit' \in 1..MaxEdits
      /\ \A e \in 1..lastEdit : past'[e] = past[e]
      /\ d[f] \in past'[lastEdit']
  BY <1>0, TypedFacts DEF CloudShared, Full
<1> DEFINE n == [d EXCEPT ![f] = lastEdit']
<1>2. /\ n \in Data /\ n[f] = lastEdit' /\ \A g \in Fields : g # f => n[g] = d[g]
      /\ l \in Cards /\ local[l] # Gone
  BY <1>1 DEF Data, Local
<1>3. local'[l] = n /\ \A k \in Cards : k # l => local'[k] = local[k]
  BY <1>0, <1>2 DEF CloudShared, CardInv
<1>4. lastEdit \in Nat /\ lastEdit' \in Nat
  BY <1>0, <1>1, CloudSizes
<1>5. CardInv'
  <2>1. local' \in [Cards -> Data] /\ lastCard' \in Cards
    BY <1>0, <1>2 DEF CloudShared, CardInv
  <2>2. ASSUME NEW k \in Local' PROVE (\A g \in Fields : local'[k][g] \in 1..lastEdit') /\ k <= lastCard'
    <3>1. CASE k = l
      BY <1>0, <1>1, <1>2, <1>3, <1>4, <3>1 DEF Full, CloudShared, CardInv
    <3>2. CASE k # l
      <4>1. k \in Local /\ local'[k] = local[k]
        BY <1>3, <2>2, <3>2 DEF Local
      <4> QED BY <1>0, <1>1, <1>4, <4>1 DEF Full, CloudShared, CardInv
    <3> QED BY <3>1, <3>2
  <2> QED BY <2>1, <2>2 DEF CardInv, Full
<1>6. CloudInv'
  BY <1>0, <1>1, <1>4 DEF CloudShared, CloudInv, Full
<1>7. Extends
  <2>0. (raced => raced') /\ (~raced' => local[l] = d)
    OBVIOUS
  <2>1. \A k \in 1..lastCard :
          \/ local'[k] = Gone
          \/ /\ local[k] # Gone
             /\ ~raced' => \A g \in Fields : \/ local[k][g] = local'[k][g]
                                             \/ local[k][g] \in past'[local'[k][g]]
    <3> SUFFICES ASSUME NEW k \in 1..lastCard, local'[k] # Gone
                 PROVE  /\ local[k] # Gone
                        /\ ~raced' => \A g \in Fields : \/ local[k][g] = local'[k][g]
                                                        \/ local[k][g] \in past'[local'[k][g]]
      OBVIOUS
    <3>1. k \in Cards
      BY <1>0, CloudSizes DEF Cards
    <3>2. CASE k = l
      <4>1. ~raced' => local[l] = d
        BY <2>0
      <4>2. \A g \in Fields : d[g] = n[g] \/ d[g] \in past'[n[g]]
        BY <1>1, <1>2
      <4> QED BY <1>2, <1>3, <3>2, <4>1, <4>2
    <3>3. CASE k # l
      BY <1>3, <3>1, <3>3
    <3> QED BY <3>2, <3>3
  <2>2. lastCard' >= lastCard
    BY <1>0, CloudSizes
  <2> HIDE DEF n
  <2> QED BY <1>0, <1>1, <1>4, <2>0, <2>1, <2>2, CloudSizes DEF Extends
<1>8. ChainInv'
  <2> SUFFICES ASSUME ~raced', NEW c \in Clouds, NEW i \in 1..Len(cloud[c]),
                      NEW j \in 1..Len(cloud[c]), i <= j
               PROVE  \A g \in Fields : \/ cloud[c][i][g] = cloud[c][j][g]
                                        \/ cloud[c][i][g] \in past'[cloud[c][j][g]]
    BY DEF ChainInv, Before
  <2>1. Before(cloud[c][i], cloud[c][j]) /\ Full(cloud[c][j])
    BY <1>0 DEF SyncInv, ChainInv, CloudShared, CloudInv
  <2> QED BY <1>0, <1>7, <2>1, BeforeStays
<1> QED BY <1>1, <1>5, <1>6, <1>7, <1>8 DEF CloudShared

\* A cloud card gets a revision, typed over the newest one.
LEMMA RevisionAppended ==
  ASSUME CloudConstants, SyncInv, PastInv', lastEdit' >= lastEdit, raced' = raced,
         \A e \in 1..lastEdit : past'[e] = past[e], UNCHANGED <<local, lastCard>>,
         NEW c \in Clouds, NEW d \in Data, \A f \in Fields : d[f] \in 1..lastEdit',
         cloud' = [cloud EXCEPT ![c] = Append(cloud[c], d)],
         ~raced' /\ cloud[c] # <<>> =>
            \A f \in Fields : Newest(c)[f] = d[f] \/ Newest(c)[f] \in past'[d[f]]
  PROVE  Extends /\ CloudShared' /\ ChainInv' /\ cloud'[c][Len(cloud'[c])] = d
<1>0. CloudShared
  BY DEF SyncInv, CloudShared
<1>1. /\ lastEdit \in Nat /\ lastEdit' \in Nat /\ cloud[c] \in Seq(Data) /\ Len(cloud[c]) \in Nat
      /\ \A k \in Clouds : cloud[k] \in Seq(Data) /\ Len(cloud[k]) \in Nat
  BY <1>0, CloudSizes DEF PastInv, CloudConstants
<1>2. cloud'[c] = Append(cloud[c], d) /\ \A k \in Clouds : k # c => cloud'[k] = cloud[k]
  BY <1>0 DEF CloudShared, CloudInv
<1>3. /\ cloud'[c] \in Seq(Data) /\ Len(cloud'[c]) = Len(cloud[c]) + 1
      /\ cloud'[c][Len(cloud[c]) + 1] = d
      /\ \A i \in 1..Len(cloud[c]) : cloud'[c][i] = cloud[c][i]
  BY <1>1, <1>2, AppendProperties
<1>4. Extends
  <2>1. \A l \in 1..lastCard : local'[l] = Gone \/ local[l] # Gone
    OBVIOUS
  <2>2. \A k \in Clouds : /\ Len(cloud'[k]) >= Len(cloud[k])
                          /\ \A i \in 1..Len(cloud[k]) : cloud'[k][i] = cloud[k][i]
    BY <1>1, <1>2, <1>3
  <2> QED BY <1>0, <2>1, <2>2, CloudSizes DEF Extends
<1>5. CardInv'
  BY <1>0, <1>1 DEF CloudShared, CardInv, Full, Local
<1>6. CloudInv'
  <2>1. cloud' \in [Clouds -> Seq(Data)]
    BY <1>0, <1>3 DEF CloudShared, CloudInv
  <2>2. ASSUME NEW k \in Clouds, NEW i \in 1..Len(cloud'[k])
        PROVE  \A f \in Fields : cloud'[k][i][f] \in 1..lastEdit'
    <3>1. CASE k = c /\ i = Len(cloud[c]) + 1
      BY <1>3, <3>1
    <3>2. CASE ~(k = c /\ i = Len(cloud[c]) + 1)
      <4>1. i \in 1..Len(cloud[k]) /\ cloud'[k][i] = cloud[k][i]
        BY <1>1, <1>2, <1>3, <2>2, <3>2
      <4>2. Full(cloud[k][i])
        BY <1>0, <4>1 DEF CloudShared, CloudInv
      <4> QED BY <1>1, <4>1, <4>2 DEF Full
    <3> QED BY <3>1, <3>2
  <2> QED BY <2>1, <2>2 DEF CloudInv, Full
<1>7. ChainInv'
  <2> SUFFICES ASSUME ~raced', NEW k \in Clouds, NEW i \in 1..Len(cloud'[k]),
                      NEW j \in 1..Len(cloud'[k]), i <= j
               PROVE  \A f \in Fields : \/ cloud'[k][i][f] = cloud'[k][j][f]
                                        \/ cloud'[k][i][f] \in past'[cloud'[k][j][f]]
    BY DEF ChainInv, Before
  <2>1. \A m, n \in 1..Len(cloud[k]) : m <= n =>
          \A f \in Fields : \/ cloud[k][m][f] = cloud[k][n][f]
                            \/ cloud[k][m][f] \in past'[cloud[k][n][f]]
    <3> SUFFICES ASSUME NEW m \in 1..Len(cloud[k]), NEW n \in 1..Len(cloud[k]), m <= n
                 PROVE  \A f \in Fields : \/ cloud[k][m][f] = cloud[k][n][f]
                                          \/ cloud[k][m][f] \in past'[cloud[k][n][f]]
      OBVIOUS
    <3>1. Before(cloud[k][m], cloud[k][n]) /\ Full(cloud[k][n])
      BY <1>0 DEF SyncInv, ChainInv, CloudShared, CloudInv
    <3> QED BY <1>0, <1>4, <3>1, BeforeStays
  <2>2. CASE k # c \/ j # Len(cloud[c]) + 1
    <3>1. i \in 1..Len(cloud[k]) /\ j \in 1..Len(cloud[k])
      BY <1>1, <1>2, <1>3, <2>2
    <3> QED BY <1>1, <1>2, <1>3, <2>1, <3>1
  <2>3. CASE k = c /\ j = Len(cloud[c]) + 1 /\ i = j
    BY <2>3
  <2>4. CASE k = c /\ j = Len(cloud[c]) + 1 /\ i # j
    <3>1. /\ i \in 1..Len(cloud[c]) /\ Len(cloud[c]) \in 1..Len(cloud[c]) /\ i <= Len(cloud[c])
          /\ cloud[c] # <<>>
      BY <1>1, <1>3, <2>4
    <3>2. cloud'[c][i] = cloud[c][i] /\ cloud'[c][j] = d
      BY <1>3, <2>4, <3>1
    <3>3. \A f \in Fields : \/ cloud[c][i][f] = Newest(c)[f]
                            \/ cloud[c][i][f] \in past'[Newest(c)[f]]
      BY <2>1, <2>4, <3>1 DEF Newest
    <3>4. \A f \in Fields : Newest(c)[f] = d[f] \/ Newest(c)[f] \in past'[d[f]]
      BY <3>1
    <3>5. \A f \in Fields : d[f] \in Edits
      BY <1>1 DEF PastInv, Edits, CloudConstants
    <3>6. \A b \in Edits : \A a \in past'[b] : past'[a] \subseteq past'[b]
      BY DEF PastInv
    <3> QED BY <2>4, <3>2, <3>3, <3>4, <3>5, <3>6
  <2> QED BY <2>2, <2>3, <2>4
<1> QED BY <1>3, <1>4, <1>5, <1>6, <1>7 DEF CloudShared

-----------------------------------------------------------------------------
LEMMA GoneIsData == ASSUME CloudConstants PROVE Gone \in Data /\ NoWriter \in [card : 0..MaxCards, data : Data]
BY DEF CloudConstants, Gone, Data, NoWriter

LEMMA EditLocalKeeps ==
  ASSUME CloudConstants, SyncInv, NEW l \in Cards, NEW f \in Fields, EditLocal(l, f)
  PROVE  SyncInv' /\ Extends
<1>1. /\ l \in Local /\ Typed(local[l][f])
      /\ local' = [local EXCEPT ![l] = [local[l] EXCEPT ![f] = lastEdit']]
      /\ UNCHANGED <<lastCard, cloud, links, command, writer, raced, faults>>
  BY DEF EditLocal
<1>2. local[l] \in Data /\ Full(local[l])
  BY <1>1 DEF SyncInv, CardInv
<1>3. raced' = (raced \/ local[l] # local[l])
  <2>1. raced \in BOOLEAN /\ raced' = raced
    BY <1>1 DEF SyncInv, CloudRest
  <2> QED BY <2>1
<1>4. Extends /\ CloudShared' /\ ChainInv'
  BY <1>1, <1>2, <1>3, CardTyped
<1>5. OpInv' /\ LocalInv' /\ WriterInv'
  BY <1>1, <1>4, OpStays, LinksSame, WriterSame
<1> QED BY <1>1, <1>4, <1>5 DEF SyncInv, CloudShared, CloudRest

LEMMA WriteUnlockedKeeps ==
  ASSUME CloudConstants, SyncInv, NEW f \in Fields, WriteUnlocked(f)
  PROVE  SyncInv' /\ Extends
<1>1. /\ writer # NoWriter /\ writer.card \in Local /\ Typed(writer.data[f])
      /\ local' = [local EXCEPT ![writer.card] = [writer.data EXCEPT ![f] = lastEdit']]
      /\ raced' = (raced \/ local[writer.card] # writer.data)
      /\ writer' = NoWriter
      /\ UNCHANGED <<lastCard, cloud, links, command, faults>>
  BY DEF WriteUnlocked
<1>2. writer.data \in Data /\ Full(writer.data)
  BY <1>1 DEF SyncInv, WriterInv
<1>3. Extends /\ CloudShared' /\ ChainInv'
  BY <1>1, <1>2, CardTyped
<1>4. OpInv' /\ LocalInv'
  BY <1>1, <1>3, OpStays, LinksSame
<1>5. WriterInv'
  BY <1>1, GoneIsData DEF WriterInv
<1>6. CloudRest'
  <2>1. raced' \in BOOLEAN
    BY <1>1
  <2> QED BY <1>1, <2>1 DEF SyncInv, CloudRest
<1> QED BY <1>3, <1>4, <1>5, <1>6 DEF SyncInv, CloudShared

LEMMA DeleteCardKeeps ==
  ASSUME CloudConstants, SyncInv, NEW l \in Cards, DeleteCard(l)
  PROVE  SyncInv' /\ Extends
<1>0. CloudShared
  BY DEF SyncInv, CloudShared
<1>1. /\ l \in Local /\ local' = [local EXCEPT ![l] = Gone]
      /\ UNCHANGED <<lastCard, cloud, links, command, writer, past, lastEdit, raced, faults>>
  BY DEF DeleteCard, ghosts
<1>2. \A k \in Cards : local'[k] = Gone \/ local'[k] = local[k]
  BY <1>0, <1>1 DEF CloudShared, CardInv
<1>3. CloudShared'
  <2>1. local' \in [Cards -> Data]
    BY <1>0, <1>1, GoneIsData DEF CloudShared, CardInv
  <2>2. Local' \subseteq Local /\ \A k \in Local' : local'[k] = local[k]
    BY <1>2 DEF Local
  <2>3. CardInv'
    BY <1>0, <1>1, <2>1, <2>2 DEF CloudShared, CardInv, Full
  <2> QED BY <1>0, <1>1, <2>3 DEF CloudShared, PastInv, CloudInv, Full
<1>4. Extends
  <2>1. \A k \in 1..lastCard : local'[k] = Gone \/ local'[k] = local[k]
    BY <1>0, <1>2, CloudSizes DEF Cards
  <2> QED BY <1>0, <1>1, <2>1, CloudSizes DEF Extends
<1>5. ChainInv'
  BY <1>1 DEF SyncInv, ChainInv, Before
<1>6. OpInv' /\ LocalInv' /\ WriterInv'
  BY <1>1, <1>3, <1>4, OpStays, LinksSame, WriterSame
<1> QED BY <1>1, <1>3, <1>4, <1>5, <1>6 DEF SyncInv, CloudShared, CloudRest

LEMMA EditCloudKeeps ==
  ASSUME CloudConstants, SyncInv, NEW c \in Clouds, NEW f \in Fields, EditCloud(c, f)
  PROVE  SyncInv' /\ Extends
<1>0. CloudShared
  BY DEF SyncInv, CloudShared
<1> DEFINE n == [Newest(c) EXCEPT ![f] = lastEdit']
<1>1. /\ c \in OnCloud /\ Typed(Newest(c)[f])
      /\ cloud' = [cloud EXCEPT ![c] = Append(cloud[c], n)]
      /\ UNCHANGED <<local, lastCard, links, command, writer, raced, faults>>
  BY DEF EditCloud
<1>2. Newest(c) \in Data /\ Full(Newest(c))
  <2>1. Len(cloud[c]) \in 1..Len(cloud[c]) /\ cloud[c] \in Seq(Data)
    BY <1>0, <1>1, CloudSizes, EmptySeq DEF OnCloud
  <2> QED BY <1>0, <2>1 DEF Newest, CloudShared, CloudInv
<1>3. /\ PastInv' /\ lastEdit' = lastEdit + 1 /\ lastEdit' \in 1..MaxEdits
      /\ \A e \in 1..lastEdit : past'[e] = past[e]
      /\ Newest(c)[f] \in past'[lastEdit']
  BY <1>0, <1>1, <1>2, TypedFacts DEF CloudShared, Full
<1>4. n \in Data /\ n[f] = lastEdit' /\ \A g \in Fields : g # f => n[g] = Newest(c)[g]
  BY <1>2, <1>3 DEF Data
<1>5. /\ lastEdit' >= lastEdit /\ \A g \in Fields : n[g] \in 1..lastEdit'
      /\ \A g \in Fields : Newest(c)[g] = n[g] \/ Newest(c)[g] \in past'[n[g]]
  <2>1. lastEdit \in Nat
    BY <1>0, CloudSizes
  <2> QED BY <1>2, <1>3, <1>4, <2>1 DEF Full
<1> HIDE DEF n
<1>6. Extends /\ CloudShared' /\ ChainInv'
  BY <1>1, <1>3, <1>4, <1>5, RevisionAppended
<1>7. OpInv' /\ LocalInv' /\ WriterInv'
  BY <1>1, <1>6, OpStays, LinksSame, WriterSame
<1> QED BY <1>1, <1>6, <1>7 DEF SyncInv, CloudShared, CloudRest

\* The writer without the mutex reads, or finds nothing to write.
LEMMA ReadUnlockedKeeps ==
  ASSUME CloudConstants, SyncInv, NEW l \in Cards, ReadUnlocked(l)
  PROVE  SyncInv' /\ Extends
<1>1. /\ l \in Local /\ writer' = [card |-> l, data |-> local[l]]
      /\ UNCHANGED <<local, lastCard, cloud, links, command, past, lastEdit, raced, faults>>
  BY DEF ReadUnlocked, ghosts
<1>2. Extends /\ CloudShared' /\ ChainInv'
  BY <1>1, SameStays
<1>3. OpInv' /\ LocalInv'
  BY <1>1, <1>2, OpStays, LinksSame
<1>4. WriterInv'
  <2>1. l \in 1..lastCard /\ l \in 0..MaxCards /\ local[l] \in Data /\ Full(local[l])
    BY <1>1 DEF SyncInv, CardInv, Cards, CloudConstants
  <2> QED BY <1>1, <2>1 DEF WriterInv, Full
<1> QED BY <1>1, <1>2, <1>3, <1>4 DEF SyncInv, CloudShared, CloudRest

LEMMA WriteNothingKeeps ==
  ASSUME CloudConstants, SyncInv, WriteNothing
  PROVE  SyncInv' /\ Extends
<1>1. /\ writer' = NoWriter
      /\ UNCHANGED <<local, lastCard, cloud, links, command, past, lastEdit, raced, faults>>
  BY DEF WriteNothing, ghosts
<1>2. Extends /\ CloudShared' /\ ChainInv'
  BY <1>1, SameStays
<1>3. OpInv' /\ LocalInv'
  BY <1>1, <1>2, OpStays, LinksSame
<1>4. WriterInv'
  BY <1>1, GoneIsData DEF WriterInv
<1> QED BY <1>1, <1>2, <1>3, <1>4 DEF SyncInv, CloudShared, CloudRest

LEMMA InterruptKeeps ==
  ASSUME CloudConstants, SyncInv, Interrupt
  PROVE  SyncInv' /\ Extends
<1>1. /\ faults < MaxFaults /\ faults' = faults + 1 /\ command' = NoCommand /\ writer' \in {writer, NoWriter}
      /\ UNCHANGED <<local, lastCard, cloud, links, past, lastEdit, raced>>
  BY DEF Interrupt, ghosts
<1>2. Extends /\ CloudShared' /\ ChainInv'
  BY <1>1, SameStays
<1>3. LocalInv' /\ OpInv'
  BY <1>1, <1>2, LinksSame DEF OpInv
<1>4. WriterInv'
  <2>1. CASE writer' = writer
    BY <1>2, <2>1, WriterSame
  <2>2. CASE writer' = NoWriter
    BY <2>2, GoneIsData DEF WriterInv
  <2> QED BY <1>1, <2>1, <2>2
<1>5. CloudRest'
  BY <1>1 DEF SyncInv, CloudRest, CloudConstants
<1> QED BY <1>2, <1>3, <1>4, <1>5 DEF SyncInv, CloudShared

-----------------------------------------------------------------------------
\* The commands.
LEMMA PullKeeps ==
  ASSUME CloudConstants, SyncInv, NEW x \in Contexts, NEW c \in Clouds, NEW copy \in BOOLEAN,
         Pull(x, c, copy)
  PROVE  SyncInv' /\ Extends
<1> DEFINE saved == links[<<x, c>>]
           card == IF copy \/ saved = NoLink THEN 0 ELSE saved.card
<1>1. /\ c \in OnCloud
      /\ saved # NoLink /\ ~copy => saved.card \in Local /\ local[saved.card] = saved.data
      /\ command' = [at |-> "asking", upload |-> FALSE, ctx |-> x, cloud |-> c, card |-> card,
                data |-> saved.data, base |-> saved.rev, links |-> ~copy, doc |-> Gone, rev |-> 0]
      /\ UNCHANGED <<local, lastCard, cloud, links, writer, past, lastEdit, raced, faults>>
  BY DEF Pull, ghosts
<1>2. Extends /\ CloudShared' /\ ChainInv'
  BY <1>1, SameStays
<1>3. LocalInv' /\ WriterInv'
  BY <1>1, <1>2, LinksSame, WriterSame
<1>4. OpInv'
  <2>1. /\ saved \in [card : 0..MaxCards, data : Data, rev : Nat] /\ LinkOK(x, c)
        /\ Gone \in Data /\ c \in 0..MaxClouds /\ c # 0
    BY GoneIsData DEF SyncInv, LocalInv, Clouds
  <2>2. saved # NoLink => saved.rev \in 1..Len(cloud[c]) /\ saved.data = cloud[c][saved.rev]
    BY <2>1 DEF LinkOK
  <2>3. saved = NoLink => saved.rev = 0
    BY DEF NoLink
  <2>4. card # 0 => /\ card \in Local /\ local[card] = saved.data /\ card <= lastCard
                    /\ Full(saved.data)
    BY <1>1 DEF SyncInv, CardInv
  <2>5. card \in 0..MaxCards
    BY <2>1, CloudConstants DEF CloudConstants
  <2>6. 1 \in 1..Len(cloud[c])
    <3>1. cloud[c] \in Seq(Data) /\ cloud[c] # <<>>
      BY <1>1 DEF SyncInv, CloudInv, OnCloud
    <3> QED BY <3>1, EmptySeq
  <2>7. saved = NoLink => card = 0
    OBVIOUS
  <2> HIDE DEF card, saved
  <2>8. command' \in CloudOps /\ command'.at = "asking" /\ ~command'.upload /\ command'.cloud = c /\ command'.card = card
        /\ command'.data = saved.data /\ command'.base = saved.rev
    BY <1>1, <2>1, <2>5 DEF CloudOps
  <2>9. Asking'
    BY <1>1, <2>1, <2>2, <2>3, <2>6, <2>7, <2>8 DEF Asking
  <2> QED BY <1>1, <2>4, <2>8, <2>9 DEF OpInv, Full, Tracks, Before
<1> QED BY <1>1, <1>2, <1>3, <1>4 DEF SyncInv, CloudShared, CloudRest

LEMMA PushKeeps ==
  ASSUME CloudConstants, SyncInv, NEW x \in Contexts, NEW l \in Cards, Push(x, l)
  PROVE  SyncInv' /\ Extends
<1> DEFINE found == LinkedTo(x, l)
           c == IF found = {} THEN 0 ELSE CHOOSE d \in found : TRUE
           base == IF c = 0 THEN 0 ELSE links[<<x, c>>].rev
<1>1. /\ l \in Local
      /\ command' = [at |-> "asking", upload |-> TRUE, ctx |-> x, cloud |-> c, card |-> l,
                data |-> local[l], base |-> base, links |-> TRUE, doc |-> Gone, rev |-> 0]
      /\ UNCHANGED <<local, lastCard, cloud, links, writer, past, lastEdit, raced, faults>>
  BY DEF Push, ghosts
<1>2. Extends /\ CloudShared' /\ ChainInv'
  BY <1>1, SameStays
<1>3. LocalInv' /\ WriterInv'
  BY <1>1, <1>2, LinksSame, WriterSame
<1>4. OpInv'
  <2>1. c = 0 \/ (c \in Clouds /\ links[<<x, c>>].card = l)
    <3>1. CASE found = {}
      BY <3>1
    <3>2. CASE found # {}
      <4>1. c \in found
        BY <3>2
      <4> QED BY <4>1 DEF LinkedTo
    <3> QED BY <3>1, <3>2
  <2> HIDE DEF c
  <2>2. /\ l \in 1..MaxCards /\ l # 0 /\ l <= lastCard /\ local[l] \in Data /\ Full(local[l])
        /\ Gone \in Data
    BY <1>1, GoneIsData DEF SyncInv, CardInv, Cards, CloudConstants
  <2>3. c # 0 => /\ base \in 1..Len(cloud[c]) /\ base # 0 /\ base \in Nat
                 /\ ~raced => Before(cloud[c][base], local[l])
    <3> SUFFICES ASSUME c # 0
                 PROVE  /\ base \in 1..Len(cloud[c]) /\ base # 0 /\ base \in Nat
                        /\ ~raced => Before(cloud[c][base], local[l])
      OBVIOUS
    <3>1. LinkOK(x, c) /\ links[<<x, c>>] # NoLink
      BY <2>1, <2>2 DEF SyncInv, LocalInv, NoLink
    <3> QED BY <1>1, <2>1, <3>1 DEF LinkOK, Tracks
  <2>4. c = 0 => base = 0
    OBVIOUS
  <2> HIDE DEF base
  <2>5. c \in 0..MaxClouds
    BY <2>1 DEF Clouds, CloudConstants
  <2>6. command' \in CloudOps /\ command'.at = "asking" /\ command'.upload /\ command'.cloud = c /\ command'.card = l
        /\ command'.data = local[l] /\ command'.base = base
    BY <1>1, <2>2, <2>3, <2>4, <2>5 DEF CloudOps
  <2>7. c # 0 => 1 \in 1..Len(cloud[c])
    <3> SUFFICES ASSUME c # 0 PROVE 1 \in 1..Len(cloud[c])
      OBVIOUS
    <3>1. Len(cloud[c]) \in Nat
      BY <2>1 DEF SyncInv, CloudInv
    <3> QED BY <2>3, <3>1
  <2>8. Asking'
    BY <1>1, <2>2, <2>3, <2>4, <2>6, <2>7 DEF Asking, Before
  <2> QED BY <1>1, <2>2, <2>6, <2>8 DEF OpInv, Full, Tracks, Before
<1> QED BY <1>1, <1>2, <1>3, <1>4 DEF SyncInv, CloudShared, CloudRest

LEMMA AnsweredFacts ==
  ASSUME command \in CloudOps, NEW c \in 0..MaxClouds, NEW d \in Data, NEW r \in Nat, Answered(c, d, r)
  PROVE  /\ command' \in CloudOps /\ command'.at = "importing" /\ command'.cloud = c /\ command'.doc = d /\ command'.rev = r
         /\ command'.card = command.card /\ command'.data = command.data /\ command'.base = command.base
         /\ command'.upload = command.upload
BY DEF Answered, CloudOps

\* What is right of a command that is under way.
LEMMA OpFacts ==
  ASSUME CloudConstants, SyncInv, command # NoCommand
  PROVE  /\ command \in CloudOps /\ (command.card # 0 => command.card \in 1..lastCard /\ command.card \in Cards)
         /\ (command.cloud # 0 => command.cloud \in Clouds /\ cloud[command.cloud] \in Seq(Data)
                             /\ Len(cloud[command.cloud]) \in Nat)
         /\ command.card # 0 => Full(command.data) /\ Tracks(command.card, command.data)
BY DEF SyncInv, OpInv, CloudOps, Clouds, Cards, CloudConstants, CardInv, CloudInv

LEMMA ServeGetKeeps == ASSUME CloudConstants, SyncInv, ServeGet PROVE SyncInv' /\ Extends
<1>1. /\ command.at = "asking" /\ ~command.upload
      /\ Answered(command.cloud, Newest(command.cloud), Len(cloud[command.cloud]))
      /\ UNCHANGED <<local, lastCard, cloud, links, writer, past, lastEdit, raced, faults>>
  BY DEF ServeGet, ghosts
<1>2. Extends /\ CloudShared' /\ ChainInv'
  BY <1>1, SameStays
<1>3. LocalInv' /\ WriterInv'
  BY <1>1, <1>2, LinksSame, WriterSame
<1>4. OpInv'
  <2>1. command # NoCommand /\ Asking
    BY <1>1 DEF SyncInv, OpInv, NoCommand
  <2> DEFINE n == Len(cloud[command.cloud])
             d == Newest(command.cloud)
  <2>2. command.cloud # 0 /\ command.cloud \in Clouds /\ 1 \in 1..n /\ n \in 1..n /\ n \in Nat
        /\ d = cloud[command.cloud][n] /\ d \in Data
    BY <1>1, <2>1, OpFacts DEF Asking, Newest
  <2>3. /\ command' \in CloudOps /\ command'.at = "importing" /\ command'.cloud = command.cloud /\ command'.doc = d /\ command'.rev = n
        /\ command'.card = command.card /\ command'.data = command.data /\ command'.base = command.base /\ ~command'.upload
    BY <1>1, <2>1, <2>2, OpFacts, AnsweredFacts DEF Clouds
  <2>4. command.card # 0 /\ ~raced => Before(command.data, d)
    <3> SUFFICES ASSUME command.card # 0, ~raced PROVE Before(command.data, d)
      OBVIOUS
    <3>1. command.base \in 1..n /\ command.data = cloud[command.cloud][command.base]
      BY <1>1, <2>1, <2>2, OpFacts DEF Asking, CloudOps
    <3> QED BY <2>2, <3>1 DEF SyncInv, ChainInv
  <2>5. command.card # 0 => command.card <= lastCard /\ Full(command.data) /\ Tracks(command.card, command.data)
    BY <2>1 DEF SyncInv, OpInv
  <2> HIDE DEF n, d
  <2>6. AnswerOK'
    BY <1>1, <2>2, <2>3 DEF AnswerOK, n
  <2>7. command'.card # 0 /\ ~raced' => Before(command.data, command.doc)'
    BY <1>1, <2>3, <2>4 DEF Before
  <2>8. command'.card # 0 => command'.card <= lastCard' /\ Full(command.data)' /\ Tracks(command.card, command.data)'
    BY <1>1, <2>3, <2>5 DEF Full, Tracks, Before, Local
  <2> QED BY <2>3, <2>6, <2>7, <2>8 DEF OpInv
<1> QED BY <1>1, <1>2, <1>3, <1>4 DEF SyncInv, CloudShared, CloudRest

\* The account centre merges, or refuses.
LEMMA MergedFacts ==
  ASSUME CloudConstants, SyncInv, command.at = "asking", command.upload, command.cloud # 0
  PROVE  /\ command # NoCommand /\ command.card # 0 /\ command.cloud \in Clouds
         /\ Len(cloud[command.cloud]) \in 1..Len(cloud[command.cloud]) /\ cloud[command.cloud] # <<>>
         /\ Merged \in Data /\ Full(Merged)
         /\ ~Conflict /\ ~raced => Before(Newest(command.cloud), Merged) /\ Before(command.data, Merged)
<1>1. command # NoCommand /\ Asking
  BY DEF SyncInv, OpInv, NoCommand
<1> DEFINE n == Len(cloud[command.cloud])
<1>2. /\ command.card # 0 /\ command.cloud \in Clouds /\ n \in Nat /\ n \in 1..n /\ cloud[command.cloud] \in Seq(Data)
      /\ command.base \in 1..n /\ (~raced => Before(cloud[command.cloud][command.base], command.data))
      /\ command.data \in Data /\ Full(command.data)
  BY <1>1, OpFacts DEF Asking, CloudOps
<1>3. /\ Newest(command.cloud) = cloud[command.cloud][n] /\ Base = cloud[command.cloud][command.base]
      /\ Newest(command.cloud) \in Data /\ Base \in Data /\ Full(Newest(command.cloud))
  BY <1>2 DEF Newest, Base, SyncInv, CloudInv
<1>4. ~raced => Before(Base, Newest(command.cloud)) /\ Before(Base, command.data)
  BY <1>2, <1>3 DEF SyncInv, ChainInv
<1>5. Merged \in Data /\ Full(Merged)
  BY <1>2, <1>3 DEF Merged, Data, Full
<1>6. ASSUME ~Conflict, ~raced, NEW f \in Fields
      PROVE  /\ \/ Newest(command.cloud)[f] = Merged[f]
                \/ Newest(command.cloud)[f] \in past[Merged[f]]
             /\ command.data[f] = Merged[f] \/ command.data[f] \in past[Merged[f]]
  <2>1. Merged[f] = IF command.data[f] = Base[f] THEN Newest(command.cloud)[f] ELSE command.data[f]
    BY DEF Merged
  <2>2. \/ Newest(command.cloud)[f] = Base[f] \/ command.data[f] = Base[f]
        \/ command.data[f] = Newest(command.cloud)[f]
    BY <1>6 DEF Conflict
  <2> QED BY <1>4, <1>6, <2>1, <2>2 DEF Before
<1>7. cloud[command.cloud] # <<>>
  <2>1. Len(<<>>) = 0
    OBVIOUS
  <2> QED BY <1>2, <2>1
<1> QED BY <1>1, <1>2, <1>5, <1>6, <1>7 DEF Before

LEMMA ServePutKeeps == ASSUME CloudConstants, SyncInv, ServePut PROVE SyncInv' /\ Extends
<1>1. /\ command.at = "asking" /\ command.upload /\ command.cloud # 0
      /\ UNCHANGED <<local, lastCard, links, writer, past, lastEdit, raced, faults>>
  BY DEF ServePut, ghosts
<1>2. CASE Conflict
  <2>1. command' = NoCommand /\ cloud' = cloud
    BY <1>2 DEF ServePut
  <2>2. Extends /\ CloudShared' /\ ChainInv'
    BY <1>1, <2>1, SameStays
  <2> QED BY <1>1, <2>1, <2>2, LinksSame, WriterSame DEF SyncInv, CloudShared, CloudRest, OpInv
<1>3. CASE ~Conflict
  <2> DEFINE d == Merged
             n == Len(cloud'[command.cloud])
  <2>1. /\ command # NoCommand /\ command.card # 0 /\ command.cloud \in Clouds
        /\ Len(cloud[command.cloud]) \in 1..Len(cloud[command.cloud]) /\ cloud[command.cloud] # <<>>
        /\ d \in Data /\ Full(d)
        /\ ~raced => Before(Newest(command.cloud), d) /\ Before(command.data, d)
    BY <1>1, <1>3, MergedFacts
  <2>2. /\ cloud' = IF d = Newest(command.cloud) THEN cloud
                    ELSE [cloud EXCEPT ![command.cloud] = Append(cloud[command.cloud], d)]
        /\ Answered(command.cloud, d, n)
    BY <1>3 DEF ServePut
  <2> HIDE DEF d
  <2>3. Extends /\ CloudShared' /\ ChainInv' /\ cloud'[command.cloud][n] = d
    <3>1. CASE d = Newest(command.cloud)
      BY <1>1, <2>1, <2>2, <3>1, SameStays DEF Newest
    <3>2. CASE d # Newest(command.cloud)
      <4>1. PastInv' /\ lastEdit' >= lastEdit /\ \A e \in 1..lastEdit : past'[e] = past[e]
        BY <1>1 DEF SyncInv, PastInv, CloudConstants
      <4>2. \A f \in Fields : d[f] \in 1..lastEdit'
        BY <1>1, <2>1 DEF Full
      <4>3. ~raced' => \A f \in Fields : \/ Newest(command.cloud)[f] = d[f]
                                         \/ Newest(command.cloud)[f] \in past'[d[f]]
        BY <1>1, <2>1 DEF Before
      <4> QED BY <1>1, <2>1, <2>2, <3>2, <4>1, <4>2, <4>3, RevisionAppended
    <3> QED BY <3>1, <3>2
  <2>4. LocalInv' /\ WriterInv'
    BY <1>1, <2>3, LinksSame, WriterSame
  <2>5. n \in 1..n /\ n \in Nat
    <3>1. n \in Nat /\ n >= Len(cloud[command.cloud]) /\ Len(cloud[command.cloud]) \in Nat
      BY <2>1, <2>3, OpFacts, CloudConstants DEF Extends, CloudShared, CloudInv
    <3> QED BY <2>1, <3>1
  <2>6. /\ command' \in CloudOps /\ command'.at = "importing" /\ command'.cloud = command.cloud /\ command'.doc = d /\ command'.rev = n
        /\ command'.card = command.card /\ command'.data = command.data /\ command'.base = command.base /\ command'.upload = command.upload
    BY <2>1, <2>2, <2>5, OpFacts, AnsweredFacts DEF Clouds
  <2>7. AnswerOK'
    BY <1>1, <2>3, <2>5, <2>6 DEF AnswerOK
  <2>8. ~raced' => Before(command.data, command.doc)'
    BY <1>1, <2>1, <2>6 DEF Before
  <2>9. command'.card <= lastCard' /\ Full(command.data)' /\ Tracks(command.card, command.data)'
    <3>1. command.card <= lastCard /\ Full(command.data) /\ Tracks(command.card, command.data)
      BY <2>1 DEF SyncInv, OpInv
    <3> QED BY <1>1, <2>6, <3>1 DEF Full, Tracks, Before, Local
  <2>10. command.base # 0
    BY <1>1, <2>1 DEF SyncInv, OpInv, Asking
  <2>11. OpInv'
    BY <2>1, <2>6, <2>7, <2>8, <2>9, <2>10 DEF OpInv
  <2> QED BY <1>1, <2>3, <2>4, <2>11 DEF SyncInv, CloudShared, CloudRest
<1> QED BY <1>2, <1>3

LEMMA ServePostKeeps == ASSUME CloudConstants, SyncInv, ServePost PROVE SyncInv' /\ Extends
<1>1. PICK c \in Clouds \ OnCloud :
        /\ cloud' = [cloud EXCEPT ![c] = <<command.data>>]
        /\ Answered(c, command.data, 1)
  BY DEF ServePost
<1>2. /\ command.at = "asking" /\ command.upload /\ command.cloud = 0
      /\ UNCHANGED <<local, lastCard, links, writer, past, lastEdit, raced, faults>>
  BY DEF ServePost, ghosts
<1>3. command # NoCommand /\ Asking /\ command.card # 0 /\ command.base = 0
  BY <1>2 DEF SyncInv, OpInv, NoCommand, Asking
<1>4. /\ command \in CloudOps /\ command.data \in Data /\ command.card <= lastCard /\ Full(command.data)
      /\ Tracks(command.card, command.data)
  BY <1>3, OpFacts DEF SyncInv, OpInv, CloudOps
<1>5. cloud[c] = <<>> /\ c \in Clouds /\ c # 0 /\ c \in 0..MaxClouds
  BY DEF OnCloud, Clouds
<1>6. cloud' = [cloud EXCEPT ![c] = Append(cloud[c], command.data)]
  BY <1>1, <1>5
<1>7. Extends /\ CloudShared' /\ ChainInv' /\ cloud'[c][Len(cloud'[c])] = command.data
  <2>1. PastInv' /\ lastEdit' >= lastEdit /\ \A e \in 1..lastEdit : past'[e] = past[e]
    BY <1>2 DEF SyncInv, PastInv, CloudConstants
  <2>2. \A f \in Fields : command.data[f] \in 1..lastEdit'
    BY <1>2, <1>4 DEF Full
  <2> QED BY <1>2, <1>4, <1>5, <1>6, <2>1, <2>2, RevisionAppended
<1>8. LocalInv' /\ WriterInv'
  BY <1>2, <1>7, LinksSame, WriterSame
<1>9. Len(cloud'[c]) = 1 /\ 1 \in 1..1
  BY <1>1, <1>5 DEF SyncInv, CloudInv
<1>10. /\ command' \in CloudOps /\ command'.at = "importing" /\ command'.cloud = c /\ command'.doc = command.data /\ command'.rev = 1
       /\ command'.card = command.card /\ command'.data = command.data /\ command'.base = command.base /\ command'.upload = command.upload
  BY <1>1, <1>4, <1>5, AnsweredFacts
<1>11. AnswerOK'
  BY <1>5, <1>7, <1>9, <1>10 DEF AnswerOK
<1>12. Before(command.data, command.doc)'
  BY <1>10 DEF Before
<1>13. command'.card <= lastCard' /\ Full(command.data)' /\ Tracks(command.card, command.data)'
  BY <1>2, <1>4, <1>10 DEF Full, Tracks, Before, Local
<1>14. OpInv'
  BY <1>3, <1>10, <1>11, <1>12, <1>13 DEF OpInv
<1> QED BY <1>2, <1>7, <1>8, <1>14 DEF SyncInv, CloudShared, CloudRest

\* An answer is imported over the data that were sent, or into a new card.
LEMMA ImportKeeps == ASSUME CloudConstants, SyncInv, Import PROVE SyncInv' /\ Extends
<1> DEFINE l == IF command.card = 0 THEN lastCard + 1 ELSE command.card
<1>1. /\ command.at = "importing"
      /\ command.card # 0 => local[command.card] = command.data
      /\ command.card = 0 => lastCard < MaxCards
      /\ local' = [local EXCEPT ![l] = command.doc]
      /\ lastCard' = IF command.card = 0 THEN l ELSE lastCard
      /\ command' = IF command.links THEN [command EXCEPT !.at = "linking", !.card = l, !.data = command.doc] ELSE NoCommand
      /\ UNCHANGED <<cloud, links, writer, past, lastEdit, raced, faults>>
  BY DEF Import, SnapshotHolds, ghosts
<1>0. CloudShared
  BY DEF SyncInv, CloudShared
<1>2. /\ command # NoCommand /\ command \in CloudOps /\ AnswerOK
      /\ command.card # 0 /\ ~raced => Before(command.data, command.doc)
      /\ command.card # 0 => command.card \in 1..lastCard /\ Full(command.data)
  BY <1>1, OpFacts DEF SyncInv, OpInv, NoCommand
<1>3. command.cloud \in Clouds /\ command.doc \in Data /\ Full(command.doc)
  BY <1>2, OpFacts DEF AnswerOK, CloudOps, SyncInv, CloudInv
<1>4. /\ lastCard \in Nat /\ lastCard' \in 1..MaxCards /\ lastCard' >= lastCard /\ MaxCards \in Nat
      /\ l \in 1..lastCard' /\ l \in Cards /\ l # 0 /\ l \in 0..MaxCards
  BY <1>0, <1>1, <1>2, CloudSizes DEF Cards
<1>5. local'[l] = command.doc /\ \A k \in Cards : k # l => local'[k] = local[k]
  BY <1>0, <1>1, <1>4 DEF CloudShared, CardInv
<1>6. \A k \in 1..lastCard :
        k = l => command.card = l /\ local[l] = command.data /\ local[l] # Gone
  <2> SUFFICES ASSUME l \in 1..lastCard
               PROVE  command.card = l /\ local[l] = command.data /\ local[l] # Gone
    OBVIOUS
  <2>1. command.card = l /\ local[l] = command.data /\ Full(command.data)
    BY <1>1, <1>2, <1>4
  <2>2. PICK f \in Fields : TRUE
    BY DEF CloudConstants
  <2>3. command.data[f] # 0 /\ Gone[f] = 0
    BY <2>1 DEF Full, Gone
  <2> QED BY <2>1, <2>3
<1> HIDE DEF l
<1>7. CardInv'
  <2>1. local' \in [Cards -> Data] /\ lastCard' \in Cards
    BY <1>0, <1>1, <1>3, <1>4 DEF CloudShared, CardInv, Cards
  <2>2. ASSUME NEW k \in Local' PROVE (\A f \in Fields : local'[k][f] \in 1..lastEdit) /\ k <= lastCard'
    <3>1. CASE k = l
      BY <1>3, <1>4, <1>5, <3>1 DEF Full
    <3>2. CASE k # l
      <4>1. k \in Local /\ local'[k] = local[k] /\ k \in Cards
        BY <1>5, <2>2, <3>2 DEF Local
      <4> QED BY <1>0, <1>4, <4>1 DEF Full, CloudShared, CardInv, Cards
    <3> QED BY <3>1, <3>2
  <2> QED BY <1>1, <2>1, <2>2 DEF CardInv, Full
<1>8. CloudShared'
  BY <1>0, <1>1, <1>7 DEF CloudShared, PastInv, CloudInv, Full
<1>9. Extends
  <2>1. \A k \in 1..lastCard :
          \/ local'[k] = Gone
          \/ /\ local[k] # Gone
             /\ ~raced' => \A f \in Fields : \/ local[k][f] = local'[k][f]
                                             \/ local[k][f] \in past'[local'[k][f]]
    <3> SUFFICES ASSUME NEW k \in 1..lastCard, local'[k] # Gone
                 PROVE  /\ local[k] # Gone
                        /\ ~raced' => \A f \in Fields : \/ local[k][f] = local'[k][f]
                                                        \/ local[k][f] \in past'[local'[k][f]]
      OBVIOUS
    <3>1. CASE k = l
      BY <1>1, <1>2, <1>5, <1>6, <3>1 DEF Before
    <3>2. CASE k # l
      <4>1. k \in Cards
        BY <1>0, CloudSizes DEF Cards
      <4> QED BY <1>5, <3>2, <4>1
    <3> QED BY <3>1, <3>2
  <2> QED BY <1>0, <1>1, <1>4, <2>1, CloudSizes DEF Extends
<1>10. ChainInv'
  BY <1>1 DEF SyncInv, ChainInv, Before
<1>11. LocalInv' /\ WriterInv'
  BY <1>1, <1>8, <1>9, LinksSame, WriterSame
<1>12. OpInv'
  <2>1. CASE ~command.links
    BY <1>1, <2>1 DEF OpInv
  <2>2. CASE command.links
    <3>1. command' = [command EXCEPT !.at = "linking", !.card = l, !.data = command.doc]
      BY <1>1, <2>2
    <3>2. /\ command' \in CloudOps /\ command'.at = "linking" /\ command'.card = l /\ command'.data = command.doc
          /\ command'.cloud = command.cloud /\ command'.rev = command.rev
      BY <1>2, <1>3, <1>4, <3>1 DEF CloudOps
    <3>3. command'.card <= lastCard' /\ Full(command.data)' /\ Tracks(command.card, command.data)'
      BY <1>1, <1>3, <1>4, <1>5, <3>2 DEF Full, Tracks, Before
    <3>4. /\ command'.card # 0 /\ command'.cloud # 0 /\ command'.rev \in 1..Len(cloud'[command'.cloud])
          /\ command'.data = cloud'[command'.cloud][command'.rev]
      BY <1>1, <1>2, <1>4, <3>2 DEF AnswerOK
    <3> QED BY <3>2, <3>3, <3>4 DEF OpInv
  <2> QED BY <2>1, <2>2
<1> QED BY <1>1, <1>8, <1>9, <1>10, <1>11, <1>12 DEF SyncInv, CloudShared, CloudRest

LEMMA ImportRefusedKeeps == ASSUME CloudConstants, SyncInv, ImportRefused PROVE SyncInv' /\ Extends
<1>1. /\ command.at = "importing"
      /\ command' = IF command.upload /\ command.base = 0 THEN [command EXCEPT !.at = "linking"] ELSE NoCommand
      /\ UNCHANGED <<local, lastCard, cloud, links, writer, past, lastEdit, raced, faults>>
  BY DEF ImportRefused, ghosts
<1>2. Extends /\ CloudShared' /\ ChainInv'
  BY <1>1, SameStays
<1>3. LocalInv' /\ WriterInv'
  BY <1>1, <1>2, LinksSame, WriterSame
<1>4. OpInv'
  <2>1. CASE ~(command.upload /\ command.base = 0)
    BY <1>1, <2>1 DEF OpInv
  <2>2. CASE command.upload /\ command.base = 0
    <3>1. /\ command \in CloudOps /\ AnswerOK /\ command.card # 0 /\ command.data = command.doc
          /\ command.card <= lastCard /\ Full(command.data) /\ Tracks(command.card, command.data)
      BY <1>1, <2>2 DEF SyncInv, OpInv, NoCommand
    <3>2. command' = [command EXCEPT !.at = "linking"]
      BY <1>1, <2>2
    <3>3. /\ command' \in CloudOps /\ command'.at = "linking" /\ command'.card = command.card /\ command'.data = command.data
          /\ command'.cloud = command.cloud /\ command'.rev = command.rev
      BY <3>1, <3>2 DEF CloudOps
    <3>4. command'.card <= lastCard' /\ Full(command.data)' /\ Tracks(command.card, command.data)'
      BY <1>1, <3>1, <3>3 DEF Full, Tracks, Before, Local
    <3>5. /\ command'.card # 0 /\ command'.cloud # 0 /\ command'.rev \in 1..Len(cloud'[command'.cloud])
          /\ command'.data = cloud'[command'.cloud][command'.rev]
      BY <1>1, <3>1, <3>3 DEF AnswerOK
    <3> QED BY <3>3, <3>4, <3>5 DEF OpInv
  <2> QED BY <2>1, <2>2
<1> QED BY <1>1, <1>2, <1>3, <1>4 DEF SyncInv, CloudShared, CloudRest

LEMMA SaveLinkKeeps == ASSUME CloudConstants, SyncInv, SaveLink PROVE SyncInv' /\ Extends
<1> DEFINE k == [card |-> command.card, data |-> command.data, rev |-> command.rev]
<1>1. /\ command.at = "linking" /\ command' = NoCommand
      /\ links' = [links EXCEPT ![<<command.ctx, command.cloud>>] = k]
      /\ UNCHANGED <<local, lastCard, cloud, writer, past, lastEdit, raced, faults>>
  BY DEF SaveLink, ghosts
<1>2. Extends /\ CloudShared' /\ ChainInv'
  BY <1>1, SameStays
<1>3. WriterInv' /\ OpInv'
  BY <1>1, <1>2, WriterSame DEF OpInv
<1>4. /\ command \in CloudOps /\ command.card \in 1..lastCard /\ command.cloud \in Clouds /\ command.ctx \in Contexts
      /\ command.rev \in 1..Len(cloud[command.cloud]) /\ command.data = cloud[command.cloud][command.rev]
      /\ Tracks(command.card, command.data)
  BY <1>1, OpFacts DEF SyncInv, OpInv, NoCommand, CloudOps
<1>5. k \in [card : 0..MaxCards, data : Data, rev : Nat]
      /\ k.card = command.card /\ k.data = command.data /\ k.rev = command.rev
  BY <1>4 DEF CloudOps
<1> HIDE DEF k
<1>6. /\ links' \in [Contexts \X Clouds -> [card : 0..MaxCards, data : Data, rev : Nat]]
      /\ links'[<<command.ctx, command.cloud>>] = k
      /\ \A x \in Contexts, c \in Clouds :
            <<x, c>> # <<command.ctx, command.cloud>> => links'[<<x, c>>] = links[<<x, c>>]
  BY <1>1, <1>4, <1>5 DEF SyncInv, LocalInv
<1>7. ASSUME NEW x \in Contexts, NEW c \in Clouds PROVE LinkOK(x, c)'
  <2>1. CASE x = command.ctx /\ c = command.cloud
    <3>1. links'[<<x, c>>] = k
      BY <1>6, <2>1
    <3>2. k.card \in 1..lastCard /\ k.rev \in 1..Len(cloud[c]) /\ k.data = cloud[c][k.rev]
      BY <1>4, <1>5, <2>1
    <3>3. Tracks(k.card, k.data)
      BY <1>4, <1>5
    <3> QED BY <1>1, <3>1, <3>2, <3>3 DEF LinkOK, Tracks, Before, Local
  <2>2. CASE ~(x = command.ctx /\ c = command.cloud)
    <3>1. links'[<<x, c>>] = links[<<x, c>>]
      BY <1>6, <2>2
    <3> QED BY <1>2, <3>1, LinksStay
  <2> QED BY <2>1, <2>2
<1>8. LocalInv'
  BY <1>6, <1>7 DEF LocalInv
<1> QED BY <1>1, <1>2, <1>3, <1>8 DEF SyncInv, CloudShared, CloudRest

-----------------------------------------------------------------------------
LEMMA CloudStarts == ASSUME CloudConstants, CloudInit PROVE SyncInv
<1>1. /\ lastEdit = 2 /\ lastCard = 1 /\ 2 \in 1..MaxEdits /\ 1 \in Cards
      /\ [f \in Fields |-> 1] \in Data /\ [f \in Fields |-> 2] \in Data /\ Gone \in Data
  BY GoneIsData DEF CloudInit, CloudConstants, Cards, Data
<1>2. PastInv
  BY <1>1 DEF CloudInit, PastInv, Edits, CloudConstants
<1>3. CardInv
  <2>1. local \in [Cards -> Data] /\ Local \subseteq {1} /\ \A l \in Local : local[l] = [f \in Fields |-> 1]
    BY <1>1 DEF CloudInit, Local
  <2> QED BY <1>1, <2>1 DEF CardInv, Full
<1>4. CloudInv /\ ChainInv
  <2>1. <<[f \in Fields |-> 2]>> \in Seq(Data) /\ <<>> \in Seq(Data) /\ Len(<<>>) = 0
    BY <1>1
  <2>2. \A c \in Clouds : cloud[c] = <<>> \/ cloud[c] = <<[f \in Fields |-> 2]>>
    BY DEF CloudInit
  <2>3. \A c \in Clouds : \A i \in 1..Len(cloud[c]) : i = 1 /\ cloud[c][i] = [f \in Fields |-> 2]
    <3> DEFINE two == [f \in Fields |-> 2]
    <3> HIDE DEF two
    <3>1. Len(<<two>>) = 1 /\ <<two>>[1] = two /\ 1..0 = {} /\ 1..1 = {1}
      OBVIOUS
    <3>2. \A c \in Clouds : cloud[c] = <<>> \/ cloud[c] = <<two>>
      BY <2>2 DEF two
    <3>3. \A c \in Clouds : \A i \in 1..Len(cloud[c]) : i = 1 /\ cloud[c][i] = two
      BY <2>1, <3>1, <3>2
    <3> QED BY <3>3 DEF two
  <2>4. cloud \in [Clouds -> Seq(Data)]
    BY <2>1 DEF CloudInit
  <2> QED BY <1>1, <2>3, <2>4 DEF CloudInv, ChainInv, Full, Before
<1>5. LocalInv
  BY <1>1 DEF CloudInit, LocalInv, LinkOK, NoLink, CloudConstants
<1>6. WriterInv /\ OpInv
  BY GoneIsData DEF CloudInit, WriterInv, OpInv
<1>7. CloudRest
  <2>1. 0 \in 0..MaxFaults
    BY DEF CloudConstants
  <2> QED BY <2>1 DEF CloudInit, CloudRest
<1> QED BY <1>2, <1>3, <1>4, <1>5, <1>6, <1>7 DEF SyncInv

LEMMA CloudStep == ASSUME CloudConstants, SyncInv, CloudNext PROVE SyncInv' /\ Extends
<1>1. CASE \E l \in Cards : DeleteCard(l) \/ ReadUnlocked(l) \/ \E f \in Fields : EditLocal(l, f)
  BY <1>1, DeleteCardKeeps, ReadUnlockedKeeps, EditLocalKeeps
<1>2. CASE \E f \in Fields : WriteUnlocked(f) \/ \E c \in Clouds : EditCloud(c, f)
  BY <1>2, WriteUnlockedKeeps, EditCloudKeeps
<1>3. CASE \E x \in Contexts : \/ \E c \in Clouds, copy \in BOOLEAN : Pull(x, c, copy)
                               \/ \E l \in Cards : Push(x, l)
  BY <1>3, PullKeeps, PushKeeps
<1>4. CASE ServeGet \/ ServePut \/ ServePost
  BY <1>4, ServeGetKeeps, ServePutKeeps, ServePostKeeps
<1>5. CASE Import \/ ImportRefused \/ SaveLink
  BY <1>5, ImportKeeps, ImportRefusedKeeps, SaveLinkKeeps
<1>6. CASE WriteNothing \/ Interrupt
  BY <1>6, WriteNothingKeeps, InterruptKeeps
<1> QED BY <1>1, <1>2, <1>3, <1>4, <1>5, <1>6 DEF CloudNext

LEMMA CloudStutter == ASSUME CloudConstants, SyncInv, UNCHANGED cloudVars PROVE SyncInv'
<1>1. /\ UNCHANGED <<local, lastCard, cloud, links, command, writer, past, lastEdit, raced, faults>>
  BY DEF cloudVars
<1>2. Extends /\ CloudShared' /\ ChainInv'
  BY <1>1, SameStays
<1> QED BY <1>1, <1>2, OpStays, LinksSame, WriterSame DEF SyncInv, CloudShared, CloudRest

LEMMA CloudInvariant == ASSUME CloudConstants PROVE CloudSpec => []SyncInv
<1>1. CloudInit => SyncInv
  BY CloudStarts
<1>2. SyncInv /\ [CloudNext]_cloudVars => SyncInv'
  BY CloudStep, CloudStutter
<1> QED BY <1>1, <1>2, PTL DEF CloudSpec

(* Cards, cloud documents, links and the worker's command stay well-formed *)
(* in every order of edits, requests, answers and interruptions.           *)
THEOREM CloudTypeCorrect == ASSUME CloudConstants PROVE CloudSpec => []CloudTypeOK
<1>1. ASSUME SyncInv PROVE CloudTypeOK
  <2>1. local \in [Cards -> Data] /\ lastCard \in Cards /\ cloud \in [Clouds -> Seq(Data)]
    BY <1>1 DEF SyncInv, CardInv, CloudInv
  <2>2. command.at \in {"idle", "asking", "importing", "linking"}
    BY <1>1 DEF SyncInv, OpInv, CloudOps, NoCommand
  <2>3. past \in [Edits -> SUBSET Edits] /\ lastEdit \in Edits
    BY <1>1 DEF SyncInv, PastInv, Edits, CloudConstants
  <2> QED BY <1>1, <2>1, <2>2, <2>3 DEF CloudTypeOK, SyncInv, LocalInv, WriterInv, CloudRest
<1>2. SyncInv => CloudTypeOK
  BY <1>1
<1> QED BY <1>2, CloudInvariant, PTL

(* A link remembers the revision it names, and all that is now in its card *)
(* was typed over that: the base of the next merge is a common ancestor.   *)
THEOREM BasesAreAncestors == ASSUME CloudConstants PROVE CloudSpec => []BaseIsAncestor
<1>1. ASSUME SyncInv PROVE BaseIsAncestor
  <2> SUFFICES ASSUME ~raced, NEW x \in Contexts, NEW c \in Clouds, links[<<x, c>>] # NoLink
               PROVE  /\ links[<<x, c>>].data = cloud[c][links[<<x, c>>].rev]
                      /\ links[<<x, c>>].card \in Local =>
                           Before(links[<<x, c>>].data, local[links[<<x, c>>].card])
    BY DEF BaseIsAncestor, Before
  <2>1. LinkOK(x, c)
    BY <1>1 DEF SyncInv, LocalInv
  <2> QED BY <2>1 DEF LinkOK, Tracks
<1>2. SyncInv => BaseIsAncestor
  BY <1>1
<1> QED BY <1>2, CloudInvariant, PTL

(* Until a writer without the mutex overwrites what it has not read, no    *)
(* step of a player, another client, the worker or a failure loses an edit *)
(* that the author of the new value had not seen, on either side.          *)
THEOREM NoEditIsLost == ASSUME CloudConstants PROVE CloudSpec => EditsKept
<1>1. ASSUME SyncInv, CloudNext PROVE KeepsEdits
  <2>1. CloudShared /\ CloudShared' /\ Extends /\ ChainInv'
    BY <1>1, CloudStep DEF SyncInv, CloudShared
  <2> SUFFICES ASSUME ~raced' PROVE KeepsEdits
    BY DEF KeepsEdits
  <2>2. ASSUME NEW l \in Cards, local[l] # Gone, local'[l] # Gone
        PROVE  Overwrites(local[l], local'[l])
    <3>1. l \in 1..lastCard
      BY <2>1, <2>2 DEF CloudShared, CardInv, Local, Cards, CloudConstants
    <3> QED BY <2>1, <2>2, <3>1 DEF Extends, Overwrites
  <2>3. ASSUME NEW c \in OnCloud PROVE Overwrites(Newest(c), cloud'[c][Len(cloud'[c])])
    <3> DEFINE m == Len(cloud[c])
               n == Len(cloud'[c])
    <3>1. c \in Clouds /\ m \in Nat /\ m > 0 /\ n \in Nat
      BY <2>1, <2>3, CloudSizes, EmptySeq DEF OnCloud, CloudShared, CloudInv
    <3>2. m \in 1..m /\ n >= m /\ cloud'[c][m] = cloud[c][m]
      BY <2>1, <3>1 DEF Extends
    <3>3. m \in 1..n /\ n \in 1..n /\ m <= n
      BY <3>1, <3>2
    <3>4. \A f \in Fields : cloud'[c][m][f] = cloud'[c][n][f] \/ cloud'[c][m][f] \in past'[cloud'[c][n][f]]
      BY <2>1, <3>1, <3>3 DEF ChainInv, Before
    <3> QED BY <3>2, <3>4 DEF Overwrites, Newest
  <2> QED BY <2>2, <2>3 DEF KeepsEdits
<1>2. SyncInv /\ [CloudNext]_cloudVars => [KeepsEdits]_cloudVars
  BY <1>1
<1> QED BY <1>2, CloudInvariant, PTL DEF CloudSpec, EditsKept

-----------------------------------------------------------------------------
(* The four parts of MCCommands.  One of them runs and the others stay, so *)
(* that each behaves as it does alone.                                     *)
LEMMA PartsStart == CommandsInit => GameInit /\ IdentityInit /\ CloudInit /\ DiceInit
BY DEF CommandsInit

LEMMA PartsStep ==
  [CommandsNext]_commandVars =>
    /\ [GameNext]_gameVars /\ [IdentityNext]_identityVars
    /\ [CloudNext]_cloudVars /\ [DiceNext]_diceVars
<1> SUFFICES ASSUME [CommandsNext]_commandVars
             PROVE  /\ [GameNext]_gameVars /\ [IdentityNext]_identityVars
                    /\ [CloudNext]_cloudVars /\ [DiceNext]_diceVars
  OBVIOUS
<1>1. CASE GameRuns
  BY <1>1 DEF GameRuns
<1>2. CASE IdentityRuns
  BY <1>2 DEF IdentityRuns
<1>3. CASE CloudRuns
  BY <1>3 DEF CloudRuns
<1>4. CASE DiceRuns
  BY <1>4 DEF DiceRuns
<1>5. CASE UNCHANGED commandVars
  BY <1>5 DEF commandVars
<1> QED BY <1>1, <1>2, <1>3, <1>4, <1>5 DEF CommandsNext

(* Each part of the commands implements its own specification, and so the  *)
(* variables of all four keep their types.                                 *)
THEOREM CommandsTypeCorrect ==
  ASSUME CloudConstants, IdentityConstants PROVE CommandsSpec => []CommandsTypeOK
<1>1. CommandsSpec => GameSpec /\ IdentitySpec /\ CloudSpec /\ DiceSpec
  BY PartsStart, PartsStep, PTL DEF CommandsSpec, GameSpec, IdentitySpec, CloudSpec, DiceSpec
<1>2. GameTypeOK /\ IdentityTypeOK /\ CloudTypeOK /\ DiceTypeOK => CommandsTypeOK
  BY DEF CommandsTypeOK
<1> QED BY <1>1, <1>2, GameTypeCorrect, IdentityTypeCorrect, CloudTypeCorrect,
       DiceTypes, PTL
=============================================================================
