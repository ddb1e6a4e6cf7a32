----------------------------- MODULE GameSession -----------------------------
(***************************************************************************)
(* Shared game sessions (.game, command_router.h) and their depleting card *)
(* decks (.deck session, common/session_deck.h).                           *)
(*                                                                         *)
(* A session may be opened in several groups.  All its state is rows of    *)
(* lua_mod.db: each group's row __session names the session it is in, and  *)
(* the session's own scope holds its groups (__areas), masters, code and   *)
(* decks; the index maps the codes of open sessions to their ids.  A group *)
(* without __session may keep an old game in a scope of its own.           *)
(*                                                                         *)
(* A command holds gameSessionMutex from its first read to its last write, *)
(* but every write is a transaction of its own: a command is the list of   *)
(* its reads and writes, done one per step, and a crash drops the rest.    *)
(* The panel ends a session without the mutex, in a batch built from what  *)
(* it read before.  Rows the properties do not tell apart (players, names, *)
(* variables, logs, roulettes) are left out, as are decks beyond the first.*)
(***************************************************************************)
EXTENDS Integers, Sequences

CONSTANTS
  Group,
  MaxSessions, \* bound: sessions ever made
  User,
  Admin,      \* the administrators of each group, the bot's master among them
  Legacy,     \* groups that start with an old game of their own
  NCards,     \* cards of the deck
  MaxTimes,   \* cards drawn with one command (10 in the code)
  MaxCmds,    \* bound: commands
  MaxPanel,   \* bound: requests of the panel
  MaxCrashes, \* bound: crashes
  None

ASSUME BoundAssumption ==
  {MaxSessions, NCards, MaxTimes} \subseteq Nat \ {0}
  /\ {MaxCmds, MaxPanel, MaxCrashes} \subseteq Nat
ASSUME NameAssumption ==
  /\ Group # {} /\ Group \cap Nat = {} /\ None \notin Group \cup Nat
  /\ Admin \in [Group -> SUBSET User] /\ Legacy \subseteq Group

VARIABLES
  session,  \* __session of each group's scope
  conf,     \* the other rows of each scope
  index,    \* the codes in game:index
  job,      \* the command that holds gameSessionMutex
  panel,    \* the request that ends a session
  \* the world
  used, cmds, requests, crashes,
  \* history
  dealt,    \* how often each card of each deck was given out
  decks,    \* decks made or refilled so far; each has a number of its own
  cut,      \* a crash or the panel came between the steps of a command
  astray    \* the panel took a drawing group out of a session it had gone to since

stored == <<session, conf, index>>
world == <<used, cmds, requests, crashes>>
gameVars == <<stored, job, panel, world, dealt, decks, cut, astray>>

Session == 1..MaxSessions  \* a session's id, and its code
Card == 1..NCards
Scope == Session \cup Group

(* The first size indices are the cards that remain.                       *)
Deck == [order : [Card -> Card], size : 0..NCards, number : 0..MaxCmds]
NoDeck == [order |-> [c \in Card |-> c], size |-> 0, number |-> 0]

Rows == [areas : SUBSET Group, closed : BOOLEAN, code : BOOLEAN, deck : Deck,
         gms : SUBSET User, name : BOOLEAN]
NoRows == [areas |-> {}, closed |-> FALSE, code |-> FALSE, deck |-> NoDeck,
           gms |-> {}, name |-> FALSE]

(* gameScope.                                                              *)
ScopeOf(g) == IF session[g] = None THEN g ELSE session[g]
Here(g) == conf[ScopeOf(g)]
Exists(g) == Here(g).name
Active(g) == Exists(g) /\ ~Here(g).closed       \* gameActive
Runs(u, g) == u \in Here(g).gms \/ u \in Admin[g]

Key == {"areas", "closed", "code", "deck", "gms", "name"}
Step == [op : {"areas", "leave", "join", "enter", "drop"}, at : Scope]
        \cup [op : {"put"}, at : Scope \cup {None}, key : Key, rows : Rows]
        \cup [op : {"map"}, to : Session \cup {None}]
        \cup [op : {"list", "clear"}, at : Scope] \cup [op : {"index", "release", "draw", "save"}]
Job == [g : Group, s : Scope, todo : Seq(Step), seen : SUBSET Group, keys : SUBSET Key,
        index : SUBSET Session, deck : Deck, cards : [Card -> Nat]]
NoCards == [c \in Card |-> 0]
NoJob == [g |-> CHOOSE g \in Group : TRUE, s |-> 1, todo |-> <<>>, seen |-> {}, keys |-> {},
          index |-> {}, deck |-> NoDeck, cards |-> NoCards]
Request == [pc : {"idle", "scan", "commit"}, s : Session, index : SUBSET Session,
            groups : SUBSET Group, keys : SUBSET Key]
NoRequest == [pc |-> "idle", s |-> 1, index |-> {}, groups |-> {}, keys |-> {}]

GameTypeOK ==
  /\ session \in [Group -> Session \cup {None}] /\ conf \in [Scope -> Rows]
  /\ \A x \in Scope, i, j \in Card : conf[x].deck.order[i] = conf[x].deck.order[j] => i = j
  /\ index \subseteq 1..used /\ job \in Job /\ panel \in Request
  /\ used \in 0..MaxSessions /\ cmds \in 0..MaxCmds
  /\ requests \in 0..MaxPanel /\ crashes \in 0..MaxCrashes
  /\ dealt \in [1..MaxCmds -> [Card -> Nat]] /\ decks \in 0..MaxCmds
  /\ {cut, astray} \subseteq BOOLEAN

GameInit ==
  /\ session = [g \in Group |-> None] /\ index = {}
  /\ conf = [x \in Scope |-> IF x \in Legacy THEN [NoRows EXCEPT !.name = TRUE] ELSE NoRows]
  /\ job = NoJob /\ panel = NoRequest
  /\ used = 0 /\ cmds = 0 /\ requests = 0 /\ crashes = 0
  /\ dealt = [n \in 1..MaxCmds |-> [c \in Card |-> 0]] /\ decks = 0
  /\ cut = FALSE /\ astray = FALSE

-----------------------------------------------------------------------------
(* What a command will read and write, in order.                           *)

Put(x, k, v) == [op |-> "put", at |-> x, key |-> k, rows |-> [NoRows EXCEPT ![k] = v]]
Map(s) == [op |-> "map", to |-> s]

(* Mutant: the session left still lists the group.                         *)
DetachListed(s) == <<Map(None)>>

(* detachGameArea and attachGameArea.                                      *)
Detach(s) == <<[op |-> "areas", at |-> s], [op |-> "leave", at |-> s], Map(None)>>
Leave(g) == IF session[g] = None THEN <<>> ELSE Detach(session[g])
(* Mutant: the session joined does not list the group.                     *)
AttachUnlisted(s) == <<Map(s)>>

Attach(s) == <<Map(s), [op |-> "areas", at |-> s], [op |-> "join", at |-> s]>>

(* clearGameScope.                                                         *)
Clear(x) == <<[op |-> "list", at |-> x], [op |-> "clear", at |-> x]>>

(* gameIndexSet.                                                           *)
Enter(s) == <<[op |-> "index"], [op |-> "enter", at |-> s]>>
Drop(s) == <<[op |-> "index"], [op |-> "drop", at |-> s]>>

(* A command starts: it takes the mutex.                                   *)
Begin(g, todo, seen, deck) ==
  /\ job = NoJob /\ cmds < MaxCmds /\ cmds' = cmds + 1
  /\ job' = [NoJob EXCEPT !.g = g, !.s = ScopeOf(g), !.todo = todo,
                           !.seen = seen, !.deck = deck]
  /\ cut' = (cut \/ panel.pc # "idle")
  /\ UNCHANGED <<stored, panel, requests, crashes, dealt, astray>>

Simply(g, todo) == Begin(g, todo, {}, NoDeck) /\ UNCHANGED <<used, decks>>

New(u, g) ==
  /\ u \in Admin[g] /\ used < MaxSessions /\ used' = used + 1
  /\ LET s == used'
     IN Begin(g,
          (IF session[g] = None THEN Clear(g) ELSE Leave(g)) \o Attach(s)
          \o <<Put(s, "areas", {}), Put(None, "name", TRUE), Put(None, "code", TRUE),
               Put(None, "gms", {u}), Put(None, "areas", {g})>> \o Enter(s),
          {}, NoDeck)
  /\ UNCHANGED decks

(* With a code, or without one for the session the group is in.            *)
Open(u, g) == \E s \in index \cup ({session[g]} \ {None}) :
  conf[s].name /\ u \in conf[s].gms /\ Simply(g, Leave(g) \o Attach(s))

Master(u, g) ==
  /\ Exists(g) /\ u \in Admin[g] \ Here(g).gms
  /\ Simply(g, <<Put(None, "gms", Here(g).gms \cup {u})>>)

Exit(u, g) ==
  Exists(g) /\ u \in Here(g).gms /\ Simply(g, <<Put(None, "gms", Here(g).gms \ {u})>>)

Close(u, g) ==
  /\ Exists(g) /\ Runs(u, g)
  /\ Simply(g, IF session[g] = None THEN <<Put(None, "closed", TRUE)>> ELSE Leave(g))

Over(u, g) ==
  /\ Exists(g) /\ Runs(u, g)
  /\ LET s == session[g] IN
     IF s = None THEN Simply(g, Clear(g))
     ELSE /\ Begin(g, <<[op |-> "release"]>> \o Clear(s)
                      \o (IF conf[s].code THEN Drop(s) ELSE <<>>), conf[s].areas, NoDeck)
          /\ UNCHANGED <<used, decks>>

(* handleSessionDeck: the deck is made, refilled or removed.               *)
SetDeck(g, d) == Begin(g, <<[op |-> "save"]>>, {}, d) /\ UNCHANGED used

Refilled(d) == [d EXCEPT !.size = NCards, !.number = decks']

MakeDeck(u, g) ==
  Active(g) /\ Runs(u, g) /\ decks' = decks + 1 /\ SetDeck(g, Refilled(NoDeck))

ResetDeck(u, g) ==
  /\ Active(g) /\ Runs(u, g) /\ Here(g).deck # NoDeck
  /\ decks' = decks + 1 /\ SetDeck(g, Refilled(Here(g).deck))

RemoveDeck(u, g) ==
  /\ Active(g) /\ Runs(u, g) /\ Here(g).deck # NoDeck
  /\ SetDeck(g, NoDeck) /\ UNCHANGED decks

(* drawSessionDeck.                                                        *)
Draw(g) ==
  /\ Active(g) /\ Here(g).deck # NoDeck
  /\ \E n \in 1..MaxTimes :
       Begin(g, [i \in 1..(n + 1) |-> [op |-> IF i = n + 1 THEN "save" ELSE "draw"]], {}, Here(g).deck)
  /\ UNCHANGED <<used, decks>>

Command(u, g) ==
  \/ New(u, g) \/ Open(u, g) \/ Master(u, g) \/ Exit(u, g) \/ Close(u, g) \/ Over(u, g)
  \/ MakeDeck(u, g) \/ ResetDeck(u, g) \/ RemoveDeck(u, g) \/ Draw(g)

-----------------------------------------------------------------------------
(* The steps of the command that holds the mutex.                          *)

Doing(op) == job.todo # <<>> /\ Head(job.todo).op = op
Done(j) == IF Len(j.todo) = 1 THEN NoJob ELSE [j EXCEPT !.todo = Tail(@)]
At == IF Head(job.todo).at = None THEN ScopeOf(job.g) ELSE Head(job.todo).at

ReadAreas ==
  /\ Doing("areas") /\ job' = Done([job EXCEPT !.seen = conf[At].areas])
  /\ UNCHANGED <<stored, panel, world, dealt, decks, cut, astray>>

WriteAreas ==
  /\ \/ Doing("leave") /\ conf' = [conf EXCEPT ![At].areas = job.seen \ {job.g}]
     \/ Doing("join") /\ conf' = [conf EXCEPT ![At].areas = job.seen \cup {job.g}]
  /\ job' = Done(job) /\ UNCHANGED <<session, index, panel, world, dealt, decks, cut, astray>>

(* gSet goes to the scope the group has by now.                            *)
PutRow ==
  /\ Doing("put") /\ job' = Done(job)
  /\ LET st == Head(job.todo) IN conf' = [conf EXCEPT ![At][st.key] = st.rows[st.key]]
  /\ UNCHANGED <<session, index, panel, world, dealt, decks, cut, astray>>

(* clearGameScope reads which rows there are, in no particular order, and  *)
(* empties one after the other.                                            *)
RowsOf(x) == {k \in Key : conf[x][k] # NoRows[k]}

ListRows ==
  /\ Doing("list") /\ job' = Done([job EXCEPT !.keys = RowsOf(At)])
  /\ UNCHANGED <<stored, panel, world, dealt, decks, cut, astray>>

ClearRows ==
  /\ Doing("clear")
  /\ \/ job.keys = {} /\ job' = Done(job) /\ UNCHANGED conf
     \/ \E k \in job.keys :
          job' = [job EXCEPT !.keys = @ \ {k}] /\ conf' = [conf EXCEPT ![At][k] = NoRows[k]]
  /\ UNCHANGED <<session, index, panel, world, dealt, decks, cut, astray>>

MapGroup ==
  /\ Doing("map") /\ job' = Done(job) /\ session' = [session EXCEPT ![job.g] = Head(job.todo).to]
  /\ UNCHANGED <<conf, index, panel, world, dealt, decks, cut, astray>>

(* .game over takes every group of the session out of whatever it is in.   *)
Release ==
  /\ Doing("release")
  /\ \/ /\ job.seen = {} /\ job' = Done(job) /\ UNCHANGED session
     \/ \E g \in job.seen :
          /\ job' = [job EXCEPT !.seen = @ \ {g}] /\ session' = [session EXCEPT ![g] = None]
  /\ UNCHANGED <<conf, index, panel, world, dealt, decks, cut, astray>>

ReadIndex ==
  /\ Doing("index") /\ job' = Done([job EXCEPT !.index = index])
  /\ UNCHANGED <<stored, panel, world, dealt, decks, cut, astray>>

WriteIndex ==
  /\ \/ Doing("enter") /\ index' = job.index \cup {At}
     \/ Doing("drop") /\ index' = job.index \ {At}
  /\ job' = Done(job) /\ UNCHANGED <<session, conf, panel, world, dealt, decks, cut, astray>>

(* Mutant: the last remaining card overwrites the card drawn.              *)
TakeOver(d, i) == [d EXCEPT !.order[i] = d.order[d.size], !.size = @ - 1]

(* session_deck::draw: the card drawn is swapped with the last remaining.  *)
Take(d, i) == [d EXCEPT !.order[i] = d.order[d.size], !.order[d.size] = d.order[i], !.size = @ - 1]

DrawCard ==
  /\ Doing("draw")
  /\ \/ \E i \in 1..job.deck.size :
          job' = [Done(job) EXCEPT !.deck = Take(@, i), !.cards[job.deck.order[i]] = @ + 1]
     \/ job.deck.size = 0 /\ job' = IF job.cards = NoCards THEN NoJob ELSE Done(job)
  /\ UNCHANGED <<stored, panel, world, dealt, decks, cut, astray>>

(* saveSessionDecks; the cards are told only once they are saved.          *)
Save ==
  /\ Doing("save") /\ job' = NoJob
  /\ conf' = [conf EXCEPT ![ScopeOf(job.g)].deck = job.deck]
  /\ dealt' = [n \in 1..MaxCmds |-> [c \in Card |->
       dealt[n][c] + IF n = job.deck.number THEN job.cards[c] ELSE 0]]
  /\ UNCHANGED <<session, index, panel, world, decks, cut, astray>>

(* Mutant: the cards are told although they could not be saved.            *)
FailsTold ==
  /\ Doing("save") /\ job' = NoJob
  /\ dealt' = [n \in 1..MaxCmds |-> [c \in Card |->
       dealt[n][c] + IF n = job.deck.number THEN job.cards[c] ELSE 0]]
  /\ UNCHANGED <<stored, panel, world, decks, cut, astray>>

SaveFails ==
  Doing("save") /\ job' = NoJob /\ UNCHANGED <<stored, panel, world, dealt, decks, cut, astray>>

CommandStep == \/ ReadAreas \/ WriteAreas \/ PutRow \/ ListRows \/ ClearRows \/ MapGroup \/ Release
               \/ ReadIndex \/ WriteIndex \/ DrawCard \/ Save \/ SaveFails

-----------------------------------------------------------------------------
(* PUT and DELETE /api/game-sessions/{code}, detachLiveSession.            *)

PanelIndex ==
  /\ panel.pc = "idle" /\ requests < MaxPanel /\ requests' = requests + 1
  /\ \E s \in index : panel' = [NoRequest EXCEPT !.pc = "scan", !.s = s, !.index = index]
  /\ cut' = (cut \/ job # NoJob)
  /\ UNCHANGED <<stored, job, used, cmds, crashes, dealt, decks, astray>>

PanelScan ==
  /\ panel.pc = "scan"
  /\ panel' = [panel EXCEPT !.pc = "commit",
       !.groups = {g \in conf[panel.s].areas : session[g] = panel.s},
       !.keys = RowsOf(panel.s)]
  /\ UNCHANGED <<stored, job, world, dealt, decks, cut, astray>>

PanelCommit ==
  /\ panel.pc = "commit" /\ panel' = NoRequest
  /\ session' = [g \in Group |-> IF g \in panel.groups THEN None ELSE session[g]]
  /\ conf' = [conf EXCEPT ![panel.s] = [k \in Key |-> IF k \in panel.keys THEN NoRows[k] ELSE @[k]]]
  /\ index' = panel.index \ {panel.s}
  /\ astray' = \/ astray
               \/ job.deck # NoDeck /\ job.g \in panel.groups /\ session[job.g] # panel.s
  /\ UNCHANGED <<job, world, dealt, decks, cut>>

PanelFails ==
  panel.pc = "commit" /\ panel' = NoRequest /\ UNCHANGED <<stored, job, world, dealt, decks, cut, astray>>

Crash ==
  /\ crashes < MaxCrashes /\ crashes' = crashes + 1
  /\ job' = NoJob /\ panel' = NoRequest /\ cut' = (cut \/ job # NoJob)
  /\ UNCHANGED <<stored, used, cmds, requests, dealt, decks, astray>>

Panel == PanelIndex \/ PanelScan \/ PanelCommit \/ PanelFails
GameNext == (\E u \in User, g \in Group : Command(u, g)) \/ CommandStep \/ Panel \/ Crash
GameSpec == GameInit /\ [][GameNext]_gameVars

-----------------------------------------------------------------------------
(* command_router.h:9047-9049, "one transaction".  Between commands, if no *)
(* crash and no request of the panel came between the steps of one, every  *)
(* group is counted by the session it is in and by no other, every session *)
(* a group is in exists, and the index has the codes of those that exist.  *)
Mapped ==
  job = NoJob /\ ~cut =>
    /\ \A g \in Group, s \in Session : g \in conf[s].areas <=> session[g] = s
    /\ \A g \in Group : session[g] # None => conf[session[g]].name
    /\ index = {s \in Session : conf[s].name}

(* session_deck.h:2-3 and command_router.h:8917-8919.  Between one making  *)
(* or refilling of a deck and the next no card is dealt twice, however the *)
(* groups that share it draw and whatever fails, crashes or is ended;      *)
(* unless the panel takes the drawing group out of another session than it *)
(* ends: the deck with the card drawn is then saved in the group's scope.  *)
DealtOnce == ~astray => \A n \in 1..MaxCmds, c \in Card : dealt[n][c] <= 1

(* command_router.h:9072-9073, 9187, 9233-9236.  A group leaves a session  *)
(* only by a command that leaves or ends this session, or by the panel's   *)
(* request to end it, so long as nothing came between the steps of a       *)
(* command: .game over does not look which session the groups it lists are *)
(* in.                                                                     *)
EndsOwnOnly == [][~cut => \A g \in Group : session[g] # None /\ session'[g] = None =>
    \/ job # NoJob /\ session[g] = job.s
    \/ panel.pc # "idle" /\ session[g] = panel.s]_gameVars

(* A session that exists can be joined with its code.                      *)
Joinable == job = NoJob => \A s \in Session : conf[s].name => s \in index
=============================================================================
