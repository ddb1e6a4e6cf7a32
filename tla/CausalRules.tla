----------------------------- MODULE CausalRules -----------------------------
(***************************************************************************)
(* The causal rules (core/causal): adapter threads match messages against  *)
(* an immutable snapshot of the rules and run the first one that applies,  *)
(* while panel requests edit the rules in the database and reload them.    *)
(*                                                                         *)
(* A rule may be limited by a counter_check condition ("counter < cap"),   *)
(* has a cooldown, and its action adds one to the same counter; cooldown   *)
(* and counter are kept per user.  Text, scope and filter conditions only  *)
(* narrow which messages a rule sees and are left out.  One action is one  *)
(* critical section: nothing is locked from one to the next.               *)
(***************************************************************************)
EXTENDS Integers, FiniteSets

CONSTANTS
  Rule,     \* rule ids
  User,
  Adapter,  \* adapters; each handles its messages one after the other
  Panel,    \* HTTP threads with a request about the rules
  Serves,   \* the users whose messages an adapter receives
  Row,      \* what the panel stores as a rule
  Stored,   \* the tables the program may start with
  Cool,     \* cooldownMs
  MaxClock, \* bound: time
  MaxMsgs,  \* bound: messages of an adapter
  MaxEdits, \* bound: requests of the panel
  NoRow, Never

ASSUME BoundAssumption == {Cool, MaxClock, MaxMsgs, MaxEdits} \subseteq Nat
ASSUME ServesAssumption == Serves \in [Adapter -> SUBSET User]
ASSUME NonEmptyAssumption == Rule # {} /\ User # {}
ASSUME SwitchAssumption == \A row \in Row : [row EXCEPT !.on = ~@] \in Row
ASSUME RowAssumption ==
  /\ Row \subseteq [on : BOOLEAN, prio : Nat, cap : Nat]  \* cap = 0: no counter_check
  /\ NoRow \notin Row /\ Never \notin Nat
  /\ Stored \subseteq [Rule -> Row \cup {NoRow}]

VARIABLES
  db,        \* causal_rules
  rules,     \* rules_
  stamps,    \* CooldownManager::timestamps_
  counters,  \* CounterStore
  call,      \* matchAndExecute on each adapter's thread
  req,       \* the request on each panel thread
  \* the world
  clock, received, edits, ids,
  \* history
  fired,     \* how often a rule fired for a user
  last,      \* when it last did, unless the cooldowns were cleared since
  touched,   \* rules deleted, or whose counters the panel wrote
  recapped   \* rules whose limit was edited

world == <<clock, received, edits, ids>>
history == <<fired, last, touched, recapped>>
causalVars == <<db, rules, stamps, counters, call, req, world, history>>

MaybeRow == Row \cup {NoRow}
Table == [Rule -> MaybeRow]
NoTable == [r \in Rule |-> NoRow]
Slot == Rule \X User

Call == [pc : {"idle", "match", "cool", "trigger", "read", "write"},
         rules : Table, left : SUBSET Rule, user : User, rule : Rule, old : Nat]
Idle == [pc |-> "idle", rules |-> NoTable, left |-> {}, user |-> CHOOSE u \in User : TRUE,
         rule |-> CHOOSE r \in Rule : TRUE, old |-> 0]
Request == [pc : {"idle", "write", "counters", "load", "swap"},
            rule : Rule, row : MaybeRow, rules : Table]
NoRequest == [pc |-> "idle", rule |-> CHOOSE r \in Rule : TRUE, row |-> NoRow, rules |-> NoTable]

CausalTypeOK ==
  /\ {db, rules} \subseteq Table
  /\ {stamps, last} \subseteq [Slot -> {Never} \cup 0..MaxClock] /\ counters \in [Slot -> Nat]
  /\ call \in [Adapter -> Call] /\ req \in [Panel -> Request]
  /\ clock \in 0..MaxClock /\ received \in [Adapter -> 0..MaxMsgs]
  /\ edits \in 0..MaxEdits /\ ids \subseteq Rule
  /\ {r \in Rule : db[r] # NoRow \/ rules[r] # NoRow} \subseteq ids
  /\ fired \in [Slot -> Nat] /\ {touched, recapped} \subseteq SUBSET Rule

CausalInit ==
  /\ db \in Stored /\ rules = db
  /\ stamps = [k \in Slot |-> Never] /\ counters = [k \in Slot |-> 0]
  /\ call = [a \in Adapter |-> Idle] /\ req = [p \in Panel |-> NoRequest]
  /\ clock = 0 /\ received = [a \in Adapter |-> 0] /\ edits = 0
  /\ ids = {r \in Rule : db[r] # NoRow}
  /\ fired = [k \in Slot |-> 0] /\ last = stamps /\ touched = {} /\ recapped = {}

-----------------------------------------------------------------------------
(* matchAndExecute.                                                        *)

At(a, pc) == call[a].pc = pc
KeyOf(a) == <<call[a].rule, call[a].user>>

(* The snapshot, and the rules in it that are switched on.                 *)
Receive(a) ==
  /\ At(a, "idle") /\ received[a] < MaxMsgs
  /\ received' = [received EXCEPT ![a] = @ + 1]
  /\ \E u \in Serves[a] :
       call' = [call EXCEPT ![a] = [Idle EXCEPT
         !.pc = "match", !.user = u, !.rules = rules,
         !.left = {r \in Rule : rules[r] # NoRow /\ rules[r].on}]]
  /\ UNCHANGED <<db, rules, stamps, counters, req, clock, edits, ids, history>>

(* Mutant: the limit itself is still allowed.                              *)
MetAtLimit(row, k) == row.cap = 0 \/ counters[k] <= row.cap

(* evalCondition: counter_check reads the counter of the user.             *)
Met(row, k) == row.cap = 0 \/ counters[k] < row.cap

(* The next rule by priority; equal priorities have no order.              *)
First(c, r) == r \in c.left /\ \A s \in c.left : c.rules[s].prio <= c.rules[r].prio

Match(a) ==
  /\ At(a, "match")
  /\ \E r \in Rule :
       /\ First(call[a], r)
       /\ call' = [call EXCEPT ![a].left = @ \ {r}, ![a].rule = r,
            ![a].pc = IF Met(call[a].rules[r], <<r, call[a].user>>) THEN "cool" ELSE "match"]
  /\ UNCHANGED <<db, rules, stamps, counters, req, world, history>>

NoMatch(a) ==
  /\ At(a, "match") /\ call[a].left = {} /\ call' = [call EXCEPT ![a] = Idle]
  /\ UNCHANGED <<db, rules, stamps, counters, req, world, history>>

(* Mutant: the cooldown ends one unit early.                               *)
CoolsShort(k) == stamps[k] # Never /\ clock - stamps[k] < Cool - 1

(* CooldownManager::isCooling.                                             *)
IsCooling(k) == stamps[k] # Never /\ clock - stamps[k] < Cool

CheckCooling(a) ==
  /\ At(a, "cool")
  /\ call' = [call EXCEPT ![a].pc = IF IsCooling(KeyOf(a)) THEN "match" ELSE "trigger"]
  /\ UNCHANGED <<db, rules, stamps, counters, req, world, history>>

(* Mutant: the end of the cooldown is stored, not its start.               *)
TriggerUntil(a) ==
  /\ At(a, "trigger") /\ call' = [call EXCEPT ![a].pc = "read"]
  /\ stamps' = [stamps EXCEPT ![KeyOf(a)] = clock + Cool]
  /\ fired' = [fired EXCEPT ![KeyOf(a)] = @ + 1] /\ last' = [last EXCEPT ![KeyOf(a)] = clock]
  /\ UNCHANGED <<db, rules, counters, req, world, touched, recapped>>

(* CooldownManager::trigger; the rule fires.                               *)
Trigger(a) ==
  /\ At(a, "trigger") /\ call' = [call EXCEPT ![a].pc = "read"]
  /\ stamps' = [stamps EXCEPT ![KeyOf(a)] = clock]
  /\ fired' = [fired EXCEPT ![KeyOf(a)] = @ + 1] /\ last' = [last EXCEPT ![KeyOf(a)] = clock]
  /\ UNCHANGED <<db, rules, counters, req, world, touched, recapped>>

(* executeActions, CounterAdd: get, then set.                              *)
ReadCounter(a) ==
  /\ At(a, "read")
  /\ call' = [call EXCEPT ![a].pc = "write", ![a].old = counters[KeyOf(a)]]
  /\ UNCHANGED <<db, rules, stamps, counters, req, world, history>>

WriteCounter(a) ==
  /\ At(a, "write") /\ call' = [call EXCEPT ![a] = Idle]
  /\ counters' = [counters EXCEPT ![KeyOf(a)] = call[a].old + 1]
  /\ UNCHANGED <<db, rules, stamps, req, world, history>>

-----------------------------------------------------------------------------
(* The panel's requests.                                                   *)

Begin(p, r, row, pc) ==
  /\ req[p].pc = "idle" /\ edits < MaxEdits /\ edits' = edits + 1
  /\ req' = [req EXCEPT ![p] = [NoRequest EXCEPT !.rule = r, !.row = row, !.pc = pc]]
  /\ UNCHANGED <<rules, stamps, counters, call, clock, received, fired, last>>

Goes(p, from, to) == req[p].pc = from /\ req' = [req EXCEPT ![p].pc = to]

(* addRule: an id never used before.                                       *)
Add(p) == \E r \in Rule \ ids, row \in Row :
  /\ Begin(p, r, row, "load") /\ ids' = ids \cup {r} /\ db' = [db EXCEPT ![r] = row]
  /\ UNCHANGED <<touched, recapped>>

(* updateRule: the row is looked up, then replaced.                        *)
Update(p) == \E r \in Rule, row \in Row :
  db[r] # NoRow /\ Begin(p, r, row, "write") /\ UNCHANGED <<db, ids, touched, recapped>>

(* toggleRule: the row is read, then written with its switch turned.       *)
Toggle(p) == \E r \in Rule :
  /\ db[r] # NoRow /\ Begin(p, r, [db[r] EXCEPT !.on = ~@], "write")
  /\ UNCHANGED <<db, ids, touched, recapped>>

(* Mutant: the table is not loaded again.                                  *)
WriteOnly(p) ==
  /\ req[p].pc = "write" /\ req' = [req EXCEPT ![p] = NoRequest]
  /\ db' = [db EXCEPT ![req[p].rule] = IF @ = NoRow THEN NoRow ELSE req[p].row]
  /\ recapped' = recapped \cup {r \in Rule : db[r] # NoRow /\ db'[r].cap # db[r].cap}
  /\ UNCHANGED <<rules, stamps, counters, call, world, fired, last, touched>>

(* An update of a row that is gone changes nothing.                        *)
WriteRow(p) ==
  /\ Goes(p, "write", "load")
  /\ db' = [db EXCEPT ![req[p].rule] = IF @ = NoRow THEN NoRow ELSE req[p].row]
  /\ recapped' = recapped \cup {r \in Rule : db[r] # NoRow /\ db'[r].cap # db[r].cap}
  /\ UNCHANGED <<rules, stamps, counters, call, world, fired, last, touched>>

(* deleteRule: the row, then its counters.                                 *)
Delete(p) == \E r \in ids :
  /\ Begin(p, r, NoRow, "counters") /\ db' = [db EXCEPT ![r] = NoRow]
  /\ touched' = touched \cup {r} /\ UNCHANGED <<ids, recapped>>

(* Mutant: the counters of every rule go.                                  *)
DeleteAllCounters(p) ==
  /\ Goes(p, "counters", "load") /\ counters' = [k \in Slot |-> 0]
  /\ UNCHANGED <<db, rules, stamps, call, world, history>>

DeleteCounters(p) ==
  /\ Goes(p, "counters", "load")
  /\ counters' = [k \in Slot |-> IF k[1] = req[p].rule THEN 0 ELSE counters[k]]
  /\ UNCHANGED <<db, rules, stamps, call, world, history>>

(* loadRules: the table is read, then the snapshot is replaced.            *)
Load(p) ==
  /\ req[p].pc = "load" /\ req' = [req EXCEPT ![p].pc = "swap", ![p].rules = db]
  /\ UNCHANGED <<db, rules, stamps, counters, call, world, history>>

Swap(p) ==
  /\ req[p].pc = "swap" /\ req' = [req EXCEPT ![p] = NoRequest] /\ rules' = req[p].rules
  /\ UNCHANGED <<db, stamps, counters, call, world, history>>

(* PUT and DELETE of a counter.                                            *)
SetCounter ==
  /\ edits < MaxEdits /\ edits' = edits + 1
  /\ \E k \in Slot, v \in {0, 1} :
       counters' = [counters EXCEPT ![k] = v] /\ touched' = touched \cup {k[1]}
  /\ UNCHANGED <<db, rules, stamps, call, req, clock, received, ids, fired, last, recapped>>

(* POST /api/causal/cooldowns/clear.                                       *)
ClearCooldowns ==
  /\ edits < MaxEdits /\ edits' = edits + 1
  /\ stamps' = [k \in Slot |-> Never] /\ last' = stamps'
  /\ UNCHANGED <<db, rules, counters, call, req, clock, received, ids, fired, touched, recapped>>

Tick == /\ clock < MaxClock /\ clock' = clock + 1
        /\ UNCHANGED <<db, rules, stamps, counters, call, req, received, edits, ids, history>>

MatchAndExecute(a) == \/ Receive(a) \/ Match(a) \/ NoMatch(a) \/ CheckCooling(a)
                      \/ Trigger(a) \/ ReadCounter(a) \/ WriteCounter(a)
Edit(p) == \/ Add(p) \/ Update(p) \/ Toggle(p) \/ WriteRow(p)
           \/ Delete(p) \/ DeleteCounters(p) \/ Load(p) \/ Swap(p)

CausalNext == \/ \E a \in Adapter : MatchAndExecute(a)
              \/ \E p \in Panel : Edit(p)
              \/ SetCounter \/ ClearCooldowns \/ Tick
CausalSpec == CausalInit /\ [][CausalNext]_causalVars

-----------------------------------------------------------------------------
(* A user only one adapter hears from.                                     *)
Solo(u) == \A a, b \in Adapter : u \in Serves[a] \cap Serves[b] => a = b

(* causal_rule_manager.cpp:735-737.  For such a user no add is lost: while *)
(* nobody is between the two halves of it, a counter the panel left alone  *)
(* is the number of times its rule fired.                                  *)
CountersExact ==
  \A r \in Rule \ touched, u \in User :
    Solo(u) /\ (\A a \in Adapter : call[a].pc \in {"read", "write"} => KeyOf(a) # <<r, u>>)
      => counters[<<r, u>>] = fired[<<r, u>>]

(* A rule limited by a counter fires no more often than its limit for such *)
(* a user, though the check and the count are four steps apart and other   *)
(* adapters and the panel's requests for other rules run between them.     *)
LimitHeld ==
  \A r \in Rule \ (touched \cup recapped), u \in User :
    Solo(u) /\ db[r] # NoRow /\ db[r].cap > 0 => fired[<<r, u>>] <= db[r].cap

(* cooldown_manager.h:20-22.  Two firings of a rule for such a user are at *)
(* least the cooldown apart, whatever is edited meanwhile, unless the      *)
(* panel clears the cooldowns.                                             *)
Spaced == [][\A u \in User, r \in Rule :
  Solo(u) /\ fired'[<<r, u>>] # fired[<<r, u>>] /\ last[<<r, u>>] # Never
    => clock - last[<<r, u>>] >= Cool]_causalVars

(* loadRules, "hot reload": with no request under way messages are matched *)
(* against the rules as stored.                                            *)
SnapshotSettles == (\A p \in Panel : req[p].pc = "idle") => rules = db
=============================================================================
