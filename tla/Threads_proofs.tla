--------------------------- MODULE Threads_proofs ---------------------------
(***************************************************************************)
(* Theorems about the parts whose threads meet without a common lock:      *)
(* CausalRules, for any rules, users, adapters, panel threads and          *)
(* requests; GatewaySession, for any number of sockets, stops and          *)
(* requests; and BuiltinLogin, for any threads, settings and numbers of    *)
(* Instances, calls and crashes.  Last, MCThreads: each of them behaves    *)
(* as it does alone.                                                       *)
(***************************************************************************)
EXTENDS MCThreads, FiniteSetTheorems, TLAPS

-----------------------------------------------------------------------------
(* CausalRules.                                                            *)

(* An id that was never used is in no snapshot, and its rule never fired.  *)
KnownInv ==
  \A r \in Rule \ ids :
    /\ \A a \in Adapter : call[a].rules[r] = NoRow
    /\ \A p \in Panel : req[p].rules[r] = NoRow
    /\ \A u \in User : fired[<<r, u>>] = 0

(* What a thread in matchAndExecute knows of its message and its rule.     *)
CallInv ==
  \A a \in Adapter : call[a].pc # "idle" =>
    /\ call[a].user \in Serves[a]
    /\ \A r \in call[a].left : call[a].rules[r] # NoRow
    /\ call[a].pc # "match" => call[a].rules[call[a].rule] # NoRow

(* A request that will delete counters is known to.                        *)
DeleteInv == \A p \in Panel : req[p].pc = "counters" => req[p].rule \in touched

Adds(a, r, u) == call[a].pc \in {"read", "write"} /\ KeyOf(a) = <<r, u>>

(* CountersExact, and between the two halves of an add the counter is one  *)
(* behind.                                                                 *)
CountOf(r, u) ==
  /\ \A a \in Adapter : Adds(a, r, u) =>
       /\ fired[<<r, u>>] = counters[<<r, u>>] + 1
       /\ call[a].pc = "write" => call[a].old = counters[<<r, u>>]
  /\ (\A a \in Adapter : ~Adds(a, r, u)) => counters[<<r, u>>] = fired[<<r, u>>]
CountInv == \A r \in Rule \ touched, u \in User : Solo(u) => CountOf(r, u)

(* Every snapshot has the present limit of a rule whose limit was never    *)
(* edited.                                                                 *)
SameCap(row, r) == row # NoRow => row.cap = db[r].cap
CapInv ==
  \A r \in Rule \ (touched \cup recapped) : db[r] # NoRow =>
    /\ SameCap(rules[r], r)
    /\ \A a \in Adapter : SameCap(call[a].rules[r], r)
    /\ \A p \in Panel : SameCap(req[p].rules[r], r)

(* LimitHeld, and a thread whose check was positive has one firing left.   *)
Checked(a, r, u) == call[a].pc \in {"cool", "trigger"} /\ KeyOf(a) = <<r, u>>
LimitOf(r, u) ==
  /\ fired[<<r, u>>] <= db[r].cap
  /\ \A a \in Adapter : Checked(a, r, u) => fired[<<r, u>>] < db[r].cap
LimitInv ==
  \A r \in Rule \ (touched \cup recapped), u \in User :
    Solo(u) /\ db[r] # NoRow /\ db[r].cap > 0 => LimitOf(r, u)

(* The cooldowns say when a rule fired, and one that was found to be over  *)
(* stays so.                                                               *)
CoolInv ==
  /\ last = stamps
  /\ \A a \in Adapter :
       call[a].pc = "trigger" /\ Solo(call[a].user) => ~IsCooling(KeyOf(a))

CausalInv == CausalTypeOK /\ KnownInv /\ CallInv /\ DeleteInv /\ CountInv /\ CapInv /\ LimitInv /\ CoolInv

LEMMA SetsAreTyped ==
  /\ Idle \in Call /\ NoRequest \in Request
  /\ NoTable \in Table
  /\ \A r \in Rule : NoTable[r] = NoRow
<1>1. NoTable \in Table /\ \A r \in Rule : NoTable[r] = NoRow
  BY DEF NoTable, Table, MaybeRow
<1>2. (CHOOSE u \in User : TRUE) \in User /\ (CHOOSE r \in Rule : TRUE) \in Rule
  BY NonEmptyAssumption
<1>3. Idle \in Call
  BY <1>1, <1>2 DEF Idle, Call
<1>4. NoRequest \in Request
  BY <1>1, <1>2 DEF NoRequest, Request, MaybeRow
<1> QED BY <1>1, <1>3, <1>4

(* What Update and Toggle have in common.                                  *)
Plans(p) ==
  \E r \in Rule, row \in Row :
    Begin(p, r, row, "write") /\ UNCHANGED <<db, ids, touched, recapped>>

LEMMA PlansARow == \A p \in Panel : CausalTypeOK /\ (Update(p) \/ Toggle(p)) => Plans(p)
<1> SUFFICES ASSUME NEW p \in Panel, CausalTypeOK, Update(p) \/ Toggle(p) PROVE Plans(p)
  OBVIOUS
<1>1. CASE Update(p)
  BY <1>1 DEF Update, Plans
<1>2. CASE Toggle(p)
  <2>1. PICK r \in Rule :
          /\ db[r] # NoRow /\ Begin(p, r, [db[r] EXCEPT !.on = ~@], "write")
          /\ UNCHANGED <<db, ids, touched, recapped>>
    BY <1>2, Zenon DEF Toggle
  <2>2. db[r] \in Row
    BY <2>1 DEF CausalTypeOK, Table, MaybeRow
  <2>3. [db[r] EXCEPT !.on = ~@] \in Row
    BY <2>2, SwitchAssumption, Zenon
  <2> QED BY <2>1, <2>3, Zenon DEF Plans
<1> QED BY <1>1, <1>2

(* A request that begins changes no thread's knowledge but its own.        *)
LEMMA BeginStep ==
  \A p \in Panel : CausalTypeOK /\ (Add(p) \/ Plans(p) \/ Delete(p)) =>
    /\ UNCHANGED <<rules, stamps, counters, call, clock, received, fired, last, recapped>>
    /\ ids \subseteq ids' /\ touched \subseteq touched'
    /\ \A q \in Panel :
         /\ req'[q].rules \in {req[q].rules, NoTable}
         /\ req'[q].pc = "counters" => req'[q] = req[q] \/ req'[q].rule \in touched'
<1> SUFFICES ASSUME NEW p \in Panel, CausalTypeOK, Add(p) \/ Plans(p) \/ Delete(p)
    PROVE /\ UNCHANGED <<rules, stamps, counters, call, clock, received, fired, last, recapped>>
          /\ ids \subseteq ids' /\ touched \subseteq touched'
          /\ \A q \in Panel :
               /\ req'[q].rules \in {req[q].rules, NoTable}
               /\ req'[q].pc = "counters" => req'[q] = req[q] \/ req'[q].rule \in touched'
  OBVIOUS
<1>1. ASSUME NEW r, NEW row, NEW pc, Begin(p, r, row, pc)
      PROVE /\ UNCHANGED <<rules, stamps, counters, call, clock, received, fired, last>>
            /\ req'[p].pc = pc /\ req'[p].rule = r /\ req'[p].rules = NoTable
            /\ \A q \in Panel : q # p => req'[q] = req[q]
  BY <1>1 DEF Begin, CausalTypeOK, Request, NoRequest
<1>2. CASE Add(p)
  <2>1. PICK r \in Rule \ ids, row \in Row :
          /\ Begin(p, r, row, "load") /\ ids' = ids \cup {r} /\ UNCHANGED <<touched, recapped>>
    BY <1>2 DEF Add
  <2> QED BY <2>1, <1>1
<1>3. CASE Plans(p)
  <2>1. PICK r \in Rule, row \in Row :
          Begin(p, r, row, "write") /\ UNCHANGED <<db, ids, touched, recapped>>
    BY <1>3, Zenon DEF Plans
  <2> QED BY <2>1, <1>1
<1>4. CASE Delete(p)
  <2>1. PICK r \in ids :
          /\ Begin(p, r, NoRow, "counters") /\ touched' = touched \cup {r}
          /\ UNCHANGED <<ids, recapped>>
    BY <1>4 DEF Delete
  <2> QED BY <2>1, <1>1
<1> QED BY <1>2, <1>3, <1>4

(* A call that goes on keeps its message, its snapshot and its rule.       *)
LEMMA GoesOnStep ==
  \A a \in Adapter : CausalTypeOK /\ (CheckCooling(a) \/ Trigger(a) \/ ReadCounter(a)) =>
    /\ call[a].pc \notin {"idle", "match"} /\ call'[a].pc \in {"match", "trigger", "read", "write"}
    /\ call'[a].user = call[a].user /\ call'[a].rules = call[a].rules
    /\ call'[a].left = call[a].left /\ call'[a].rule = call[a].rule
    /\ \A b \in Adapter : b # a => call'[b] = call[b]
<1> SUFFICES ASSUME NEW a \in Adapter, CausalTypeOK, CheckCooling(a) \/ Trigger(a) \/ ReadCounter(a)
    PROVE /\ call[a].pc \notin {"idle", "match"}
          /\ call'[a].pc \in {"match", "trigger", "read", "write"}
          /\ call'[a].user = call[a].user /\ call'[a].rules = call[a].rules
          /\ call'[a].left = call[a].left /\ call'[a].rule = call[a].rule
          /\ \A b \in Adapter : b # a => call'[b] = call[b]
  OBVIOUS
<1>1. CASE CheckCooling(a)
  BY <1>1 DEF CheckCooling, At, CausalTypeOK, Call
<1>2. CASE Trigger(a)
  BY <1>2 DEF Trigger, At, CausalTypeOK, Call
<1>3. CASE ReadCounter(a)
  BY <1>3 DEF ReadCounter, At, CausalTypeOK, Call
<1> QED BY <1>1, <1>2, <1>3

(* A call that ends leaves nothing behind.                                 *)
LEMMA EndStep ==
  \A a \in Adapter : CausalTypeOK /\ (NoMatch(a) \/ WriteCounter(a)) =>
    /\ call[a].pc \in {"match", "write"}
    /\ call'[a].pc = "idle" /\ call'[a].rules = NoTable
    /\ \A b \in Adapter : b # a => call'[b] = call[b]
<1> SUFFICES ASSUME NEW a \in Adapter, CausalTypeOK, NoMatch(a) \/ WriteCounter(a)
    PROVE /\ call[a].pc \in {"match", "write"}
          /\ call'[a].pc = "idle" /\ call'[a].rules = NoTable
          /\ \A b \in Adapter : b # a => call'[b] = call[b]
  OBVIOUS
<1>1. call' = [call EXCEPT ![a] = Idle]
  BY DEF NoMatch, WriteCounter
<1>2. Idle.pc = "idle" /\ Idle.rules = NoTable
  BY DEF Idle
<1>3. call[a].pc \in {"match", "write"}
  BY DEF NoMatch, WriteCounter, At
<1> QED BY <1>1, <1>2, <1>3 DEF CausalTypeOK

(* After the table or the counters are written they are loaded.            *)
LEMMA LoadNext ==
  \A p \in Panel : CausalTypeOK /\ (WriteRow(p) \/ DeleteCounters(p)) =>
    /\ req'[p].pc = "load"
    /\ \A q \in Panel : req'[q].rules = req[q].rules /\ (q # p => req'[q] = req[q])
<1> SUFFICES ASSUME NEW p \in Panel, CausalTypeOK, NEW from, Goes(p, from, "load")
    PROVE /\ req'[p].pc = "load"
          /\ \A q \in Panel : req'[q].rules = req[q].rules /\ (q # p => req'[q] = req[q])
  BY DEF WriteRow, DeleteCounters
<1> QED BY DEF Goes, CausalTypeOK, Request

(* Nothing is forgotten about a rule, and no id is given twice.            *)
LEMMA HistoryGrows ==
  CausalTypeOK /\ [CausalNext]_causalVars => touched \subseteq touched' /\ recapped \subseteq recapped' /\ ids \subseteq ids'
<1> DEFINE Grows == touched \subseteq touched' /\ recapped \subseteq recapped' /\ ids \subseteq ids'
<1> SUFFICES ASSUME CausalTypeOK, [CausalNext]_causalVars PROVE Grows
  OBVIOUS
<1>1. ASSUME NEW a \in Adapter, MatchAndExecute(a) PROVE Grows
  BY <1>1 DEF MatchAndExecute, Receive, Match, NoMatch, CheckCooling, Trigger, ReadCounter,
     WriteCounter, world, history
<1>2. ASSUME NEW p \in Panel, Add(p) \/ Plans(p) \/ Delete(p) PROVE Grows
  BY <1>2, BeginStep
<1>3. ASSUME NEW p \in Panel, WriteRow(p) \/ DeleteCounters(p) \/ Load(p) \/ Swap(p) PROVE Grows
  BY <1>3 DEF WriteRow, DeleteCounters, Load, Swap, world, history
<1>4. CASE SetCounter
  BY <1>4 DEF SetCounter
<1>5. CASE ClearCooldowns \/ Tick \/ UNCHANGED causalVars
  BY <1>5 DEF ClearCooldowns, Tick, causalVars, world, history
<1> QED BY <1>1, <1>2, <1>3, <1>4, <1>5, PlansARow DEF CausalNext, Edit

(* A rule fires in one place.                                              *)
LEMMA FiresOnTrigger == CausalTypeOK /\ [CausalNext]_causalVars => fired' = fired \/ \E a \in Adapter : Trigger(a)
<1> SUFFICES ASSUME CausalTypeOK, [CausalNext]_causalVars, ~ \E a \in Adapter : Trigger(a) PROVE fired' = fired
  OBVIOUS
<1>1. ASSUME NEW a \in Adapter, MatchAndExecute(a) PROVE fired' = fired
  BY <1>1 DEF MatchAndExecute, Receive, Match, NoMatch, CheckCooling, ReadCounter, WriteCounter, history
<1>2. ASSUME NEW p \in Panel, Add(p) \/ Plans(p) \/ Delete(p) PROVE fired' = fired
  BY <1>2, BeginStep
<1>3. ASSUME NEW p \in Panel, WriteRow(p) \/ DeleteCounters(p) \/ Load(p) \/ Swap(p)
      PROVE fired' = fired
  BY <1>3 DEF WriteRow, DeleteCounters, Load, Swap, history
<1>4. CASE SetCounter \/ ClearCooldowns \/ Tick \/ UNCHANGED causalVars
  BY <1>4 DEF SetCounter, ClearCooldowns, Tick, causalVars, history
<1> QED BY <1>1, <1>2, <1>3, <1>4, PlansARow DEF CausalNext, Edit

(* Where snapshots come from, and which rows are new or changed.           *)
SnapshotsMove ==
  /\ \A r \in Rule \ recapped' : db'[r] # NoRow =>
       r \notin ids \/ (db[r] # NoRow /\ db'[r].cap = db[r].cap)
  /\ rules' = rules \/ \E p \in Panel : rules' = req[p].rules
  /\ \A a \in Adapter : call'[a].rules \in {call[a].rules, NoTable, rules}
  /\ \A p \in Panel : req'[p].rules \in {req[p].rules, NoTable, db}

LEMMA SnapshotStep == CausalTypeOK /\ [CausalNext]_causalVars => SnapshotsMove
<1> SUFFICES ASSUME CausalTypeOK, [CausalNext]_causalVars PROVE SnapshotsMove
  OBVIOUS
<1>1. ASSUME NEW a \in Adapter, Receive(a) PROVE SnapshotsMove
  <2>1. \A b \in Adapter : call'[b].rules \in {call[b].rules, rules}
    BY <1>1 DEF Receive, CausalTypeOK, Idle
  <2> QED BY <2>1, <1>1 DEF Receive, SnapshotsMove, history
<1>2. ASSUME NEW a \in Adapter, Match(a) PROVE SnapshotsMove
  <2>1. PICK r \in Rule :
          call' = [call EXCEPT ![a].left = @ \ {r}, ![a].rule = r,
            ![a].pc = IF Met(call[a].rules[r], <<r, call[a].user>>) THEN "cool" ELSE "match"]
    BY <1>2 DEF Match
  <2>2. \A b \in Adapter : call'[b].rules = call[b].rules
    BY <2>1 DEF CausalTypeOK, Call
  <2> QED BY <2>2, <1>2 DEF Match, SnapshotsMove, world, history
<1>3. ASSUME NEW a \in Adapter, NoMatch(a) \/ WriteCounter(a) PROVE SnapshotsMove
  <2>1. \A b \in Adapter : call'[b].rules \in {call[b].rules, NoTable}
    BY <1>3, EndStep
  <2> QED BY <2>1, <1>3 DEF NoMatch, WriteCounter, SnapshotsMove, world, history
<1>10. ASSUME NEW a \in Adapter, CheckCooling(a) \/ Trigger(a) \/ ReadCounter(a)
      PROVE SnapshotsMove
  <2>1. \A b \in Adapter : call'[b].rules = call[b].rules
    BY <1>10, GoesOnStep
  <2> QED BY <2>1, <1>10 DEF CheckCooling, Trigger, ReadCounter, SnapshotsMove, world, history
<1>4. ASSUME NEW p \in Panel, Add(p) PROVE SnapshotsMove
  <2>1. PICK r \in Rule \ ids, row \in Row : db' = [db EXCEPT ![r] = row]
    BY <1>4 DEF Add
  <2>2. \A s \in Rule \ {r} : db'[s] = db[s]
    BY <2>1 DEF CausalTypeOK, Table
  <2> QED BY <2>1, <2>2, <1>4, BeginStep DEF SnapshotsMove
<1>5. ASSUME NEW p \in Panel, Plans(p) PROVE SnapshotsMove
  <2>1. db' = db
    BY <1>5 DEF Plans
  <2> QED BY <2>1, <1>5, BeginStep DEF SnapshotsMove
<1>6. ASSUME NEW p \in Panel, Delete(p) PROVE SnapshotsMove
  <2>1. PICK r \in ids : db' = [db EXCEPT ![r] = NoRow]
    BY <1>6 DEF Delete
  <2>2. \A s \in Rule : db'[s] # NoRow => db'[s] = db[s]
    BY <2>1 DEF CausalTypeOK, Table
  <2> QED BY <2>2, <1>6, BeginStep DEF SnapshotsMove
<1>7. ASSUME NEW p \in Panel, WriteRow(p) PROVE SnapshotsMove
  <2>1. \A q \in Panel : req'[q].rules = req[q].rules
    BY <1>7, LoadNext
  <2>2. \A r \in Rule : db'[r] # NoRow => db[r] # NoRow
    BY <1>7 DEF WriteRow, CausalTypeOK, Table
  <2>3. \A r \in Rule \ recapped' : db[r] # NoRow => db'[r].cap = db[r].cap
    BY <1>7 DEF WriteRow
  <2> QED BY <2>1, <2>2, <2>3, <1>7 DEF WriteRow, SnapshotsMove
<1>8. ASSUME NEW p \in Panel, DeleteCounters(p) \/ Load(p) \/ Swap(p) PROVE SnapshotsMove
  <2>1. \A q \in Panel : req'[q].rules \in {req[q].rules, NoTable, db}
    <3>1. CASE DeleteCounters(p)
      BY <3>1, LoadNext
    <3>2. CASE Load(p) \/ Swap(p)
      BY <3>2 DEF Load, Swap, CausalTypeOK, Request, NoRequest
    <3> QED BY <1>8, <3>1, <3>2
  <2> QED BY <2>1, <1>8 DEF DeleteCounters, Load, Swap, SnapshotsMove, world, history
<1>9. CASE SetCounter \/ ClearCooldowns \/ Tick \/ UNCHANGED causalVars
  BY <1>9 DEF SetCounter, ClearCooldowns, Tick, causalVars, SnapshotsMove, world, history
<1> QED
  BY <1>1, <1>2, <1>3, <1>4, <1>5, <1>6, <1>7, <1>8, <1>9, <1>10, PlansARow DEF CausalNext, MatchAndExecute, Edit

LEMMA TypeStep == CausalTypeOK /\ KnownInv /\ [CausalNext]_causalVars => CausalTypeOK'
<1> SUFFICES ASSUME CausalTypeOK, KnownInv, [CausalNext]_causalVars PROVE CausalTypeOK'
  OBVIOUS
<1> USE SetsAreTyped, BoundAssumption, ServesAssumption, RowAssumption
<1>1. CASE UNCHANGED causalVars
  BY <1>1 DEF CausalTypeOK, causalVars, world, history
<1>2. ASSUME NEW a \in Adapter, Receive(a) PROVE CausalTypeOK'
  <2>1. PICK u \in Serves[a] :
          call' = [call EXCEPT ![a] = [Idle EXCEPT
            !.pc = "match", !.user = u, !.rules = rules,
            !.left = {r \in Rule : rules[r] # NoRow /\ rules[r].on}]]
    BY <1>2 DEF Receive
  <2>2. u \in User
    OBVIOUS
  <2>3. [Idle EXCEPT !.pc = "match", !.user = u, !.rules = rules,
           !.left = {r \in Rule : rules[r] # NoRow /\ rules[r].on}] \in Call
    BY <2>2 DEF CausalTypeOK, Call
  <2>4. received' \in [Adapter -> 0..MaxMsgs]
    BY <1>2 DEF Receive, CausalTypeOK
  <2> QED BY <2>1, <2>3, <2>4, <1>2 DEF Receive, CausalTypeOK, history
<1>3. ASSUME NEW a \in Adapter, Match(a) PROVE CausalTypeOK'
  <2>1. PICK r \in Rule :
          call' = [call EXCEPT ![a].left = @ \ {r}, ![a].rule = r,
            ![a].pc = IF Met(call[a].rules[r], <<r, call[a].user>>) THEN "cool" ELSE "match"]
    BY <1>3 DEF Match
  <2>2. call[a] \in Call
    BY DEF CausalTypeOK
  <2> DEFINE left == call[a].left \ {r}
             pc == IF Met(call[a].rules[r], <<r, call[a].user>>) THEN "cool" ELSE "match"
  <2>3. [call[a] EXCEPT !.left = left, !.rule = r, !.pc = pc] \in Call
    BY <2>2 DEF Call
  <2>4. call' = [call EXCEPT ![a] = [call[a] EXCEPT !.left = left, !.rule = r, !.pc = pc]]
    BY <2>1, <2>2, Zenon
  <2>5. call' \in [Adapter -> Call]
    BY <2>3, <2>4 DEF CausalTypeOK
  <2> QED BY <2>5, <1>3 DEF Match, CausalTypeOK, world, history
<1>4. ASSUME NEW a \in Adapter, NoMatch(a) PROVE CausalTypeOK'
  BY <1>4 DEF NoMatch, CausalTypeOK, world, history
<1>5. ASSUME NEW a \in Adapter, CheckCooling(a) PROVE CausalTypeOK'
  <2>1. call[a] \in Call
    BY DEF CausalTypeOK
  <2>2. PICK pc \in {"match", "trigger"} : call' = [call EXCEPT ![a].pc = pc]
    BY <1>5 DEF CheckCooling
  <2>3. [call[a] EXCEPT !.pc = pc] \in Call
    BY <2>1 DEF Call
  <2>4. call' \in [Adapter -> Call]
    BY <2>2, <2>3 DEF CausalTypeOK
  <2> QED BY <2>4, <1>5 DEF CheckCooling, CausalTypeOK, world, history
<1>6. ASSUME NEW a \in Adapter, Trigger(a) PROVE CausalTypeOK'
  <2>1. KeyOf(a) \in Slot
    BY DEF KeyOf, Slot, CausalTypeOK, Call
  <2>2. call' \in [Adapter -> Call]
    BY <1>6 DEF Trigger, CausalTypeOK, Call
  <2> QED BY <2>1, <2>2, <1>6 DEF Trigger, CausalTypeOK, world
<1>7. ASSUME NEW a \in Adapter, ReadCounter(a) PROVE CausalTypeOK'
  <2>1. KeyOf(a) \in Slot
    BY DEF KeyOf, Slot, CausalTypeOK, Call
  <2>2. call[a] \in Call /\ counters[KeyOf(a)] \in Nat
    BY <2>1 DEF CausalTypeOK
  <2>3. [call[a] EXCEPT !.pc = "write", !.old = counters[KeyOf(a)]] \in Call
    BY <2>2 DEF Call
  <2>4. call' = [call EXCEPT ![a] = [call[a] EXCEPT !.pc = "write", !.old = counters[KeyOf(a)]]]
    BY <1>7 DEF ReadCounter
  <2>5. call' \in [Adapter -> Call]
    BY <2>3, <2>4 DEF CausalTypeOK
  <2> QED BY <2>5, <1>7 DEF ReadCounter, CausalTypeOK, world, history
<1>8. ASSUME NEW a \in Adapter, WriteCounter(a) PROVE CausalTypeOK'
  <2>1. KeyOf(a) \in Slot /\ call[a].old + 1 \in Nat
    BY DEF KeyOf, Slot, CausalTypeOK, Call
  <2> QED BY <2>1, <1>8 DEF WriteCounter, CausalTypeOK, world, history
<1>9. ASSUME NEW p \in Panel, NEW r \in Rule, NEW row \in MaybeRow,
             NEW pc \in {"write", "counters", "load"}, Begin(p, r, row, pc)
      PROVE req' \in [Panel -> Request] /\ edits' \in 0..MaxEdits
  <2>1. [NoRequest EXCEPT !.rule = r, !.row = row, !.pc = pc] \in Request
    BY DEF Request
  <2> QED BY <2>1, <1>9 DEF Begin, CausalTypeOK
<1>10. ASSUME NEW p \in Panel, Add(p) PROVE CausalTypeOK'
  <2>1. PICK r \in Rule \ ids, row \in Row :
          /\ Begin(p, r, row, "load") /\ ids' = ids \cup {r} /\ db' = [db EXCEPT ![r] = row]
          /\ UNCHANGED <<touched, recapped>>
    BY <1>10 DEF Add
  <2>2. row \in MaybeRow
    BY DEF MaybeRow
  <2>3. db' \in Table
    BY <2>1, <2>2 DEF CausalTypeOK, Table
  <2>4. {s \in Rule : db'[s] # NoRow \/ rules'[s] # NoRow} \subseteq ids'
    BY <2>1 DEF CausalTypeOK, Table, Begin
  <2> QED BY <2>1, <2>2, <2>3, <2>4, <1>9 DEF CausalTypeOK, Begin
<1>11. ASSUME NEW p \in Panel, Plans(p) PROVE CausalTypeOK'
  <2>1. PICK r \in Rule, row \in Row :
          Begin(p, r, row, "write") /\ UNCHANGED <<db, ids, touched, recapped>>
    BY <1>11, Zenon DEF Plans
  <2>2. row \in MaybeRow
    BY DEF MaybeRow
  <2> QED BY <2>1, <2>2, <1>9 DEF CausalTypeOK, Begin
<1>13. ASSUME NEW p \in Panel, WriteRow(p) PROVE CausalTypeOK'
  <2>1. db' \in Table /\ req' \in [Panel -> Request]
    BY <1>13 DEF WriteRow, Goes, CausalTypeOK, Table, Request, MaybeRow
  <2>2. {s \in Rule : db'[s] # NoRow} \subseteq {s \in Rule : db[s] # NoRow}
    BY <1>13 DEF WriteRow, CausalTypeOK, Table
  <2>3. recapped' \subseteq Rule
    BY <1>13 DEF WriteRow, CausalTypeOK
  <2> QED BY <2>1, <2>2, <2>3, <1>13 DEF WriteRow, CausalTypeOK, world
<1>14. ASSUME NEW p \in Panel, Delete(p) PROVE CausalTypeOK'
  <2>1. PICK r \in ids :
          /\ Begin(p, r, NoRow, "counters") /\ db' = [db EXCEPT ![r] = NoRow]
          /\ touched' = touched \cup {r} /\ UNCHANGED <<ids, recapped>>
    BY <1>14 DEF Delete
  <2>2. r \in Rule /\ NoRow \in MaybeRow
    BY DEF CausalTypeOK, MaybeRow
  <2>3. db' \in Table
    BY <2>1, <2>2 DEF CausalTypeOK, Table
  <2>4. {s \in Rule : db'[s] # NoRow} \subseteq {s \in Rule : db[s] # NoRow}
    BY <2>1 DEF CausalTypeOK, Table
  <2> QED BY <2>1, <2>2, <2>3, <2>4, <1>9 DEF CausalTypeOK, Begin
<1>15. ASSUME NEW p \in Panel, DeleteCounters(p) PROVE CausalTypeOK'
  BY <1>15 DEF DeleteCounters, Goes, CausalTypeOK, Request, world, history
<1>16. ASSUME NEW p \in Panel, Load(p) PROVE CausalTypeOK'
  <2>1. req[p] \in Request /\ db \in Table
    BY DEF CausalTypeOK
  <2>2. [req[p] EXCEPT !.pc = "swap", !.rules = db] \in Request
    BY <2>1 DEF Request
  <2>3. req' = [req EXCEPT ![p] = [req[p] EXCEPT !.pc = "swap", !.rules = db]]
    BY <1>16 DEF Load
  <2>4. req' \in [Panel -> Request]
    BY <2>2, <2>3 DEF CausalTypeOK
  <2> QED BY <2>4, <1>16 DEF Load, CausalTypeOK, world, history
<1>17. ASSUME NEW p \in Panel, Swap(p) PROVE CausalTypeOK'
  <2>1. rules' = req[p].rules /\ rules' \in Table
    BY <1>17 DEF Swap, CausalTypeOK, Request
  <2>2. {r \in Rule : rules'[r] # NoRow} \subseteq ids
    BY <2>1 DEF KnownInv
  <2> QED BY <2>1, <2>2, <1>17 DEF Swap, CausalTypeOK, world, history
<1>18. CASE SetCounter
  BY <1>18 DEF SetCounter, CausalTypeOK, Slot
<1>19. CASE ClearCooldowns
  BY <1>19 DEF ClearCooldowns, CausalTypeOK
<1>20. CASE Tick
  BY <1>20 DEF Tick, CausalTypeOK, history
<1> QED
  BY <1>1, <1>2, <1>3, <1>4, <1>5, <1>6, <1>7, <1>8, <1>10, <1>11, <1>13, <1>14, <1>15,
     <1>16, <1>17, <1>18, <1>19, <1>20, PlansARow DEF CausalNext, MatchAndExecute, Edit

LEMMA KnownStep == CausalTypeOK /\ KnownInv /\ CallInv /\ [CausalNext]_causalVars => KnownInv'
<1> SUFFICES ASSUME CausalTypeOK, KnownInv, CallInv, [CausalNext]_causalVars, NEW r \in Rule \ ids'
    PROVE /\ \A a \in Adapter : call'[a].rules[r] = NoRow
          /\ \A p \in Panel : req'[p].rules[r] = NoRow
          /\ \A u \in User : fired'[<<r, u>>] = 0
  BY DEF KnownInv
<1>1. r \in Rule \ ids /\ SnapshotsMove
  BY HistoryGrows, SnapshotStep
<1>2. rules[r] = NoRow /\ db[r] = NoRow /\ NoTable[r] = NoRow
  BY <1>1, SetsAreTyped DEF CausalTypeOK
<1>3. \A a \in Adapter : call'[a].rules[r] = NoRow
  BY <1>1, <1>2 DEF SnapshotsMove, KnownInv
<1>4. \A p \in Panel : req'[p].rules[r] = NoRow
  BY <1>1, <1>2 DEF SnapshotsMove, KnownInv
<1>5. fired' = fired \/ \E a \in Adapter : Trigger(a)
  BY FiresOnTrigger
<1>6. ASSUME NEW a \in Adapter, Trigger(a), NEW u \in User PROVE fired'[<<r, u>>] = fired[<<r, u>>]
  <2>1. call[a].rule \in ids
    BY <1>6 DEF Trigger, At, CallInv, KnownInv, CausalTypeOK, Call
  <2>2. KeyOf(a) # <<r, u>>
    BY <2>1, <1>1 DEF KeyOf
  <2> QED BY <2>2, <1>1, <1>6 DEF Trigger, CausalTypeOK, Slot
<1>7. \A u \in User : fired'[<<r, u>>] = 0
  BY <1>1, <1>5, <1>6 DEF KnownInv
<1> QED BY <1>3, <1>4, <1>7

LEMMA MessageStep == CausalTypeOK /\ CallInv /\ [CausalNext]_causalVars => CallInv'
<1> SUFFICES ASSUME CausalTypeOK, CallInv, [CausalNext]_causalVars PROVE CallInv'
  OBVIOUS
<1>1. CASE UNCHANGED call
  BY <1>1 DEF CallInv
<1>2. ASSUME NEW a \in Adapter, Receive(a) PROVE CallInv'
  BY <1>2 DEF Receive, CallInv, CausalTypeOK, Idle
<1>3. ASSUME NEW a \in Adapter, Match(a) PROVE CallInv'
  <2>1. PICK r \in Rule :
          /\ First(call[a], r)
          /\ call' = [call EXCEPT ![a].left = @ \ {r}, ![a].rule = r,
              ![a].pc = IF Met(call[a].rules[r], <<r, call[a].user>>) THEN "cool" ELSE "match"]
    BY <1>3 DEF Match
  <2>2. r \in call[a].left /\ call[a].pc = "match"
    BY <2>1, <1>3 DEF First, Match, At
  <2>3. /\ call'[a].user = call[a].user /\ call'[a].rules = call[a].rules
        /\ call'[a].left = call[a].left \ {r} /\ call'[a].rule = r
        /\ \A b \in Adapter : b # a => call'[b] = call[b]
    BY <2>1 DEF CausalTypeOK, Call
  <2> QED BY <2>2, <2>3 DEF CallInv
<1>4. ASSUME NEW a \in Adapter, NoMatch(a) \/ WriteCounter(a) PROVE CallInv'
  BY <1>4, EndStep DEF CallInv
<1>5. ASSUME NEW a \in Adapter, CheckCooling(a) \/ Trigger(a) \/ ReadCounter(a) PROVE CallInv'
  BY <1>5, GoesOnStep DEF CallInv
<1> QED
  BY <1>1, <1>2, <1>3, <1>4, <1>5, PlansARow
  DEF CausalNext, MatchAndExecute, Edit, Add, Plans, Delete, Begin, WriteRow, DeleteCounters,
      Load, Swap, SetCounter, ClearCooldowns, Tick, causalVars

LEMMA DeleteStep == CausalTypeOK /\ DeleteInv /\ [CausalNext]_causalVars => DeleteInv'
<1> SUFFICES ASSUME CausalTypeOK, DeleteInv, [CausalNext]_causalVars PROVE DeleteInv'
  OBVIOUS
<1> USE SetsAreTyped
<1>1. ASSUME UNCHANGED req, touched \subseteq touched' PROVE DeleteInv'
  BY <1>1 DEF DeleteInv
<1>2. ASSUME NEW p \in Panel, Add(p) \/ Plans(p) \/ Delete(p) PROVE DeleteInv'
  BY <1>2, BeginStep DEF DeleteInv
<1>4. ASSUME NEW p \in Panel, WriteRow(p) \/ DeleteCounters(p) \/ Load(p) \/ Swap(p)
      PROVE DeleteInv'
  <2>1. \A q \in Panel : req'[q].pc = "counters" => req'[q] = req[q]
    <3>1. CASE WriteRow(p) \/ DeleteCounters(p)
      BY <3>1, LoadNext
    <3>2. CASE Load(p) \/ Swap(p)
      BY <3>2 DEF Load, Swap, CausalTypeOK, Request, NoRequest
    <3> QED BY <1>4, <3>1, <3>2
  <2> QED BY <2>1, <1>4 DEF WriteRow, DeleteCounters, Load, Swap, DeleteInv, history
<1>5. CASE SetCounter
  <2>1. req' = req /\ touched \subseteq touched'
    BY <1>5 DEF SetCounter
  <2> QED BY <2>1, <1>1
<1>6. ASSUME NEW a \in Adapter, MatchAndExecute(a) PROVE DeleteInv'
  <2>1. req' = req /\ touched' = touched
    BY <1>6 DEF MatchAndExecute, Receive, Match, NoMatch, CheckCooling, Trigger, ReadCounter,
       WriteCounter, history
  <2> QED BY <2>1, <1>1
<1>7. CASE ClearCooldowns \/ Tick \/ UNCHANGED causalVars
  <2>1. req' = req /\ touched' = touched
    BY <1>7 DEF ClearCooldowns, Tick, causalVars, history
  <2> QED BY <2>1, <1>1
<1> QED BY <1>2, <1>4, <1>5, <1>6, <1>7, PlansARow DEF CausalNext, Edit

(* A user only one adapter hears from is in one call at a time.            *)
LEMMA Alone ==
  CallInv => \A u \in User : Solo(u) =>
    \A a, b \in Adapter :
      call[a].pc # "idle" /\ call[a].user = u /\ call[b].pc # "idle" /\ call[b].user = u => a = b
BY DEF CallInv, Solo

LEMMA CountStep == CausalTypeOK /\ CallInv /\ DeleteInv /\ CountInv /\ [CausalNext]_causalVars => CountInv'
<1> SUFFICES ASSUME CausalTypeOK, CallInv, DeleteInv, CountInv, [CausalNext]_causalVars,
                    NEW r \in Rule \ touched', NEW u \in User, Solo(u)
    PROVE CountOf(r, u)'
  BY DEF CountInv, Solo
<1> DEFINE k == <<r, u>>
           Still(b) == call'[b] = call[b] \/ ~(Adds(b, r, u) \/ Adds(b, r, u)')
<1>0. r \in Rule \ touched /\ CountOf(r, u) /\ k \in Slot
  BY HistoryGrows DEF CountInv, Slot
<1>1. ASSUME counters'[k] = counters[k], fired'[k] = fired[k], \A b \in Adapter : Still(b)
      PROVE CountOf(r, u)'
  <2>1. \A b \in Adapter : Adds(b, r, u)' <=> Adds(b, r, u)
    BY <1>1 DEF Adds, KeyOf
  <2>2. \A b \in Adapter : Adds(b, r, u) => call'[b] = call[b]
    BY <1>1
  <2> QED BY <1>0, <1>1, <2>1, <2>2 DEF CountOf
<1>2. ASSUME NEW a \in Adapter, Receive(a) PROVE CountOf(r, u)'
  <2>1. \A b \in Adapter : Still(b)
    BY <1>2 DEF Receive, At, Adds, CausalTypeOK, Idle
  <2> QED BY <2>1, <1>1, <1>2 DEF Receive, history
<1>3. ASSUME NEW a \in Adapter, Match(a) PROVE CountOf(r, u)'
  <2>1. PICK s \in Rule :
          call' = [call EXCEPT ![a].left = @ \ {s}, ![a].rule = s,
            ![a].pc = IF Met(call[a].rules[s], <<s, call[a].user>>) THEN "cool" ELSE "match"]
    BY <1>3 DEF Match
  <2>2. call[a].pc = "match" /\ call'[a].pc \in {"cool", "match"}
    BY <2>1, <1>3 DEF Match, At, CausalTypeOK, Call
  <2>3. \A b \in Adapter : b # a => call'[b] = call[b]
    BY <2>1 DEF CausalTypeOK
  <2>4. \A b \in Adapter : Still(b)
    BY <2>2, <2>3 DEF Adds
  <2> QED BY <2>4, <1>1, <1>3 DEF Match, history
<1>4. ASSUME NEW a \in Adapter, NoMatch(a) \/ CheckCooling(a) PROVE CountOf(r, u)'
  <2>1. \A b \in Adapter : Still(b)
    <3>1. CASE NoMatch(a)
      BY <3>1, EndStep DEF NoMatch, At, Adds
    <3>2. CASE CheckCooling(a)
      BY <3>2 DEF CheckCooling, At, Adds, CausalTypeOK, Call
    <3> QED BY <1>4, <3>1, <3>2
  <2> QED BY <2>1, <1>1, <1>4 DEF NoMatch, CheckCooling, history
<1>5. ASSUME NEW a \in Adapter, Trigger(a) PROVE CountOf(r, u)'
  <2>1. /\ call[a].pc = "trigger" /\ call'[a].pc = "read"
        /\ call'[a].rule = call[a].rule /\ call'[a].user = call[a].user
        /\ \A b \in Adapter : b # a => call'[b] = call[b]
    BY <1>5 DEF Trigger, At, CausalTypeOK, Call
  <2>2. counters' = counters /\ fired' = [fired EXCEPT ![KeyOf(a)] = @ + 1]
    BY <1>5 DEF Trigger
  <2>3. CASE KeyOf(a) = k
    <3>1. call[a].user = u
      BY <2>3 DEF KeyOf
    <3>2. \A b \in Adapter : ~Adds(b, r, u)
      BY <2>1, <3>1, Alone DEF Adds, KeyOf
    <3>3. fired[k] \in Nat /\ counters[k] = fired[k]
      BY <3>2, <1>0 DEF CountOf, CausalTypeOK
    <3>4. fired'[k] = counters'[k] + 1
      BY <3>3, <2>2, <2>3, <1>0 DEF CausalTypeOK
    <3>5. Adds(a, r, u)' /\ \A b \in Adapter : Adds(b, r, u)' => b = a
      BY <2>1, <2>3, <3>2 DEF Adds, KeyOf
    <3> QED BY <3>4, <3>5, <2>1 DEF CountOf
  <2>4. CASE KeyOf(a) # k
    <3>1. fired'[k] = fired[k] /\ counters'[k] = counters[k]
      BY <2>2, <2>4, <1>0 DEF CausalTypeOK
    <3>2. \A b \in Adapter : Still(b)
      BY <2>1, <2>4 DEF Adds, KeyOf
    <3> QED BY <3>1, <3>2, <1>1
  <2> QED BY <2>3, <2>4
<1>6. ASSUME NEW a \in Adapter, ReadCounter(a) PROVE CountOf(r, u)'
  <2>1. /\ call[a].pc = "read" /\ call'[a].pc = "write" /\ call'[a].old = counters[KeyOf(a)]
        /\ call'[a].rule = call[a].rule /\ call'[a].user = call[a].user
        /\ \A b \in Adapter : b # a => call'[b] = call[b]
    BY <1>6 DEF ReadCounter, At, CausalTypeOK, Call
  <2>2. \A b \in Adapter : Adds(b, r, u)' <=> Adds(b, r, u)
    BY <2>1 DEF Adds, KeyOf
  <2>3. \A b \in Adapter : Adds(b, r, u)' /\ call'[b].pc = "write" =>
          call'[b].old = counters[k] \/ call'[b] = call[b]
    BY <2>1 DEF Adds, KeyOf
  <2>4. counters' = counters /\ fired' = fired
    BY <1>6 DEF ReadCounter, history
  <2> QED BY <2>2, <2>3, <2>4, <1>0 DEF CountOf
<1>7. ASSUME NEW a \in Adapter, WriteCounter(a) PROVE CountOf(r, u)'
  <2>1. /\ call[a].pc = "write" /\ call'[a].pc = "idle"
        /\ \A b \in Adapter : b # a => call'[b] = call[b]
    BY <1>7 DEF WriteCounter, At, CausalTypeOK, Idle
  <2>2. fired' = fired /\ counters' = [counters EXCEPT ![KeyOf(a)] = call[a].old + 1]
    BY <1>7 DEF WriteCounter, history
  <2>3. CASE KeyOf(a) = k
    <3>1. call[a].user = u
      BY <2>3 DEF KeyOf
    <3>2. Adds(a, r, u) /\ \A b \in Adapter : Adds(b, r, u) => b = a
      BY <2>1, <2>3, <3>1, Alone DEF Adds, KeyOf
    <3>3. fired[k] = counters[k] + 1 /\ call[a].old = counters[k]
      BY <3>2, <2>1, <1>0 DEF CountOf
    <3>4. counters'[k] = fired'[k]
      BY <3>3, <2>2, <2>3, <1>0 DEF CausalTypeOK
    <3>5. \A b \in Adapter : ~Adds(b, r, u)'
      BY <3>2, <2>1 DEF Adds, KeyOf
    <3> QED BY <3>4, <3>5 DEF CountOf
  <2>4. CASE KeyOf(a) # k
    <3>1. fired'[k] = fired[k] /\ counters'[k] = counters[k]
      BY <2>2, <2>4, <1>0 DEF CausalTypeOK
    <3>2. \A b \in Adapter : Still(b)
      BY <2>1, <2>4 DEF Adds, KeyOf
    <3> QED BY <3>1, <3>2, <1>1
  <2> QED BY <2>3, <2>4
<1>8. ASSUME NEW p \in Panel, Add(p) \/ Plans(p) \/ Delete(p) PROVE CountOf(r, u)'
  BY <1>8, BeginStep, <1>1
<1>9. ASSUME NEW p \in Panel, WriteRow(p) \/ Load(p) \/ Swap(p) PROVE CountOf(r, u)'
  BY <1>9, <1>1 DEF WriteRow, Load, Swap, history
<1>10. ASSUME NEW p \in Panel, DeleteCounters(p) PROVE CountOf(r, u)'
  <2>1. req[p].rule \in touched
    BY <1>10 DEF DeleteCounters, Goes, DeleteInv
  <2>2. counters'[k] = counters[k]
    BY <2>1, <1>0, <1>10 DEF DeleteCounters
  <2> QED BY <2>2, <1>1, <1>10 DEF DeleteCounters, history
<1>11. CASE SetCounter
  <2>1. PICK j \in Slot, v \in {0, 1} :
          counters' = [counters EXCEPT ![j] = v] /\ touched' = touched \cup {j[1]}
    BY <1>11 DEF SetCounter
  <2>2. j # k
    BY <2>1
  <2>3. counters'[k] = counters[k]
    BY <2>1, <2>2, <1>0 DEF CausalTypeOK
  <2> QED BY <2>3, <1>1, <1>11 DEF SetCounter
<1>12. CASE ClearCooldowns \/ Tick \/ UNCHANGED causalVars
  BY <1>12, <1>1 DEF ClearCooldowns, Tick, causalVars, history
<1> QED
  BY <1>2, <1>3, <1>4, <1>5, <1>6, <1>7, <1>8, <1>9, <1>10, <1>11, <1>12, PlansARow
  DEF CausalNext, MatchAndExecute, Edit

LEMMA CapStep == CausalTypeOK /\ KnownInv /\ CapInv /\ [CausalNext]_causalVars => CapInv'
<1> SUFFICES ASSUME CausalTypeOK, KnownInv, CapInv, [CausalNext]_causalVars,
                    NEW r \in Rule \ (touched' \cup recapped'), db'[r] # NoRow
    PROVE /\ SameCap(rules[r], r)'
          /\ \A a \in Adapter : SameCap(call[a].rules[r], r)'
          /\ \A p \in Panel : SameCap(req[p].rules[r], r)'
  BY DEF CapInv
<1>1. r \in Rule \ (touched \cup recapped) /\ SnapshotsMove
  BY HistoryGrows, SnapshotStep
<1> DEFINE Fits(row) == row # NoRow => row.cap = db'[r].cap
<1>2. /\ Fits(db[r]) /\ Fits(rules[r]) /\ Fits(NoTable[r])
      /\ \A a \in Adapter : Fits(call[a].rules[r])
      /\ \A p \in Panel : Fits(req[p].rules[r])
  <2>1. CASE r \notin ids
    BY <2>1, SetsAreTyped DEF KnownInv, CausalTypeOK
  <2>2. CASE r \in ids
    <3>1. db[r] # NoRow /\ db'[r].cap = db[r].cap
      BY <2>2, <1>1 DEF SnapshotsMove
    <3> QED BY <3>1, <1>1, SetsAreTyped DEF CapInv, SameCap
  <2> QED BY <2>1, <2>2
<1>3. Fits(rules'[r])
  BY <1>1, <1>2 DEF SnapshotsMove
<1>4. \A a \in Adapter : Fits(call'[a].rules[r])
  BY <1>1, <1>2 DEF SnapshotsMove
<1>5. \A p \in Panel : Fits(req'[p].rules[r])
  BY <1>1, <1>2 DEF SnapshotsMove
<1> QED BY <1>3, <1>4, <1>5 DEF SameCap

LEMMA LimitStep ==
  CausalTypeOK /\ KnownInv /\ CallInv /\ CountInv /\ CapInv /\ LimitInv /\ [CausalNext]_causalVars => LimitInv'
<1> SUFFICES ASSUME CausalTypeOK, KnownInv, CallInv, CountInv, CapInv, LimitInv, [CausalNext]_causalVars,
                    NEW r \in Rule \ (touched' \cup recapped'), NEW u \in User,
                    Solo(u), db'[r] # NoRow, db'[r].cap > 0
    PROVE LimitOf(r, u)'
  BY DEF LimitInv, Solo
<1> DEFINE k == <<r, u>>
           cap == db'[r].cap
<1>1. r \in Rule \ (touched \cup recapped) /\ SnapshotsMove /\ k \in Slot
  BY HistoryGrows, SnapshotStep DEF Slot
<1>2. cap \in Nat /\ fired[k] \in Nat /\ counters[k] \in Nat
  <2>1. db'[r] \in Row
    BY TypeStep DEF CausalTypeOK, Table, MaybeRow
  <2> QED BY <2>1, <1>1, RowAssumption DEF CausalTypeOK
<1>3. /\ fired[k] <= cap
      /\ \A a \in Adapter : Checked(a, r, u) => fired[k] < cap
      /\ \A a \in Adapter : call[a].rules[r] # NoRow => call[a].rules[r].cap = cap
  <2>1. CASE r \notin ids
    <3>1. fired[k] = 0 /\ \A a \in Adapter : call[a].rules[r] = NoRow
      BY <2>1 DEF KnownInv
    <3> QED BY <3>1, <1>2
  <2>2. CASE r \in ids
    <3>1. db[r] # NoRow /\ db[r].cap = cap
      BY <2>2, <1>1 DEF SnapshotsMove
    <3>2. LimitOf(r, u)
      BY <3>1, <1>1 DEF LimitInv
    <3> QED BY <3>1, <3>2, <1>1 DEF LimitOf, CapInv, SameCap
  <2> QED BY <2>1, <2>2
<1>4. ASSUME fired'[k] = fired[k], \A b \in Adapter : Checked(b, r, u)' => Checked(b, r, u)
      PROVE LimitOf(r, u)'
  BY <1>3, <1>4 DEF LimitOf
<1>5. ASSUME NEW a \in Adapter, Receive(a) PROVE LimitOf(r, u)'
  <2>1. \A b \in Adapter : Checked(b, r, u)' => Checked(b, r, u)
    BY <1>5 DEF Receive, Checked, KeyOf, CausalTypeOK, Idle
  <2> QED BY <2>1, <1>4, <1>5 DEF Receive, history
<1>6. ASSUME NEW a \in Adapter, Match(a) PROVE LimitOf(r, u)'
  <2>1. PICK s \in Rule :
          /\ First(call[a], s)
          /\ call' = [call EXCEPT ![a].left = @ \ {s}, ![a].rule = s,
               ![a].pc = IF Met(call[a].rules[s], <<s, call[a].user>>) THEN "cool" ELSE "match"]
    BY <1>6 DEF Match
  <2>2. /\ call[a].pc = "match" /\ call[a].rules[s] # NoRow
    BY <2>1, <1>6 DEF Match, At, First, CallInv
  <2>3. /\ call'[a].rule = s /\ call'[a].user = call[a].user
        /\ call'[a].pc = IF Met(call[a].rules[s], <<s, call[a].user>>) THEN "cool" ELSE "match"
        /\ \A b \in Adapter : b # a => call'[b] = call[b]
    BY <2>1 DEF CausalTypeOK, Call
  <2>4. fired' = fired
    BY <1>6 DEF Match, history
  <2>5. CASE Checked(a, r, u)'
    <3>1. s = r /\ call[a].user = u /\ Met(call[a].rules[r], k)
      BY <2>3, <2>5 DEF Checked, KeyOf
    <3>2. counters[k] < cap
      BY <3>1, <2>2, <1>3, <1>2 DEF Met
    <3>3. \A b \in Adapter : ~Adds(b, r, u)
      BY <3>1, <2>2, Alone DEF Adds, KeyOf
    <3>4. counters[k] = fired[k]
      BY <3>3, <1>1 DEF CountInv, CountOf
    <3> QED BY <3>2, <3>4, <2>4, <1>2 DEF LimitOf
  <2>6. CASE ~Checked(a, r, u)'
    <3>1. \A b \in Adapter : Checked(b, r, u)' => Checked(b, r, u)
      BY <2>3, <2>6 DEF Checked, KeyOf
    <3> QED BY <3>1, <2>4, <1>4
  <2> QED BY <2>5, <2>6
<1>7. ASSUME NEW a \in Adapter,
             NoMatch(a) \/ CheckCooling(a) \/ ReadCounter(a) \/ WriteCounter(a)
      PROVE LimitOf(r, u)'
  <2>1. \A b \in Adapter : Checked(b, r, u)' => Checked(b, r, u)
    <3>1. CASE NoMatch(a) \/ WriteCounter(a)
      BY <3>1, EndStep DEF Checked, KeyOf
    <3>2. CASE CheckCooling(a)
      BY <3>2, GoesOnStep DEF CheckCooling, At, Checked, KeyOf
    <3>3. CASE ReadCounter(a)
      <4>1. call'[a].pc = "write"
        BY <3>3 DEF ReadCounter, CausalTypeOK, Call
      <4> QED BY <4>1, <3>3, GoesOnStep DEF Checked, KeyOf
    <3> QED BY <1>7, <3>1, <3>2, <3>3
  <2> QED BY <2>1, <1>4, <1>7 DEF NoMatch, CheckCooling, ReadCounter, WriteCounter, history
<1>8. ASSUME NEW a \in Adapter, Trigger(a) PROVE LimitOf(r, u)'
  <2>1. /\ call[a].pc = "trigger" /\ call'[a].pc = "read"
        /\ \A b \in Adapter : b # a => call'[b] = call[b]
        /\ fired' = [fired EXCEPT ![KeyOf(a)] = @ + 1]
    BY <1>8 DEF Trigger, At, CausalTypeOK, Call
  <2>2. \A b \in Adapter : Checked(b, r, u)' => Checked(b, r, u) /\ b # a
    BY <2>1 DEF Checked, KeyOf
  <2>3. CASE KeyOf(a) = k
    <3>1. fired'[k] = fired[k] + 1 /\ fired[k] < cap
      BY <2>1, <2>3, <1>1, <1>3 DEF Checked, CausalTypeOK
    <3>2. call[a].user = u
      BY <2>3 DEF KeyOf
    <3>3. \A b \in Adapter : Checked(b, r, u) => b = a
      BY <3>2, <2>1, Alone DEF Checked, KeyOf
    <3> QED BY <3>1, <3>3, <2>2, <1>2 DEF LimitOf
  <2>4. CASE KeyOf(a) # k
    <3>1. fired'[k] = fired[k]
      BY <2>1, <2>4, <1>1 DEF CausalTypeOK
    <3> QED BY <3>1, <2>2, <1>4
  <2> QED BY <2>3, <2>4
<1>9. ASSUME UNCHANGED <<call, fired>> PROVE LimitOf(r, u)'
  BY <1>9, <1>4 DEF Checked, KeyOf
<1>10. ASSUME NEW p \in Panel, Add(p) \/ Plans(p) \/ Delete(p) PROVE LimitOf(r, u)'
  BY <1>10, BeginStep, <1>9
<1>11. ASSUME NEW p \in Panel, WriteRow(p) \/ DeleteCounters(p) \/ Load(p) \/ Swap(p)
       PROVE LimitOf(r, u)'
  BY <1>11, <1>9 DEF WriteRow, DeleteCounters, Load, Swap, history
<1>12. CASE SetCounter \/ ClearCooldowns \/ Tick \/ UNCHANGED causalVars
  BY <1>12, <1>9 DEF SetCounter, ClearCooldowns, Tick, causalVars, history
<1> QED
  BY <1>5, <1>6, <1>7, <1>8, <1>10, <1>11, <1>12, PlansARow DEF CausalNext, MatchAndExecute, Edit

LEMMA CoolStep == CausalTypeOK /\ CallInv /\ CoolInv /\ [CausalNext]_causalVars => CoolInv'
<1> SUFFICES ASSUME CausalTypeOK, CallInv, CoolInv, [CausalNext]_causalVars PROVE CoolInv'
  OBVIOUS
<1> DEFINE Ready(a) == call[a].pc = "trigger" /\ Solo(call[a].user)
<1>1. ASSUME UNCHANGED <<stamps, last, clock>>,
             \A a \in Adapter : call'[a].pc = "trigger" => call'[a] = call[a]
      PROVE CoolInv'
  <2>1. \A a \in Adapter : Ready(a)' => Ready(a) /\ KeyOf(a)' = KeyOf(a)
    BY <1>1 DEF KeyOf, Solo
  <2> QED BY <1>1, <2>1 DEF CoolInv, IsCooling
<1>2. ASSUME NEW a \in Adapter, Receive(a) \/ NoMatch(a) \/ ReadCounter(a) \/ WriteCounter(a)
      PROVE CoolInv'
  <2>1. call'[a].pc # "trigger" /\ \A b \in Adapter : b # a => call'[b] = call[b]
    <3>1. CASE Receive(a)
      BY <3>1 DEF Receive, CausalTypeOK, Idle
    <3>2. CASE NoMatch(a) \/ WriteCounter(a)
      BY <3>2, EndStep
    <3>3. CASE ReadCounter(a)
      BY <3>3 DEF ReadCounter, CausalTypeOK, Call
    <3> QED BY <1>2, <3>1, <3>2, <3>3
  <2>2. \A b \in Adapter : call'[b].pc = "trigger" => call'[b] = call[b]
    BY <2>1
  <2> QED BY <2>2, <1>1, <1>2 DEF Receive, NoMatch, ReadCounter, WriteCounter, world, history
<1>3. ASSUME NEW a \in Adapter, Match(a) PROVE CoolInv'
  <2>1. PICK s \in Rule :
          call' = [call EXCEPT ![a].left = @ \ {s}, ![a].rule = s,
               ![a].pc = IF Met(call[a].rules[s], <<s, call[a].user>>) THEN "cool" ELSE "match"]
    BY <1>3 DEF Match
  <2>2. \A b \in Adapter : call'[b].pc = "trigger" => call'[b] = call[b]
    BY <2>1 DEF CausalTypeOK, Call
  <2> QED BY <2>2, <1>1, <1>3 DEF Match, world, history
<1>4. ASSUME NEW a \in Adapter, CheckCooling(a) PROVE CoolInv'
  <2>1. /\ call'[a].pc = IF IsCooling(KeyOf(a)) THEN "match" ELSE "trigger"
        /\ call'[a].rule = call[a].rule /\ call'[a].user = call[a].user
        /\ \A b \in Adapter : b # a => call'[b] = call[b]
        /\ UNCHANGED <<stamps, last, clock>>
    BY <1>4 DEF CheckCooling, CausalTypeOK, Call, world, history
  <2>2. \A b \in Adapter : IsCooling(KeyOf(b))' <=> IsCooling(KeyOf(b))
    BY <2>1 DEF KeyOf, IsCooling
  <2>3. \A b \in Adapter : Ready(b)' => (b = a /\ ~IsCooling(KeyOf(b))) \/ Ready(b)
    BY <2>1 DEF Solo
  <2> QED BY <2>1, <2>2, <2>3 DEF CoolInv
<1>5. ASSUME NEW a \in Adapter, Trigger(a) PROVE CoolInv'
  <2>1. /\ call[a].pc = "trigger" /\ call'[a].pc = "read"
        /\ \A b \in Adapter : b # a => call'[b] = call[b]
        /\ stamps' = [stamps EXCEPT ![KeyOf(a)] = clock]
        /\ last' = [last EXCEPT ![KeyOf(a)] = clock] /\ clock' = clock
    BY <1>5 DEF Trigger, At, CausalTypeOK, Call, world
  <2>2. last' = stamps'
    BY <2>1 DEF CoolInv
  <2>3. ASSUME NEW b \in Adapter, Ready(b)' PROVE ~IsCooling(KeyOf(b))'
    <3>1. b # a /\ Ready(b) /\ KeyOf(b)' = KeyOf(b)
      BY <2>1, <2>3 DEF Solo, KeyOf
    <3>2. call[b].user \in User
      BY DEF CausalTypeOK, Call
    <3>3. call[b].user # call[a].user
      BY <3>1, <3>2, <2>1, Alone
    <3>4. KeyOf(b) # KeyOf(a) /\ KeyOf(b) \in Slot
      BY <3>3 DEF KeyOf, Slot, CausalTypeOK, Call
    <3>5. stamps'[KeyOf(b)] = stamps[KeyOf(b)]
      BY <3>4, <2>1 DEF CausalTypeOK
    <3>6. ~IsCooling(KeyOf(b))
      BY <3>1 DEF CoolInv
    <3> QED BY <3>1, <3>5, <3>6, <2>1 DEF IsCooling
  <2> QED BY <2>2, <2>3 DEF CoolInv
<1>6. ASSUME NEW p \in Panel, Add(p) \/ Plans(p) \/ Delete(p) PROVE CoolInv'
  BY <1>6, BeginStep, <1>1
<1>7. ASSUME NEW p \in Panel, WriteRow(p) \/ DeleteCounters(p) \/ Load(p) \/ Swap(p) PROVE CoolInv'
  BY <1>7, <1>1 DEF WriteRow, DeleteCounters, Load, Swap, world, history
<1>8. CASE SetCounter \/ UNCHANGED causalVars
  BY <1>8, <1>1 DEF SetCounter, causalVars, world, history
<1>9. CASE ClearCooldowns
  <2>1. last' = stamps' /\ call' = call /\ \A k \in Slot : stamps'[k] = Never
    BY <1>9 DEF ClearCooldowns
  <2>2. \A a \in Adapter : KeyOf(a)' \in Slot
    BY <2>1 DEF KeyOf, Slot, CausalTypeOK, Call
  <2> QED BY <2>1, <2>2 DEF CoolInv, IsCooling
<1>10. CASE Tick
  <2>1. /\ clock \in Nat /\ clock' = clock + 1 /\ Cool \in Nat
        /\ UNCHANGED <<stamps, last, call>>
    BY <1>10, BoundAssumption DEF Tick, CausalTypeOK, history
  <2>2. ASSUME NEW a \in Adapter, Ready(a)' PROVE ~IsCooling(KeyOf(a))'
    <3>1. KeyOf(a)' = KeyOf(a) /\ ~IsCooling(KeyOf(a))
      BY <2>1, <2>2 DEF KeyOf, Solo, CoolInv
    <3>2. KeyOf(a) \in Slot
      BY DEF KeyOf, Slot, CausalTypeOK, Call
    <3>3. stamps[KeyOf(a)] = Never \/ stamps[KeyOf(a)] \in Nat
      BY <3>2, BoundAssumption DEF CausalTypeOK
    <3> QED BY <3>1, <3>3, <2>1 DEF IsCooling
  <2> QED BY <2>1, <2>2 DEF CoolInv
<1> QED
  BY <1>2, <1>3, <1>4, <1>5, <1>6, <1>7, <1>8, <1>9, <1>10, PlansARow DEF CausalNext, MatchAndExecute, Edit

LEMMA InitHolds == CausalInit => CausalInv
<1> SUFFICES ASSUME CausalInit PROVE CausalInv
  OBVIOUS
<1> USE SetsAreTyped
<1>1. CausalTypeOK
  <2>1. db \in Table
    BY RowAssumption DEF CausalInit, Table, MaybeRow
  <2> QED BY <2>1, BoundAssumption DEF CausalInit, CausalTypeOK, Slot
<1>2. \A a \in Adapter : call[a].pc = "idle" /\ call[a].rules = NoTable
  BY DEF CausalInit, Idle
<1>3. \A p \in Panel : req[p].pc = "idle" /\ req[p].rules = NoTable
  BY DEF CausalInit, NoRequest
<1>4. \A r \in Rule, u \in User : counters[<<r, u>>] = 0 /\ fired[<<r, u>>] = 0
  BY DEF CausalInit, Slot
<1>5. KnownInv /\ CallInv /\ DeleteInv
  BY <1>2, <1>3, <1>4 DEF CausalInit, KnownInv, CallInv, DeleteInv
<1>6. CountInv
  BY <1>2, <1>4 DEF CountInv, CountOf, Adds
<1>7. CapInv
  BY <1>2, <1>3 DEF CausalInit, CapInv, SameCap
<1>8. LimitInv
  <2>1. \A r \in Rule : db[r] # NoRow => db[r].cap \in Nat
    BY <1>1, RowAssumption DEF CausalTypeOK, Table, MaybeRow
  <2> QED BY <2>1, <1>2, <1>4 DEF LimitInv, LimitOf, Checked
<1>9. CoolInv
  BY <1>2 DEF CausalInit, CoolInv
<1> QED BY <1>1, <1>5, <1>6, <1>7, <1>8, <1>9 DEF CausalInv

LEMMA CausalInvariance == CausalSpec => []CausalInv
<1>1. CausalInv /\ [CausalNext]_causalVars => CausalInv'
  BY TypeStep, KnownStep, MessageStep, DeleteStep, CountStep, CapStep, LimitStep, CoolStep DEF CausalInv
<1> QED BY <1>1, InitHolds, PTL DEF CausalSpec

(* Every variable keeps its type: threads, requests and snapshots are what *)
(* the code's types say, and no rule is stored under an id never given.    *)
THEOREM CausalTypeCorrect == CausalSpec => []CausalTypeOK
<1>1. CausalInv => CausalTypeOK
  BY DEF CausalInv
<1> QED BY <1>1, CausalInvariance, PTL

(* causal_rule_manager.cpp:735-737.  No add to a counter is lost for a     *)
(* user only one adapter hears from.                                       *)
THEOREM CountersAreExact == CausalSpec => []CountersExact
<1>1. CausalInv => CountersExact
  BY DEF CausalInv, CountInv, CountOf, Adds, CountersExact
<1> QED BY <1>1, CausalInvariance, PTL

(* For such a user a rule limited by a counter fires no more often than    *)
(* its limit, whatever else runs between the check and the count.          *)
THEOREM LimitIsHeld == CausalSpec => []LimitHeld
<1>1. CausalInv => LimitHeld
  BY DEF CausalInv, LimitInv, LimitOf, LimitHeld
<1> QED BY <1>1, CausalInvariance, PTL

(* cooldown_manager.h:20-22.  For such a user two firings of a rule are at *)
(* least the cooldown apart.                                               *)
THEOREM FiringsSpaced == CausalSpec => Spaced
<1> DEFINE Far == \A u \in User, r \in Rule :
             Solo(u) /\ fired'[<<r, u>>] # fired[<<r, u>>] /\ last[<<r, u>>] # Never
               => clock - last[<<r, u>>] >= Cool
<1>1. CausalInv /\ [CausalNext]_causalVars => [Far]_causalVars
  <2> SUFFICES ASSUME CausalInv, CausalNext, NEW u \in User, NEW r \in Rule, Solo(u),
                      fired'[<<r, u>>] # fired[<<r, u>>], last[<<r, u>>] # Never
      PROVE clock - last[<<r, u>>] >= Cool
    OBVIOUS
  <2>1. CausalTypeOK /\ CoolInv /\ <<r, u>> \in Slot
    BY DEF CausalInv, Slot
  <2>2. PICK a \in Adapter : Trigger(a)
    BY <2>1, FiresOnTrigger
  <2>3. KeyOf(a) = <<r, u>>
    BY <2>1, <2>2 DEF Trigger, CausalTypeOK
  <2>4. call[a].user = u /\ call[a].pc = "trigger"
    BY <2>2, <2>3 DEF KeyOf, Trigger, At
  <2>5. ~IsCooling(<<r, u>>) /\ last = stamps
    BY <2>1, <2>3, <2>4 DEF CoolInv
  <2>6. clock \in Int /\ stamps[<<r, u>>] \in Int /\ Cool \in Int
    BY <2>1, <2>5, BoundAssumption DEF CausalTypeOK
  <2> QED BY <2>5, <2>6 DEF IsCooling
<1> QED BY <1>1, CausalInvariance, PTL DEF CausalSpec, Spaced

(* With one panel thread: the snapshot is the table until the table is     *)
(* written, and what was read back is the table until it is swapped in.    *)
SettleInv ==
  /\ (\A p \in Panel : req[p].pc \in {"idle", "write"}) => rules = db
  /\ \A p \in Panel : req[p].pc = "swap" => req[p].rules = db

LEMMA SettleStep ==
  (\A p, q \in Panel : p = q) => (CausalTypeOK /\ SettleInv /\ [CausalNext]_causalVars => SettleInv')
<1> SUFFICES ASSUME \A p, q \in Panel : p = q, CausalTypeOK, SettleInv, [CausalNext]_causalVars PROVE SettleInv'
  OBVIOUS
<1>1. ASSUME UNCHANGED <<db, rules, req>> PROVE SettleInv'
  BY <1>1 DEF SettleInv
<1>2. ASSUME NEW a \in Adapter, MatchAndExecute(a) PROVE SettleInv'
  BY <1>2, <1>1 DEF MatchAndExecute, Receive, Match, NoMatch, CheckCooling, Trigger, ReadCounter,
     WriteCounter
<1>3. ASSUME NEW p \in Panel, req'[p].pc \in {"load", "counters"} PROVE SettleInv'
  BY <1>3 DEF SettleInv
<1>4. ASSUME NEW p \in Panel, NEW r, NEW row, NEW pc, Begin(p, r, row, pc)
      PROVE req[p].pc = "idle" /\ req'[p].pc = pc /\ rules' = rules
  BY <1>4 DEF Begin, CausalTypeOK, Request, NoRequest
<1>5. ASSUME NEW p \in Panel, Add(p) \/ Delete(p) PROVE SettleInv'
  <2>1. CASE Add(p)
    <3>1. PICK r \in Rule \ ids, row \in Row : Begin(p, r, row, "load")
      BY <2>1 DEF Add
    <3> QED BY <3>1, <1>3, <1>4
  <2>2. CASE Delete(p)
    <3>1. PICK r \in ids : Begin(p, r, NoRow, "counters")
      BY <2>2 DEF Delete
    <3> QED BY <3>1, <1>3, <1>4
  <2> QED BY <1>5, <2>1, <2>2
<1>6. ASSUME NEW p \in Panel, Plans(p) PROVE SettleInv'
  <2>1. PICK r \in Rule, row \in Row : Begin(p, r, row, "write") /\ UNCHANGED db
    BY <1>6, Zenon DEF Plans
  <2>2. req[p].pc = "idle" /\ req'[p].pc = "write" /\ rules' = rules
    BY <2>1, <1>4
  <2> QED BY <2>1, <2>2 DEF SettleInv
<1>7. ASSUME NEW p \in Panel, WriteRow(p) \/ DeleteCounters(p) PROVE SettleInv'
  <2>1. req'[p].pc = "load"
    BY <1>7, LoadNext
  <2> QED BY <2>1, <1>3
<1>8. ASSUME NEW p \in Panel, Load(p) PROVE SettleInv'
  <2>1. req'[p].pc = "swap" /\ req'[p].rules = db /\ db' = db
    BY <1>8 DEF Load, CausalTypeOK, Request
  <2> QED BY <2>1 DEF SettleInv
<1>9. ASSUME NEW p \in Panel, Swap(p) PROVE SettleInv'
  <2>1. req[p].pc = "swap" /\ req'[p].pc = "idle" /\ rules' = req[p].rules /\ db' = db
    BY <1>9 DEF Swap, CausalTypeOK, NoRequest
  <2> QED BY <2>1 DEF SettleInv
<1>10. CASE SetCounter \/ ClearCooldowns \/ Tick \/ UNCHANGED causalVars
  BY <1>10, <1>1 DEF SetCounter, ClearCooldowns, Tick, causalVars
<1> QED BY <1>2, <1>5, <1>6, <1>7, <1>8, <1>9, <1>10, PlansARow DEF CausalNext, Edit

(* loadRules.  If the panel's requests come one at a time, messages are    *)
(* matched against the rules as stored whenever no request is under way.   *)
THEOREM SnapshotIsSettled ==
  ASSUME \A p, q \in Panel : p = q
  PROVE  CausalSpec => []SnapshotSettles
<1>1. CausalInit => SettleInv
  BY DEF CausalInit, SettleInv, NoRequest
<1>2. CausalInv /\ SettleInv /\ [CausalNext]_causalVars => SettleInv'
  BY SettleStep DEF CausalInv
<1>3. SettleInv => SnapshotSettles
  BY DEF SettleInv, SnapshotSettles
<1> QED BY <1>1, <1>2, <1>3, CausalInvariance, PTL DEF CausalSpec

-----------------------------------------------------------------------------
(* GatewaySession.                                                         *)
GatewayConstants == MaxStops \in Nat /\ MaxPending \in Nat

Phases == {"unused", "dialing", "open", "greeted", "ready", "failed", "over"}
Socket == [phase : Phases, stopped : BOOLEAN, frame : Frames \cup {None}]

(* The sockets not told to stop.  While a connect is between its two steps *)
(* there is none.                                                          *)
SessionInv ==
  "overlap" \notin blame =>
    /\ \A s \in Sockets : Running(s) => s = gateway
    /\ opening \in {0, 1}
    /\ opening = 1 => \A s \in Sockets : ~Running(s)

(* A frame that is not an end comes from a session that was greeted.       *)
FrameInv == \A s \in Sockets :
  /\ sock[s].phase \in {"unused", "dialing"} => sock[s].frame = None
  /\ sock[s].frame \notin {None, "error", "close"} => sock[s].phase \in {"greeted", "ready"}
  /\ sock[s].frame \in {"ready", "resumed"} => sock[s].phase = "ready"

(* What the flags rest on, so long as nothing is amiss: a stopped adapter  *)
(* claims nothing, and runs nothing except on QQ, where nothing it says is *)
(* heard; on Discord a greeted session has its heartbeat unless the        *)
(* greeting is still to be handled.                                        *)
FlagInv ==
  blame = {} =>
    /\ ~(connected /\ connecting)
    /\ stopping => ~connected /\ ~connecting
    /\ stopping /\ ~QQ => opening = 0 /\ \A s \in Sockets : ~Running(s)
    /\ stopping => \A s \in Sockets : Running(s) => sock[s].frame = None
    /\ platform = "discord" => \A s \in Sockets :
         Running(s) /\ sock[s].phase \in {"greeted", "ready"} => beat \/ sock[s].frame = "hello"
    /\ connecting => Underway
    /\ connected => beat /\ Live

GatewayInv == GatewayTypeOK /\ SessionInv /\ FrameInv /\ FlagInv

-----------------------------------------------------------------------------
LEMMA GatewayStarts == ASSUME GatewayConstants PROVE GatewayInit => GatewayInv
<1> SUFFICES ASSUME GatewayInit PROVE GatewayInv
  OBVIOUS
<1>1. sock = [s \in Sockets |-> UnusedSocket] /\ \A s \in Sockets : sock[s] = UnusedSocket /\ ~Running(s)
  BY DEF GatewayInit, Running, UnusedSocket
<1>2. GatewayTypeOK
  <2>1. sock \in [Sockets -> Socket]
    BY <1>1 DEF UnusedSocket, Socket, Phases
  <2>2. /\ requests \in [Kinds -> 0..MaxPending] /\ timers \in 0..MaxPending
        /\ stops \in 0..MaxStops /\ opening \in 0..2
    BY DEF GatewayInit, GatewayConstants
  <2>3. /\ platform \in Platforms /\ gateway \in Sockets \cup {0} /\ blame \subseteq Blames
        /\ {connected, connecting, stopping, session, beat, tokenTimer} \subseteq BOOLEAN
    BY DEF GatewayInit
  <2> QED BY <2>1, <2>2, <2>3 DEF GatewayTypeOK, Socket, Phases
<1>3. SessionInv
  BY <1>1 DEF GatewayInit, SessionInv
<1>4. FrameInv
  BY <1>1 DEF FrameInv, UnusedSocket, None
<1>5. FlagInv
  BY <1>1 DEF GatewayInit, FlagInv
<1> QED BY <1>2, <1>3, <1>4, <1>5 DEF GatewayInv

-----------------------------------------------------------------------------
LEMMA StopSocketType ==
  ASSUME GatewayTypeOK, NEW g
  PROVE  StopSocket(g) \in [Sockets -> Socket]
BY DEF GatewayTypeOK, StopSocket, Socket, Phases

LEMMA AskedType ==
  ASSUME GatewayConstants, GatewayTypeOK, NEW k \in Kinds
  PROVE  /\ requests \in [Kinds -> 0..MaxPending]
         /\ Ask(k) => requests' \in [Kinds -> 0..MaxPending]
         /\ requests[k] > 0 => Answered(k) \in [Kinds -> 0..MaxPending]
BY DEF GatewayTypeOK, GatewayConstants, Ask, Answered

LEMMA ConnectType ==
  ASSUME GatewayTypeOK, Connect
  PROVE  sock' \in [Sockets -> Socket] /\ opening' \in 0..2 /\ blame' \subseteq Blames /\ gateway' = gateway
BY StopSocketType DEF GatewayTypeOK, Connect, Blames

(* A session's thread: one socket changes.                                 *)
LEMMA SocketType ==
  ASSUME GatewayTypeOK, NEW s \in Sockets, Dial(s) \/ Read(s) \/ End(s) \/ Drop(s)
  PROVE  sock' \in [Sockets -> Socket]
<1>1. sock \in [Sockets -> Socket]
  BY DEF GatewayTypeOK, Socket, Phases
<1>2. \A f \in Frames : Admitted(f) \in Frames \cup {None}
  BY DEF Admitted
<1>3. ASSUME Dial(s) PROVE sock' \in [Sockets -> Socket]
  BY <1>1, <1>3 DEF Dial, Admitted, Socket, Phases, Frames
<1>4. ASSUME Read(s) PROVE sock' \in [Sockets -> Socket]
  <2>1. PICK f \in NextFrames(sock[s].phase) :
          sock' = [sock EXCEPT ![s].frame = Admitted(f[1]), ![s].phase = f[2]]
    BY <1>4 DEF Read
  <2>2. f[1] \in Frames /\ f[2] \in Phases
    BY <2>1 DEF NextFrames, Frames, Phases
  <2> QED BY <1>1, <1>2, <2>1, <2>2 DEF Socket
<1>5. ASSUME End(s) PROVE sock' \in [Sockets -> Socket]
  <2>1. PICK f \in Frames \cup {None} : sock' = [sock EXCEPT ![s].phase = "over", ![s].frame = f]
    BY <1>2, <1>5 DEF End, Frames
  <2> QED BY <1>1, <2>1 DEF Socket, Phases
<1>6. ASSUME Drop(s) PROVE sock' \in [Sockets -> Socket]
  BY <1>1, <1>6 DEF Drop, Socket
<1> QED BY <1>3, <1>4, <1>5, <1>6

LEMMA GatewayTypeStep ==
  ASSUME GatewayConstants, GatewayTypeOK, [GatewayNext]_gatewayVars
  PROVE  GatewayTypeOK'
<1> DEFINE Rest == /\ platform' \in Platforms
                   /\ {connected', connecting', stopping', session', beat', tokenTimer'} \subseteq BOOLEAN
                   /\ timers' \in 0..MaxPending /\ opening' \in 0..2 /\ stops' \in 0..MaxStops
                   /\ blame' \subseteq Blames /\ gateway' \in Sockets \cup {0}
           Asked == requests' \in [Kinds -> 0..MaxPending]
           Socks == sock' \in [Sockets -> Socket]
<1> USE DEF GatewayConstants, flags, loop
<1>1. ASSUME Rest, Asked, Socks PROVE GatewayTypeOK'
  BY <1>1 DEF GatewayTypeOK, Socket, Phases
<1>2. Kinds = {"self", "token", "profile", "url"} /\ requests \in [Kinds -> 0..MaxPending]
      /\ sock \in [Sockets -> Socket]
  BY DEF Kinds, GatewayTypeOK, Socket, Phases
<1>3. CASE Start
  <2>1. FirstRequest \in Kinds
    BY <1>2 DEF FirstRequest
  <2> QED BY <1>1, <1>2, <1>3, <2>1, AskedType DEF Start, GatewayTypeOK
<1>4. CASE Stop
  <2>1. Socks
    BY <1>4, StopSocketType DEF Stop
  <2>2. stops' \in 0..MaxStops /\ blame' \subseteq Blames
    BY <1>4 DEF Stop, GatewayTypeOK, Blames
  <2> QED BY <1>1, <1>2, <1>4, <2>1, <2>2 DEF Stop, GatewayTypeOK
<1>5. CASE OpenSocket
  <2>1. PICK s \in Sockets : sock' = [sock EXCEPT ![s].phase = "dialing"] /\ gateway' = s
    BY <1>5 DEF OpenSocket
  <2>2. Socks
    BY <1>2, <2>1 DEF Socket, Phases
  <2> QED BY <1>1, <1>2, <1>5, <2>1, <2>2 DEF OpenSocket, GatewayTypeOK
<1>6. CASE UrlAnswered
  <2>1. Asked
    BY <1>2, <1>6, AskedType DEF UrlAnswered
  <2>2. CASE stopping /\ ~QQ
    BY <1>1, <1>2, <1>6, <2>1, <2>2 DEF UrlAnswered, GatewayTypeOK
  <2>3. CASE Connect
    BY <1>1, <1>6, <2>1, <2>3, ConnectType DEF UrlAnswered, GatewayTypeOK
  <2> QED BY <1>6, <2>2, <2>3 DEF UrlAnswered
<1>7. CASE SelfAnswered
  BY <1>1, <1>2, <1>7 DEF SelfAnswered, Answered, GatewayTypeOK
<1>8. CASE TokenAnswered
  BY <1>1, <1>2, <1>8 DEF TokenAnswered, Answered, GatewayTypeOK
<1>9. CASE ProfileAnswered
  BY <1>1, <1>2, <1>9 DEF ProfileAnswered, Answered, GatewayTypeOK
<1>10. ASSUME NEW k \in Kinds, RequestFails(k) PROVE GatewayTypeOK'
  BY <1>1, <1>2, <1>10, AskedType DEF RequestFails, RequestLost, GatewayTypeOK
<1>11. ASSUME NEW k \in Kinds, RequestRefused(k) PROVE GatewayTypeOK'
  BY <1>1, <1>2, <1>11, AskedType DEF RequestRefused, GatewayTypeOK, Blames
<1>12. CASE ReplyFails
  BY <1>1, <1>2, <1>12 DEF ReplyFails, RequestLost, GatewayTypeOK
<1>13. CASE ReconnectTimer
  <2>1. Asked
    BY <1>2, <1>13, AskedType DEF ReconnectTimer
  <2>2. CASE ~stopping /\ QQ
    BY <1>1, <1>13, <2>1, <2>2, ConnectType DEF ReconnectTimer, GatewayTypeOK
  <2>3. CASE stopping \/ ~QQ
    BY <1>1, <1>2, <1>13, <2>1, <2>3 DEF ReconnectTimer, GatewayTypeOK
  <2> QED BY <2>2, <2>3
<1>14. CASE TokenTimer
  BY <1>1, <1>2, <1>14, AskedType DEF TokenTimer, GatewayTypeOK
<1>15. ASSUME NEW s \in Sockets, Dial(s) \/ Read(s) \/ End(s) \/ Drop(s) PROVE GatewayTypeOK'
  <2>1. Socks
    BY <1>15, SocketType
  <2>2. UNCHANGED <<platform, flags, session, beat, gateway, loop, stops, blame>>
    BY <1>15 DEF Dial, Read, End, Drop
  <2> QED BY <1>1, <2>1, <2>2 DEF GatewayTypeOK
<1>16. ASSUME NEW s \in Sockets, Handle(s) PROVE GatewayTypeOK'
  <2>1. ASSUME NEW F, Handling(s, F) PROVE Socks
    BY <1>2, <2>1 DEF Handling, Socket
  <2>2. CASE HandleError(s) \/ HandleInvalid(s) \/ HandleHello(s)
    BY <1>1, <1>2, <2>1, <2>2 DEF HandleError, HandleInvalid, HandleHello, Handling, GatewayTypeOK
  <2>3. CASE Established(s)
    <3>1. beat' \in BOOLEAN /\ blame' \subseteq Blames
      BY <2>3 DEF Established, GatewayTypeOK, Blames
    <3> QED BY <1>1, <1>2, <2>1, <2>3, <3>1 DEF Established, Handling, GatewayTypeOK
  <2>4. CASE Reconnect /\ \E F : Handling(s, F)
    <3>1. PICK F : Handling(s, F)
      BY <2>4
    <3>2. Socks
      BY <2>1, <3>1
    <3>3. timers' \in 0..MaxPending /\ blame' \subseteq Blames
      BY <2>4 DEF Reconnect, GatewayTypeOK, Blames
    <3> QED BY <1>1, <1>2, <2>4, <3>1, <3>2, <3>3 DEF Reconnect, Handling, GatewayTypeOK
  <2>5. CASE ~QQ /\ HandleOrder(s)
    <3>1. sock' = [StopSocket(gateway) EXCEPT ![s].frame = None]
      BY <2>5 DEF HandleOrder
    <3>2. Socks
      BY <3>1, StopSocketType DEF Socket
    <3> QED BY <1>1, <1>2, <2>5, <3>2 DEF HandleOrder, GatewayTypeOK, Blames
  <2> QED BY <1>16, <2>2, <2>3, <2>4, <2>5 DEF Handle, HandleClose, HandleOrder
<1>17. CASE UNCHANGED gatewayVars
  BY <1>1, <1>2, <1>17 DEF gatewayVars, GatewayTypeOK
<1> QED BY <1>3, <1>4, <1>5, <1>6, <1>7, <1>8, <1>9, <1>10, <1>11, <1>12, <1>13, <1>14, <1>15, <1>16,
           <1>17 DEF GatewayNext

-----------------------------------------------------------------------------
(* What an action does to the sockets: nothing, it stops the adapter's, it *)
(* moves one that goes on, or it opens one.                                *)
Stopped == sock' = StopSocket(gateway)

LEMMA StoppedFacts ==
  ASSUME GatewayTypeOK, Stopped
  PROVE  \A s \in Sockets : /\ sock'[s].phase = sock[s].phase /\ sock'[s].frame = sock[s].frame
                            /\ Running(s)' <=> Running(s) /\ s # gateway
<1>1. \A s \in Sockets : sock'[s] = (IF s = gateway THEN [sock[s] EXCEPT !.stopped = TRUE] ELSE sock[s])
  BY DEF Stopped, StopSocket
<1> QED BY <1>1 DEF GatewayTypeOK, Running

LEMMA ThreadFacts ==
  ASSUME GatewayTypeOK, FrameInv, NEW s \in Sockets, Dial(s) \/ Read(s) \/ End(s) \/ Drop(s)
  PROVE  /\ \A t \in Sockets \ {s} : sock'[t] = sock[t]
         /\ sock'[s].stopped = sock[s].stopped
         /\ Running(s)' => Running(s)
         /\ Running(s) => Running(s)' \/ stopping \/ sock'[s].frame \in {"error", "close"}
         /\ sock[s].frame \in {"error", "close"} => stopping \/ sock'[s].frame = sock[s].frame
         /\ sock'[s].frame \in {sock[s].frame, None, "error", "close"} \/ ~stopping
<1>0. /\ sock \in [Sockets -> Socket] /\ sock[s] \in Socket
  BY DEF GatewayTypeOK, Socket, Phases
<1>1. CASE Dial(s)
  <2>0. PICK next \in {<<"open", None>>, <<"over", "error">>, <<"failed", "error">>} :
          sock' = [sock EXCEPT ![s].phase = next[1], ![s].frame = Admitted(next[2])]
    BY <1>1 DEF Dial
  <2> DEFINE ph == next[1]
             f == Admitted(next[2])
  <2>1. /\ sock' = [sock EXCEPT ![s].phase = ph, ![s].frame = f]
        /\ ph \in {"open", "over", "failed"} /\ f \in {None, "error"}
        /\ ph \in {"over", "failed"} /\ ~stopping => f = "error"
    BY <2>0 DEF Admitted, None
  <2> HIDE DEF ph, f
  <2>2. /\ sock'[s].phase = ph /\ sock'[s].frame = f /\ sock'[s].stopped = sock[s].stopped
        /\ \A t \in Sockets \ {s} : sock'[t] = sock[t]
    BY <1>0, <2>1 DEF Socket
  <2>3. sock[s].phase = "dialing" /\ ~sock[s].stopped
    BY <1>1 DEF Dial
  <2>4. sock[s].frame \in {"error", "close"} => stopping \/ sock'[s].frame = sock[s].frame
    BY <2>3 DEF FrameInv, None
  <2> QED BY <2>1, <2>2, <2>3, <2>4 DEF Running
<1>2. CASE Read(s)
  <2>1. PICK f \in NextFrames(sock[s].phase) :
          sock' = [sock EXCEPT ![s].frame = Admitted(f[1]), ![s].phase = f[2]]
    BY <1>2 DEF Read
  <2>2. /\ sock'[s].phase = f[2] /\ sock'[s].frame = Admitted(f[1])
        /\ sock'[s].stopped = sock[s].stopped
        /\ \A t \in Sockets \ {s} : sock'[t] = sock[t]
    BY <1>0, <2>1 DEF Socket
  <2>3. sock[s].phase \in {"open", "greeted", "ready"} /\ f[2] \in {"greeted", "ready", "failed"}
    BY <2>1 DEF NextFrames
  <2> QED BY <1>2, <2>2, <2>3 DEF Read, Running, Admitted, None
<1>3. CASE End(s)
  <2>1. PICK f \in {None, "close"} :
          /\ sock' = [sock EXCEPT ![s].phase = "over", ![s].frame = f]
          /\ ~sock[s].stopped /\ ~stopping => f = "close"
    BY <1>3 DEF End, Admitted, None
  <2>2. /\ sock'[s].phase = "over" /\ sock'[s].frame = f /\ sock'[s].stopped = sock[s].stopped
        /\ \A t \in Sockets \ {s} : sock'[t] = sock[t]
    BY <1>0, <2>1 DEF Socket
  <2> QED BY <1>3, <2>1, <2>2 DEF End, Running, None
<1>4. CASE Drop(s)
  <2>1. /\ sock'[s].phase = sock[s].phase /\ sock'[s].frame = None
        /\ sock'[s].stopped = sock[s].stopped
        /\ \A t \in Sockets \ {s} : sock'[t] = sock[t]
    BY <1>0, <1>4 DEF Drop, Socket
  <2> QED BY <1>4, <2>1 DEF Drop, Running
<1> QED BY <1>1, <1>2, <1>3, <1>4

LEMMA HandlingFacts ==
  ASSUME GatewayTypeOK, NEW s \in Sockets, NEW F, Handling(s, F)
  PROVE  /\ \A t \in Sockets \ {s} : sock'[t] = sock[t]
         /\ sock'[s].phase = sock[s].phase /\ sock'[s].stopped = sock[s].stopped
         /\ sock'[s].frame = None /\ sock[s].frame \in F
         /\ \A t \in Sockets : Running(t)' <=> Running(t)
<1>1. /\ \A t \in Sockets \ {s} : sock'[t] = sock[t]
      /\ sock'[s].phase = sock[s].phase /\ sock'[s].stopped = sock[s].stopped
      /\ sock'[s].frame = None /\ sock[s].frame \in F
  BY DEF Handling, GatewayTypeOK
<1> QED BY <1>1 DEF Running

(* The others' order to reconnect.                                         *)
LEMMA OrderFacts ==
  ASSUME GatewayTypeOK, NEW s \in Sockets, sock' = [StopSocket(gateway) EXCEPT ![s].frame = None]
  PROVE  \A t \in Sockets : /\ sock'[t].phase = sock[t].phase
                            /\ sock'[t].frame = IF t = s THEN None ELSE sock[t].frame
                            /\ Running(t)' <=> Running(t) /\ t # gateway
<1>1. \A t \in Sockets :
        LET r == IF t = gateway THEN [sock[t] EXCEPT !.stopped = TRUE] ELSE sock[t]
        IN  sock'[t] = IF t = s THEN [r EXCEPT !.frame = None] ELSE r
  BY DEF StopSocket
<1>2. \A t \in Sockets : /\ sock'[t].phase = sock[t].phase
                         /\ sock'[t].frame = IF t = s THEN None ELSE sock[t].frame
                         /\ sock'[t].stopped = (sock[t].stopped \/ t = gateway)
  <2> SUFFICES ASSUME NEW t \in Sockets
      PROVE /\ sock'[t].phase = sock[t].phase
            /\ sock'[t].frame = IF t = s THEN None ELSE sock[t].frame
            /\ sock'[t].stopped = (sock[t].stopped \/ t = gateway)
    OBVIOUS
  <2> DEFINE r == IF t = gateway THEN [sock[t] EXCEPT !.stopped = TRUE] ELSE sock[t]
  <2>1. sock[t] \in Socket
    BY DEF GatewayTypeOK, Socket, Phases
  <2>2. /\ r \in Socket /\ r.phase = sock[t].phase /\ r.frame = sock[t].frame
        /\ r.stopped = (sock[t].stopped \/ t = gateway)
    BY <2>1 DEF Socket
  <2>3. sock'[t] = IF t = s THEN [r EXCEPT !.frame = None] ELSE r
    BY <1>1
  <2> HIDE DEF r
  <2> QED BY <2>2, <2>3 DEF Socket
<1> QED BY <1>2 DEF Running

LEMMA OpenFacts ==
  ASSUME GatewayTypeOK, OpenSocket
  PROVE  \E s \in Sockets :
           /\ sock[s] = UnusedSocket /\ gateway' = s
           /\ sock'[s].phase = "dialing" /\ ~sock'[s].stopped /\ sock'[s].frame = None
           /\ \A t \in Sockets \ {s} : sock'[t] = sock[t]
<1>1. PICK s \in Sockets : sock[s] = UnusedSocket /\ sock' = [sock EXCEPT ![s].phase = "dialing"] /\ gateway' = s
  BY DEF OpenSocket
<1>2. sock \in [Sockets -> Socket]
  BY DEF GatewayTypeOK, Socket, Phases
<1>3. /\ sock'[s] = [UnusedSocket EXCEPT !.phase = "dialing"]
      /\ \A t \in Sockets \ {s} : sock'[t] = sock[t]
  BY <1>1, <1>2
<1>4. sock'[s].phase = "dialing" /\ ~sock'[s].stopped /\ sock'[s].frame = None
  BY <1>3 DEF UnusedSocket
<1> QED BY <1>1, <1>3, <1>4

-----------------------------------------------------------------------------
LEMMA SessionStep ==
  ASSUME GatewayTypeOK, SessionInv, FrameInv, [GatewayNext]_gatewayVars
  PROVE  SessionInv'
<1> USE DEF SessionInv, flags, loop
<1>1. ASSUME \A s \in Sockets : Running(s)' => Running(s),
             UNCHANGED <<gateway, opening>>, "overlap" \notin blame' => "overlap" \notin blame
      PROVE  SessionInv'
  BY <1>1
<1>2. CASE Stop
  <2>1. \A s \in Sockets : Running(s)' => Running(s) /\ s # gateway
    BY <1>2, StoppedFacts DEF Stop, Stopped
  <2>2. "overlap" \notin blame' => "overlap" \notin blame /\ ~(opening > 0)
    BY <1>2 DEF Stop
  <2> QED BY <1>2, <2>1, <2>2 DEF Stop, GatewayTypeOK
<1>3. ASSUME Connect PROVE SessionInv'
  <2>1. \A s \in Sockets : Running(s)' => Running(s) /\ s # gateway
    BY <1>3, StoppedFacts DEF Connect, Stopped
  <2>2. "overlap" \notin blame' => "overlap" \notin blame /\ ~(opening > 0) /\ opening' = opening + 1
    BY <1>3 DEF Connect
  <2> QED BY <2>1, <2>2
<1>4. CASE OpenSocket
  <2>1. PICK s \in Sockets : /\ gateway' = s
                             /\ \A t \in Sockets \ {s} : sock'[t] = sock[t]
    BY <1>4, OpenFacts
  <2>2. \A t \in Sockets \ {s} : Running(t)' <=> Running(t)
    BY <2>1 DEF Running
  <2> QED BY <1>4, <2>1, <2>2 DEF OpenSocket
<1>5. ASSUME NEW s \in Sockets, Dial(s) \/ Read(s) \/ End(s) \/ Drop(s) PROVE SessionInv'
  <2>1. UNCHANGED <<gateway, opening, blame>>
    BY <1>5 DEF Dial, Read, End, Drop
  <2>2. \A t \in Sockets \ {s} : Running(t)' <=> Running(t)
    BY <1>5, ThreadFacts DEF Running
  <2> QED BY <1>1, <1>5, <2>1, <2>2, ThreadFacts
<1>6. ASSUME NEW s \in Sockets, Handle(s) PROVE SessionInv'
  <2>1. CASE \E F : Handling(s, F)
    <3>1. UNCHANGED <<gateway, opening>> /\ \A t \in Sockets : Running(t)' <=> Running(t)
      BY <2>1, HandlingFacts DEF Handling
    <3>2. blame \subseteq blame'
      BY <1>6 DEF Handle, HandleError, HandleClose, Reconnect, Established, HandleHello, HandleInvalid,
                  HandleOrder
    <3> QED BY <1>1, <3>1, <3>2
  <2>2. CASE ~QQ /\ HandleOrder(s)
    <3>1. UNCHANGED <<gateway, opening>> /\ blame \subseteq blame'
      BY <2>2 DEF HandleOrder
    <3>2. \A t \in Sockets : Running(t)' => Running(t)
      BY <2>2, OrderFacts DEF HandleOrder
    <3> QED BY <1>1, <3>1, <3>2
  <2> QED BY <1>6, <2>1, <2>2 DEF Handle, HandleError, HandleClose, Established, HandleHello,
                                  HandleInvalid, HandleOrder
<1>7. CASE sock' = sock /\ UNCHANGED <<gateway, opening>> /\ blame \subseteq blame'
  BY <1>1, <1>7 DEF Running
<1>8. CASE UrlAnswered
  BY <1>3, <1>7, <1>8 DEF UrlAnswered
<1>9. CASE ReconnectTimer
  BY <1>3, <1>7, <1>9 DEF ReconnectTimer
<1>10. CASE Start \/ SelfAnswered \/ TokenAnswered \/ ProfileAnswered \/ ReplyFails \/ TokenTimer
  BY <1>7, <1>10 DEF Start, SelfAnswered, TokenAnswered, ProfileAnswered, ReplyFails, TokenTimer
<1>11. ASSUME NEW k \in Kinds, RequestFails(k) \/ RequestRefused(k) PROVE SessionInv'
  BY <1>7, <1>11 DEF RequestFails, RequestRefused
<1>12. CASE UNCHANGED gatewayVars
  BY <1>7, <1>12 DEF gatewayVars
<1> QED BY <1>2, <1>4, <1>5, <1>6, <1>8, <1>9, <1>10, <1>11, <1>12 DEF GatewayNext

LEMMA FrameStep ==
  ASSUME GatewayTypeOK, FrameInv, [GatewayNext]_gatewayVars
  PROVE  FrameInv'
<1> USE DEF FrameInv, flags, loop
<1>1. ASSUME \A s \in Sockets : /\ sock'[s].phase = sock[s].phase
                                /\ sock'[s].frame \in {sock[s].frame, None}
      PROVE  FrameInv'
  BY <1>1 DEF None
<1>2. ASSUME Stopped PROVE FrameInv'
  BY <1>1, <1>2, StoppedFacts
<1>3. CASE OpenSocket
  <2>1. PICK s \in Sockets : /\ sock'[s].frame = None
                             /\ \A t \in Sockets \ {s} : sock'[t] = sock[t]
    BY <1>3, OpenFacts
  <2> QED BY <2>1 DEF None
<1>4. ASSUME NEW s \in Sockets, Dial(s) \/ Read(s) \/ End(s) \/ Drop(s) PROVE FrameInv'
  <2>1. \A t \in Sockets \ {s} : sock'[t] = sock[t]
    BY <1>4, ThreadFacts
  <2>2. /\ sock'[s].phase \in {"unused", "dialing"} => sock'[s].frame = None
        /\ sock'[s].frame \notin {None, "error", "close"} => sock'[s].phase \in {"greeted", "ready"}
        /\ sock'[s].frame \in {"ready", "resumed"} => sock'[s].phase = "ready"
    <3>0. sock \in [Sockets -> Socket]
      BY DEF GatewayTypeOK, Socket, Phases
    <3>1. CASE Dial(s)
      BY <3>0, <3>1 DEF Dial, Admitted, None, Socket
    <3>2. CASE Read(s)
      <4>1. PICK f \in NextFrames(sock[s].phase) :
              sock' = [sock EXCEPT ![s].frame = Admitted(f[1]), ![s].phase = f[2]]
        BY <3>2 DEF Read
      <4>2. /\ f[2] \notin {"unused", "dialing"}
            /\ f[1] # "error" => f[2] \in {"greeted", "ready"}
            /\ f[1] \in {"ready", "resumed"} => f[2] = "ready"
        BY <4>1 DEF NextFrames
      <4>3. sock'[s].frame = Admitted(f[1]) /\ sock'[s].phase = f[2]
        BY <3>0, <4>1 DEF Socket
      <4> QED BY <4>2, <4>3 DEF Admitted, None
    <3>3. CASE End(s)
      BY <3>0, <3>3 DEF End, Admitted, None, Socket
    <3>4. CASE Drop(s)
      BY <3>0, <3>4 DEF Drop, None, Socket
    <3> QED BY <1>4, <3>1, <3>2, <3>3, <3>4
  <2> QED BY <2>1, <2>2
<1>5. ASSUME NEW s \in Sockets, Handle(s) PROVE FrameInv'
  <2>1. CASE \E F : Handling(s, F)
    BY <1>1, <2>1, HandlingFacts
  <2>2. CASE ~QQ /\ HandleOrder(s)
    BY <1>1, <2>2, OrderFacts DEF HandleOrder
  <2> QED BY <1>5, <2>1, <2>2 DEF Handle, HandleError, HandleClose, Established, HandleHello,
                                  HandleInvalid, HandleOrder
<1>6. CASE Stop
  BY <1>2, <1>6 DEF Stop, Stopped
<1>7. CASE UrlAnswered \/ ReconnectTimer
  BY <1>1, <1>2, <1>7 DEF UrlAnswered, ReconnectTimer, Connect, Stopped
<1>8. CASE Start \/ SelfAnswered \/ TokenAnswered \/ ProfileAnswered \/ ReplyFails \/ TokenTimer
           \/ (\E k \in Kinds : RequestFails(k) \/ RequestRefused(k)) \/ UNCHANGED gatewayVars
  BY <1>1, <1>8 DEF Start, SelfAnswered, TokenAnswered, ProfileAnswered, ReplyFails, TokenTimer,
                    RequestFails, RequestRefused, gatewayVars
<1> QED BY <1>3, <1>4, <1>5, <1>6, <1>7, <1>8 DEF GatewayNext

-----------------------------------------------------------------------------
(* What is left of FlagInv when the step changes no socket.                *)
Discord == platform = "discord" => \A s \in Sockets :
  Running(s) /\ sock[s].phase \in {"greeted", "ready"} => beat \/ sock[s].frame = "hello"
Calm == stopping => \A s \in Sockets : Running(s) => sock[s].frame = None
Silent == stopping /\ ~QQ => opening = 0 /\ \A s \in Sockets : ~Running(s)

LEMMA FlagParts ==
  FlagInv <=> (blame = {} =>
    /\ ~(connected /\ connecting)
    /\ stopping => ~connected /\ ~connecting
    /\ Silent /\ Calm /\ Discord
    /\ connecting => Underway
    /\ connected => beat /\ Live)
BY DEF FlagInv, Silent, Calm, Discord

LEMMA BlameGrows ==
  ASSUME [GatewayNext]_gatewayVars PROVE blame \subseteq blame'
<1>1. CASE \E s \in Sockets : Handle(s)
  BY <1>1 DEF Handle, HandleError, HandleClose, Reconnect, Established, HandleHello, HandleInvalid,
              HandleOrder, flags, loop
<1>2. CASE UrlAnswered \/ ReconnectTimer
  BY <1>2 DEF UrlAnswered, ReconnectTimer, Connect
<1>3. CASE ~(\E s \in Sockets : Handle(s)) /\ ~UrlAnswered /\ ~ReconnectTimer
  BY <1>3 DEF GatewayNext, gatewayVars, Start, Stop, OpenSocket, SelfAnswered, TokenAnswered, ProfileAnswered, RequestFails,
              RequestRefused, ReplyFails, TokenTimer, Dial, Read, End, Drop
<1> QED BY <1>1, <1>2, <1>3

(* No socket is touched.                                                   *)
LEMMA SameSockets ==
  ASSUME UNCHANGED <<sock, opening>>
  PROVE  Live' = Live /\ \A s \in Sockets : Running(s)' = Running(s)
BY DEF Live, Held, Running

LEMMA FlagStep ==
  ASSUME GatewayConstants, GatewayInv, GatewayTypeOK', [GatewayNext]_gatewayVars
  PROVE  FlagInv'
<1> SUFFICES ASSUME blame' = {}
             PROVE  /\ ~(connected /\ connecting)'
                    /\ stopping' => ~connected' /\ ~connecting'
                    /\ Silent' /\ Calm' /\ Discord'
                    /\ connecting' => Underway'
                    /\ connected' => beat' /\ Live'
  BY FlagParts DEF FlagInv, Silent, Calm, Discord
<1> DEFINE Goal == /\ ~(connected /\ connecting)'
                   /\ stopping' => ~connected' /\ ~connecting'
                   /\ Silent' /\ Calm' /\ Discord'
                   /\ connecting' => Underway'
                   /\ connected' => beat' /\ Live'
<1>0. /\ GatewayTypeOK /\ FrameInv /\ SessionInv /\ blame = {}
      /\ ~(connected /\ connecting)
      /\ stopping => ~connected /\ ~connecting
      /\ Silent /\ Calm /\ Discord
      /\ connecting => Underway
      /\ connected => beat /\ Live
  BY BlameGrows, FlagParts DEF GatewayInv
<1>1. Kinds = {"self", "token", "profile", "url"} /\ requests \in [Kinds -> 0..MaxPending]
      /\ requests' \in [Kinds -> 0..MaxPending] /\ opening \in 0..2 /\ timers \in 0..MaxPending
      /\ platform \in Platforms
  BY <1>0 DEF Kinds, GatewayTypeOK
<1> USE DEF flags, loop
(* A step of the event loop that leaves the sockets alone.                 *)
<1>2. ASSUME UNCHANGED <<platform, stopping, beat, sock, opening>>,
             connected' => connected, connecting' => connecting,
             connecting' /\ ~stopping /\ ~connected => timers' > 0 \/ (\E k \in Kinds : requests'[k] > 0)
                              \/ (timers' = timers /\ requests' = requests)
      PROVE  Goal
  <2>1. Live' = Live /\ \A s \in Sockets : Running(s)' = Running(s)
    BY <1>2, SameSockets
  <2>2. Silent' /\ Calm' /\ Discord'
    BY <1>0, <1>2, <2>1 DEF Silent, Calm, Discord, QQ
  <2>3. connecting' => Underway'
    BY <1>0, <1>2, <2>1 DEF Underway
  <2> QED BY <1>0, <1>2, <2>1, <2>2, <2>3
<1>3. CASE Start
  <2>1. Live' = Live /\ \A s \in Sockets : Running(s)' = Running(s)
    BY <1>3, SameSockets DEF Start
  <2>2. FirstRequest \in Kinds /\ requests' = [requests EXCEPT ![FirstRequest] = @ + 1]
    BY <1>1, <1>3 DEF FirstRequest, Start, Ask
  <2>3. requests'[FirstRequest] > 0
    BY <1>1, <2>2 DEF GatewayConstants
  <2>4. Underway'
    BY <2>2, <2>3 DEF Underway
  <2>5. Silent' /\ Calm' /\ Discord'
    BY <1>0, <1>3, <2>1 DEF Start, Silent, Calm, Discord
  <2> QED BY <1>3, <2>4, <2>5 DEF Start
<1>4. CASE Stop
  <2>1. \A s \in Sockets : Running(s)' => Running(s) /\ s # gateway
    BY <1>0, <1>4, StoppedFacts DEF Stop, Stopped
  <2>2. ~(opening > 0) /\ opening' = opening
    BY <1>4 DEF Stop
  <2>3. \A s \in Sockets : ~Running(s)'
    BY <1>0, <2>1 DEF SessionInv
  <2>4. Silent' /\ Calm' /\ Discord'
    BY <1>1, <2>2, <2>3 DEF Silent, Calm, Discord
  <2> QED BY <1>4, <2>4 DEF Stop
<1>5. CASE OpenSocket
  <2>1. PICK s \in Sockets :
           /\ sock[s] = UnusedSocket /\ gateway' = s
           /\ sock'[s].phase = "dialing" /\ ~sock'[s].stopped /\ sock'[s].frame = None
           /\ \A t \in Sockets \ {s} : sock'[t] = sock[t]
    BY <1>0, <1>5, OpenFacts
  <2>2. /\ Running(s)' /\ \A t \in Sockets \ {s} : Running(t)' = Running(t)
    BY <2>1 DEF Running
  <2>3. UNCHANGED <<platform, connected, connecting, stopping, beat>> /\ opening > 0
    BY <1>5 DEF OpenSocket
  <2>4. Live' /\ Underway'
    BY <2>2 DEF Live, Held, Underway
  <2>5. Silent' /\ Calm' /\ Discord'
    BY <1>0, <1>1, <2>1, <2>2, <2>3 DEF Silent, Calm, Discord, QQ
  <2> QED BY <1>0, <2>3, <2>4, <2>5
<1>6. ASSUME Connect, ~stopping \/ QQ, UNCHANGED <<platform, flags, beat>> PROVE Goal
  <2>1. \A s \in Sockets : /\ sock'[s].phase = sock[s].phase /\ sock'[s].frame = sock[s].frame
                           /\ Running(s)' => Running(s)
    BY <1>0, <1>6, StoppedFacts DEF Connect, Stopped
  <2>2. opening' > 0
    BY <1>1, <1>6 DEF Connect
  <2>3. Live' /\ Underway'
    BY <2>2 DEF Live, Underway
  <2>4. Silent' /\ Calm' /\ Discord'
    BY <1>0, <1>6, <2>1 DEF Silent, Calm, Discord, QQ
  <2> QED BY <1>0, <1>6, <2>3, <2>4
<1>7. CASE UrlAnswered
  <2>1. CASE stopping /\ ~QQ
    BY <1>0, <1>2, <1>7, <2>1 DEF UrlAnswered
  <2>2. CASE ~(stopping /\ ~QQ)
    BY <1>6, <1>7, <2>2 DEF UrlAnswered
  <2> QED BY <2>1, <2>2
<1>8. CASE SelfAnswered
  <2>1. ~stopping => requests'["url"] > 0
    BY <1>1, <1>8 DEF SelfAnswered, Answered
  <2> QED BY <1>1, <1>2, <1>8, <2>1 DEF SelfAnswered
<1>9. CASE TokenAnswered
  <2>1. ~stopping /\ ~connected => requests'["profile"] > 0
    BY <1>1, <1>9 DEF TokenAnswered, Answered
  <2> QED BY <1>1, <1>2, <1>9, <2>1 DEF TokenAnswered
<1>10. CASE ProfileAnswered
  <2>1. ~stopping /\ ~connected => requests'["url"] > 0
    BY <1>1, <1>10 DEF ProfileAnswered, Answered
  <2> QED BY <1>1, <1>2, <1>10, <2>1 DEF ProfileAnswered
<1>11. ASSUME NEW k \in Kinds, RequestFails(k) PROVE Goal
  <2>1. (connected' => connected) /\ (connecting' => connecting) /\ (connecting' => stopping)
    BY <1>11 DEF RequestFails, RequestLost
  <2> QED BY <1>2, <1>11, <2>1 DEF RequestFails, RequestLost
<1>12. ~(\E k \in Kinds : RequestRefused(k))
  BY DEF RequestRefused
<1>13. CASE ReplyFails
  <2>1. (connected' => connected) /\ ~connecting'
    BY <1>13 DEF ReplyFails, RequestLost
  <2> QED BY <1>2, <1>13, <2>1 DEF ReplyFails, RequestLost
<1>14. CASE ReconnectTimer
  <2>1. CASE ~stopping /\ QQ
    BY <1>6, <1>14, <2>1 DEF ReconnectTimer
  <2>2. CASE stopping \/ ~QQ
    <3>1. ~stopping => requests'["url"] > 0
      BY <1>1, <1>14, <2>2 DEF ReconnectTimer, Ask
    <3> QED BY <1>1, <1>2, <1>14, <2>2, <3>1 DEF ReconnectTimer
  <2> QED BY <2>1, <2>2
<1>15. CASE TokenTimer
  <2>1. requests'["token"] > 0
    BY <1>1, <1>15 DEF TokenTimer, Ask
  <2> QED BY <1>1, <1>2, <1>15, <2>1 DEF TokenTimer
<1>16. CASE UNCHANGED gatewayVars
  BY <1>2, <1>16 DEF gatewayVars
<1>17. ASSUME NEW s \in Sockets, Dial(s) \/ Read(s) \/ End(s) \/ Drop(s) PROVE Goal
  <2>1. UNCHANGED <<platform, flags, beat, gateway, requests, timers, opening>>
    BY <1>17 DEF Dial, Read, End, Drop
  <2>2. /\ \A t \in Sockets \ {s} : sock'[t] = sock[t] /\ Running(t)' = Running(t) /\ Held(t)' = Held(t)
        /\ Running(s)' => Running(s)
        /\ Held(s) => stopping \/ Held(s)'
    BY <1>0, <1>17, ThreadFacts DEF Running, Held
  <2>3. ~stopping => (Live => Live')
    BY <2>1, <2>2 DEF Live
  <2>4. ~stopping => (Underway => Underway')
    BY <2>1, <2>3 DEF Underway
  <2>5. Silent'
    BY <1>0, <2>1, <2>2 DEF Silent, QQ
  <2>6. sock \in [Sockets -> Socket]
    BY <1>0 DEF GatewayTypeOK, Socket, Phases
  <2>7. stopping /\ Running(s)' => sock'[s].frame = None
    <3> SUFFICES ASSUME stopping, Running(s)' PROVE sock'[s].frame = None
      OBVIOUS
    <3>1. Running(s) /\ sock[s].frame = None
      BY <1>0, <2>2 DEF Calm
    <3>2. CASE Dial(s) \/ Drop(s)
      BY <2>6, <3>1, <3>2 DEF Dial, Drop, Socket
    <3>3. CASE Read(s)
      BY <2>6, <3>3 DEF Read, Admitted, Socket
    <3>4. CASE End(s)
      BY <2>6, <3>1, <3>4 DEF End, Socket
    <3> QED BY <1>17, <3>2, <3>3, <3>4
  <2>8. Calm'
    BY <1>0, <2>1, <2>2, <2>7 DEF Calm
  <2>9. platform = "discord" /\ Running(s)' /\ sock'[s].phase \in {"greeted", "ready"} =>
          beat \/ sock'[s].frame = "hello"
    <3> SUFFICES ASSUME platform = "discord", Running(s)', sock'[s].phase \in {"greeted", "ready"}
                 PROVE  beat \/ sock'[s].frame = "hello"
      OBVIOUS
    <3>1. Running(s) /\ ~stopping
      BY <1>0, <2>2 DEF Silent, QQ
    <3>2. CASE Dial(s)
      BY <2>6, <3>2 DEF Dial, Socket
    <3>3. CASE Read(s)
      <4>1. PICK f \in NextFrames(sock[s].phase) :
              /\ sock[s].frame = None
              /\ sock' = [sock EXCEPT ![s].frame = Admitted(f[1]), ![s].phase = f[2]]
        BY <3>3 DEF Read
      <4>2. sock[s].phase \in {"greeted", "ready"} \/ f[1] \in {"hello", "error"}
        BY <4>1 DEF NextFrames
      <4>3. f[1] = "error" => f[2] = "failed"
        BY <4>1 DEF NextFrames
      <4>4. sock'[s].frame = f[1] /\ sock'[s].phase = f[2]
        BY <2>6, <3>1, <4>1 DEF Admitted, Socket
      <4> QED BY <1>0, <3>1, <4>1, <4>2, <4>3, <4>4 DEF Discord, None
    <3>4. CASE End(s)
      BY <2>6, <3>4 DEF End, Socket
    <3>5. CASE Drop(s)
      BY <3>1, <3>5 DEF Drop
    <3> QED BY <1>17, <3>2, <3>3, <3>4, <3>5
  <2>10. Discord'
    BY <1>0, <2>1, <2>2, <2>9 DEF Discord
  <2> QED BY <1>0, <2>1, <2>3, <2>4, <2>5, <2>8, <2>10
<1>18. ASSUME NEW s \in Sockets, Handle(s) PROVE Goal
  <2>1. ASSUME NEW F, Handling(s, F), beat \/ platform # "discord" => beat' \/ platform # "discord"
        PROVE  /\ UNCHANGED <<platform, stopping, gateway, requests, opening>>
               /\ \A t \in Sockets : Running(t)' = Running(t)
               /\ \A t \in Sockets : t # s => Held(t)' = Held(t)
               /\ sock'[s].frame = None
               /\ Silent' /\ Calm'
               /\ sock[s].frame # "hello" \/ beat' => Discord'
    <3>1. UNCHANGED <<platform, stopping, gateway, requests, opening>>
      BY <2>1 DEF Handling
    <3>2. /\ \A t \in Sockets \ {s} : sock'[t] = sock[t]
          /\ sock'[s].phase = sock[s].phase /\ sock'[s].frame = None
          /\ \A t \in Sockets : Running(t)' <=> Running(t)
      BY <1>0, <2>1, HandlingFacts
    <3>3. \A t \in Sockets : t # s => Held(t)' = Held(t)
      BY <3>2 DEF Held
    <3>4. \A t \in Sockets : Running(t)' = Running(t)
      BY <3>2 DEF Running
    <3>5. Silent' /\ Calm'
      BY <1>0, <3>1, <3>2 DEF Silent, Calm, QQ
    <3>6. sock[s].frame # "hello" \/ beat' => Discord'
      BY <1>0, <2>1, <3>1, <3>2 DEF Discord
    <3> QED BY <3>1, <3>2, <3>3, <3>4, <3>5, <3>6
  <2>2. CASE HandleError(s)
    <3> DEFINE F == {"error"} \cup IF platform = "kook" THEN {"hello"} ELSE {}
    <3>1. /\ Handling(s, F) /\ ~connecting' /\ ~connected' /\ UNCHANGED beat
          /\ platform' = platform /\ (platform # "kook" => sock[s].frame = "error")
      BY <2>2 DEF HandleError, Handling
    <3>2. Silent' /\ Calm' /\ (sock[s].frame # "hello" => Discord')
      BY <2>1, <3>1
    <3>3. Discord'
      BY <3>1, <3>2 DEF Discord
    <3> QED BY <3>1, <3>2, <3>3
  <2>3. ASSUME Reconnect, NEW F, Handling(s, F), "hello" \notin F PROVE Goal
    <3>1. ~stopping /\ timers' > 0 /\ ~connected' /\ UNCHANGED beat
      BY <1>1, <2>3 DEF Reconnect
    <3>2. stopping' = stopping /\ Silent' /\ Calm' /\ Discord'
      BY <2>1, <2>3, <3>1 DEF Handling
    <3> QED BY <3>1, <3>2 DEF Underway
  <2>4. CASE Established(s)
    <3>1. /\ connected' /\ ~connecting' /\ ~sock[s].stopped
          /\ sock[s].frame \in {"hello", "ready", "resumed"}
          /\ platform # "kook" => sock[s].frame # "hello"
          /\ beat' = (beat \/ platform = "kook" \/ (QQ /\ sock[s].frame = "ready"))
          /\ QQ => beat'
      BY <2>4 DEF Established, Handling
    <3>2. Running(s)
      BY <1>0, <3>1 DEF FrameInv, Running, None
    <3>3. ~stopping
      BY <1>0, <3>1, <3>2 DEF Calm, None
    <3>4. beat'
      BY <1>0, <1>1, <3>1, <3>2 DEF Discord, FrameInv, Platforms, QQ, None
    <3>5. /\ stopping' = stopping /\ Silent' /\ Calm' /\ Discord'
          /\ Running(s)'
      BY <2>1, <2>4, <3>2, <3>4 DEF Established
    <3>6. Live'
      BY <3>5 DEF Live, Held
    <3> QED BY <3>1, <3>3, <3>4, <3>5, <3>6
  <2>5. ASSUME NEW F, Handling(s, F), sock[s].frame \in {"hello", "invalid"},
               UNCHANGED <<connected, connecting, timers>>, beat => beat',
               sock[s].frame # "hello" \/ platform # "discord" \/ beat'
        PROVE  Goal
    <3>1. /\ UNCHANGED <<stopping, opening, requests>> /\ Silent' /\ Calm'
          /\ sock[s].frame # "hello" \/ beat' => Discord'
      BY <2>1, <2>5
    <3>2. Discord'
      BY <2>5, <3>1 DEF Discord, Handling
    <3>3. \A t \in Sockets : Held(t)' = Held(t)
      BY <2>1, <2>5 DEF Held, None
    <3>4. Live' = Live /\ Underway' = Underway
      BY <2>5, <3>1, <3>3 DEF Live, Underway
    <3> QED BY <1>0, <2>5, <3>1, <3>2, <3>4
  <2>6. CASE HandleHello(s)
    <3>1. Handling(s, {"hello"}) /\ sock[s].frame = "hello" /\ beat' = (beat \/ ~QQ)
      BY <2>6 DEF HandleHello, Handling
    <3> QED BY <2>5, <2>6, <3>1 DEF HandleHello, QQ
  <2>7. CASE HandleInvalid(s)
    <3>1. Handling(s, {"invalid"}) /\ sock[s].frame = "invalid"
      BY <2>7 DEF HandleInvalid, Handling
    <3> QED BY <2>5, <2>7, <3>1 DEF HandleInvalid
  <2>8. CASE HandleClose(s)
    BY <2>3, <2>8 DEF HandleClose
  <2>9. CASE HandleOrder(s)
    BY <2>3, <2>9 DEF HandleOrder
  <2> QED BY <1>18, <2>2, <2>4, <2>6, <2>7, <2>8, <2>9 DEF Handle
<1> QED BY <1>3, <1>4, <1>5, <1>7, <1>8, <1>9, <1>10, <1>11, <1>12, <1>13, <1>14, <1>15, <1>16, <1>17,
           <1>18 DEF GatewayNext

-----------------------------------------------------------------------------
LEMMA GatewayGoesOn == ASSUME GatewayConstants PROVE GatewaySpec => []GatewayInv
<1>1. GatewayInit => GatewayInv
  BY GatewayStarts
<1>2. GatewayInv /\ [GatewayNext]_gatewayVars => GatewayInv'
  <2> SUFFICES ASSUME GatewayInv, [GatewayNext]_gatewayVars PROVE GatewayInv'
    OBVIOUS
  <2>1. GatewayTypeOK'
    BY GatewayTypeStep DEF GatewayInv
  <2> QED BY <2>1, SessionStep, FrameStep, FlagStep DEF GatewayInv
<1> QED BY <1>1, <1>2, PTL DEF GatewaySpec

-----------------------------------------------------------------------------
(* Every variable keeps its type, whatever is requested, closed or stopped.*)
THEOREM GatewayTypeCorrect == ASSUME GatewayConstants PROVE GatewaySpec => []GatewayTypeOK
<1>1. GatewayInv => GatewayTypeOK
  BY DEF GatewayInv
<1> QED BY GatewayGoesOn, <1>1, PTL

(* The only socket not told to stop is the adapter's own, unless connects  *)
(* or a connect and a stop overlapped (discord_adapter.h:268, stop()).     *)
THEOREM SessionIsSingle == ASSUME GatewayConstants PROVE GatewaySpec => []OneSession
<1>1. GatewayInv => OneSession
  BY DEF GatewayInv, SessionInv, OneSession
<1> QED BY GatewayGoesOn, <1>1, PTL

(* Unless one of the five known things has happened, an adapter that       *)
(* claims to be connecting or connected is.                                *)
THEOREM FlagsAreTrue == ASSUME GatewayConstants PROVE GatewaySpec => []FlagsTrue
<1>1. GatewayInv => FlagsTrue
  BY DEF GatewayInv, FlagInv, FlagsTrue
<1> QED BY GatewayGoesOn, <1>1, PTL


-----------------------------------------------------------------------------
(* BuiltinLogin.  What a call may hold, and what an Instance is.           *)
Instance == [settings : Settings, stopping : BOOLEAN, alive : BOOLEAN, joinable : BOOLEAN,
             pc : {"unused", "made", "start", "prepare", "kill", "spawn", "run", "sleep", "ended"}]
Pointer == {Nobody} \cup Obj
Places == {"idle", "find", "signal", "check", "join", "mark", "make", "begin", "thread",
           "release", "remove"}
LoginCall == [at : Places, act : {"none", "launch", "stop", "forget", "status"}, settings : Settings,
         obj : Pointer, dead : Pointer]

(* A pointer is in hand from the step that found or made the Instance to   *)
(* the one that lets go of it.                                             *)
Holding == {"signal", "check", "join", "mark", "begin", "thread", "release"}
Stopping == {"signal", "check", "join"}
Launching == {"begin", "thread"}

HandInv == \A t \in Threads :
    /\ caller[t].obj # Nobody <=> caller[t].at \in Holding
    /\ caller[t].act = "none" => caller[t] = NoCall
    /\ caller[t].act = "status" => caller[t].at \in {"idle", "find", "release"}
    /\ caller[t].at = "idle" /\ caller[t].dead = Nobody => caller[t] = NoCall

(* Every Instance has an owner, and who destroys one is the only one to    *)
(* know it.                                                                *)
Owned(o) == o = instances \/ \E t \in Threads : caller[t].obj = o \/ caller[t].dead = o

OwnInv ==
    /\ \A o \in Obj : inst[o].pc # "unused" => Owned(o)
    /\ instances # Nobody => inst[instances].pc # "unused"
    /\ \A t \in Threads : caller[t].dead # Nobody =>
          /\ caller[t].dead # instances /\ inst[caller[t].dead].pc # "unused"
          /\ \A u \in Threads : /\ caller[u].obj # caller[t].dead
                                /\ u # t => caller[u].dead # caller[t].dead

(* A worker can be joined, and only the thread that made the Instance      *)
(* starts it.                                                              *)
WorkerInv ==
    /\ \A o \in Obj : Works(o) => inst[o].joinable
    /\ \A t \in Threads : caller[t].at \in Launching =>
          /\ inst[caller[t].obj].pc = "made"
          /\ \A u \in Threads \ {t} : caller[u].at \in Launching => caller[u].obj # caller[t].obj

(* A process has its worker, or has outlived a bot and nobody has started  *)
(* another since.                                                          *)
ProcInv ==
    /\ \A o \in Obj : proc[o] # "none" => inst[o].pc = "run"
    /\ proc[Nobody] = "up" => \A o \in Obj : inst[o].pc \notin {"spawn", "run"}

(* Where calls do not overlap: one of them acts at a time, an Instance     *)
(* that can be joined is in the map or in the hands of the call that stops *)
(* it, and what has begun to work has its directory.                       *)
SoleInv == ~overlapped =>
    /\ \A t \in Threads : \A u \in Threads \ {t} :
          caller[t] # NoCall /\ caller[u] # NoCall => "status" \in {caller[t].act, caller[u].act}
    /\ \A t \in Threads : caller[t].dead = Nobody
    /\ \A o \in Obj : inst[o].joinable =>
          o = instances \/ \E t \in Threads : caller[t].at \in Stopping /\ caller[t].obj = o
    /\ \A t \in Threads :
          /\ caller[t].at \in Stopping \cup {"mark", "make", "remove"} => instances = Nobody
          /\ caller[t].at \in Launching => instances = caller[t].obj
    /\ \A o \in Obj : Works(o) /\ inst[o].pc # "start" => dir

LoginInv == LoginTypeOK /\ HandInv /\ OwnInv /\ WorkerInv /\ ProcInv /\ SoleInv

-----------------------------------------------------------------------------
LEMMA LoginConstants ==
  /\ MaxObj \in Nat /\ MaxCalls \in Nat /\ MaxCrashes \in Nat
  /\ Nobody \notin Obj /\ Obj \subseteq Nat
  /\ UnusedInst \in Instance /\ NoCall \in LoginCall
<1>1. (CHOOSE s \in Settings : TRUE) \in Settings
  BY LoginAssumption
<1>2. UnusedInst \in Instance /\ NoCall \in LoginCall
  BY <1>1 DEF UnusedInst, NoCall, Instance, LoginCall, Places, Pointer
<1> QED BY <1>2, LoginAssumption DEF Nobody, Obj

LEMMA LoginTypes ==
  ASSUME LoginTypeOK
  PROVE  /\ instances \in Pointer /\ inst \in [Obj -> Instance] /\ caller \in [Threads -> LoginCall]
         /\ proc \in [Pointer -> {"none", "up", "dying"}] /\ dir \in BOOLEAN /\ overlapped \in BOOLEAN
         /\ calls \in 0..MaxCalls /\ crashes \in 0..MaxCrashes
         /\ \A t \in Threads : caller[t].obj # Nobody => inst[caller[t].obj].pc # "unused"
         /\ \A t \in Threads : /\ caller[t].obj \in Pointer /\ caller[t].dead \in Pointer
                               /\ caller[t].at \in Places
         /\ DOMAIN proc = Pointer
BY DEF LoginTypeOK, Instance, LoginCall, Places, Pointer

LEMMA NewTypes ==
  ASSUME instances' \in Pointer, inst' \in [Obj -> Instance], caller' \in [Threads -> LoginCall],
         proc' \in [Pointer -> {"none", "up", "dying"}], dir' \in BOOLEAN, overlapped' \in BOOLEAN,
         calls' \in 0..MaxCalls, crashes' \in 0..MaxCrashes,
         \A t \in Threads : caller'[t].obj # Nobody => inst'[caller'[t].obj].pc # "unused"
  PROVE  LoginTypeOK'
BY DEF LoginTypeOK, Instance, LoginCall, Places, Pointer

(* What a thread that goes on has in hand then, and nobody else has.       *)
LEMMA GoesOn ==
  ASSUME LoginTypeOK, HandInv, NEW t \in Threads, NEW step \in Places, NEW o \in Pointer,
         NEW d \in Pointer, ContinuesReaping(t, step, o, d),
         o # Nobody <=> step \in Holding,
         caller[t] # NoCall, caller[t].act = "status" => step \in {"idle", "find", "release"}
  PROVE  /\ caller' \in [Threads -> LoginCall]
         /\ \A u \in Threads \ {t} : caller'[u] = caller[u]
         /\ caller'[t].at = step /\ caller'[t].obj = o /\ caller'[t].dead = d
         /\ caller'[t] # NoCall => caller'[t].act = caller[t].act
         /\ HandInv'
<1>1. caller \in [Threads -> LoginCall] /\ NoCall \in LoginCall /\ caller[t] \in LoginCall /\ caller[t].act # "none"
  BY LoginConstants, LoginTypes DEF HandInv
<1>2. CASE step = "idle" /\ d = Nobody
  <2>1. caller' = [caller EXCEPT ![t] = NoCall]
    BY <1>2 DEF ContinuesReaping
  <2>2. o = Nobody
    BY <1>2 DEF Holding
  <2>3. /\ caller' \in [Threads -> LoginCall] /\ caller'[t] = NoCall
        /\ \A u \in Threads \ {t} : caller'[u] = caller[u]
    BY <1>1, <2>1
  <2> QED BY <1>2, <2>2, <2>3 DEF HandInv, NoCall, Holding, Nobody
<1>3. CASE ~(step = "idle" /\ d = Nobody)
  <2>1. caller' = [caller EXCEPT ![t] = [@ EXCEPT !.at = step, !.obj = o, !.dead = d]]
    BY <1>3 DEF ContinuesReaping
  <2>2. /\ caller'[t] = [caller[t] EXCEPT !.at = step, !.obj = o, !.dead = d]
        /\ \A u \in Threads \ {t} : caller'[u] = caller[u]
    BY <1>1, <2>1
  <2>3. /\ caller'[t] \in LoginCall /\ caller'[t].at = step /\ caller'[t].obj = o /\ caller'[t].dead = d
        /\ caller'[t].act = caller[t].act
    BY <1>1, <2>2 DEF LoginCall
  <2>4. caller' \in [Threads -> LoginCall]
    BY <1>1, <2>1, <2>3
  <2>5. HandInv'
    BY <1>1, <1>3, <2>2, <2>3 DEF HandInv
  <2> QED BY <2>2, <2>3, <2>4, <2>5
<1> QED BY <1>2, <1>3

LEMMA AtWork ==
  ASSUME LoginTypeOK, HandInv, NEW t \in Threads, NEW step, step # "idle", Does(t, step)
  PROVE  /\ caller[t].at = step /\ caller[t].dead = Nobody /\ caller[t] # NoCall
         /\ step \in Holding => caller[t].obj \in Obj /\ inst[caller[t].obj].pc # "unused"
         /\ step \notin Holding => caller[t].obj = Nobody
BY LoginTypes DEF HandInv, Does, NoCall, Pointer, Holding

(* Letting go of an Instance: it stays as it was, or nobody else has it    *)
(* and it is gone, or is about to be destroyed.                            *)
LEMMA DropFacts ==
  ASSUME LoginTypeOK, NEW t \in Threads, NEW o \in Obj, NEW kept \in Pointer,
         NEW now \in [Obj -> Instance], now[o].joinable = inst[o].joinable
  PROVE  LET then == Dropped(t, o, kept, now)  d == DeadBy(t, o, kept) IN
         /\ then \in [Obj -> Instance] /\ \A q \in Obj \ {o} : then[q] = now[q]
         /\ d \in {Nobody, o}
         /\ d = o => o # kept /\ (\A u \in Threads \ {t} : caller[u].obj # o) /\ now[o].joinable
         /\ \/ then[o].pc = now[o].pc /\ then[o].joinable = now[o].joinable
            \/ /\ then[o] = UnusedInst /\ ~now[o].joinable /\ d = Nobody
               /\ o # kept /\ \A u \in Threads \ {t} : caller[u].obj # o
         /\ d = o => then[o].pc = now[o].pc
         /\ d = Nobody /\ then[o].pc # "unused" => o = kept \/ \E u \in Threads \ {t} : caller[u].obj = o
<1> DEFINE then == Dropped(t, o, kept, now)
           d == DeadBy(t, o, kept)
<1>0. o # Nobody /\ now[o] \in Instance /\ now[o].joinable \in BOOLEAN /\ UnusedInst \in Instance
  BY LoginConstants DEF Instance
<1>1. CASE ~Last(t, o, kept)
  <2>1. then = now /\ d = Nobody
    BY <1>1 DEF Dropped, DeadBy
  <2>2. o = kept \/ \E u \in Threads \ {t} : caller[u].obj = o
    BY <1>1 DEF Last
  <2> QED BY <1>0, <2>1, <2>2
<1>2. CASE Last(t, o, kept) /\ now[o].joinable
  <2>1. then = [now EXCEPT ![o] = [now[o] EXCEPT !.stopping = TRUE]] /\ d = o
    BY <1>2 DEF Dropped, DeadBy
  <2>2. then[o] = [now[o] EXCEPT !.stopping = TRUE] /\ \A q \in Obj \ {o} : then[q] = now[q]
    BY <2>1
  <2>3. then[o] \in Instance /\ then[o].pc = now[o].pc /\ then[o].joinable = now[o].joinable
    BY <1>0, <2>2 DEF Instance
  <2>4. then \in [Obj -> Instance]
    BY <2>1, <2>3
  <2>5. o # kept /\ \A u \in Threads \ {t} : caller[u].obj # o
    BY <1>2 DEF Last
  <2> QED BY <1>0, <1>2, <2>1, <2>2, <2>3, <2>4, <2>5
<1>3. CASE Last(t, o, kept) /\ ~now[o].joinable
  <2>1. then = [now EXCEPT ![o] = UnusedInst] /\ d = Nobody
    BY <1>3 DEF Dropped, DeadBy
  <2>2. then[o] = UnusedInst /\ then \in [Obj -> Instance] /\ \A q \in Obj \ {o} : then[q] = now[q]
    BY <1>0, <2>1
  <2>3. o # kept /\ \A u \in Threads \ {t} : caller[u].obj # o
    BY <1>3 DEF Last
  <2>4. then[o].pc = "unused"
    BY <2>2 DEF UnusedInst
  <2> QED BY <1>0, <1>3, <2>1, <2>2, <2>3, <2>4
<1> QED BY <1>1, <1>2, <1>3

-----------------------------------------------------------------------------
(* One lemma for each step of a call.                                      *)
LEMMA CallBeginsStep ==
  ASSUME LoginInv, NEW t \in Threads, CallBegins(t) PROVE LoginInv'
<1>0. LoginTypeOK /\ HandInv /\ OwnInv /\ WorkerInv /\ ProcInv /\ SoleInv
  BY DEF LoginInv
<1>1. caller[t] = NoCall /\ caller \in [Threads -> LoginCall] /\ NoCall \in LoginCall
  BY <1>0, LoginTypes, LoginConstants DEF CallBegins, Does, HandInv
<1>2. PICK act \in {"launch", "stop", "forget", "status"}, s \in Settings :
        /\ caller' = [caller EXCEPT ![t] = [NoCall EXCEPT !.at = "find", !.act = act, !.settings = s]]
        /\ overlapped' = (overlapped \/ \E u \in Threads :
              caller[u] # NoCall /\ "status" \notin {act, caller[u].act})
  BY DEF CallBegins
<1>3. /\ caller'[t] = [NoCall EXCEPT !.at = "find", !.act = act, !.settings = s]
      /\ \A u \in Threads \ {t} : caller'[u] = caller[u]
  BY <1>1, <1>2
<1>4. /\ caller'[t].at = "find" /\ caller'[t].act = act /\ caller'[t].obj = Nobody
      /\ caller'[t].dead = Nobody /\ caller'[t] \in LoginCall
  <2>1. NoCall.obj = Nobody /\ NoCall.dead = Nobody
    BY DEF NoCall
  <2> QED BY <1>1, <1>3, <2>1 DEF LoginCall, Places
<1>5. caller' \in [Threads -> LoginCall]
  BY <1>1, <1>2, <1>3, <1>4
<1>6. UNCHANGED <<instances, inst, proc, dir, crashes>> /\ calls' = calls + 1 /\ calls < MaxCalls
  BY DEF CallBegins
<1>7. /\ LoginTypeOK'
      /\ caller[t].obj = Nobody /\ caller[t].dead = Nobody
  <2>1. calls' \in 0..MaxCalls
    BY <1>0, <1>6, LoginTypes, LoginConstants
  <2>2. overlapped' \in BOOLEAN
    BY <1>2
  <2>3. caller[t].obj = Nobody /\ caller[t].dead = Nobody
    BY <1>1 DEF NoCall
  <2> QED BY <1>0, <1>3, <1>4, <1>5, <1>6, <2>1, <2>2, <2>3, LoginTypes, NewTypes
<1>8. HandInv'
  BY <1>0, <1>3, <1>4 DEF HandInv, Holding
<1>9. OwnInv' /\ WorkerInv' /\ ProcInv'
  <2>0. \A u \in Threads : /\ caller'[u].obj = caller[u].obj /\ caller'[u].dead = caller[u].dead
                           /\ caller'[u].at \in Launching <=> caller[u].at \in Launching
    <3>1. caller[t].at = "idle"
      BY <1>1 DEF NoCall
    <3> QED BY <1>3, <1>4, <1>7, <3>1 DEF Launching
  <2>1. OwnInv'
    <3>1. \A o \in Obj : Owned(o) => Owned(o)'
      BY <1>6, <2>0 DEF Owned
    <3> QED BY <1>0, <1>6, <2>0, <3>1 DEF OwnInv
  <2>2. WorkerInv'
    BY <1>0, <1>6, <2>0 DEF WorkerInv, Works
  <2>3. ProcInv'
    BY <1>0, <1>6 DEF ProcInv
  <2> QED BY <2>1, <2>2, <2>3
<1>10. SoleInv'
  <2> SUFFICES ASSUME ~overlapped' PROVE SoleInv'
    BY DEF SoleInv
  <2>1. ~overlapped /\ \A u \in Threads : caller[u] # NoCall => "status" \in {act, caller[u].act}
    BY <1>2
  <2>2. /\ caller'[t].at \notin Stopping \cup {"mark", "make", "remove"} \cup Launching
        /\ caller[t].at = "idle"
    BY <1>1, <1>4 DEF Stopping, Launching, NoCall
  <2>3. \A v \in Threads : \A u \in Threads \ {v} :
          caller'[v] # NoCall /\ caller'[u] # NoCall => "status" \in {caller'[v].act, caller'[u].act}
    <3> SUFFICES ASSUME NEW v \in Threads, NEW u \in Threads \ {v}, caller'[v] # NoCall, caller'[u] # NoCall
                 PROVE  "status" \in {caller'[v].act, caller'[u].act}
      OBVIOUS
    <3>1. CASE v = t
      BY <1>3, <1>4, <2>1, <3>1
    <3>2. CASE u = t
      BY <1>3, <1>4, <2>1, <3>2
    <3>3. CASE v # t /\ u # t
      BY <1>0, <1>3, <2>1, <3>3 DEF SoleInv
    <3> QED BY <3>1, <3>2, <3>3
  <2>4. \A o \in Obj : inst'[o].joinable =>
          o = instances' \/ \E u \in Threads : caller'[u].at \in Stopping /\ caller'[u].obj = o
    BY <1>0, <1>3, <1>6, <2>1, <2>2 DEF SoleInv, Stopping
  <2>5. \A u \in Threads : caller'[u].dead = Nobody
    BY <1>0, <1>3, <1>4, <2>1 DEF SoleInv
  <2>6. \A u \in Threads :
          /\ caller'[u].at \in Stopping \cup {"mark", "make", "remove"} => instances' = Nobody
          /\ caller'[u].at \in Launching => instances' = caller'[u].obj
    BY <1>0, <1>3, <1>6, <2>1, <2>2 DEF SoleInv
  <2>7. \A o \in Obj : Works(o)' /\ inst'[o].pc # "start" => dir'
    BY <1>0, <1>6, <2>1 DEF SoleInv, Works
  <2> QED BY <2>3, <2>4, <2>5, <2>6, <2>7 DEF SoleInv
<1> QED BY <1>7, <1>8, <1>9, <1>10 DEF LoginInv

(* Steps that begin or end no work, and make and destroy nothing.          *)
LEMMA WorkStays ==
  ASSUME WorkerInv, ProcInv, proc' = proc,
         \A o \in Obj : inst'[o].pc = inst[o].pc /\ (inst'[o].joinable = inst[o].joinable \/ ~Works(o)),
         \A u \in Threads : caller'[u].at \in Launching =>
           /\ caller[u].at \in Launching /\ caller'[u].obj = caller[u].obj
           /\ caller[u].obj \in Obj
  PROVE  WorkerInv' /\ ProcInv'
<1>1. WorkerInv'
  BY DEF WorkerInv, Works
<1>2. ProcInv'
  BY DEF ProcInv
<1> QED BY <1>1, <1>2

LEMMA OwnersStay ==
  ASSUME OwnInv, instances' \in {instances, Nobody},
         \A o \in Obj : inst'[o].pc = inst[o].pc /\ (Owned(o) => Owned(o)'),
         \A u \in Threads : caller'[u].dead = caller[u].dead /\ caller[u].dead \in Pointer,
         instances \in Pointer,
         \A u \in Threads : caller'[u].obj \in {caller[u].obj, instances, Nobody}
  PROVE  OwnInv'
<1> USE DEF Pointer
<1>1. \A o \in Obj : inst'[o].pc # "unused" => Owned(o)'
  BY DEF OwnInv
<1>2. instances' # Nobody => inst'[instances'].pc # "unused"
  BY DEF OwnInv
<1>3. ASSUME NEW u \in Threads, caller'[u].dead # Nobody
      PROVE  /\ caller'[u].dead # instances' /\ inst'[caller'[u].dead].pc # "unused"
             /\ \A v \in Threads : /\ caller'[v].obj # caller'[u].dead
                                   /\ v # u => caller'[v].dead # caller'[u].dead
  <2>1. /\ caller[u].dead # instances /\ inst[caller[u].dead].pc # "unused" /\ caller[u].dead \in Obj
        /\ \A v \in Threads : /\ caller[v].obj # caller[u].dead
                              /\ v # u => caller[v].dead # caller[u].dead
    BY <1>3 DEF OwnInv
  <2> QED BY <1>3, <2>1
<1> QED BY <1>1, <1>2, <1>3 DEF OwnInv

-----------------------------------------------------------------------------
LEMMA AfterStopPlaces ==
  ASSUME LoginTypeOK, NEW t \in Threads
  PROVE  /\ AfterStop(t) \in {"make", "remove", "idle"}
         /\ caller[t].act = "status" => AfterStop(t) = "idle"
BY DEF AfterStop

LEMMA FindStep ==
  ASSUME LoginInv, NEW t \in Threads, Find(t) PROVE LoginInv'
<1>0. LoginTypeOK /\ HandInv /\ OwnInv /\ WorkerInv /\ ProcInv /\ SoleInv
  BY DEF LoginInv
<1>1. /\ caller[t].at = "find" /\ caller[t].dead = Nobody /\ caller[t] # NoCall
      /\ caller[t].obj = Nobody /\ "find" \notin Holding
  BY <1>0, AtWork DEF Find, Does, Holding
<1>2. UNCHANGED <<inst, proc, dir, calls, crashes, overlapped>>
  BY DEF Find, loginWorld
<1>3. PICK step \in Places, o \in Pointer :
        /\ Continues(t, step, o) /\ instances' \in {instances, Nobody}
        /\ o \in {instances, Nobody}
        /\ o # Nobody <=> step \in Holding
        /\ step \in {"make", "remove", "idle", "release", "signal"}
        /\ caller[t].act = "status" => step \in {"idle", "find", "release"}
        /\ step = "signal" => instances' = Nobody /\ o = instances
        /\ step # "signal" => instances' = instances
        /\ step \in {"make", "remove"} => instances' = Nobody
  <2>1. instances \in Pointer /\ Nobody \in Pointer
    BY <1>0, LoginTypes DEF Pointer
  <2>2. CASE instances = Nobody /\ Continues(t, AfterStop(t), instances) /\ UNCHANGED instances
    <3>1. AfterStop(t) \in Places /\ AfterStop(t) \notin Holding
      BY <1>0, AfterStopPlaces DEF Places, Holding
    <3> QED BY <1>0, <2>1, <2>2, <3>1, AfterStopPlaces
  <2>3. CASE Continues(t, "idle", Nobody) /\ UNCHANGED instances
    <3>1. "idle" \in Places /\ "idle" \notin Holding
      BY DEF Places, Holding
    <3> QED BY <2>1, <2>3, <3>1
  <2>4. CASE instances # Nobody /\ Continues(t, "release", instances) /\ UNCHANGED instances
    <3>1. "release" \in Places /\ "release" \in Holding
      BY DEF Places, Holding
    <3> QED BY <2>1, <2>4, <3>1
  <2>5. CASE /\ instances # Nobody /\ caller[t].act # "status"
             /\ instances' = Nobody /\ Continues(t, "signal", instances)
    <3>1. "signal" \in Places /\ "signal" \in Holding
      BY DEF Places, Holding
    <3> QED BY <2>1, <2>5, <3>1
  <2> QED BY <2>2, <2>3, <2>4, <2>5 DEF Find
<1>4. /\ caller' \in [Threads -> LoginCall]
      /\ \A u \in Threads \ {t} : caller'[u] = caller[u]
      /\ caller'[t].at = step /\ caller'[t].obj = o /\ caller'[t].dead = Nobody
      /\ caller'[t] # NoCall => caller'[t].act = caller[t].act
      /\ HandInv'
  <2>1. Nobody \in Pointer
    BY DEF Pointer
  <2> QED BY <1>0, <1>1, <1>3, <2>1, GoesOn DEF Continues
<1>5. \A u \in Threads : /\ caller'[u].obj \in {caller[u].obj, instances, Nobody}
                         /\ caller'[u].dead = caller[u].dead /\ caller[u].dead \in Pointer
  BY <1>0, <1>1, <1>3, <1>4, LoginTypes
<1>6. LoginTypeOK'
  <2>1. \A u \in Threads : caller'[u].obj # Nobody => inst'[caller'[u].obj].pc # "unused"
    BY <1>0, <1>2, <1>5, LoginTypes DEF OwnInv
  <2>2. instances' \in Pointer
    BY <1>0, <1>3, LoginTypes DEF Pointer
  <2> QED BY <1>0, <1>2, <1>4, <2>1, <2>2, LoginTypes, NewTypes
<1>7. OwnInv'
  <2>1. ASSUME NEW q \in Obj, Owned(q) PROVE Owned(q)'
    <3>1. CASE q = instances
      BY <1>3, <1>4, <3>1 DEF Owned
    <3>2. CASE q # instances
      <4>1. PICK u \in Threads : caller[u].obj = q \/ caller[u].dead = q
        BY <2>1, <3>2 DEF Owned
      <4>2. u # t
        BY <1>1, <4>1, LoginConstants
      <4> QED BY <1>4, <4>1, <4>2 DEF Owned
    <3> QED BY <3>1, <3>2
  <2> QED BY <1>0, <1>2, <1>3, <1>5, <2>1, LoginTypes, OwnersStay
<1>8. WorkerInv' /\ ProcInv'
  <2>1. step \notin Launching
    BY <1>3 DEF Launching
  <2>2. \A u \in Threads : caller'[u].at \in Launching =>
           /\ caller[u].at \in Launching /\ caller'[u].obj = caller[u].obj
           /\ caller[u].obj \in Obj
    <3>1. \A u \in Threads : caller[u].at \in Launching => caller[u].obj \in Obj
      BY <1>0, LoginTypes DEF HandInv, Launching, Holding, Pointer
    <3> QED BY <1>4, <2>1, <3>1
  <2> QED BY <1>0, <1>2, <2>2, WorkStays
<1>9. SoleInv'
  <2> SUFFICES ASSUME ~overlapped PROVE SoleInv'
    BY <1>2 DEF SoleInv
  <2>0. /\ \A v \in Threads : \A u \in Threads \ {v} :
             caller[v] # NoCall /\ caller[u] # NoCall => "status" \in {caller[v].act, caller[u].act}
        /\ \A u \in Threads : caller[u].dead = Nobody
        /\ \A q \in Obj : inst[q].joinable =>
              q = instances \/ \E u \in Threads : caller[u].at \in Stopping /\ caller[u].obj = q
        /\ \A u \in Threads :
              /\ caller[u].at \in Stopping \cup {"mark", "make", "remove"} => instances = Nobody
              /\ caller[u].at \in Launching => instances = caller[u].obj
        /\ \A q \in Obj : Works(q) /\ inst[q].pc # "start" => dir
    BY <1>0 DEF SoleInv
  <2>1. \A v \in Threads : \A u \in Threads \ {v} :
          caller'[v] # NoCall /\ caller'[u] # NoCall => "status" \in {caller'[v].act, caller'[u].act}
    BY <1>1, <1>4, <2>0
  <2>2. \A u \in Threads : caller'[u].dead = Nobody
    BY <1>5, <2>0
  <2>3. \A q \in Obj : inst'[q].joinable =>
          q = instances' \/ \E u \in Threads : caller'[u].at \in Stopping /\ caller'[u].obj = q
    <3> TAKE q \in Obj
    <3> HAVE inst'[q].joinable
    <3>1. CASE q = instances
      BY <1>3, <1>4, <3>1 DEF Stopping
    <3>2. CASE q # instances
      <4>1. PICK u \in Threads : caller[u].at \in Stopping /\ caller[u].obj = q
        BY <1>2, <2>0, <3>2
      <4>2. u # t
        BY <1>1, <4>1 DEF Stopping
      <4> QED BY <1>4, <4>1, <4>2
    <3> QED BY <3>1, <3>2
  <2>4. \A u \in Threads :
          /\ caller'[u].at \in Stopping \cup {"mark", "make", "remove"} => instances' = Nobody
          /\ caller'[u].at \in Launching => instances' = caller'[u].obj
    <3> TAKE u \in Threads
    <3>1. CASE u = t
      BY <1>3, <1>4, <3>1 DEF Stopping, Launching
    <3>2. CASE u # t
      <4>1. caller'[u] = caller[u]
        BY <1>4, <3>2
      <4>2. caller[u].at \in Stopping \cup {"mark", "make", "remove"} => instances' = Nobody
        BY <1>3, <2>0
      <4>3. ASSUME caller[u].at \in Launching PROVE instances' = caller[u].obj
        <5>1. caller[u] # NoCall /\ caller[u].act # "status"
          BY <1>0, <4>3 DEF HandInv, Launching, NoCall
        <5>2. caller[t].act = "status"
          BY <1>1, <2>0, <3>2, <5>1
        <5>3. step # "signal"
          BY <1>3, <5>2
        <5> QED BY <1>3, <2>0, <4>3, <5>3
      <4> QED BY <4>1, <4>2, <4>3
    <3> QED BY <3>1, <3>2
  <2>5. \A q \in Obj : Works(q)' /\ inst'[q].pc # "start" => dir'
    BY <1>2, <2>0 DEF Works
  <2> QED BY <2>1, <2>2, <2>3, <2>4, <2>5 DEF SoleInv
<1> QED BY <1>4, <1>6, <1>7, <1>8, <1>9 DEF LoginInv

(* A call goes on with the Instance it has in hand.                        *)
LEMMA HoldingStep ==
  ASSUME LoginInv, NEW t \in Threads, NEW here, NEW step, Does(t, here),
         Continues(t, step, caller[t].obj),
         \/ here \in Stopping /\ step \in Stopping \cup {"mark"}
         \/ here = "begin" /\ step = "thread",
         inst' \in [Obj -> Instance],
         \A q \in Obj : /\ inst'[q].pc = inst[q].pc
                        /\ inst'[q].joinable = inst[q].joinable \/ (~Works(q) /\ ~inst'[q].joinable),
         step = "mark" => ~inst'[caller[t].obj].joinable,
         UNCHANGED <<instances, proc, dir, loginWorld>>
  PROVE  LoginInv'
<1>0. LoginTypeOK /\ HandInv /\ OwnInv /\ WorkerInv /\ ProcInv /\ SoleInv
  BY DEF LoginInv
<1>a. {here, step} \subseteq Holding /\ step \in Places /\ here # "idle" /\ step \notin {"find", "idle", "release"}
  BY DEF Stopping, Holding, Places
<1>b. UNCHANGED <<instances, proc, dir, calls, crashes, overlapped>>
  BY DEF loginWorld
<1>1. /\ caller[t].at = here /\ caller[t].dead = Nobody /\ caller[t] # NoCall
      /\ caller[t].obj \in Obj /\ caller[t].act # "status"
  <2>1. caller[t].at = here /\ caller[t].dead = Nobody /\ caller[t] # NoCall /\ caller[t].obj \in Obj
    BY <1>0, <1>a, AtWork
  <2>2. here \notin {"idle", "find", "release"}
    BY DEF Stopping
  <2> QED BY <1>0, <2>1, <2>2 DEF HandInv
<1>2. /\ caller' \in [Threads -> LoginCall]
      /\ \A u \in Threads \ {t} : caller'[u] = caller[u]
      /\ caller'[t].at = step /\ caller'[t].obj = caller[t].obj /\ caller'[t].dead = Nobody
      /\ caller'[t] # NoCall => caller'[t].act = caller[t].act
      /\ HandInv'
  <2>1. caller[t].obj \in Pointer /\ Nobody \in Pointer /\ caller[t].obj # Nobody
    BY <1>1, LoginConstants DEF Pointer
  <2> QED BY <1>0, <1>1, <1>a, <2>1, GoesOn DEF Continues
<1>3. \A u \in Threads : /\ caller'[u].obj = caller[u].obj /\ caller'[u].dead = caller[u].dead
                         /\ caller[u].dead \in Pointer
  BY <1>0, <1>1, <1>2, LoginTypes
<1>4. LoginTypeOK'
  <2>1. \A u \in Threads : caller'[u].obj # Nobody => inst'[caller'[u].obj].pc # "unused"
    BY <1>0, <1>3, LoginTypes DEF Pointer
  <2> QED BY <1>0, <1>b, <1>2, <2>1, LoginTypes, NewTypes
<1>5. OwnInv'
  <2>1. \A q \in Obj : Owned(q) => Owned(q)'
    BY <1>b, <1>3 DEF Owned
  <2> QED BY <1>0, <1>b, <1>3, <2>1, LoginTypes, OwnersStay
<1>6. WorkerInv' /\ ProcInv'
  <2>1. \A u \in Threads : caller'[u].at \in Launching =>
           /\ caller[u].at \in Launching /\ caller'[u].obj = caller[u].obj
           /\ caller[u].obj \in Obj
    <3>1. \A u \in Threads : caller[u].at \in Launching => caller[u].obj \in Obj
      BY <1>0, LoginTypes DEF HandInv, Launching, Holding, Pointer
    <3>2. step \in Launching => here \in Launching
      BY DEF Launching, Stopping
    <3> QED BY <1>1, <1>2, <3>1, <3>2
  <2>2. \A q \in Obj : inst'[q].pc = inst[q].pc /\ (inst'[q].joinable = inst[q].joinable \/ ~Works(q))
    OBVIOUS
  <2> QED BY <1>0, <1>b, <2>1, <2>2, WorkStays
<1>7. SoleInv'
  <2> SUFFICES ASSUME ~overlapped PROVE SoleInv'
    BY <1>b DEF SoleInv
  <2>0. /\ \A v \in Threads : \A u \in Threads \ {v} :
             caller[v] # NoCall /\ caller[u] # NoCall => "status" \in {caller[v].act, caller[u].act}
        /\ \A u \in Threads : caller[u].dead = Nobody
        /\ \A q \in Obj : inst[q].joinable =>
              q = instances \/ \E u \in Threads : caller[u].at \in Stopping /\ caller[u].obj = q
        /\ \A u \in Threads :
              /\ caller[u].at \in Stopping \cup {"mark", "make", "remove"} => instances = Nobody
              /\ caller[u].at \in Launching => instances = caller[u].obj
        /\ \A q \in Obj : Works(q) /\ inst[q].pc # "start" => dir
    BY <1>0 DEF SoleInv
  <2>1. \A v \in Threads : \A u \in Threads \ {v} :
          caller'[v] # NoCall /\ caller'[u] # NoCall => "status" \in {caller'[v].act, caller'[u].act}
    BY <1>1, <1>2, <2>0
  <2>2. \A u \in Threads : caller'[u].dead = Nobody
    BY <1>3, <2>0
  <2>3. \A q \in Obj : inst'[q].joinable =>
          q = instances' \/ \E u \in Threads : caller'[u].at \in Stopping /\ caller'[u].obj = q
    <3> TAKE q \in Obj
    <3> HAVE inst'[q].joinable
    <3>1. inst[q].joinable
      OBVIOUS
    <3>2. CASE q = instances
      BY <1>b, <3>2
    <3>3. CASE q # instances
      <4>1. PICK u \in Threads : caller[u].at \in Stopping /\ caller[u].obj = q
        BY <2>0, <3>1, <3>3
      <4>2. CASE u = t
        <5>1. step # "mark" /\ here # "begin"
          BY <1>1, <4>1, <4>2 DEF Stopping
        <5> QED BY <1>2, <1>3, <4>1, <4>2, <5>1
      <4>3. CASE u # t
        BY <1>2, <4>1, <4>3
      <4> QED BY <4>2, <4>3
    <3> QED BY <3>2, <3>3
  <2>4. \A u \in Threads :
          /\ caller'[u].at \in Stopping \cup {"mark", "make", "remove"} => instances' = Nobody
          /\ caller'[u].at \in Launching => instances' = caller'[u].obj
    <3> TAKE u \in Threads
    <3>1. CASE u = t
      <4>1. CASE here \in Stopping
        BY <1>1, <1>2, <1>b, <2>0, <3>1, <4>1 DEF Stopping, Launching
      <4>2. CASE here = "begin" /\ step = "thread"
        BY <1>1, <1>2, <1>b, <2>0, <3>1, <4>2 DEF Stopping, Launching
      <4> QED BY <4>1, <4>2
    <3>2. CASE u # t
      BY <1>2, <1>b, <2>0, <3>2
    <3> QED BY <3>1, <3>2
  <2>5. \A q \in Obj : Works(q)' /\ inst'[q].pc # "start" => dir'
    BY <1>b, <2>0 DEF Works
  <2> QED BY <2>1, <2>2, <2>3, <2>4, <2>5 DEF SoleInv
<1> QED BY <1>2, <1>4, <1>5, <1>6, <1>7 DEF LoginInv

LEMMA HoldingSteps ==
  ASSUME LoginInv, NEW t \in Threads, Signal(t) \/ Check(t) \/ Join(t) \/ StartBegins(t)
  PROVE  LoginInv'
<1>0. LoginTypeOK /\ HandInv
  BY DEF LoginInv
<1>a. inst \in [Obj -> Instance] /\ \A q \in Obj : inst[q] \in Instance /\ inst[q].joinable \in BOOLEAN
  BY <1>0, LoginTypes DEF Instance
<1> DEFINE o == caller[t].obj
<1>b. ASSUME NEW here \in Holding, Does(t, here) PROVE o \in Obj
  <2>1. here # "idle"
    BY DEF Holding
  <2> QED BY <1>0, <1>b, <2>1, AtWork
<1>1. CASE Signal(t)
  <2>1. Does(t, "signal") /\ o \in Obj
    BY <1>1, <1>b DEF Signal, Holding
  <2>2. inst' = [inst EXCEPT ![o] = [inst[o] EXCEPT !.stopping = TRUE]]
    BY <1>1 DEF Signal
  <2>3. /\ [inst[o] EXCEPT !.stopping = TRUE] \in Instance
        /\ [inst[o] EXCEPT !.stopping = TRUE].pc = inst[o].pc
        /\ [inst[o] EXCEPT !.stopping = TRUE].joinable = inst[o].joinable
    BY <1>a, <2>1 DEF Instance
  <2>4. /\ inst' \in [Obj -> Instance]
        /\ \A q \in Obj : inst'[q].pc = inst[q].pc /\ inst'[q].joinable = inst[q].joinable
    BY <1>a, <2>1, <2>2, <2>3
  <2>5. Continues(t, "check", o) /\ UNCHANGED <<instances, proc, dir, loginWorld>>
    BY <1>1 DEF Signal
  <2>6. "signal" \in Stopping /\ "check" \in Stopping
    BY DEF Stopping
  <2> QED BY <2>1, <2>4, <2>5, <2>6, HoldingStep
<1>2. CASE Check(t)
  <2>1. Does(t, "check") /\ o \in Obj
    BY <1>2, <1>b DEF Check, Holding
  <2>2. inst' = inst /\ UNCHANGED <<instances, proc, dir, loginWorld>>
    BY <1>2 DEF Check
  <2>3. PICK step \in {"join", "mark"} :
          Continues(t, step, o) /\ (step = "mark" => ~inst[o].joinable)
    BY <1>2 DEF Check
  <2>4. "check" \in Stopping /\ step \in Stopping \cup {"mark"}
    BY DEF Stopping
  <2> QED BY <1>a, <2>1, <2>2, <2>3, <2>4, HoldingStep
<1>3. CASE Join(t)
  <2>1. Does(t, "join") /\ o \in Obj /\ inst[o].pc = "ended"
    BY <1>3, <1>b DEF Join, Holding
  <2>2. inst' = [inst EXCEPT ![o] = [inst[o] EXCEPT !.joinable = FALSE]]
    BY <1>3 DEF Join
  <2>3. /\ [inst[o] EXCEPT !.joinable = FALSE] \in Instance
        /\ [inst[o] EXCEPT !.joinable = FALSE].pc = inst[o].pc
        /\ [inst[o] EXCEPT !.joinable = FALSE].joinable = FALSE
    <3>1. PICK i \in Instance : i = inst[o]
      BY <1>a, <2>1
    <3>2. /\ [i EXCEPT !.joinable = FALSE] \in Instance
          /\ [i EXCEPT !.joinable = FALSE].pc = i.pc
          /\ [i EXCEPT !.joinable = FALSE].joinable = FALSE
      BY ONLY <3>1 DEF Instance
    <3> QED BY <3>1, <3>2
  <2>4. /\ inst' \in [Obj -> Instance] /\ ~inst'[o].joinable /\ ~Works(o)
        /\ \A q \in Obj : /\ inst'[q].pc = inst[q].pc
                          /\ q # o => inst'[q].joinable = inst[q].joinable
    BY <1>a, <2>1, <2>2, <2>3 DEF Works
  <2>5. Continues(t, "mark", o) /\ UNCHANGED <<instances, proc, dir, loginWorld>>
    BY <1>3 DEF Join
  <2>6. "join" \in Stopping
    BY DEF Stopping
  <2> QED BY <2>1, <2>4, <2>5, <2>6, HoldingStep
<1>4. CASE StartBegins(t)
  <2>1. Does(t, "begin") /\ o \in Obj
    BY <1>4, <1>b DEF StartBegins, Holding
  <2>2. inst' = [inst EXCEPT ![o] = [inst[o] EXCEPT !.stopping = FALSE, !.alive = TRUE]]
    BY <1>4, <1>a, <2>1 DEF StartBegins
  <2>3. /\ [inst[o] EXCEPT !.stopping = FALSE, !.alive = TRUE] \in Instance
        /\ [inst[o] EXCEPT !.stopping = FALSE, !.alive = TRUE].pc = inst[o].pc
        /\ [inst[o] EXCEPT !.stopping = FALSE, !.alive = TRUE].joinable = inst[o].joinable
    BY <1>a, <2>1 DEF Instance
  <2>4. /\ inst' \in [Obj -> Instance]
        /\ \A q \in Obj : inst'[q].pc = inst[q].pc /\ inst'[q].joinable = inst[q].joinable
    BY <1>a, <2>1, <2>2, <2>3
  <2>5. Continues(t, "thread", o) /\ UNCHANGED <<instances, proc, dir, loginWorld>>
    BY <1>4 DEF StartBegins
  <2> QED BY <2>1, <2>4, <2>5, HoldingStep
<1> QED BY <1>1, <1>2, <1>3, <1>4

(* A call lets go of the Instance it has in hand.                          *)
LEMMA LettingGoStep ==
  ASSUME LoginInv, NEW t \in Threads, NEW here \in {"mark", "release"}, Does(t, here),
         NEW step \in {"make", "remove", "idle"}, NEW now \in [Obj -> Instance],
         \A q \in Obj : now[q].pc = inst[q].pc /\ now[q].joinable = inst[q].joinable,
         inst' = Dropped(t, caller[t].obj, instances, now),
         ContinuesReaping(t, step, Nobody, DeadBy(t, caller[t].obj, instances)),
         here = "release" \/ caller[t].act = "status" => step = "idle",
         UNCHANGED <<instances, proc, dir, loginWorld>>
  PROVE  LoginInv'
<1> DEFINE o == caller[t].obj
           d == DeadBy(t, o, instances)
<1>0. LoginTypeOK /\ HandInv /\ OwnInv /\ WorkerInv /\ ProcInv /\ SoleInv
  BY DEF LoginInv
<1>a. here \in Holding /\ here # "idle" /\ here \notin Stopping /\ step \in Places /\ step \notin Holding
      /\ step \notin Stopping \cup Launching \cup {"mark"}
  BY DEF Stopping, Holding, Places, Launching
<1>b. UNCHANGED <<instances, proc, dir, calls, crashes, overlapped>>
  BY DEF loginWorld
<1>1. /\ caller[t].at = here /\ caller[t].dead = Nobody /\ caller[t] # NoCall
      /\ o \in Obj /\ inst[o].pc # "unused" /\ o # Nobody /\ instances \in Pointer
  BY <1>0, <1>a, AtWork, LoginConstants, LoginTypes
<1>2. /\ inst' \in [Obj -> Instance] /\ \A q \in Obj \ {o} : inst'[q] = now[q]
      /\ d \in {Nobody, o}
      /\ d = o => o # instances /\ (\A u \in Threads \ {t} : caller[u].obj # o) /\ inst[o].joinable
      /\ \/ inst'[o].pc = inst[o].pc /\ inst'[o].joinable = inst[o].joinable
         \/ /\ inst'[o] = UnusedInst /\ ~inst[o].joinable /\ d = Nobody
            /\ o # instances /\ \A u \in Threads \ {t} : caller[u].obj # o
      /\ d = o => inst'[o].pc = inst[o].pc
      /\ d = Nobody /\ inst'[o].pc # "unused" =>
           o = instances \/ \E u \in Threads \ {t} : caller[u].obj = o
  <2>1. now[o].pc = inst[o].pc /\ now[o].joinable = inst[o].joinable
    BY <1>1
  <2> HIDE DEF o
  <2>2. inst' = Dropped(t, o, instances, now)
    BY DEF o
  <2> QED BY <1>0, <1>1, <2>1, <2>2, DropFacts
<1>3. UnusedInst.pc = "unused" /\ UnusedInst.joinable = FALSE
  BY DEF UnusedInst
<1>4. /\ caller' \in [Threads -> LoginCall]
      /\ \A u \in Threads \ {t} : caller'[u] = caller[u]
      /\ caller'[t].at = step /\ caller'[t].obj = Nobody /\ caller'[t].dead = d
      /\ caller'[t] # NoCall => caller'[t].act = caller[t].act
      /\ HandInv'
  <2>1. Nobody \in Pointer /\ d \in Pointer
    BY <1>1, <1>2 DEF Pointer
  <2> QED BY <1>0, <1>1, <1>a, <2>1, GoesOn
<1>5. \A u \in Threads : /\ caller[u].obj \in Pointer /\ caller[u].dead \in Pointer
                         /\ caller[u].dead # o
                         /\ caller[u].obj # caller[u].dead \/ caller[u].dead = Nobody
  BY <1>0, <1>1, LoginTypes DEF OwnInv
<1>6. \A q \in Obj : \/ inst'[q].pc = inst[q].pc /\ inst'[q].joinable = inst[q].joinable
                     \/ /\ q = o /\ inst'[q].pc = "unused" /\ ~inst'[q].joinable /\ ~inst[o].joinable
                        /\ d = Nobody
                        /\ o # instances /\ \A u \in Threads \ {t} : caller[u].obj # o
  BY <1>2, <1>3
<1>7. LoginTypeOK'
  <2>1. \A u \in Threads : caller'[u].obj # Nobody => inst'[caller'[u].obj].pc # "unused"
    <3> TAKE u \in Threads
    <3> HAVE caller'[u].obj # Nobody
    <3>1. u # t /\ caller'[u] = caller[u] /\ caller[u].obj \in Obj
      BY <1>4, <1>5 DEF Pointer
    <3>2. inst[caller[u].obj].pc # "unused"
      BY <1>0, <3>1, LoginTypes, LoginConstants
    <3> QED BY <1>6, <3>1, <3>2
  <2> QED BY <1>0, <1>b, <1>2, <1>4, <2>1, LoginTypes, NewTypes
<1>8. OwnInv'
  <2>1. \A q \in Obj : inst'[q].pc # "unused" => Owned(q)'
    <3> TAKE q \in Obj
    <3> HAVE inst'[q].pc # "unused"
    <3>1. CASE q # o
      <4>1. Owned(q)
        BY <1>0, <1>6, <3>1 DEF OwnInv
      <4>2. CASE q = instances
        BY <1>b, <4>2 DEF Owned
      <4>3. CASE q # instances
        <5>1. PICK u \in Threads : caller[u].obj = q \/ caller[u].dead = q
          BY <4>1, <4>3 DEF Owned
        <5>2. u # t
          BY <1>1, <3>1, <5>1, LoginConstants
        <5> QED BY <1>4, <5>1, <5>2 DEF Owned
      <4> QED BY <4>2, <4>3
    <3>2. CASE q = o
      <4>1. CASE d = o
        BY <1>4, <3>2, <4>1 DEF Owned
      <4>2. CASE d = Nobody
        BY <1>2, <1>4, <1>b, <3>2, <4>2 DEF Owned
      <4> QED BY <1>2, <4>1, <4>2
    <3> QED BY <3>1, <3>2
  <2>2. instances' # Nobody => inst'[instances'].pc # "unused"
    BY <1>0, <1>1, <1>b, <1>6 DEF OwnInv, Pointer
  <2>3. ASSUME NEW u \in Threads, caller'[u].dead # Nobody
        PROVE  /\ caller'[u].dead # instances' /\ inst'[caller'[u].dead].pc # "unused"
               /\ \A v \in Threads : /\ caller'[v].obj # caller'[u].dead
                                     /\ v # u => caller'[v].dead # caller'[u].dead
    <3>1. CASE u = t
      <4>1. caller'[u].dead = o /\ d = o
        BY <1>2, <1>4, <2>3, <3>1
      <4>2. o # instances' /\ inst'[o].pc # "unused"
        BY <1>1, <1>2, <1>b, <4>1
      <4>3. \A v \in Threads : caller'[v].obj # o /\ (v # t => caller'[v].dead # o)
        BY <1>1, <1>2, <1>4, <1>5, <4>1
      <4> QED BY <3>1, <4>1, <4>2, <4>3
    <3>2. CASE u # t
      <4> DEFINE e == caller[u].dead
      <4>1. caller'[u].dead = e /\ e # Nobody /\ e \in Obj /\ e # o
        BY <1>1, <1>4, <1>5, <2>3, <3>2 DEF Pointer
      <4>2. /\ e # instances /\ inst[e].pc # "unused"
            /\ \A v \in Threads : caller[v].obj # e /\ (v # u => caller[v].dead # e)
        BY <1>0, <4>1 DEF OwnInv
      <4>3. inst'[e].pc # "unused"
        BY <1>6, <4>1, <4>2
      <4>4. ASSUME NEW v \in Threads PROVE caller'[v].obj # e /\ (v # u => caller'[v].dead # e)
        BY <1>2, <1>4, <4>1, <4>2
      <4> QED BY <1>b, <4>1, <4>2, <4>3, <4>4
    <3> QED BY <3>1, <3>2
  <2> QED BY <2>1, <2>2, <2>3 DEF OwnInv
<1>9. WorkerInv'
  <2>1. \A q \in Obj : Works(q)' => inst'[q].joinable
    BY <1>0, <1>6 DEF WorkerInv, Works
  <2>2. ASSUME NEW u \in Threads, caller'[u].at \in Launching
        PROVE  /\ inst'[caller'[u].obj].pc = "made"
               /\ \A v \in Threads \ {u} : caller'[v].at \in Launching => caller'[v].obj # caller'[u].obj
    <3>1. u # t /\ caller'[u] = caller[u] /\ caller[u].at \in Launching
      BY <1>a, <1>4, <2>2
    <3>2. caller[u].obj \in Obj
      BY <1>0, <1>5, <3>1 DEF HandInv, Launching, Holding, Pointer
    <3>3. /\ inst[caller[u].obj].pc = "made"
          /\ \A v \in Threads \ {u} : caller[v].at \in Launching => caller[v].obj # caller[u].obj
      BY <1>0, <3>1 DEF WorkerInv
    <3>4. inst'[caller[u].obj].pc = "made"
      BY <1>6, <3>1, <3>2, <3>3
    <3>5. \A v \in Threads \ {u} : caller'[v].at \in Launching => caller'[v].obj # caller[u].obj
      BY <1>a, <1>4, <3>3
    <3> QED BY <3>1, <3>4, <3>5
  <2> QED BY <2>1, <2>2 DEF WorkerInv
<1>10. ProcInv'
  <2>1. ASSUME NEW q \in Obj, proc[q] # "none" PROVE inst'[q].pc = "run"
    <3>1. inst[q].pc = "run" /\ inst[q].joinable
      BY <1>0, <2>1 DEF ProcInv, WorkerInv, Works
    <3> QED BY <1>6, <3>1
  <2>2. proc[Nobody] = "up" => \A q \in Obj : inst'[q].pc \notin {"spawn", "run"}
    BY <1>0, <1>6 DEF ProcInv
  <2> QED BY <1>b, <2>1, <2>2 DEF ProcInv
<1>11. SoleInv'
  <2> SUFFICES ASSUME ~overlapped PROVE SoleInv'
    BY <1>b DEF SoleInv
  <2>0. /\ \A v \in Threads : \A u \in Threads \ {v} :
             caller[v] # NoCall /\ caller[u] # NoCall => "status" \in {caller[v].act, caller[u].act}
        /\ \A u \in Threads : caller[u].dead = Nobody
        /\ \A q \in Obj : inst[q].joinable =>
              q = instances \/ \E u \in Threads : caller[u].at \in Stopping /\ caller[u].obj = q
        /\ \A u \in Threads :
              /\ caller[u].at \in Stopping \cup {"mark", "make", "remove"} => instances = Nobody
              /\ caller[u].at \in Launching => instances = caller[u].obj
        /\ \A q \in Obj : Works(q) /\ inst[q].pc # "start" => dir
    BY <1>0 DEF SoleInv
  <2>1. \A v \in Threads : \A u \in Threads \ {v} :
          caller'[v] # NoCall /\ caller'[u] # NoCall => "status" \in {caller'[v].act, caller'[u].act}
    BY <1>1, <1>4, <2>0
  <2>2. \A u \in Threads : caller'[u].dead = Nobody
    <3>1. d # o
      <4> SUFFICES ASSUME d = o PROVE FALSE
        OBVIOUS
      <4>1. PICK u \in Threads : caller[u].at \in Stopping /\ caller[u].obj = o
        BY <1>1, <1>2, <2>0
      <4>2. u # t
        BY <1>1, <1>a, <4>1
      <4> QED BY <1>2, <4>1, <4>2
    <3> QED BY <1>2, <1>4, <2>0, <3>1
  <2>3. \A q \in Obj : inst'[q].joinable =>
          q = instances' \/ \E u \in Threads : caller'[u].at \in Stopping /\ caller'[u].obj = q
    <3> TAKE q \in Obj
    <3> HAVE inst'[q].joinable
    <3>1. inst[q].joinable
      BY <1>6
    <3>2. CASE q = instances
      BY <1>b, <3>2
    <3>3. CASE q # instances
      <4>1. PICK u \in Threads : caller[u].at \in Stopping /\ caller[u].obj = q
        BY <2>0, <3>1, <3>3
      <4>2. u # t
        BY <1>1, <1>a, <4>1
      <4> QED BY <1>4, <4>1, <4>2
    <3> QED BY <3>2, <3>3
  <2>4. \A u \in Threads :
          /\ caller'[u].at \in Stopping \cup {"mark", "make", "remove"} => instances' = Nobody
          /\ caller'[u].at \in Launching => instances' = caller'[u].obj
    <3> TAKE u \in Threads
    <3>1. CASE u = t
      <4>1. here = "mark" => instances = Nobody
        BY <1>1, <2>0
      <4> QED BY <1>4, <1>a, <1>b, <3>1, <4>1
    <3>2. CASE u # t
      BY <1>4, <1>b, <2>0, <3>2
    <3> QED BY <3>1, <3>2
  <2>5. \A q \in Obj : Works(q)' /\ inst'[q].pc # "start" => dir'
    BY <1>b, <1>6, <2>0 DEF Works
  <2> QED BY <2>1, <2>2, <2>3, <2>4, <2>5 DEF SoleInv
<1> QED BY <1>4, <1>7, <1>8, <1>9, <1>10, <1>11 DEF LoginInv

LEMMA LettingGoSteps ==
  ASSUME LoginInv, NEW t \in Threads, Mark(t) \/ Release(t) PROVE LoginInv'
<1> DEFINE o == caller[t].obj
<1>0. LoginTypeOK /\ HandInv /\ inst \in [Obj -> Instance]
  BY LoginTypes DEF LoginInv
<1>1. CASE Mark(t)
  <2>1. Does(t, "mark")
    BY <1>1 DEF Mark
  <2>2. o \in Obj
    BY <1>0, <2>1, AtWork DEF Holding
  <2>3. inst' = Dropped(t, o, instances, [inst EXCEPT ![o] = [inst[o] EXCEPT !.alive = FALSE]])
    BY <1>1, Zenon DEF Mark
  <2> DEFINE now == [inst EXCEPT ![o] = [inst[o] EXCEPT !.alive = FALSE]]
  <2>4. /\ [inst[o] EXCEPT !.alive = FALSE] \in Instance
        /\ [inst[o] EXCEPT !.alive = FALSE].pc = inst[o].pc
        /\ [inst[o] EXCEPT !.alive = FALSE].joinable = inst[o].joinable
    BY <1>0, <2>2 DEF Instance
  <2>5. /\ now \in [Obj -> Instance]
        /\ \A q \in Obj : now[q].pc = inst[q].pc /\ now[q].joinable = inst[q].joinable
    BY <1>0, <2>2, <2>4
  <2>6. /\ ContinuesReaping(t, AfterStop(t), Nobody, DeadBy(t, o, instances))
        /\ UNCHANGED <<instances, proc, dir, loginWorld>>
    BY <1>1 DEF Mark
  <2>7. /\ AfterStop(t) \in {"make", "remove", "idle"}
        /\ caller[t].act = "status" => AfterStop(t) = "idle"
    BY <1>0, AfterStopPlaces
  <2> HIDE DEF now
  <2>8. inst' = Dropped(t, o, instances, now)
    BY <2>3 DEF now
  <2> QED BY <2>1, <2>5, <2>6, <2>7, <2>8, LettingGoStep
<1>2. CASE Release(t)
  <2>1. Does(t, "release")
    BY <1>2 DEF Release
  <2>2. /\ inst' = Dropped(t, o, instances, inst)
        /\ ContinuesReaping(t, "idle", Nobody, DeadBy(t, o, instances))
        /\ UNCHANGED <<instances, proc, dir, loginWorld>>
    BY <1>2 DEF Release
  <2> QED BY <1>0, <2>1, <2>2, LettingGoStep
<1> QED BY <1>1, <1>2

LEMMA StartThreadStep ==
  ASSUME LoginInv, NEW t \in Threads, StartThread(t) PROVE LoginInv'
<1> DEFINE o == caller[t].obj
<1>0. LoginTypeOK /\ HandInv /\ OwnInv /\ WorkerInv /\ ProcInv /\ SoleInv
  BY DEF LoginInv
<1>b. UNCHANGED <<instances, proc, dir, calls, crashes, overlapped>>
  BY DEF loginWorld, StartThread
<1>1. /\ caller[t].at = "thread" /\ caller[t].dead = Nobody /\ caller[t] # NoCall
      /\ o \in Obj /\ o # Nobody /\ caller[t].act # "status"
  <2>1. caller[t].at = "thread" /\ caller[t].dead = Nobody /\ caller[t] # NoCall /\ o \in Obj
    BY <1>0, AtWork DEF StartThread, Holding
  <2> QED BY <1>0, <2>1, LoginConstants DEF HandInv
<1>2. inst \in [Obj -> Instance] /\ inst[o] \in Instance
  BY <1>0, <1>1, LoginTypes
<1>3. inst' = [inst EXCEPT ![o] = [inst[o] EXCEPT !.joinable = TRUE, !.pc = "start"]]
  BY <1>1, <1>2 DEF StartThread
<1>4. /\ [inst[o] EXCEPT !.joinable = TRUE, !.pc = "start"] \in Instance
      /\ [inst[o] EXCEPT !.joinable = TRUE, !.pc = "start"].pc = "start"
      /\ [inst[o] EXCEPT !.joinable = TRUE, !.pc = "start"].joinable = TRUE
  BY <1>2 DEF Instance
<1>5. /\ inst' \in [Obj -> Instance] /\ inst'[o].pc = "start" /\ inst'[o].joinable = TRUE
      /\ \A q \in Obj \ {o} : inst'[q] = inst[q]
  BY <1>1, <1>2, <1>3, <1>4
<1>6. /\ caller' \in [Threads -> LoginCall]
      /\ \A u \in Threads \ {t} : caller'[u] = caller[u]
      /\ caller'[t].at = "release" /\ caller'[t].obj = o /\ caller'[t].dead = Nobody
      /\ caller'[t] # NoCall => caller'[t].act = caller[t].act
      /\ HandInv'
  <2>1. Continues(t, "release", o)
    BY DEF StartThread
  <2>2. o \in Pointer /\ Nobody \in Pointer /\ "release" \in Places /\ "release" \in Holding
    BY <1>1 DEF Pointer, Places, Holding
  <2> QED BY <1>0, <1>1, <2>1, <2>2, GoesOn DEF Continues
<1>7. \A u \in Threads : caller'[u].obj = caller[u].obj /\ caller'[u].dead = caller[u].dead
  BY <1>1, <1>6
<1>8. \A u \in Threads : caller[u].obj \in Pointer /\ caller[u].dead \in Pointer
  BY <1>0, LoginTypes
<1>9. inst[o].pc = "made" /\ \A u \in Threads \ {t} : caller[u].at \in Launching => caller[u].obj # o
  BY <1>0, <1>1 DEF WorkerInv, Launching
<1>10. LoginTypeOK'
  <2>1. \A u \in Threads : caller'[u].obj # Nobody => inst'[caller'[u].obj].pc # "unused"
    BY <1>0, <1>5, <1>7, <1>8, LoginTypes DEF Pointer
  <2> QED BY <1>0, <1>b, <1>5, <1>6, <2>1, LoginTypes, NewTypes
<1>11. OwnInv'
  <2>1. \A q \in Obj : inst'[q].pc # "unused" => Owned(q)'
    <3>1. \A q \in Obj : inst'[q].pc # "unused" => inst[q].pc # "unused"
      BY <1>5, <1>9
    <3>2. \A q \in Obj : Owned(q) => Owned(q)'
      BY <1>b, <1>7 DEF Owned
    <3> QED BY <1>0, <3>1, <3>2 DEF OwnInv
  <2>2. \A q \in Obj : inst[q].pc # "unused" => inst'[q].pc # "unused"
    BY <1>5
  <2>3. instances' # Nobody => inst'[instances'].pc # "unused"
    BY <1>0, <1>b, <2>2, LoginTypes DEF OwnInv, Pointer
  <2>4. \A u \in Threads : caller'[u].dead # Nobody =>
          /\ caller'[u].dead # instances' /\ inst'[caller'[u].dead].pc # "unused"
          /\ \A v \in Threads : /\ caller'[v].obj # caller'[u].dead
                                /\ v # u => caller'[v].dead # caller'[u].dead
    BY <1>0, <1>b, <1>7, <1>8, <2>2 DEF OwnInv, Pointer
  <2> QED BY <2>1, <2>3, <2>4 DEF OwnInv
<1>12. WorkerInv'
  <2>1. \A q \in Obj : Works(q)' => inst'[q].joinable
    BY <1>0, <1>5 DEF WorkerInv, Works
  <2>2. ASSUME NEW u \in Threads, caller'[u].at \in Launching
        PROVE  /\ inst'[caller'[u].obj].pc = "made"
               /\ \A v \in Threads \ {u} : caller'[v].at \in Launching => caller'[v].obj # caller'[u].obj
    <3>1. u # t /\ caller'[u] = caller[u] /\ caller[u].at \in Launching
      BY <1>6, <2>2 DEF Launching
    <3>2. caller[u].obj \in Obj /\ caller[u].obj # o
      BY <1>0, <1>8, <1>9, <3>1 DEF HandInv, Launching, Holding, Pointer
    <3>3. /\ inst[caller[u].obj].pc = "made"
          /\ \A v \in Threads \ {u} : caller[v].at \in Launching => caller[v].obj # caller[u].obj
      BY <1>0, <3>1 DEF WorkerInv
    <3>4. \A v \in Threads \ {u} : caller'[v].at \in Launching => caller'[v].obj # caller[u].obj
      BY <1>6, <3>3 DEF Launching
    <3> QED BY <1>5, <3>1, <3>2, <3>3, <3>4
  <2> QED BY <2>1, <2>2 DEF WorkerInv
<1>13. ProcInv'
  BY <1>0, <1>b, <1>5, <1>9 DEF ProcInv
<1>14. SoleInv'
  <2> SUFFICES ASSUME ~overlapped PROVE SoleInv'
    BY <1>b DEF SoleInv
  <2>0. /\ \A v \in Threads : \A u \in Threads \ {v} :
             caller[v] # NoCall /\ caller[u] # NoCall => "status" \in {caller[v].act, caller[u].act}
        /\ \A u \in Threads : caller[u].dead = Nobody
        /\ \A q \in Obj : inst[q].joinable =>
              q = instances \/ \E u \in Threads : caller[u].at \in Stopping /\ caller[u].obj = q
        /\ \A u \in Threads :
              /\ caller[u].at \in Stopping \cup {"mark", "make", "remove"} => instances = Nobody
              /\ caller[u].at \in Launching => instances = caller[u].obj
        /\ \A q \in Obj : Works(q) /\ inst[q].pc # "start" => dir
    BY <1>0 DEF SoleInv
  <2>1. \A v \in Threads : \A u \in Threads \ {v} :
          caller'[v] # NoCall /\ caller'[u] # NoCall => "status" \in {caller'[v].act, caller'[u].act}
    BY <1>1, <1>6, <2>0
  <2>2. \A u \in Threads : caller'[u].dead = Nobody
    BY <1>7, <2>0
  <2>3. \A q \in Obj : inst'[q].joinable =>
          q = instances' \/ \E u \in Threads : caller'[u].at \in Stopping /\ caller'[u].obj = q
    <3> TAKE q \in Obj
    <3> HAVE inst'[q].joinable
    <3>1. CASE q = o
      BY <1>1, <1>b, <2>0, <3>1 DEF Launching
    <3>2. CASE q = instances
      BY <1>b, <3>2
    <3>3. CASE q # instances /\ q # o
      <4>1. PICK u \in Threads : caller[u].at \in Stopping /\ caller[u].obj = q
        BY <1>5, <2>0, <3>3
      <4>2. u # t
        BY <1>1, <4>1 DEF Stopping
      <4> QED BY <1>6, <4>1, <4>2
    <3> QED BY <3>1, <3>2, <3>3
  <2>4. \A u \in Threads :
          /\ caller'[u].at \in Stopping \cup {"mark", "make", "remove"} => instances' = Nobody
          /\ caller'[u].at \in Launching => instances' = caller'[u].obj
    BY <1>6, <1>b, <2>0 DEF Stopping, Launching
  <2>5. \A q \in Obj : Works(q)' /\ inst'[q].pc # "start" => dir'
    BY <1>b, <1>5, <2>0 DEF Works
  <2> QED BY <2>1, <2>2, <2>3, <2>4, <2>5 DEF SoleInv
<1> QED BY <1>6, <1>10, <1>11, <1>12, <1>13, <1>14 DEF LoginInv

LEMMA ReapStep ==
  ASSUME LoginInv, NEW t \in Threads, Reap(t) PROVE LoginInv'
<1> DEFINE e == caller[t].dead
<1>0. LoginTypeOK /\ HandInv /\ OwnInv /\ WorkerInv /\ ProcInv /\ SoleInv
  BY DEF LoginInv
<1>b. UNCHANGED <<instances, proc, dir, calls, crashes, overlapped>>
  BY DEF loginWorld, Reap
<1>1. /\ e # Nobody /\ e \in Obj /\ inst[e].pc = "ended" /\ caller[t] # NoCall
      /\ inst' = [inst EXCEPT ![e] = UnusedInst] /\ overlapped
  <2>1. e # Nobody /\ inst[e].pc = "ended" /\ inst' = [inst EXCEPT ![e] = UnusedInst]
    BY DEF Reap
  <2>2. e \in Obj /\ overlapped
    BY <1>0, <2>1, LoginTypes DEF Pointer, SoleInv
  <2>3. NoCall.dead = Nobody
    BY DEF NoCall
  <2> QED BY <2>1, <2>2, <2>3
<1>2. /\ inst' \in [Obj -> Instance] /\ inst'[e].pc = "unused"
      /\ \A q \in Obj \ {e} : inst'[q] = inst[q]
  <2>1. inst \in [Obj -> Instance] /\ UnusedInst \in Instance /\ UnusedInst.pc = "unused"
    BY <1>0, LoginTypes, LoginConstants DEF UnusedInst
  <2> QED BY <1>1, <2>1
<1>3. /\ e # instances /\ \A u \in Threads : /\ caller[u].obj # e
                                             /\ u # t => caller[u].dead # e
  BY <1>0, <1>1 DEF OwnInv
<1>4. /\ caller' \in [Threads -> LoginCall]
      /\ \A u \in Threads \ {t} : caller'[u] = caller[u]
      /\ caller'[t].at = caller[t].at /\ caller'[t].obj = caller[t].obj /\ caller'[t].dead = Nobody
      /\ HandInv'
  <2>1. Continues(t, caller[t].at, caller[t].obj)
    BY DEF Reap
  <2>2. caller[t].obj \in Pointer /\ Nobody \in Pointer /\ caller[t].at \in Places
    BY <1>0, LoginTypes DEF Pointer
  <2>3. /\ caller[t].obj # Nobody <=> caller[t].at \in Holding
        /\ caller[t].act = "status" => caller[t].at \in {"idle", "find", "release"}
    BY <1>0 DEF HandInv
  <2> QED BY <1>0, <1>1, <2>1, <2>2, <2>3, GoesOn DEF Continues
<1>5. \A u \in Threads : /\ caller'[u].obj = caller[u].obj /\ caller'[u].at = caller[u].at
                         /\ caller[u].obj \in Pointer /\ caller[u].dead \in Pointer
                         /\ u # t => caller'[u].dead = caller[u].dead
  BY <1>0, <1>4, LoginTypes
<1>6. LoginTypeOK'
  <2>1. \A u \in Threads : caller'[u].obj # Nobody => inst'[caller'[u].obj].pc # "unused"
    BY <1>0, <1>2, <1>3, <1>5, LoginTypes DEF Pointer
  <2> QED BY <1>0, <1>b, <1>2, <1>4, <2>1, LoginTypes, NewTypes
<1>7. OwnInv'
  <2>1. \A q \in Obj : inst'[q].pc # "unused" => Owned(q)'
    <3> TAKE q \in Obj
    <3> HAVE inst'[q].pc # "unused"
    <3>1. q # e /\ Owned(q)
      BY <1>0, <1>2 DEF OwnInv
    <3>2. CASE q = instances
      BY <1>b, <3>2 DEF Owned
    <3>3. CASE q # instances
      <4>1. PICK u \in Threads : caller[u].obj = q \/ caller[u].dead = q
        BY <3>1, <3>3 DEF Owned
      <4> QED BY <1>5, <3>1, <4>1 DEF Owned
    <3> QED BY <3>2, <3>3
  <2>2. instances' # Nobody => inst'[instances'].pc # "unused"
    BY <1>0, <1>2, <1>3, <1>b, LoginTypes DEF OwnInv, Pointer
  <2>3. ASSUME NEW u \in Threads, caller'[u].dead # Nobody
        PROVE  /\ caller'[u].dead # instances' /\ inst'[caller'[u].dead].pc # "unused"
               /\ \A v \in Threads : /\ caller'[v].obj # caller'[u].dead
                                     /\ v # u => caller'[v].dead # caller'[u].dead
    <3>1. u # t /\ caller'[u].dead = caller[u].dead /\ caller[u].dead \in Obj /\ caller[u].dead # e
      BY <1>3, <1>4, <1>5, <2>3 DEF Pointer
    <3>2. /\ caller[u].dead # instances /\ inst[caller[u].dead].pc # "unused"
          /\ \A v \in Threads : /\ caller[v].obj # caller[u].dead
                                /\ v # u => caller[v].dead # caller[u].dead
      BY <1>0, <2>3, <3>1 DEF OwnInv
    <3>3. \A v \in Threads : caller'[v].dead \in {caller[v].dead, Nobody}
      BY <1>4, <1>5
    <3> QED BY <1>2, <1>5, <1>b, <2>3, <3>1, <3>2, <3>3
  <2> QED BY <2>1, <2>2, <2>3 DEF OwnInv
<1>8. WorkerInv'
  <2>1. \A q \in Obj : Works(q)' => inst'[q].joinable
    BY <1>0, <1>2 DEF WorkerInv, Works
  <2>2. \A u \in Threads : caller[u].at \in Launching => caller[u].obj \in Obj
    BY <1>0, <1>5 DEF HandInv, Launching, Holding, Pointer
  <2> QED BY <1>0, <1>2, <1>3, <1>5, <2>1, <2>2 DEF WorkerInv
<1>9. ProcInv'
  BY <1>0, <1>1, <1>2, <1>b DEF ProcInv
<1>10. SoleInv'
  BY <1>1, <1>b DEF SoleInv
<1> QED BY <1>4, <1>6, <1>7, <1>8, <1>9, <1>10 DEF LoginInv

LEMMA RemoveStep ==
  ASSUME LoginInv, NEW t \in Threads, Remove(t) PROVE LoginInv'
<1>0. LoginTypeOK /\ HandInv /\ OwnInv /\ WorkerInv /\ ProcInv /\ SoleInv
  BY DEF LoginInv
<1>b. UNCHANGED <<instances, inst, proc, calls, crashes, overlapped>> /\ dir' = FALSE
  BY DEF loginWorld, Remove
<1>1. /\ caller[t].at = "remove" /\ caller[t].dead = Nobody /\ caller[t] # NoCall
      /\ caller[t].obj = Nobody /\ caller[t].act # "status"
  <2>1. /\ caller[t].at = "remove" /\ caller[t].dead = Nobody /\ caller[t] # NoCall
        /\ caller[t].obj = Nobody
    BY <1>0, AtWork DEF Remove, Holding
  <2> QED BY <1>0, <2>1 DEF HandInv
<1>2. /\ caller' \in [Threads -> LoginCall]
      /\ \A u \in Threads \ {t} : caller'[u] = caller[u]
      /\ caller'[t].at = "idle" /\ caller'[t].obj = Nobody /\ caller'[t].dead = Nobody
      /\ caller'[t] # NoCall => caller'[t].act = caller[t].act
      /\ HandInv'
  <2>1. Continues(t, "idle", Nobody) /\ Nobody \in Pointer /\ "idle" \in Places /\ "idle" \notin Holding
    BY DEF Remove, Pointer, Places, Holding
  <2> QED BY <1>0, <1>1, <2>1, GoesOn DEF Continues
<1>3. \A u \in Threads : /\ caller'[u].obj = caller[u].obj /\ caller'[u].dead = caller[u].dead
                         /\ caller[u].dead \in Pointer
  BY <1>0, <1>1, <1>2, LoginTypes
<1>4. LoginTypeOK'
  BY <1>0, <1>b, <1>2, <1>3, LoginTypes, NewTypes
<1>5. OwnInv'
  <2>1. \A q \in Obj : Owned(q) => Owned(q)'
    BY <1>b, <1>3 DEF Owned
  <2> QED BY <1>0, <1>b, <1>3, <2>1, LoginTypes, OwnersStay
<1>6. WorkerInv' /\ ProcInv'
  <2>1. \A u \in Threads : caller'[u].at \in Launching =>
           /\ caller[u].at \in Launching /\ caller'[u].obj = caller[u].obj
           /\ caller[u].obj \in Obj
    <3>1. \A u \in Threads : caller[u].at \in Launching => caller[u].obj \in Obj
      BY <1>0, LoginTypes DEF HandInv, Launching, Holding, Pointer
    <3> QED BY <1>2, <3>1 DEF Launching
  <2> QED BY <1>0, <1>b, <2>1, WorkStays
<1>7. SoleInv'
  <2> SUFFICES ASSUME ~overlapped PROVE SoleInv'
    BY <1>b DEF SoleInv
  <2>0. /\ \A v \in Threads : \A u \in Threads \ {v} :
             caller[v] # NoCall /\ caller[u] # NoCall => "status" \in {caller[v].act, caller[u].act}
        /\ \A u \in Threads : caller[u].dead = Nobody
        /\ \A q \in Obj : inst[q].joinable =>
              q = instances \/ \E u \in Threads : caller[u].at \in Stopping /\ caller[u].obj = q
        /\ \A u \in Threads :
              /\ caller[u].at \in Stopping \cup {"mark", "make", "remove"} => instances = Nobody
              /\ caller[u].at \in Launching => instances = caller[u].obj
    BY <1>0 DEF SoleInv
  <2>1. \A v \in Threads : \A u \in Threads \ {v} :
          caller'[v] # NoCall /\ caller'[u] # NoCall => "status" \in {caller'[v].act, caller'[u].act}
    BY <1>1, <1>2, <2>0
  <2>2. \A u \in Threads : caller'[u].dead = Nobody
    BY <1>3, <2>0
  <2>3. \A q \in Obj : ~inst[q].joinable
    <3> SUFFICES ASSUME NEW q \in Obj, inst[q].joinable PROVE FALSE
      OBVIOUS
    <3>1. instances = Nobody /\ q # instances
      BY <1>1, <2>0, LoginConstants
    <3>2. PICK u \in Threads : caller[u].at \in Stopping /\ caller[u].obj = q
      BY <2>0, <3>1
    <3>3. u # t /\ caller[u] # NoCall /\ caller[u].act # "status"
      BY <1>0, <1>1, <3>2 DEF HandInv, Stopping, NoCall
    <3> QED BY <1>1, <2>0, <3>3
  <2>4. \A u \in Threads :
          /\ caller'[u].at \in Stopping \cup {"mark", "make", "remove"} => instances' = Nobody
          /\ caller'[u].at \in Launching => instances' = caller'[u].obj
    BY <1>2, <1>b, <2>0 DEF Stopping, Launching
  <2>5. \A q \in Obj : ~Works(q)'
    BY <1>0, <1>b, <2>3 DEF WorkerInv, Works
  <2> QED BY <1>b, <2>1, <2>2, <2>3, <2>4, <2>5 DEF SoleInv
<1> QED BY <1>2, <1>4, <1>5, <1>6, <1>7 DEF LoginInv

(* What launch makes, and what happens to the Instance it overwrites.      *)
LEMMA MakeFacts ==
  ASSUME LoginInv, NEW t \in Threads, Make(t)
  PROVE  \E o \in Obj, d \in Pointer :
    /\ inst[o].pc = "unused" /\ o # instances /\ instances' = o
    /\ ContinuesReaping(t, "begin", o, d)
    /\ inst' \in [Obj -> Instance] /\ inst'[o].pc = "made" /\ ~inst'[o].joinable
    /\ \A q \in Obj \ {o, instances} : inst'[q] = inst[q]
    /\ d \in {Nobody, instances}
    /\ instances # Nobody =>
         /\ \/ /\ inst'[instances].pc = inst[instances].pc
               /\ inst'[instances].joinable = inst[instances].joinable
            \/ /\ inst'[instances] = UnusedInst /\ ~inst[instances].joinable /\ d = Nobody
               /\ \A u \in Threads \ {t} : caller[u].obj # instances
         /\ d # Nobody => /\ \A u \in Threads \ {t} : caller[u].obj # instances
                          /\ inst'[instances].pc = inst[instances].pc
         /\ d = Nobody /\ inst'[instances].pc # "unused" =>
              \E u \in Threads \ {t} : caller[u].obj = instances
<1>0. LoginTypeOK /\ OwnInv /\ inst \in [Obj -> Instance] /\ instances \in Pointer
  BY LoginTypes DEF LoginInv
<1> DEFINE new == [UnusedInst EXCEPT !.settings = caller[t].settings, !.pc = "made"]
           made(o) == [inst EXCEPT ![o] = new]
<1>1. PICK o \in Obj :
        /\ inst[o].pc = "unused"
        /\ inst' = IF instances = Nobody THEN made(o) ELSE Dropped(t, instances, o, made(o))
        /\ ContinuesReaping(t, "begin", o,
                            IF instances = Nobody THEN Nobody ELSE DeadBy(t, instances, o))
        /\ instances' = o
  BY Zenon DEF Make
<1>2. o # instances
  BY <1>0, <1>1, LoginConstants DEF OwnInv
<1>3. new \in Instance /\ new.pc = "made" /\ new.joinable = FALSE
  <2>1. caller[t].settings \in Settings
    BY <1>0, LoginTypes DEF LoginCall
  <2>2. UnusedInst \in Instance /\ UnusedInst.joinable = FALSE
    BY LoginConstants DEF UnusedInst
  <2> QED BY <2>1, <2>2 DEF Instance
<1>4. made(o) \in [Obj -> Instance] /\ made(o)[o] = new /\ \A q \in Obj \ {o} : made(o)[q] = inst[q]
  BY <1>0, <1>3
<1>5. CASE instances = Nobody
  <2>1. inst' = made(o) /\ ContinuesReaping(t, "begin", o, Nobody) /\ Nobody \in Pointer
    BY <1>1, <1>5 DEF Pointer
  <2>2. inst'[o] = new /\ \A q \in Obj \ {o} : inst'[q] = inst[q]
    BY <1>4, <2>1
  <2> HIDE DEF new, made
  <2> QED BY <1>1, <1>2, <1>3, <1>4, <1>5, <2>1, <2>2
<1>6. CASE instances # Nobody
  <2>1. /\ inst' = Dropped(t, instances, o, made(o))
        /\ ContinuesReaping(t, "begin", o, DeadBy(t, instances, o))
    BY <1>1, <1>6
  <2>2. instances \in Obj /\ o \in Pointer /\ made(o)[instances] = inst[instances]
    BY <1>0, <1>2, <1>4, <1>6 DEF Pointer
  <2> DEFINE now == made(o)
             e == DeadBy(t, instances, o)
  <2> HIDE DEF new, made, now
  <2>3. now \in [Obj -> Instance] /\ now[instances] = inst[instances] /\ inst' = Dropped(t, instances, o, now)
    BY <1>4, <2>1, <2>2 DEF now
  <2>4. /\ inst' \in [Obj -> Instance] /\ \A q \in Obj \ {instances} : inst'[q] = now[q]
        /\ e \in {Nobody, instances}
        /\ e = instances => /\ instances # o /\ now[instances].joinable
                            /\ \A u \in Threads \ {t} : caller[u].obj # instances
        /\ \/ /\ inst'[instances].pc = now[instances].pc
              /\ inst'[instances].joinable = now[instances].joinable
           \/ /\ inst'[instances] = UnusedInst /\ ~now[instances].joinable /\ e = Nobody
              /\ instances # o /\ \A u \in Threads \ {t} : caller[u].obj # instances
        /\ e = instances => inst'[instances].pc = now[instances].pc
        /\ e = Nobody /\ inst'[instances].pc # "unused" =>
             instances = o \/ \E u \in Threads \ {t} : caller[u].obj = instances
    BY <1>0, <2>2, <2>3, DropFacts
  <2>5. inst'[o] = new /\ \A q \in Obj \ {o, instances} : inst'[q] = inst[q]
    <3>1. now[o] = new /\ \A q \in Obj \ {o} : now[q] = inst[q]
      BY <1>4 DEF now
    <3> QED BY <1>2, <2>4, <3>1
  <2> HIDE DEF e
  <2>6. ContinuesReaping(t, "begin", o, e) /\ e \in Pointer
    BY <2>1, <2>2, <2>4 DEF e, Pointer
  <2> QED BY <1>1, <1>2, <1>3, <1>6, <2>3, <2>4, <2>5, <2>6
<1> QED BY <1>5, <1>6

LEMMA MakeStep ==
  ASSUME LoginInv, NEW t \in Threads, Make(t) PROVE LoginInv'
<1>0. LoginTypeOK /\ HandInv /\ OwnInv /\ WorkerInv /\ ProcInv /\ SoleInv
  BY DEF LoginInv
<1>b. UNCHANGED <<proc, dir, calls, crashes, overlapped>>
  BY DEF loginWorld, Make
<1>1. /\ caller[t].at = "make" /\ caller[t].dead = Nobody /\ caller[t] # NoCall
      /\ caller[t].obj = Nobody /\ caller[t].act # "status"
  <2>1. /\ caller[t].at = "make" /\ caller[t].dead = Nobody /\ caller[t] # NoCall
        /\ caller[t].obj = Nobody
    BY <1>0, AtWork DEF Make, Holding
  <2> QED BY <1>0, <2>1 DEF HandInv
<1>2. PICK o \in Obj, d \in Pointer :
    /\ inst[o].pc = "unused" /\ o # instances /\ instances' = o
    /\ ContinuesReaping(t, "begin", o, d)
    /\ inst' \in [Obj -> Instance] /\ inst'[o].pc = "made" /\ ~inst'[o].joinable
    /\ \A q \in Obj \ {o, instances} : inst'[q] = inst[q]
    /\ d \in {Nobody, instances}
    /\ instances # Nobody =>
         /\ \/ /\ inst'[instances].pc = inst[instances].pc
               /\ inst'[instances].joinable = inst[instances].joinable
            \/ /\ inst'[instances] = UnusedInst /\ ~inst[instances].joinable /\ d = Nobody
               /\ \A u \in Threads \ {t} : caller[u].obj # instances
         /\ d # Nobody => /\ \A u \in Threads \ {t} : caller[u].obj # instances
                          /\ inst'[instances].pc = inst[instances].pc
         /\ d = Nobody /\ inst'[instances].pc # "unused" =>
              \E u \in Threads \ {t} : caller[u].obj = instances
  BY MakeFacts
<1>3. /\ caller' \in [Threads -> LoginCall]
      /\ \A u \in Threads \ {t} : caller'[u] = caller[u]
      /\ caller'[t].at = "begin" /\ caller'[t].obj = o /\ caller'[t].dead = d
      /\ caller'[t] # NoCall => caller'[t].act = caller[t].act
      /\ HandInv'
  <2>1. o \in Pointer /\ "begin" \in Places /\ "begin" \in Holding /\ o # Nobody
    BY LoginConstants DEF Pointer, Places, Holding
  <2> QED BY <1>0, <1>1, <1>2, <2>1, GoesOn
<1>4. /\ \A u \in Threads : caller[u].obj \in Pointer /\ caller[u].dead \in Pointer
      /\ \A u \in Threads : caller[u].obj # o /\ caller[u].dead # o
      /\ o # Nobody /\ instances \in Pointer
      /\ \A u \in Threads : caller[u].dead # Nobody => caller[u].dead # instances
  <2>1. \A u \in Threads : caller[u].obj # o
    BY <1>0, <1>2, LoginTypes, LoginConstants
  <2> QED BY <1>0, <1>2, <2>1, LoginTypes, LoginConstants DEF OwnInv
(* Anything else is as it was, or it was overwritten and nobody had it.    *)
<1>5. \A q \in Obj \ {o} :
        \/ inst'[q].pc = inst[q].pc /\ inst'[q].joinable = inst[q].joinable
        \/ /\ q = instances /\ inst'[q].pc = "unused" /\ ~inst'[q].joinable /\ ~inst[q].joinable
           /\ d = Nobody /\ \A u \in Threads : caller[u].obj # q
  <2>1. UnusedInst.pc = "unused" /\ UnusedInst.joinable = FALSE
    BY DEF UnusedInst
  <2> TAKE q \in Obj \ {o}
  <2>2. CASE q # instances
    BY <1>2, <2>2
  <2>3. CASE q = instances
    <3>1. q # Nobody
      BY LoginConstants
    <3> QED BY <1>1, <1>2, <2>1, <2>3, <3>1
  <2> QED BY <2>2, <2>3
<1>6. LoginTypeOK'
  <2>1. \A u \in Threads : caller'[u].obj # Nobody => inst'[caller'[u].obj].pc # "unused"
    <3> TAKE u \in Threads
    <3> HAVE caller'[u].obj # Nobody
    <3>1. CASE u = t
      BY <1>2, <1>3, <3>1
    <3>2. CASE u # t
      <4>1. caller'[u].obj = caller[u].obj /\ caller[u].obj \in Obj \ {o}
        BY <1>3, <1>4, <3>2 DEF Pointer
      <4>2. inst[caller[u].obj].pc # "unused"
        BY <1>0, <4>1, LoginTypes, LoginConstants
      <4> QED BY <1>5, <4>1, <4>2
    <3> QED BY <3>1, <3>2
  <2>2. instances' \in Pointer
    BY <1>2 DEF Pointer
  <2> QED BY <1>0, <1>b, <1>2, <1>3, <2>1, <2>2, LoginTypes, NewTypes
<1>7. OwnInv'
  <2>1. \A q \in Obj : inst'[q].pc # "unused" => Owned(q)'
    <3> TAKE q \in Obj
    <3> HAVE inst'[q].pc # "unused"
    <3>1. CASE q = o
      BY <1>2, <3>1 DEF Owned
    <3>2. CASE q # o /\ q = instances
      <4>1. instances # Nobody
        BY <3>2, LoginConstants
      <4>2. CASE d = Nobody
        <5>1. PICK u \in Threads \ {t} : caller[u].obj = q
          BY <1>2, <3>2, <4>1, <4>2
        <5> QED BY <1>3, <5>1 DEF Owned
      <4>3. CASE d = instances
        BY <1>3, <3>2, <4>3 DEF Owned
      <4> QED BY <1>2, <4>2, <4>3
    <3>3. CASE q # o /\ q # instances
      <4>1. Owned(q)
        BY <1>0, <1>2, <3>3 DEF OwnInv
      <4>2. PICK u \in Threads : caller[u].obj = q \/ caller[u].dead = q
        BY <3>3, <4>1 DEF Owned
      <4>3. u # t
        BY <1>1, <4>2, LoginConstants
      <4> QED BY <1>3, <4>2, <4>3 DEF Owned
    <3> QED BY <3>1, <3>2, <3>3
  <2>2. instances' # Nobody => inst'[instances'].pc # "unused"
    BY <1>2
  <2>3. ASSUME NEW u \in Threads, caller'[u].dead # Nobody
        PROVE  /\ caller'[u].dead # instances' /\ inst'[caller'[u].dead].pc # "unused"
               /\ \A v \in Threads : /\ caller'[v].obj # caller'[u].dead
                                     /\ v # u => caller'[v].dead # caller'[u].dead
    <3>1. CASE u = t
      <4>1. caller'[u].dead = instances /\ d = instances /\ instances # Nobody
        BY <1>2, <1>3, <2>3, <3>1
      <4>2. inst'[instances].pc = inst[instances].pc /\ inst[instances].pc # "unused"
        BY <1>0, <1>2, <4>1 DEF OwnInv
      <4>3. \A v \in Threads \ {t} : caller'[v].obj # instances /\ caller'[v].dead # instances
        BY <1>2, <1>3, <1>4, <4>1
      <4>4. caller'[t].obj # instances
        BY <1>2, <1>3
      <4> QED BY <1>2, <3>1, <4>1, <4>2, <4>3, <4>4
    <3>2. CASE u # t
      <4> DEFINE e == caller[u].dead
      <4>1. caller'[u].dead = e /\ e # Nobody /\ e \in Obj \ {o} /\ e # instances
        BY <1>3, <1>4, <2>3, <3>2 DEF Pointer
      <4>2. /\ inst[e].pc # "unused"
            /\ \A v \in Threads : caller[v].obj # e /\ (v # u => caller[v].dead # e)
        BY <1>0, <4>1 DEF OwnInv
      <4>3. inst'[e].pc # "unused"
        BY <1>2, <4>1, <4>2
      <4>4. ASSUME NEW v \in Threads PROVE caller'[v].obj # e /\ (v # u => caller'[v].dead # e)
        BY <1>2, <1>3, <4>1, <4>2
      <4> QED BY <1>2, <4>1, <4>3, <4>4
    <3> QED BY <3>1, <3>2
  <2> QED BY <2>1, <2>2, <2>3 DEF OwnInv
<1>8. WorkerInv'
  <2>1. \A q \in Obj : Works(q)' => inst'[q].joinable
    BY <1>0, <1>2, <1>5 DEF WorkerInv, Works
  <2>2. ASSUME NEW u \in Threads, caller'[u].at \in Launching
        PROVE  /\ inst'[caller'[u].obj].pc = "made"
               /\ \A v \in Threads \ {u} : caller'[v].at \in Launching => caller'[v].obj # caller'[u].obj
    <3>1. CASE u = t
      BY <1>2, <1>3, <1>4, <3>1
    <3>2. CASE u # t
      <4>1. caller'[u] = caller[u] /\ caller[u].at \in Launching
        BY <1>3, <2>2, <3>2
      <4>2. caller[u].obj \in Obj \ {o}
        BY <1>0, <1>4, <4>1 DEF HandInv, Launching, Holding, Pointer
      <4>3. /\ inst[caller[u].obj].pc = "made"
            /\ \A v \in Threads \ {u} : caller[v].at \in Launching => caller[v].obj # caller[u].obj
        BY <1>0, <4>1 DEF WorkerInv
      <4>4. inst'[caller[u].obj].pc = "made"
        BY <1>5, <4>2, <4>3
      <4>5. \A v \in Threads \ {u} : caller'[v].at \in Launching => caller'[v].obj # caller[u].obj
        BY <1>3, <4>2, <4>3
      <4> QED BY <4>1, <4>4, <4>5
    <3> QED BY <3>1, <3>2
  <2> QED BY <2>1, <2>2 DEF WorkerInv
<1>9. ProcInv'
  <2>1. ASSUME NEW q \in Obj, proc[q] # "none" PROVE inst'[q].pc = "run"
    <3>1. inst[q].pc = "run" /\ inst[q].joinable
      BY <1>0, <2>1 DEF ProcInv, WorkerInv, Works
    <3>2. q # o
      BY <1>2, <3>1
    <3> QED BY <1>5, <3>1, <3>2
  <2>2. proc[Nobody] = "up" => \A q \in Obj : inst'[q].pc \notin {"spawn", "run"}
    BY <1>0, <1>2, <1>5 DEF ProcInv
  <2> QED BY <1>b, <2>1, <2>2 DEF ProcInv
<1>10. SoleInv'
  <2> SUFFICES ASSUME ~overlapped PROVE SoleInv'
    BY <1>b DEF SoleInv
  <2>0. /\ \A v \in Threads : \A u \in Threads \ {v} :
             caller[v] # NoCall /\ caller[u] # NoCall => "status" \in {caller[v].act, caller[u].act}
        /\ \A u \in Threads : caller[u].dead = Nobody
        /\ \A q \in Obj : inst[q].joinable =>
              q = instances \/ \E u \in Threads : caller[u].at \in Stopping /\ caller[u].obj = q
        /\ \A u \in Threads :
              /\ caller[u].at \in Stopping \cup {"mark", "make", "remove"} => instances = Nobody
              /\ caller[u].at \in Launching => instances = caller[u].obj
        /\ \A q \in Obj : Works(q) /\ inst[q].pc # "start" => dir
    BY <1>0 DEF SoleInv
  <2>a. instances = Nobody /\ d = Nobody
    BY <1>1, <1>2, <2>0
  <2>b. \A u \in Threads \ {t} : caller[u].at \notin Stopping \cup Launching \cup {"mark", "make", "remove"}
    <3> SUFFICES ASSUME NEW u \in Threads \ {t},
                        caller[u].at \in Stopping \cup Launching \cup {"mark", "make", "remove"}
                 PROVE  FALSE
      OBVIOUS
    <3>1. caller[u] # NoCall /\ caller[u].act # "status"
      BY <1>0 DEF HandInv, Stopping, Launching, NoCall
    <3> QED BY <1>1, <2>0, <3>1
  <2>1. \A v \in Threads : \A u \in Threads \ {v} :
          caller'[v] # NoCall /\ caller'[u] # NoCall => "status" \in {caller'[v].act, caller'[u].act}
    BY <1>1, <1>3, <2>0
  <2>2. \A u \in Threads : caller'[u].dead = Nobody
    BY <1>3, <2>0, <2>a
  <2>3. \A q \in Obj : ~inst'[q].joinable
    <3> SUFFICES ASSUME NEW q \in Obj, inst'[q].joinable PROVE FALSE
      OBVIOUS
    <3>1. inst[q].joinable /\ q # instances
      BY <1>2, <1>5, <2>a, LoginConstants
    <3>2. PICK u \in Threads : caller[u].at \in Stopping /\ caller[u].obj = q
      BY <2>0, <3>1
    <3>3. u # t
      BY <1>1, <3>2 DEF Stopping
    <3> QED BY <2>b, <3>2, <3>3
  <2>4. \A u \in Threads :
          /\ caller'[u].at \in Stopping \cup {"mark", "make", "remove"} => instances' = Nobody
          /\ caller'[u].at \in Launching => instances' = caller'[u].obj
    BY <1>2, <1>3, <2>b DEF Stopping, Launching
  <2>5. \A q \in Obj : Works(q)' /\ inst'[q].pc # "start" => dir'
    BY <1>b, <1>2, <1>5, <2>0 DEF Works
  <2> QED BY <2>1, <2>2, <2>3, <2>4, <2>5 DEF SoleInv
<1> QED BY <1>3, <1>6, <1>7, <1>8, <1>9, <1>10 DEF LoginInv

-----------------------------------------------------------------------------
(* A worker goes on or ends.                                               *)
LEMMA WorkerStep ==
  ASSUME LoginInv, NEW o \in Obj, Works(o), inst' \in [Obj -> Instance],
         inst'[o].pc \notin {"unused", "made"}, inst'[o].joinable = inst[o].joinable,
         \A q \in Obj \ {o} : inst'[q] = inst[q],
         UNCHANGED <<instances, caller, loginWorld>>,
         proc' \in [Pointer -> {"none", "up", "dying"}], dir' \in BOOLEAN,
         ProcInv', dir => dir',
         ~overlapped /\ inst'[o].pc # "ended" => dir'
  PROVE  LoginInv'
<1>0. LoginTypeOK /\ HandInv /\ OwnInv /\ WorkerInv /\ ProcInv /\ SoleInv
  BY DEF LoginInv
<1>b. UNCHANGED <<instances, caller, calls, crashes, overlapped>>
  BY DEF loginWorld
<1>1. inst[o].pc \notin {"unused", "made"} /\ inst[o].joinable
  BY <1>0 DEF Works, WorkerInv
<1>2. \A u \in Threads : caller[u].obj \in Pointer /\ caller[u].dead \in Pointer
  BY <1>0, LoginTypes
<1>3. \A q \in Obj : (inst'[q].pc = "unused") <=> (inst[q].pc = "unused")
  BY <1>1
<1>4. LoginTypeOK'
  <2>1. \A u \in Threads : caller'[u].obj # Nobody => inst'[caller'[u].obj].pc # "unused"
    BY <1>0, <1>b, <1>2, <1>3, LoginTypes DEF Pointer
  <2> QED BY <1>0, <1>b, <2>1, LoginTypes, NewTypes
<1>5. HandInv'
  BY <1>0, <1>b DEF HandInv
<1>6. OwnInv'
  <2>1. \A q \in Obj : Owned(q) => Owned(q)'
    BY <1>b DEF Owned
  <2>2. \A q \in Obj : inst'[q].pc # "unused" => Owned(q)'
    BY <1>0, <1>3, <2>1 DEF OwnInv
  <2>3. instances' # Nobody => inst'[instances'].pc # "unused"
    BY <1>0, <1>b, <1>3, LoginTypes DEF OwnInv, Pointer
  <2>4. \A u \in Threads : caller'[u].dead # Nobody =>
          /\ caller'[u].dead # instances' /\ inst'[caller'[u].dead].pc # "unused"
          /\ \A v \in Threads : /\ caller'[v].obj # caller'[u].dead
                                /\ v # u => caller'[v].dead # caller'[u].dead
    BY <1>0, <1>b, <1>2, <1>3 DEF OwnInv, Pointer
  <2> QED BY <2>2, <2>3, <2>4 DEF OwnInv
<1>7. WorkerInv'
  <2>1. \A q \in Obj : Works(q)' => inst'[q].joinable
    BY <1>0, <1>1 DEF WorkerInv, Works
  <2>2. ASSUME NEW u \in Threads, caller[u].at \in Launching
        PROVE  /\ inst'[caller[u].obj].pc = "made"
               /\ \A v \in Threads \ {u} : caller[v].at \in Launching => caller[v].obj # caller[u].obj
    <3>1. caller[u].obj \in Obj
      BY <1>0, <1>2, <2>2 DEF HandInv, Launching, Holding, Pointer
    <3>2. /\ inst[caller[u].obj].pc = "made"
          /\ \A v \in Threads \ {u} : caller[v].at \in Launching => caller[v].obj # caller[u].obj
      BY <1>0, <2>2 DEF WorkerInv
    <3>3. caller[u].obj # o
      BY <1>1, <3>2
    <3> QED BY <3>1, <3>2, <3>3
  <2> QED BY <1>b, <2>1, <2>2 DEF WorkerInv
<1>8. SoleInv'
  <2> SUFFICES ASSUME ~overlapped PROVE SoleInv'
    BY <1>b DEF SoleInv
  <2>1. \A q \in Obj : Works(q)' /\ inst'[q].pc # "start" => dir'
    <3> TAKE q \in Obj
    <3>1. CASE q = o
      BY <3>1 DEF Works
    <3>2. CASE q # o
      BY <1>0, <3>2 DEF SoleInv, Works
    <3> QED BY <3>1, <3>2
  <2>2. \A q \in Obj : inst'[q].joinable = inst[q].joinable
    OBVIOUS
  <2>3. \A q \in Obj : inst'[q].joinable =>
          q = instances' \/ \E u \in Threads : caller'[u].at \in Stopping /\ caller'[u].obj = q
    BY <1>0, <1>b, <2>2 DEF SoleInv
  <2>4. /\ \A v \in Threads : \A u \in Threads \ {v} :
             caller'[v] # NoCall /\ caller'[u] # NoCall => "status" \in {caller'[v].act, caller'[u].act}
        /\ \A u \in Threads : caller'[u].dead = Nobody
        /\ \A u \in Threads :
              /\ caller'[u].at \in Stopping \cup {"mark", "make", "remove"} => instances' = Nobody
              /\ caller'[u].at \in Launching => instances' = caller'[u].obj
    BY <1>0, <1>b DEF SoleInv
  <2> QED BY <2>1, <2>3, <2>4 DEF SoleInv
<1> QED BY <1>4, <1>5, <1>6, <1>7, <1>8 DEF LoginInv

(* What Ended and WorkerGoesOn leave of the Instance.                      *)
LEMMA WorkerFacts ==
  ASSUME LoginTypeOK, NEW o \in Obj,
         NEW step \in {"prepare", "kill", "spawn", "run", "sleep", "ended"},
         WorkerGoesOn(o, step) \/ (step = "ended" /\ Ended(o))
  PROVE  /\ inst' \in [Obj -> Instance] /\ inst'[o].pc = step
         /\ inst'[o].joinable = inst[o].joinable
         /\ \A q \in Obj \ {o} : inst'[q] = inst[q]
<1>1. inst \in [Obj -> Instance] /\ inst[o] \in Instance
  BY LoginTypes
<1>2. CASE WorkerGoesOn(o, step)
  <2>1. inst' = [inst EXCEPT ![o] = [inst[o] EXCEPT !.pc = step]]
    BY <1>2 DEF WorkerGoesOn
  <2>2. /\ [inst[o] EXCEPT !.pc = step] \in Instance /\ [inst[o] EXCEPT !.pc = step].pc = step
        /\ [inst[o] EXCEPT !.pc = step].joinable = inst[o].joinable
    BY <1>1 DEF Instance
  <2> QED BY <1>1, <2>1, <2>2
<1>3. CASE step = "ended" /\ Ended(o)
  <2>1. inst' = [inst EXCEPT ![o] = [inst[o] EXCEPT !.pc = "ended", !.alive = FALSE]]
    BY <1>1, <1>3 DEF Ended
  <2>2. /\ [inst[o] EXCEPT !.pc = "ended", !.alive = FALSE] \in Instance
        /\ [inst[o] EXCEPT !.pc = "ended", !.alive = FALSE].pc = "ended"
        /\ [inst[o] EXCEPT !.pc = "ended", !.alive = FALSE].joinable = inst[o].joinable
    BY <1>1 DEF Instance
  <2> QED BY <1>1, <1>3, <2>1, <2>2
<1> QED BY <1>2, <1>3

LEMMA WorkerSteps ==
  ASSUME LoginInv, NEW o \in Obj, Worker(o) PROVE LoginInv'
<1>0. LoginTypeOK /\ ProcInv /\ SoleInv
  BY DEF LoginInv
<1>a. /\ proc \in [Pointer -> {"none", "up", "dying"}] /\ dir \in BOOLEAN /\ DOMAIN proc = Pointer
      /\ o \in Pointer /\ o # Nobody /\ Obj \subseteq Pointer /\ Nobody \in Pointer
  BY <1>0, LoginTypes, LoginConstants DEF Pointer
<1>b. inst[o].pc \notin {"start", "unused", "made", "ended"} /\ ~overlapped => dir
  BY <1>0 DEF SoleInv, Works
<1>c. inst[o].pc # "run" => proc[o] = "none"
  BY <1>0, <1>a DEF ProcInv
<1>1. CASE OpenDir(o)
  <2>1. inst[o].pc = "start" /\ WorkerGoesOn(o, "prepare") /\ dir' = TRUE
        /\ UNCHANGED <<instances, caller, proc, loginWorld>>
    BY <1>1 DEF OpenDir
  <2>2. /\ inst' \in [Obj -> Instance] /\ inst'[o].pc = "prepare"
        /\ inst'[o].joinable = inst[o].joinable /\ \A q \in Obj \ {o} : inst'[q] = inst[q]
    BY <1>0, <2>1, WorkerFacts
  <2>3. ProcInv'
    BY <1>0, <1>c, <2>1, <2>2 DEF ProcInv
  <2> QED BY <1>a, <2>1, <2>2, <2>3, WorkerStep DEF Works
<1>2. CASE Prepare(o)
  <2>1. /\ inst[o].pc = "prepare" /\ UNCHANGED <<instances, caller, proc, dir, loginWorld>>
        /\ Ended(o) \/ WorkerGoesOn(o, "sleep") \/ WorkerGoesOn(o, "kill")
    BY <1>2 DEF Prepare
  <2>2. /\ inst' \in [Obj -> Instance] /\ inst'[o].pc \in {"ended", "sleep", "kill"}
        /\ inst'[o].joinable = inst[o].joinable /\ \A q \in Obj \ {o} : inst'[q] = inst[q]
    BY <1>0, <2>1, WorkerFacts
  <2>3. ProcInv'
    BY <1>0, <1>c, <2>1, <2>2 DEF ProcInv
  <2> QED BY <1>a, <1>b, <2>1, <2>2, <2>3, WorkerStep DEF Works
<1>3. CASE KillStale(o)
  <2>1. /\ inst[o].pc = "kill" /\ UNCHANGED <<instances, caller, dir, loginWorld>>
        /\ WorkerGoesOn(o, "spawn")
        /\ proc' = [p \in Pointer |-> IF proc[p] = "up" THEN "dying" ELSE proc[p]]
    BY <1>3, <1>a DEF KillStale
  <2>2. /\ inst' \in [Obj -> Instance] /\ inst'[o].pc = "spawn"
        /\ inst'[o].joinable = inst[o].joinable /\ \A q \in Obj \ {o} : inst'[q] = inst[q]
    BY <1>0, <2>1, WorkerFacts
  <2>3. /\ proc' \in [Pointer -> {"none", "up", "dying"}]
        /\ \A p \in Pointer : proc'[p] # "up" /\ (proc'[p] # "none" => proc[p] # "none")
    BY <1>a, <2>1
  <2>4. ProcInv'
    BY <1>0, <1>a, <1>c, <2>1, <2>2, <2>3 DEF ProcInv
  <2> QED BY <1>a, <1>b, <2>1, <2>2, <2>3, <2>4, WorkerStep DEF Works
<1>4. CASE Spawn(o)
  <2>1. /\ inst[o].pc = "spawn" /\ UNCHANGED <<instances, caller, dir, loginWorld>>
        /\ WorkerGoesOn(o, "run") /\ proc' = [proc EXCEPT ![o] = "up"]
    BY <1>4 DEF Spawn
  <2>2. /\ inst' \in [Obj -> Instance] /\ inst'[o].pc = "run"
        /\ inst'[o].joinable = inst[o].joinable /\ \A q \in Obj \ {o} : inst'[q] = inst[q]
    BY <1>0, <2>1, WorkerFacts
  <2>3. /\ proc' \in [Pointer -> {"none", "up", "dying"}] /\ proc'[Nobody] # "up"
        /\ \A q \in Obj \ {o} : proc'[q] = proc[q]
    BY <1>0, <1>a, <2>1 DEF ProcInv
  <2>4. ProcInv'
    BY <1>0, <2>2, <2>3 DEF ProcInv
  <2> QED BY <1>a, <1>b, <2>1, <2>2, <2>3, <2>4, WorkerStep DEF Works
<1>5. CASE Watch(o)
  <2>1. /\ inst[o].pc = "run" /\ UNCHANGED <<instances, caller, dir, loginWorld>>
        /\ \/ Ended(o) /\ proc' = [proc EXCEPT ![o] = "none"]
           \/ proc[o] = "none" /\ WorkerGoesOn(o, "sleep") /\ UNCHANGED proc
    BY <1>5 DEF Watch
  <2>2. /\ inst' \in [Obj -> Instance] /\ inst'[o].pc \in {"ended", "sleep"}
        /\ inst'[o].joinable = inst[o].joinable /\ \A q \in Obj \ {o} : inst'[q] = inst[q]
    BY <1>0, <2>1, WorkerFacts
  <2>3. /\ proc' \in [Pointer -> {"none", "up", "dying"}] /\ proc'[o] = "none"
        /\ \A p \in Pointer \ {o} : proc'[p] = proc[p]
    BY <1>a, <2>1
  <2>4. ProcInv'
    <3>1. proc[Nobody] # "up"
      BY <1>0, <2>1 DEF ProcInv
    <3>2. \A q \in Obj : proc'[q] # "none" => inst'[q].pc = "run"
      BY <1>0, <1>a, <2>2, <2>3 DEF ProcInv
    <3> QED BY <1>a, <2>3, <3>1, <3>2 DEF ProcInv
  <2> QED BY <1>a, <1>b, <2>1, <2>2, <2>3, <2>4, WorkerStep DEF Works
<1>6. CASE Wake(o)
  <2>1. /\ inst[o].pc = "sleep" /\ UNCHANGED <<instances, caller, proc, dir, loginWorld>>
        /\ Ended(o) \/ WorkerGoesOn(o, "prepare")
    BY <1>6 DEF Wake
  <2>2. /\ inst' \in [Obj -> Instance] /\ inst'[o].pc \in {"ended", "prepare"}
        /\ inst'[o].joinable = inst[o].joinable /\ \A q \in Obj \ {o} : inst'[q] = inst[q]
    BY <1>0, <2>1, WorkerFacts
  <2>3. ProcInv'
    BY <1>0, <1>c, <2>1, <2>2 DEF ProcInv
  <2> QED BY <1>a, <1>b, <2>1, <2>2, <2>3, WorkerStep DEF Works
<1> QED BY <1>1, <1>2, <1>3, <1>4, <1>5, <1>6 DEF Worker

LEMMA ExitStep ==
  ASSUME LoginInv, NEW p \in DOMAIN proc, Exit(p) PROVE LoginInv'
<1>0. LoginTypeOK /\ HandInv /\ OwnInv /\ WorkerInv /\ ProcInv /\ SoleInv
  BY DEF LoginInv
<1>1. /\ proc' = [proc EXCEPT ![p] = "none"]
      /\ UNCHANGED <<instances, inst, caller, dir, calls, crashes, overlapped>>
  BY DEF Exit, loginWorld
<1>2. /\ proc' \in [Pointer -> {"none", "up", "dying"}]
      /\ \A q \in Pointer : proc'[q] \in {proc[q], "none"}
  BY <1>0, <1>1, LoginTypes
<1>3. LoginTypeOK'
  BY <1>0, <1>1, <1>2, LoginTypes, NewTypes
<1>4. HandInv'
  BY <1>0, <1>1 DEF HandInv
<1>5. OwnInv'
  BY <1>0, <1>1 DEF OwnInv, Owned
<1>6. WorkerInv'
  BY <1>0, <1>1 DEF WorkerInv, Works
<1>7. ProcInv'
  BY <1>0, <1>1, <1>2 DEF ProcInv, Pointer
<1>8. SoleInv'
  BY <1>0, <1>1 DEF SoleInv, Works
<1> QED BY <1>3, <1>4, <1>5, <1>6, <1>7, <1>8 DEF LoginInv

(* With no Instance and no call everything but the survivors is in order.  *)
Blank ==
    /\ instances = Nobody /\ inst = [o \in Obj |-> UnusedInst]
    /\ caller = [t \in Threads |-> NoCall]
    /\ proc \in [Pointer -> {"none", "up", "dying"}] /\ \A o \in Obj : proc[o] = "none"
    /\ dir \in BOOLEAN /\ overlapped \in BOOLEAN
    /\ calls \in 0..MaxCalls /\ crashes \in 0..MaxCrashes

LEMMA BlankIsSound == Blank => LoginInv
<1> SUFFICES ASSUME Blank PROVE LoginInv
  OBVIOUS
<1> USE DEF Blank
<1>1. /\ \A o \in Obj : inst[o].pc = "unused" /\ inst[o].joinable = FALSE
      /\ inst \in [Obj -> Instance]
  BY LoginConstants DEF UnusedInst
<1>2. /\ caller \in [Threads -> LoginCall]
      /\ \A t \in Threads : /\ caller[t] = NoCall /\ caller[t].at = "idle" /\ caller[t].act = "none"
                            /\ caller[t].obj = Nobody /\ caller[t].dead = Nobody
  BY LoginConstants DEF NoCall
<1>3. LoginTypeOK
  BY <1>1, <1>2 DEF LoginTypeOK, Instance, LoginCall, Places, Pointer
<1>4. HandInv
  BY <1>2 DEF HandInv, Holding
<1>5. OwnInv
  BY <1>1, <1>2 DEF OwnInv
<1>6. WorkerInv
  BY <1>1, <1>2 DEF WorkerInv, Works, Launching
<1>7. ProcInv
  BY <1>1 DEF ProcInv
<1>8. SoleInv
  BY <1>1, <1>2 DEF SoleInv, Works, Stopping, Launching
<1> QED BY <1>3, <1>4, <1>5, <1>6, <1>7, <1>8 DEF LoginInv

LEMMA LoginStarts == LoginInit => LoginInv
<1> SUFFICES ASSUME LoginInit PROVE LoginInv
  OBVIOUS
<1>1. proc \in [Pointer -> {"none", "up", "dying"}] /\ \A o \in Obj : proc[o] = "none"
  BY DEF LoginInit, Pointer
<1>2. calls \in 0..MaxCalls /\ crashes \in 0..MaxCrashes
  BY LoginConstants DEF LoginInit
<1>3. Blank
  BY <1>1, <1>2 DEF LoginInit, Blank
<1> QED BY <1>3, BlankIsSound

LEMMA CrashStep == LoginInv /\ Crash => LoginInv'
<1>1. LoginInv /\ Crash => Blank'
  <2> SUFFICES ASSUME LoginInv, Crash PROVE Blank'
    OBVIOUS
  <2>1. /\ LoginTypeOK /\ instances' = Nobody /\ inst' = [o \in Obj |-> UnusedInst]
        /\ caller' = [t \in Threads |-> NoCall]
        /\ crashes' = crashes + 1 /\ crashes < MaxCrashes /\ UNCHANGED <<dir, calls, overlapped>>
    BY DEF LoginInv, Crash
  <2>2. /\ Survives \in {"none", "up", "dying"}
        /\ proc' = [p \in Pointer |-> IF p = Nobody THEN Survives ELSE "none"]
    BY <2>1, LoginTypes DEF Crash, Survives
  <2>3. /\ proc' \in [Pointer -> {"none", "up", "dying"}]
        /\ \A o \in Obj : proc'[o] = "none"
    <3>1. \A o \in Obj : o \in Pointer /\ o # Nobody
      BY LoginConstants DEF Pointer
    <3>2. \A p \in Pointer : /\ proc'[p] \in {"none", "up", "dying"}
                            /\ p # Nobody => proc'[p] = "none"
      BY <2>2
    <3> QED BY <2>2, <3>1, <3>2
  <2>4. crashes' \in 0..MaxCrashes
    BY <2>1, LoginTypes, LoginConstants
  <2> QED BY <2>1, <2>3, <2>4, LoginTypes DEF Blank
<1>2. Blank' => LoginInv'
  BY BlankIsSound, PTL
<1> QED BY <1>1, <1>2

LEMMA LoginGoesOn == LoginInv /\ [LoginNext]_loginVars => LoginInv'
<1> SUFFICES ASSUME LoginInv, [LoginNext]_loginVars PROVE LoginInv'
  OBVIOUS
<1>1. CASE UNCHANGED loginVars
  <2>1. UNCHANGED <<instances, inst, caller, proc, dir, calls, crashes, overlapped>>
    BY <1>1 DEF loginVars
  <2>2. LoginTypeOK' /\ HandInv'
    BY <2>1 DEF LoginInv, LoginTypeOK, HandInv
  <2>3. OwnInv' /\ WorkerInv' /\ ProcInv'
    BY <2>1 DEF LoginInv, OwnInv, Owned, WorkerInv, Works, ProcInv
  <2>4. SoleInv'
    BY <2>1 DEF LoginInv, SoleInv, Works
  <2> QED BY <2>2, <2>3, <2>4 DEF LoginInv
<1>2. ASSUME NEW t \in Threads, CallBegins(t) PROVE LoginInv'
  BY <1>2, CallBeginsStep
<1>3. ASSUME NEW t \in Threads, CallStep(t) PROVE LoginInv'
  <2>1. \/ Find(t) \/ Signal(t) \/ Check(t) \/ Join(t) \/ Mark(t) \/ Make(t)
        \/ StartBegins(t) \/ StartThread(t) \/ Release(t) \/ Reap(t) \/ Remove(t)
    BY <1>3 DEF CallStep
  <2> QED BY <2>1, FindStep, HoldingSteps, LettingGoSteps, MakeStep, StartThreadStep, ReapStep, RemoveStep
<1>4. ASSUME NEW o \in Obj, Worker(o) PROVE LoginInv'
  BY <1>4, WorkerSteps
<1>5. ASSUME NEW p \in DOMAIN proc, Exit(p) PROVE LoginInv'
  BY <1>5, ExitStep
<1>6. CASE Crash
  BY <1>6, CrashStep
<1> QED BY <1>1, <1>2, <1>3, <1>4, <1>5, <1>6 DEF LoginNext

(* Between calls there is no one but the map to own an Instance; without   *)
(* overlapping calls there is one that can be joined, at most.             *)
LEMMA OneLoginHolds == LoginInv => OneLogin
<1> SUFFICES ASSUME LoginInv PROVE OneLogin
  OBVIOUS
<1>0. LoginTypeOK /\ HandInv /\ OwnInv /\ WorkerInv /\ ProcInv /\ SoleInv
  BY DEF LoginInv
<1>1. \A o \in Obj : proc[o] # "none" => inst[o].pc = "run" /\ Works(o)
  BY <1>0 DEF ProcInv, Works
<1>2. Quiet => \A o \in Obj : Works(o) \/ proc[o] # "none" => o = instances
  <2> SUFFICES ASSUME Quiet, NEW o \in Obj, Works(o) PROVE o = instances
    BY <1>1
  <2>1. Owned(o)
    BY <1>0 DEF OwnInv, Works
  <2>2. \A t \in Threads : caller[t].obj # o /\ caller[t].dead # o
    BY LoginConstants DEF Quiet, NoCall
  <2> QED BY <2>1, <2>2 DEF Owned
<1>3. ASSUME ~overlapped, NEW o \in Obj, NEW q \in Obj, Works(o), Works(q) PROVE o = q
  <2>0. /\ \A v \in Threads : \A u \in Threads \ {v} :
             caller[v] # NoCall /\ caller[u] # NoCall => "status" \in {caller[v].act, caller[u].act}
        /\ \A p \in Obj : inst[p].joinable =>
              p = instances \/ \E u \in Threads : caller[u].at \in Stopping /\ caller[u].obj = p
        /\ \A u \in Threads : caller[u].at \in Stopping => instances = Nobody
    BY <1>0, <1>3 DEF SoleInv
  <2>1. inst[o].joinable /\ inst[q].joinable /\ o # Nobody /\ q # Nobody
    BY <1>0, <1>3, LoginConstants DEF WorkerInv
  <2>2. ASSUME NEW v \in Threads, NEW u \in Threads, caller[v].at \in Stopping, caller[u].at \in Stopping
        PROVE  u = v
    <3>1. \A w \in {v, u} : caller[w] # NoCall /\ caller[w].act # "status"
      BY <1>0, <2>2 DEF HandInv, Stopping, NoCall
    <3> QED BY <2>0, <3>1
  <2> QED BY <2>0, <2>1, <2>2
<1>4. ~overlapped => Cardinality({p \in DOMAIN proc : proc[p] # "none" /\ ~Signalled(p)}) <= 1
  <2> DEFINE Logged == {p \in DOMAIN proc : proc[p] # "none" /\ ~Signalled(p)}
  <2> SUFFICES ASSUME ~overlapped PROVE Cardinality(Logged) <= 1
    OBVIOUS
  <2>1. \E p : Logged \subseteq {p}
    <3>1. /\ DOMAIN proc = {Nobody} \cup Obj
          /\ \A p \in DOMAIN proc : proc[p] \in {"none", "up", "dying"}
      BY <1>0, LoginTypes DEF Pointer
    <3>2. CASE proc[Nobody] = "up"
      <4>1. \A o \in Obj : proc[o] = "none"
        BY <1>0, <1>1, <3>2 DEF ProcInv
      <4> QED BY <3>1, <4>1
    <3>3. CASE proc[Nobody] # "up"
      <4>1. \A o, q \in Obj : proc[o] # "none" /\ proc[q] # "none" => o = q
        BY <1>1, <1>3
      <4>2. Nobody \notin Logged
        BY <3>1, <3>3 DEF Signalled
      <4>3. \A o, q \in Logged : o = q
        BY <3>1, <4>1, <4>2
      <4> QED BY <4>3
    <3> QED BY <3>2, <3>3
  <2>2. PICK p : Logged \subseteq {p}
    BY <2>1
  <2>3. IsFiniteSet({p}) /\ Cardinality({p}) = 1
    BY FS_Singleton
  <2> QED BY <2>2, <2>3, FS_Subset
<1>5. ~overlapped /\ ~dir => \A o \in Obj : proc[o] = "none"
  BY <1>0, <1>1 DEF SoleInv
<1> QED BY <1>2, <1>4, <1>5 DEF OneLogin

-----------------------------------------------------------------------------
(* openopq_runtime.cpp:442-446, 692-706, 817-872.  The invariant holds in  *)
(* every state of the built-in login.                                      *)
THEOREM LoginInvariant == LoginSpec => []LoginInv
<1>1. LoginInit => LoginInv
  BY LoginStarts
<1>2. LoginInv /\ [LoginNext]_loginVars => LoginInv'
  BY LoginGoesOn
<1> QED BY <1>1, <1>2, PTL DEF LoginSpec

(* The variables keep their types; no thread holds an Instance that has    *)
(* been destroyed.                                                         *)
THEOREM LoginTypeCorrect == LoginSpec => []LoginTypeOK
<1>1. LoginInv => LoginTypeOK
  BY DEF LoginInv
<1> QED BY <1>1, LoginInvariant, PTL

(* openopq_runtime.cpp:442-446, 692-706, 769, 817-872.  Between calls only *)
(* the Instance in the map has a worker or a process, however the calls    *)
(* overlapped, and where none did there are never two processes, but for a *)
(* survivor of a killed bot that was sent SIGTERM and has not ended yet,   *)
(* nor one of this bot whose directory was deleted.                        *)
THEOREM AccountLogsInOnce == LoginSpec => []OneLogin
<1>1. LoginInv => OneLogin
  BY OneLoginHolds
<1> QED BY <1>1, LoginInvariant, PTL

-----------------------------------------------------------------------------
(* The three parts of MCThreads.  One of them runs and the others stay, so *)
(* that each behaves as it does alone.                                     *)
LEMMA PartsStart == ThreadsInit => CausalInit /\ GatewayInit /\ LoginInit
BY DEF ThreadsInit

LEMMA PartsStep ==
  [ThreadsNext]_threadVars =>
    [CausalNext]_causalVars /\ [GatewayNext]_gatewayVars /\ [LoginNext]_loginVars
<1> SUFFICES ASSUME [ThreadsNext]_threadVars
             PROVE  [CausalNext]_causalVars /\ [GatewayNext]_gatewayVars /\ [LoginNext]_loginVars
  OBVIOUS
<1>1. CASE CausalRuns
  BY <1>1 DEF CausalRuns
<1>2. CASE GatewayRuns
  BY <1>2 DEF GatewayRuns
<1>3. CASE LoginRuns
  BY <1>3 DEF LoginRuns
<1>4. CASE UNCHANGED threadVars
  BY <1>4 DEF threadVars
<1> QED BY <1>1, <1>2, <1>3, <1>4 DEF ThreadsNext

(* Each part implements its own specification, and so the variables of all *)
(* three keep their types.                                                 *)
THEOREM ThreadsTypeCorrect == ASSUME GatewayConstants PROVE ThreadsSpec => []ThreadsTypeOK
<1>1. ThreadsSpec => CausalSpec /\ GatewaySpec /\ LoginSpec
  BY PartsStart, PartsStep, PTL DEF ThreadsSpec, CausalSpec, GatewaySpec, LoginSpec
<1>2. CausalTypeOK /\ GatewayTypeOK /\ LoginTypeOK => ThreadsTypeOK
  BY DEF ThreadsTypeOK
<1> QED BY <1>1, <1>2, CausalTypeCorrect, GatewayTypeCorrect, LoginTypeCorrect, PTL
=============================================================================
