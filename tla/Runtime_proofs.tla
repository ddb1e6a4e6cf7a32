--------------------------- MODULE Runtime_proofs ---------------------------
(***************************************************************************)
(* Theorems about what starts, stops and reloads: AdapterLifecycle, for    *)
(* any rows, HTTP threads and numbers of adapter objects and requests, and *)
(* then MCRuntime, which runs it or one of two instances of LuaRuntime.    *)
(***************************************************************************)
EXTENDS MCRuntime, Lua_proofs, TLAPS

-----------------------------------------------------------------------------
(* AdapterLifecycle.                                                       *)

(* What a request does, from its first step: off to on, on to on with      *)
(* other settings, on to off, off to off; DELETE; a reconnect.             *)
Kinds == {"on", "change", "off", "keep", "delete", "resume"}
Plan(kind) ==
  CASE kind = "on" -> <<"save", "find", "forget", "put", "get", "start">>
    [] kind = "change" -> <<"save", "get", "halt", "forget", "erase", "forget",
                            "find", "forget", "put", "get", "start">>
    [] kind = "off" -> <<"save", "get", "halt", "forget", "erase", "forget">>
    [] kind = "keep" -> <<"save">>
    [] kind = "delete" -> <<"get", "halt", "forget", "erase", "forget", "remove">>
    [] kind = "resume" -> <<"resume">>

(* todo is what is left of the plan.                                       *)
Follows(todo, kind) ==
  /\ Len(todo) \in 1..Len(Plan(kind))
  /\ \A k \in 1..Len(todo) : todo[k] = Plan(kind)[Len(Plan(kind)) - Len(todo) + k]

(* An enabled adapter runs, has failed, or startAll will come to it.       *)
Served(o) ==
  \/ o \in live \cup failed
  \/ o \notin started /\ (boot = "wait" \/ (boot \in {"lock", "starting"} /\ o \in toStart))
Settled(i) == IF rows[i] = "on" THEN adapters[i] # Nobody /\ Served(adapters[i])
              ELSE adapters[i] = Nobody

(* With n steps of RegisterAdapter and StartAdapter left, for the adapter  *)
(* of i, by a request that holds obj.                                      *)
Enabling(i, obj, n) ==
  /\ rows[i] = "on"
  /\ n >= 3 => adapters[i] = Nobody
  /\ n = 4 => obj = Nobody
  /\ n <= 2 => adapters[i] # Nobody
  /\ n = 1 => obj = adapters[i]

(* With n steps of StopAdapter and UnregisterAdapter left.                 *)
Disabling(i, obj, n) ==
  /\ n \in {3, 4} => obj = adapters[i]
  /\ n \in {2, 3} => adapters[i] \notin live \ copied
  /\ n = 1 => adapters[i] = Nobody

(* Where the adapter is when a request that is alone with it has n steps   *)
(* of its plan left.                                                       *)
Reached(kind, n, i, row, obj) ==
  /\ kind = "on" => IF n = 6 THEN Settled(i) /\ rows[i] = "off" /\ row = "on"
                    ELSE Enabling(i, obj, n)
  /\ kind = "change" =>
       /\ n = 11 => Settled(i) /\ row = "on"
       /\ n >= 6 => rows[i] = "on" /\ Disabling(i, obj, n - 5)
       /\ n < 6 => Enabling(i, obj, n)
  /\ kind = "off" => IF n = 6 THEN Settled(i) /\ rows[i] = "on" /\ row = "off"
                     ELSE rows[i] = "off" /\ Disabling(i, obj, n)
  /\ kind = "keep" => Settled(i) /\ rows[i] = "off" /\ row = "off"
  /\ kind = "delete" => /\ rows[i] # "absent" /\ row = "absent"
                        /\ IF n = 1 THEN adapters[i] = Nobody ELSE Disabling(i, obj, n - 1)
  /\ kind = "resume" => Settled(i) /\ obj = adapters[i]

Busy(p) == req[p].todo # <<>>

PlanInv == \A p \in Panel : Busy(p) => \E kind \in Kinds :
  /\ Follows(req[p].todo, kind)
  /\ kind = "resume" => req[p].obj # Nobody
  /\ req[p].id \notin raced => Reached(kind, Len(req[p].todo), req[p].id, req[p].row, req[p].obj)

(* On an id for which no two raced at most one request works; and if none  *)
(* does, its row is in force or will be.                                   *)
SoloInv == \A p \in Panel : \A q \in Panel \ {p} :
  Busy(p) /\ Busy(q) /\ req[p].id = req[q].id => req[p].id \in raced
RestInv == \A i \in Id \ raced :
  ~down /\ (\A p \in Panel : Busy(p) => req[p].id # i) => Settled(i)

OwnerInv ==
  /\ \A i \in Id : adapters[i] <= made
  /\ \A p \in Panel : req[p].obj # Nobody => owner[req[p].obj] = req[p].id
BootInv ==
  /\ boot = "wait" => copied = {}
  /\ down => boot = "done" /\ Quiet
OrphanInv == \A o \in live \ copied : Alone(o) => ~down /\ adapters[owner[o]] = o

AdaptersInv ==
  AdaptersTypeOK /\ PlanInv /\ SoloInv /\ RestInv /\ OwnerInv /\ BootInv /\ OrphanInv

-----------------------------------------------------------------------------
RowState == {"absent", "off", "on"}
Req == [todo : Seq(Step), id : Id, obj : {Nobody} \cup Obj, row : RowState]

LEMMA AdaptersConstants ==
  /\ MaxObj \in Nat /\ MaxRequests \in Nat /\ Nobody \notin Obj /\ Obj \subseteq Nat
  /\ {Nobody} \cup Obj \subseteq Nat
  /\ NoRequest \in Req /\ NoRequest.todo = <<>> /\ NoRequest.obj = Nobody
<1>1. (CHOOSE i \in Id : TRUE) \in Id
  BY AdaptersAssumption
<1>2. <<>> \in Seq(Step)
  BY EmptySeq
<1> QED BY <1>1, <1>2, AdaptersAssumption DEF NoRequest, Req, RowState, Nobody, Obj

LEMMA AdaptersTypes ==
  ASSUME AdaptersTypeOK
  PROVE  /\ rows \in [Id -> RowState] /\ adapters \in [Id -> {Nobody} \cup Obj]
         /\ \A i \in Id : adapters[i] # Nobody => owner[adapters[i]] = i
         /\ boot \in {"wait", "lock", "starting", "done"} /\ toStart \subseteq copied
         /\ req \in [Panel -> Req] /\ \A p \in Panel : req[p].obj <= made
         /\ \A p \in Panel : /\ req[p] \in Req /\ req[p].todo \in Seq(Step) /\ req[p].id \in Id
                             /\ req[p].obj \in {Nobody} \cup Obj /\ req[p].row \in RowState
         /\ linked \subseteq live /\ live \cup failed \cup started \cup copied \subseteq 1..made
         /\ made \in 0..MaxObj /\ requests \in 0..MaxRequests /\ down \in BOOLEAN
         /\ owner \in [Obj -> Id] /\ starts \in [Obj -> Nat] /\ raced \subseteq Id
         /\ 1..made \subseteq Obj
<1>1. req \in [Panel -> Req] /\ rows \in [Id -> RowState]
  BY DEF AdaptersTypeOK, Req, RowState
<1>2. 1..made \subseteq Obj
  BY AdaptersConstants DEF AdaptersTypeOK, Obj
<1>3. \A p \in Panel : /\ req[p] \in Req /\ req[p].todo \in Seq(Step) /\ req[p].id \in Id
                       /\ req[p].obj \in {Nobody} \cup Obj /\ req[p].row \in RowState
  BY <1>1 DEF Req
<1> QED BY <1>1, <1>2, <1>3 DEF AdaptersTypeOK

LEMMA AdaptersNewTypes ==
  ASSUME rows' \in [Id -> RowState], adapters' \in [Id -> {Nobody} \cup Obj],
         \A i \in Id : adapters'[i] # Nobody => owner'[adapters'[i]] = i,
         boot' \in {"wait", "lock", "starting", "done"}, toStart' \subseteq copied',
         req' \in [Panel -> Req], \A p \in Panel : req'[p].obj <= made',
         linked' \subseteq live', live' \cup failed' \cup started' \cup copied' \subseteq 1..made',
         made' \in 0..MaxObj, requests' \in 0..MaxRequests, down' \in BOOLEAN,
         owner' \in [Obj -> Id], starts' \in [Obj -> Nat], raced' \subseteq Id
  PROVE  AdaptersTypeOK'
BY DEF AdaptersTypeOK, Req, RowState

(* A plan's first step, and what is left once it is done.                  *)
LEMMA PlanLength ==
  ASSUME NEW kind \in Kinds
  PROVE  /\ Len(Plan(kind)) \in 1..11
         /\ kind \in {"on", "off", "delete"} => Len(Plan(kind)) = 6
         /\ kind = "change" => Len(Plan(kind)) = 11
         /\ kind \in {"keep", "resume"} => Len(Plan(kind)) = 1
<1>1. CASE kind = "on"
  BY <1>1 DEF Plan
<1>2. CASE kind = "change"
  BY <1>2 DEF Plan
<1>3. CASE kind = "off"
  BY <1>3 DEF Plan
<1>4. CASE kind = "keep"
  BY <1>4 DEF Plan
<1>5. CASE kind = "delete"
  BY <1>5 DEF Plan
<1>6. CASE kind = "resume"
  BY <1>6 DEF Plan
<1> QED BY <1>1, <1>2, <1>3, <1>4, <1>5, <1>6 DEF Kinds

LEMMA FollowsOn ==
  ASSUME NEW todo \in Seq(Step), NEW kind \in Kinds, Follows(todo, kind)
  PROVE  /\ todo # <<>> /\ Len(todo) \in Nat
         /\ Tail(todo) \in Seq(Step) /\ Len(Tail(todo)) = Len(todo) - 1
         /\ (Tail(todo) = <<>>) <=> (Len(todo) = 1)
         /\ Len(todo) > 1 => Follows(Tail(todo), kind)
         /\ Head(todo) = Plan(kind)[Len(Plan(kind)) - Len(todo) + 1]
<1>0. Len(todo) \in Nat /\ Len(todo) > 0 /\ Len(Plan(kind)) \in Nat /\ Len(todo) <= Len(Plan(kind))
  BY PlanLength, LenProperties DEF Follows, Kinds
<1>1. todo # <<>>
  BY <1>0, EmptySeq
<1>2. /\ Tail(todo) \in Seq(Step) /\ Len(Tail(todo)) = Len(todo) - 1
      /\ \A k \in 1..Len(Tail(todo)) : Tail(todo)[k] = todo[k + 1]
  BY <1>1, HeadTailProperties
<1>3. Head(todo) = todo[1]
  BY <1>1
<1>4. Head(todo) = Plan(kind)[Len(Plan(kind)) - Len(todo) + 1]
  BY <1>0, <1>3 DEF Follows
<1>5. ASSUME Len(todo) > 1 PROVE Follows(Tail(todo), kind)
  <2>1. Len(Tail(todo)) \in 1..Len(Plan(kind))
    BY <1>0, <1>2, <1>5
  <2>2. ASSUME NEW k \in 1..Len(Tail(todo))
        PROVE  Tail(todo)[k] = Plan(kind)[Len(Plan(kind)) - Len(Tail(todo)) + k]
    <3>1. k + 1 \in 1..Len(todo)
      BY <1>0, <1>2
    <3>2. todo[k + 1] = Plan(kind)[Len(Plan(kind)) - Len(todo) + (k + 1)]
      BY <3>1 DEF Follows
    <3>3. Len(Plan(kind)) - Len(todo) + (k + 1) = Len(Plan(kind)) - Len(Tail(todo)) + k
      BY <1>0, <1>2
    <3> QED BY <1>2, <3>2, <3>3
  <2> QED BY <2>1, <2>2 DEF Follows
<1>6. (Tail(todo) = <<>>) <=> (Len(todo) = 1)
  <2>1. Tail(todo) = <<>> <=> Len(Tail(todo)) = 0
    BY <1>2, EmptySeq
  <2> QED BY <1>0, <1>2, <2>1
<1> QED BY <1>0, <1>1, <1>2, <1>4, <1>5, <1>6

(* Which plans come to a step, and with how many left.                     *)
Comes(step, kind, n) ==
  \/ /\ step = "get"
     /\ \/ kind = "on" /\ n = 2
        \/ kind = "change" /\ n \in {10, 2}
        \/ kind = "off" /\ n = 5
        \/ kind = "delete" /\ n = 6
  \/ step = "find" /\ kind \in {"on", "change"} /\ n = 5
  \/ /\ step = "halt"
     /\ \/ kind = "change" /\ n = 9
        \/ kind = "off" /\ n = 4
        \/ kind = "delete" /\ n = 5
  \/ /\ step = "forget"
     /\ \/ kind = "on" /\ n = 4
        \/ kind = "change" /\ n \in {8, 6, 4}
        \/ kind = "off" /\ n \in {3, 1}
        \/ kind = "delete" /\ n \in {4, 2}
  \/ /\ step = "erase"
     /\ \/ kind = "change" /\ n = 7
        \/ kind = "off" /\ n = 2
        \/ kind = "delete" /\ n = 3
  \/ step = "put" /\ kind \in {"on", "change"} /\ n = 3
  \/ step = "start" /\ kind \in {"on", "change"} /\ n = 1
  \/ step = "resume" /\ kind = "resume" /\ n = 1
  \/ /\ step = "save"
     /\ \/ kind \in {"on", "off"} /\ n = 6
        \/ kind = "change" /\ n = 11
        \/ kind = "keep" /\ n = 1
  \/ step = "remove" /\ kind = "delete" /\ n = 1

LEMMA PlanComes ==
  ASSUME NEW todo \in Seq(Step), NEW kind \in Kinds, Follows(todo, kind)
  PROVE  Comes(Head(todo), kind, Len(todo))
<1> DEFINE n == Len(todo)
<1>0. /\ n \in Nat /\ n \in 1..Len(Plan(kind))
      /\ Head(todo) = Plan(kind)[Len(Plan(kind)) - n + 1]
  BY FollowsOn DEF Follows
<1> HIDE DEF n
<1>1. CASE kind = "on"
  <2>1. n \in 1..6 /\ Head(todo) = Plan("on")[7 - n]
    <3>1. Len(Plan(kind)) = 6
      BY <1>1, PlanLength
    <3>2. n \in 1..6 /\ 6 - n + 1 = 7 - n
      BY <1>0, <3>1
    <3> QED BY <1>0, <1>1, <3>1, <3>2
  <2>2. CASE n = 1
    <3>1. Head(todo) = "start"
      BY <2>1, <2>2 DEF Plan
    <3> QED BY <1>1, <2>2, <3>1 DEF Comes, n
  <2>3. CASE n = 2
    <3>1. Head(todo) = "get"
      BY <2>1, <2>3 DEF Plan
    <3> QED BY <1>1, <2>3, <3>1 DEF Comes, n
  <2>4. CASE n = 3
    <3>1. Head(todo) = "put"
      BY <2>1, <2>4 DEF Plan
    <3> QED BY <1>1, <2>4, <3>1 DEF Comes, n
  <2>5. CASE n = 4
    <3>1. Head(todo) = "forget"
      BY <2>1, <2>5 DEF Plan
    <3> QED BY <1>1, <2>5, <3>1 DEF Comes, n
  <2>6. CASE n = 5
    <3>1. Head(todo) = "find"
      BY <2>1, <2>6 DEF Plan
    <3> QED BY <1>1, <2>6, <3>1 DEF Comes, n
  <2>7. CASE n = 6
    <3>1. Head(todo) = "save"
      BY <2>1, <2>7 DEF Plan
    <3> QED BY <1>1, <2>7, <3>1 DEF Comes, n
  <2> QED BY <2>1, <2>2, <2>3, <2>4, <2>5, <2>6, <2>7
<1>2. CASE kind = "change"
  <2>1. n \in 1..11 /\ Head(todo) = Plan("change")[12 - n]
    <3>1. Len(Plan(kind)) = 11
      BY <1>2, PlanLength
    <3>2. n \in 1..11 /\ 11 - n + 1 = 12 - n
      BY <1>0, <3>1
    <3> QED BY <1>0, <1>2, <3>1, <3>2
  <2>2. CASE n = 1
    <3>1. Head(todo) = "start"
      BY <2>1, <2>2 DEF Plan
    <3> QED BY <1>2, <2>2, <3>1 DEF Comes, n
  <2>3. CASE n = 2
    <3>1. Head(todo) = "get"
      BY <2>1, <2>3 DEF Plan
    <3> QED BY <1>2, <2>3, <3>1 DEF Comes, n
  <2>4. CASE n = 3
    <3>1. Head(todo) = "put"
      BY <2>1, <2>4 DEF Plan
    <3> QED BY <1>2, <2>4, <3>1 DEF Comes, n
  <2>5. CASE n = 4
    <3>1. Head(todo) = "forget"
      BY <2>1, <2>5 DEF Plan
    <3> QED BY <1>2, <2>5, <3>1 DEF Comes, n
  <2>6. CASE n = 5
    <3>1. Head(todo) = "find"
      BY <2>1, <2>6 DEF Plan
    <3> QED BY <1>2, <2>6, <3>1 DEF Comes, n
  <2>7. CASE n = 6
    <3>1. Head(todo) = "forget"
      BY <2>1, <2>7 DEF Plan
    <3> QED BY <1>2, <2>7, <3>1 DEF Comes, n
  <2>8. CASE n = 7
    <3>1. Head(todo) = "erase"
      BY <2>1, <2>8 DEF Plan
    <3> QED BY <1>2, <2>8, <3>1 DEF Comes, n
  <2>9. CASE n = 8
    <3>1. Head(todo) = "forget"
      BY <2>1, <2>9 DEF Plan
    <3> QED BY <1>2, <2>9, <3>1 DEF Comes, n
  <2>10. CASE n = 9
    <3>1. Head(todo) = "halt"
      BY <2>1, <2>10 DEF Plan
    <3> QED BY <1>2, <2>10, <3>1 DEF Comes, n
  <2>11. CASE n = 10
    <3>1. Head(todo) = "get"
      BY <2>1, <2>11 DEF Plan
    <3> QED BY <1>2, <2>11, <3>1 DEF Comes, n
  <2>12. CASE n = 11
    <3>1. Head(todo) = "save"
      BY <2>1, <2>12 DEF Plan
    <3> QED BY <1>2, <2>12, <3>1 DEF Comes, n
  <2> QED BY <2>1, <2>2, <2>3, <2>4, <2>5, <2>6, <2>7, <2>8, <2>9, <2>10, <2>11, <2>12
<1>3. CASE kind = "off"
  <2>1. n \in 1..6 /\ Head(todo) = Plan("off")[7 - n]
    <3>1. Len(Plan(kind)) = 6
      BY <1>3, PlanLength
    <3>2. n \in 1..6 /\ 6 - n + 1 = 7 - n
      BY <1>0, <3>1
    <3> QED BY <1>0, <1>3, <3>1, <3>2
  <2>2. CASE n = 1
    <3>1. Head(todo) = "forget"
      BY <2>1, <2>2 DEF Plan
    <3> QED BY <1>3, <2>2, <3>1 DEF Comes, n
  <2>3. CASE n = 2
    <3>1. Head(todo) = "erase"
      BY <2>1, <2>3 DEF Plan
    <3> QED BY <1>3, <2>3, <3>1 DEF Comes, n
  <2>4. CASE n = 3
    <3>1. Head(todo) = "forget"
      BY <2>1, <2>4 DEF Plan
    <3> QED BY <1>3, <2>4, <3>1 DEF Comes, n
  <2>5. CASE n = 4
    <3>1. Head(todo) = "halt"
      BY <2>1, <2>5 DEF Plan
    <3> QED BY <1>3, <2>5, <3>1 DEF Comes, n
  <2>6. CASE n = 5
    <3>1. Head(todo) = "get"
      BY <2>1, <2>6 DEF Plan
    <3> QED BY <1>3, <2>6, <3>1 DEF Comes, n
  <2>7. CASE n = 6
    <3>1. Head(todo) = "save"
      BY <2>1, <2>7 DEF Plan
    <3> QED BY <1>3, <2>7, <3>1 DEF Comes, n
  <2> QED BY <2>1, <2>2, <2>3, <2>4, <2>5, <2>6, <2>7
<1>4. CASE kind = "keep"
  <2>1. n = 1 /\ Head(todo) = Plan("keep")[1]
    <3>1. Len(Plan(kind)) = 1
      BY <1>4, PlanLength
    <3>2. n = 1 /\ 1 - n + 1 = 1
      BY <1>0, <3>1
    <3> QED BY <1>0, <1>4, <3>1, <3>2
  <2> QED BY <1>4, <2>1 DEF Comes, Plan, n
<1>5. CASE kind = "delete"
  <2>1. n \in 1..6 /\ Head(todo) = Plan("delete")[7 - n]
    <3>1. Len(Plan(kind)) = 6
      BY <1>5, PlanLength
    <3>2. n \in 1..6 /\ 6 - n + 1 = 7 - n
      BY <1>0, <3>1
    <3> QED BY <1>0, <1>5, <3>1, <3>2
  <2>2. CASE n = 1
    <3>1. Head(todo) = "remove"
      BY <2>1, <2>2 DEF Plan
    <3> QED BY <1>5, <2>2, <3>1 DEF Comes, n
  <2>3. CASE n = 2
    <3>1. Head(todo) = "forget"
      BY <2>1, <2>3 DEF Plan
    <3> QED BY <1>5, <2>3, <3>1 DEF Comes, n
  <2>4. CASE n = 3
    <3>1. Head(todo) = "erase"
      BY <2>1, <2>4 DEF Plan
    <3> QED BY <1>5, <2>4, <3>1 DEF Comes, n
  <2>5. CASE n = 4
    <3>1. Head(todo) = "forget"
      BY <2>1, <2>5 DEF Plan
    <3> QED BY <1>5, <2>5, <3>1 DEF Comes, n
  <2>6. CASE n = 5
    <3>1. Head(todo) = "halt"
      BY <2>1, <2>6 DEF Plan
    <3> QED BY <1>5, <2>6, <3>1 DEF Comes, n
  <2>7. CASE n = 6
    <3>1. Head(todo) = "get"
      BY <2>1, <2>7 DEF Plan
    <3> QED BY <1>5, <2>7, <3>1 DEF Comes, n
  <2> QED BY <2>1, <2>2, <2>3, <2>4, <2>5, <2>6, <2>7
<1>6. CASE kind = "resume"
  <2>1. n = 1 /\ Head(todo) = Plan("resume")[1]
    <3>1. Len(Plan(kind)) = 1
      BY <1>6, PlanLength
    <3>2. n = 1 /\ 1 - n + 1 = 1
      BY <1>0, <3>1
    <3> QED BY <1>0, <1>6, <3>1, <3>2
  <2> QED BY <1>6, <2>1 DEF Comes, Plan, n
<1> QED BY <1>1, <1>2, <1>3, <1>4, <1>5, <1>6 DEF Kinds

-----------------------------------------------------------------------------
LEMMA DoneFacts ==
  ASSUME AdaptersTypeOK, NEW p \in Panel, Busy(p), NEW o \in {Nobody} \cup Obj, Done(p, o)
  PROVE  /\ req' \in [Panel -> Req] /\ \A q \in Panel \ {p} : req'[q] = req[q]
         /\ Tail(req[p].todo) = <<>> => ~Busy(p)' /\ req'[p].obj = Nobody
         /\ Tail(req[p].todo) # <<>> =>
              /\ Busy(p)' /\ req'[p].todo = Tail(req[p].todo) /\ req'[p].id = req[p].id
              /\ req'[p].row = req[p].row /\ req'[p].obj = o
<1>1. /\ req \in [Panel -> Req] /\ req[p] \in Req /\ req[p].todo \in Seq(Step)
      /\ req[p].todo # <<>>
  BY AdaptersTypes DEF Busy
<1>2. Tail(req[p].todo) \in Seq(Step)
  BY <1>1, HeadTailProperties
<1>3. CASE Tail(req[p].todo) = <<>>
  <2>1. req' = [req EXCEPT ![p] = NoRequest]
    BY <1>3 DEF Done
  <2>2. NoRequest \in Req /\ NoRequest.todo = <<>> /\ NoRequest.obj = Nobody
    BY AdaptersConstants
  <2>3. /\ req' \in [Panel -> Req] /\ req'[p] = NoRequest
        /\ \A q \in Panel \ {p} : req'[q] = req[q]
    BY <1>1, <2>1, <2>2
  <2> QED BY <1>3, <2>2, <2>3 DEF Busy
<1>4. CASE Tail(req[p].todo) # <<>>
  <2> DEFINE next == [req[p] EXCEPT !.todo = Tail(req[p].todo), !.obj = o]
  <2>1. req' = [req EXCEPT ![p] = next]
    <3>1. req' = [req EXCEPT ![p] = IF Tail(req[p].todo) = <<>> THEN NoRequest ELSE next]
      BY <1>1 DEF Done
    <3> QED BY <1>4, <3>1
  <2>2. /\ next \in Req /\ next.todo = Tail(req[p].todo) /\ next.id = req[p].id
        /\ next.row = req[p].row /\ next.obj = o
    BY <1>1, <1>2 DEF Req
  <2> HIDE DEF next
  <2>3. /\ req' \in [Panel -> Req] /\ req'[p] = next /\ \A q \in Panel \ {p} : req'[q] = req[q]
    BY <1>1, <2>1, <2>2
  <2> QED BY <1>4, <2>2, <2>3 DEF Busy
<1> QED BY <1>3, <1>4

LEMMA StartsFacts ==
  ASSUME AdaptersTypeOK, NEW o \in 1..made, NEW n \in {0, 1}, Starts(o, n)
  PROVE  /\ live \subseteq live' /\ live' \subseteq live \cup {o} /\ failed' \subseteq failed \cup {o}
         /\ \A x : x # o => ((x \in failed') <=> (x \in failed))
         /\ o \in live' \cup failed' /\ live \cup failed \subseteq live' \cup failed'
         /\ linked' = linked /\ starts' \in [Obj -> Nat]
<1>1. starts \in [Obj -> Nat] /\ o \in Obj /\ linked \subseteq live
  BY AdaptersTypes
<1>2. CASE o \in linked /\ UNCHANGED links
  BY <1>1, <1>2 DEF links
<1>3. CASE /\ live' = live \cup {o} /\ failed' = failed \ {o}
           /\ starts' = [starts EXCEPT ![o] = @ + n] /\ UNCHANGED linked
  BY <1>1, <1>3
<1>4. CASE failed' = failed \cup {o} /\ UNCHANGED <<live, linked, starts>>
  BY <1>1, <1>4
<1> QED BY <1>2, <1>3, <1>4 DEF Starts

LEMMA StopsFacts ==
  ASSUME AdaptersTypeOK, NEW o \in Obj, Stops(o)
  PROVE  /\ live' = live \ {o} /\ linked' \subseteq live' /\ failed' = failed
         /\ starts' \in [Obj -> Nat]
BY AdaptersTypes DEF Stops

(* What one request's step may touch: its own adapter and the objects made *)
(* for that.                                                               *)
Local(p, i) ==
  /\ \A q \in Panel \ {p} : req'[q] = req[q]
  /\ Busy(p)' => req'[p].id = i
  /\ UNCHANGED <<boot, toStart, copied, down, raced>>
  /\ \A j \in Id \ {i} : rows'[j] = rows[j] /\ adapters'[j] = adapters[j]
  /\ made <= made' /\ made' \in Nat /\ live' \subseteq 1..made
  /\ \A o \in 1..made : owner'[o] = owner[o]
  /\ \A o \in 1..made : owner[o] # i =>
       /\ (o \in live') <=> (o \in live)
       /\ (o \in failed') <=> (o \in failed)
       /\ (o \in started') <=> (o \in started)

LEMMA OthersSettled ==
  ASSUME AdaptersTypeOK, AdaptersTypeOK', OwnerInv, NEW p, NEW i \in Id, Local(p, i), NEW j \in Id \ {i}
  PROVE  /\ Settled(j) => Settled(j)'
         /\ (adapters'[j] \notin live' \ copied') <=> (adapters[j] \notin live \ copied)
<1>1. rows'[j] = rows[j] /\ adapters'[j] = adapters[j] /\ UNCHANGED <<boot, toStart, copied>>
  BY DEF Local
<1>2. CASE adapters[j] = Nobody
  <2>1. Nobody \notin live
    BY AdaptersTypes, AdaptersConstants
  <2>2. Nobody \notin live'
    BY DEF AdaptersTypeOK, Nobody
  <2> QED BY <1>1, <1>2, <2>1, <2>2 DEF Settled
<1>3. CASE adapters[j] # Nobody
  <2>1. adapters[j] \in 1..made /\ owner[adapters[j]] = j
    BY <1>3, AdaptersTypes, AdaptersConstants DEF OwnerInv, Obj
  <2>2. /\ (adapters[j] \in live') <=> (adapters[j] \in live)
        /\ (adapters[j] \in failed') <=> (adapters[j] \in failed)
        /\ (adapters[j] \in started') <=> (adapters[j] \in started)
    BY <2>1 DEF Local
  <2>3. Served(adapters[j]) => Served(adapters[j])'
    BY <1>1, <2>2 DEF Served
  <2> QED BY <1>1, <2>2, <2>3 DEF Settled
<1> QED BY <1>2, <1>3

(* A request's step keeps the invariant if it does so for its own adapter. *)
LEMMA OwnStep ==
  ASSUME AdaptersInv, AdaptersTypeOK', NEW p \in Panel, Busy(p), NEW i, i = req[p].id, Local(p, i),
         Busy(p)' => \E kind \in Kinds :
           /\ Follows(req[p].todo, kind)'
           /\ kind = "resume" => req'[p].obj # Nobody
           /\ i \notin raced => Reached(kind, Len(req[p].todo), req[p].id, req[p].row, req[p].obj)',
         ~Busy(p)' /\ i \notin raced => Settled(i)',
         adapters'[i] <= made', req'[p].obj # Nobody => owner'[req'[p].obj] = req'[p].id,
         \A o \in live' \ copied : owner'[o] = i /\ i \notin raced => adapters'[i] = o
  PROVE  AdaptersInv'
<1>0. AdaptersTypeOK /\ PlanInv /\ SoloInv /\ RestInv /\ OwnerInv /\ BootInv /\ OrphanInv
  BY DEF AdaptersInv
<1>a. /\ \A q \in Panel \ {p} : req'[q] = req[q]
      /\ Busy(p)' => req'[p].id = i
      /\ UNCHANGED <<boot, toStart, copied, down, raced>>
      /\ \A j \in Id \ {i} : rows'[j] = rows[j] /\ adapters'[j] = adapters[j]
      /\ made <= made' /\ made' \in Nat /\ made \in Nat
      /\ \A o \in 1..made : owner'[o] = owner[o]
      /\ i \in Id
  BY <1>0, AdaptersTypes DEF Local
<1>b. ~down
  BY <1>0 DEF BootInv, Quiet, Busy
<1>c. \A q \in Panel \ {p} : (Busy(q)' <=> Busy(q)) /\ (Busy(q) /\ req[q].id = i => i \in raced)
  BY <1>0, <1>a DEF Busy, SoloInv
<1>1. PlanInv'
  <2> SUFFICES ASSUME NEW q \in Panel, Busy(q)'
               PROVE  \E kind \in Kinds :
                        /\ Follows(req[q].todo, kind)'
                        /\ kind = "resume" => req'[q].obj # Nobody
                        /\ req'[q].id \notin raced' =>
                             Reached(kind, Len(req[q].todo), req[q].id, req[q].row, req[q].obj)'
    BY DEF PlanInv
  <2>1. CASE q = p
    BY <1>a, <2>1
  <2>2. CASE q # p
    <3>1. req'[q] = req[q] /\ Busy(q)
      BY <1>a, <1>c, <2>2
    <3>2. PICK kind \in Kinds :
            /\ Follows(req[q].todo, kind)
            /\ kind = "resume" => req[q].obj # Nobody
            /\ req[q].id \notin raced =>
                 Reached(kind, Len(req[q].todo), req[q].id, req[q].row, req[q].obj)
      BY <1>0, <3>1 DEF PlanInv
    <3>3. ASSUME req[q].id \notin raced
          PROVE  Reached(kind, Len(req[q].todo), req[q].id, req[q].row, req[q].obj)'
      <4>0. PICK j, row, obj, n : j = req[q].id /\ row = req[q].row /\ obj = req[q].obj
                                   /\ n = Len(req[q].todo)
        OBVIOUS
      <4>1. j \in Id \ {i}
        BY <1>0, <1>c, <2>2, <3>1, <3>3, <4>0, AdaptersTypes
      <4>2. rows'[j] = rows[j] /\ adapters'[j] = adapters[j]
        BY <1>a, <4>1
      <4>3. /\ Settled(j) => Settled(j)'
            /\ (adapters'[j] \notin live' \ copied') <=> (adapters[j] \notin live \ copied)
        BY <1>0, <1>a, <4>1, OthersSettled
      <4>4. \A k : /\ Enabling(j, obj, k) => Enabling(j, obj, k)'
                   /\ Disabling(j, obj, k) => Disabling(j, obj, k)'
        BY <4>2, <4>3 DEF Enabling, Disabling
      <4>5. Reached(kind, n, j, row, obj)
        BY <3>2, <3>3, <4>0
      <4>6. Reached(kind, n, j, row, obj)'
        <5>0. PICK m5, m1 : m5 = n - 5 /\ m1 = n - 1
          OBVIOUS
        <5>1. /\ Enabling(j, obj, n) => Enabling(j, obj, n)'
              /\ Disabling(j, obj, n) => Disabling(j, obj, n)'
              /\ Disabling(j, obj, m1) => Disabling(j, obj, m1)'
              /\ Disabling(j, obj, m5) => Disabling(j, obj, m5)'
          BY ONLY <4>4
        <5> QED BY <4>2, <4>3, <4>5, <5>0, <5>1 DEF Reached
      <4> QED BY <3>1, <4>0, <4>6
    <3>4. Follows(req[q].todo, kind)'
      BY <3>1, <3>2 DEF Follows
    <3> QED BY <1>a, <3>1, <3>2, <3>3, <3>4
  <2> QED BY <2>1, <2>2
<1>2. SoloInv'
  <2> SUFFICES ASSUME NEW q \in Panel, NEW r \in Panel \ {q}, Busy(q)', Busy(r)', req'[q].id = req'[r].id
               PROVE  req'[q].id \in raced'
    BY DEF SoloInv
  <2>1. Busy(q) /\ Busy(r) /\ req'[q].id = req[q].id /\ req'[r].id = req[r].id
    BY <1>a, <1>c
  <2> QED BY <1>0, <1>a, <2>1 DEF SoloInv
<1>3. RestInv'
  <2> SUFFICES ASSUME NEW j \in Id \ raced', \A q \in Panel : Busy(q)' => req'[q].id # j
               PROVE  Settled(j)'
    BY DEF RestInv
  <2>1. CASE j = i
    BY <1>a, <2>1
  <2>2. CASE j # i
    <3>1. \A q \in Panel : Busy(q) => req[q].id # j
      BY <1>a, <1>c, <2>2
    <3>2. Settled(j)
      BY <1>0, <1>a, <1>b, <3>1 DEF RestInv
    <3> QED BY <1>0, <2>2, <3>2, <1>a, OthersSettled
  <2> QED BY <2>1, <2>2
<1>4. OwnerInv'
  <2>1. \A j \in Id : adapters'[j] <= made'
    <3> TAKE j \in Id
    <3>1. CASE j = i
      BY <3>1
    <3>2. CASE j # i
      <4>1. adapters'[j] = adapters[j] /\ adapters[j] <= made /\ adapters[j] \in {Nobody} \cup Obj
        BY <1>0, <1>a, <3>2, AdaptersTypes DEF OwnerInv
      <4>2. adapters[j] \in Nat
        BY <4>1, AdaptersConstants
      <4> QED BY <1>a, <4>1, <4>2
    <3> QED BY <3>1, <3>2
  <2>2. ASSUME NEW q \in Panel, req'[q].obj # Nobody PROVE owner'[req'[q].obj] = req'[q].id
    <3>1. CASE q = p
      BY <2>2, <3>1
    <3>2. CASE q # p
      <4>1. req'[q] = req[q] /\ owner[req[q].obj] = req[q].id
        BY <1>0, <1>a, <2>2, <3>2 DEF OwnerInv
      <4>2. req[q].obj \in 1..made
        BY <1>0, <1>a, <2>2, <4>1, AdaptersTypes, AdaptersConstants DEF Obj
      <4> QED BY <1>a, <4>1, <4>2
    <3> QED BY <3>1, <3>2
  <2> QED BY <2>1, <2>2 DEF OwnerInv
<1>5. BootInv'
  BY <1>0, <1>a, <1>b DEF BootInv
<1>6. OrphanInv'
  <2> SUFFICES ASSUME NEW o \in live' \ copied', owner'[o] \notin raced'
               PROVE  ~down' /\ adapters'[owner'[o]] = o
    BY DEF OrphanInv, Alone
  <2>1. CASE owner'[o] = i
    BY <1>a, <1>b, <2>1
  <2>2. CASE owner'[o] # i
    <3>1. o \in 1..made
      BY DEF Local
    <3>2. owner'[o] = owner[o] /\ o \in live \ copied
      BY <1>a, <2>2, <3>1 DEF Local
    <3>3. adapters[owner[o]] = o /\ owner[o] \in Id
      BY <1>0, <1>a, <3>1, <3>2, AdaptersTypes DEF OrphanInv, Alone
    <3> QED BY <1>a, <1>b, <2>2, <3>2, <3>3
  <2> QED BY <2>1, <2>2
<1> QED BY <1>1, <1>2, <1>3, <1>4, <1>5, <1>6 DEF AdaptersInv

(* The same, when the step is done with Done(p, o): the plan has one step  *)
(* less, or is at its end.                                                 *)
Elsewhere(i) ==
  /\ UNCHANGED <<boot, toStart, copied, down, raced, requests>>
  /\ rows' \in [Id -> RowState] /\ adapters' \in [Id -> {Nobody} \cup Obj]
  /\ \A j \in Id \ {i} : rows'[j] = rows[j] /\ adapters'[j] = adapters[j]
  /\ made' \in 0..MaxObj /\ made <= made' /\ adapters'[i] <= made' /\ live' \subseteq 1..made
  /\ owner' \in [Obj -> Id] /\ \A o \in 1..made : owner'[o] = owner[o]
  /\ adapters'[i] # Nobody => owner'[adapters'[i]] = i
  /\ linked' \subseteq live' /\ failed' \cup started' \subseteq 1..made' /\ starts' \in [Obj -> Nat]
  /\ \A o \in 1..made : owner[o] # i =>
       /\ (o \in live') <=> (o \in live)
       /\ (o \in failed') <=> (o \in failed)
       /\ (o \in started') <=> (o \in started)
  /\ i \notin raced => \A o \in live' \ copied : owner'[o] = i => adapters'[i] = o

(* What a request for i may hold after a step.                             *)
MayHold(i, o) == o \in {Nobody} \cup Obj /\ (o # Nobody => o <= made /\ owner[o] = i)

(* Where its adapter is once a step is done that was the nth from the end. *)
Moved(kind, n, i, row, o) ==
  /\ n > 1 => Reached(kind, n - 1, i, row, o)
  /\ n = 1 => Settled(i)

LEMMA DoneStep ==
  ASSUME AdaptersInv, NEW p \in Panel, NEW kind \in Kinds, Follows(req[p].todo, kind),
         NEW i, i = req[p].id, NEW row, row = req[p].row, NEW n, n = Len(req[p].todo),
         NEW o, Done(p, o), MayHold(i, o),
         Elsewhere(i), i \notin raced => Moved(kind, n, i, row, o)'
  PROVE  AdaptersInv'
<1>0. AdaptersTypeOK /\ OwnerInv
  BY DEF AdaptersInv
<1>1. /\ req[p].todo \in Seq(Step) /\ i \in Id /\ made \in Nat /\ 1..made \subseteq Obj
      /\ Nobody \in Nat /\ {Nobody} \cup Obj \subseteq Nat
      /\ live \cup failed \cup started \cup copied \subseteq 1..made /\ toStart \subseteq copied
      /\ boot \in {"wait", "lock", "starting", "done"} /\ requests \in 0..MaxRequests
      /\ down \in BOOLEAN /\ raced \subseteq Id
      /\ o \in {Nobody} \cup Obj
      /\ o # Nobody => o <= made /\ owner[o] = i
  BY <1>0, AdaptersTypes, AdaptersConstants DEF MayHold
<1>2. /\ Busy(p) /\ n \in Nat /\ n >= 1 /\ (n > 1 => n # 1)
      /\ (Tail(req[p].todo) = <<>>) <=> (n = 1)
      /\ n > 1 => Follows(Tail(req[p].todo), kind) /\ Len(Tail(req[p].todo)) = n - 1
  <2>1. PICK todo \in Seq(Step) : todo = req[p].todo
    BY <1>1
  <2>2. Follows(todo, kind) /\ n = Len(todo)
    BY <2>1
  <2>3. /\ todo # <<>> /\ Len(todo) \in Nat
        /\ (Tail(todo) = <<>>) <=> (Len(todo) = 1)
        /\ Len(Tail(todo)) = Len(todo) - 1
        /\ Len(todo) > 1 => Follows(Tail(todo), kind)
    BY <2>2, FollowsOn
  <2>4. Len(todo) >= 1
    BY <2>3, EmptySeq
  <2>5. n \in Nat /\ n >= 1 /\ (n > 1 => n # 1)
    BY <2>2, <2>3, <2>4
  <2> QED BY <2>1, <2>2, <2>3, <2>5 DEF Busy
<1>3. /\ req' \in [Panel -> Req] /\ \A q \in Panel \ {p} : req'[q] = req[q]
      /\ n = 1 => ~Busy(p)' /\ req'[p].obj = Nobody
      /\ n > 1 => /\ Busy(p)' /\ req'[p].todo = Tail(req[p].todo) /\ req'[p].id = i
                  /\ req'[p].row = row /\ req'[p].obj = o
  <2>1. /\ req' \in [Panel -> Req] /\ \A q \in Panel \ {p} : req'[q] = req[q]
        /\ Tail(req[p].todo) = <<>> => ~Busy(p)' /\ req'[p].obj = Nobody
        /\ Tail(req[p].todo) # <<>> =>
             /\ Busy(p)' /\ req'[p].todo = Tail(req[p].todo) /\ req'[p].id = req[p].id
             /\ req'[p].row = req[p].row /\ req'[p].obj = o
    BY <1>0, <1>1, <1>2, DoneFacts
  <2>2. /\ n = 1 => Tail(req[p].todo) = <<>>
        /\ n > 1 => Tail(req[p].todo) # <<>>
    BY <1>2, Zenon
  <2> QED BY <2>1, <2>2
<1>4. \A q \in Panel : req'[q].obj <= made'
  <2> TAKE q \in Panel
  <2>1. /\ made' \in Nat /\ made <= made' /\ o <= made' /\ Nobody <= made'
    BY <1>1 DEF Elsewhere, Nobody
  <2>2. CASE q = p
    BY <1>2, <1>3, <2>1, <2>2
  <2>3. CASE q # p
    <3>1. req'[q] = req[q] /\ req[q].obj <= made /\ req[q].obj \in Nat
      BY <1>0, <1>1, <1>3, <2>3, AdaptersTypes
    <3> QED BY <1>1, <2>1, <3>1
  <2> QED BY <2>2, <2>3
<1>5. \A j \in Id : adapters'[j] # Nobody => owner'[adapters'[j]] = j
  <2> SUFFICES ASSUME NEW j \in Id, adapters'[j] # Nobody PROVE owner'[adapters'[j]] = j
    OBVIOUS
  <2>1. CASE j = i
    BY <2>1 DEF Elsewhere
  <2>2. CASE j # i
    <3>1. adapters'[j] = adapters[j] /\ adapters[j] <= made /\ owner[adapters[j]] = j
      BY <1>0, <2>2, AdaptersTypes DEF Elsewhere, OwnerInv
    <3>2. adapters[j] \in 1..made
      BY <1>0, <3>1, AdaptersTypes, AdaptersConstants DEF Obj
    <3> QED BY <3>1, <3>2 DEF Elsewhere
  <2> QED BY <2>1, <2>2
<1>6. AdaptersTypeOK'
  <2>1. /\ live' \cup failed' \cup started' \cup copied' \subseteq 1..made'
        /\ toStart' \subseteq copied'
    <3>1. made \in Nat /\ made' \in Nat /\ made <= made' /\ 1..made \subseteq 1..made'
      BY <1>1 DEF Elsewhere
    <3> QED BY <1>1, <3>1 DEF Elsewhere
  <2> QED BY <1>1, <1>3, <1>4, <1>5, <2>1, AdaptersNewTypes DEF Elsewhere
<1>7. Local(p, i)
  BY <1>1, <1>2, <1>3 DEF Local, Elsewhere
<1>8. Busy(p)' => \E k \in Kinds :
        /\ Follows(req[p].todo, k)'
        /\ k = "resume" => req'[p].obj # Nobody
        /\ i \notin raced => Reached(k, Len(req[p].todo), req[p].id, req[p].row, req[p].obj)'
  <2> SUFFICES ASSUME Busy(p)' PROVE
        /\ Follows(req[p].todo, kind)'
        /\ kind = "resume" => req'[p].obj # Nobody
        /\ i \notin raced => Reached(kind, Len(req[p].todo), req[p].id, req[p].row, req[p].obj)'
    OBVIOUS
  <2>1. /\ n > 1 /\ req'[p].todo = Tail(req[p].todo) /\ req'[p].id = i
        /\ req'[p].row = row /\ req'[p].obj = o
    BY <1>2, <1>3
  <2>2. kind # "resume"
    <3>1. n \in 1..Len(Plan(kind))
      BY DEF Follows
    <3>2. kind = "resume" => Len(Plan(kind)) = 1
      BY PlanLength
    <3>3. n > 1 => ~(n \in 1..1)
      BY <1>2
    <3> QED BY <2>1, <3>1, <3>2, <3>3, Zenon
  <2>3. Follows(req[p].todo, kind)' /\ Len(req'[p].todo) = n - 1
    BY <1>2, <2>1
  <2> QED BY <2>1, <2>2, <2>3 DEF Moved
<1>9. /\ ~Busy(p)' /\ i \notin raced => Settled(i)'
      /\ req'[p].obj # Nobody => owner'[req'[p].obj] = req'[p].id
      /\ adapters'[i] <= made'
      /\ \A x \in live' \ copied : owner'[x] = i /\ i \notin raced => adapters'[i] = x
  <2>1. o # Nobody => o \in 1..made
    BY <1>1, AdaptersConstants DEF Obj
  <2>2. /\ ~Busy(p)' /\ i \notin raced => Settled(i)'
        /\ req'[p].obj # Nobody => req'[p].obj = o /\ req'[p].id = i
    BY <1>2, <1>3 DEF Moved
  <2>3. o # Nobody => owner'[o] = i
    BY <1>1, <2>1 DEF Elsewhere
  <2> QED BY <2>2, <2>3 DEF Elsewhere
<1> QED BY <1>2, <1>6, <1>7, <1>8, <1>9, OwnStep

-----------------------------------------------------------------------------
LEMMA StepFacts ==
  ASSUME AdaptersInv, NEW p \in Panel, NEW step, Now(p, step)
  PROVE  \E kind \in Kinds, n \in Nat :
           /\ n = Len(req[p].todo) /\ Follows(req[p].todo, kind) /\ Comes(step, kind, n)
           /\ kind = "resume" => req[p].obj # Nobody
           /\ req[p].id \notin raced => Reached(kind, n, req[p].id, req[p].row, req[p].obj)
<1>1. PICK kind \in Kinds :
        /\ Follows(req[p].todo, kind)
        /\ kind = "resume" => req[p].obj # Nobody
        /\ req[p].id \notin raced => Reached(kind, Len(req[p].todo), req[p].id, req[p].row, req[p].obj)
  BY DEF AdaptersInv, PlanInv, Now, Busy
<1>2. req[p].todo \in Seq(Step)
  BY AdaptersTypes DEF AdaptersInv
<1>3. Len(req[p].todo) \in Nat
  BY <1>1, <1>2, FollowsOn
<1>4. Comes(step, kind, Len(req[p].todo))
  BY <1>1, <1>2, PlanComes DEF Now
<1> QED BY <1>1, <1>3, <1>4

(* What a request's step finds.                                            *)
LEMMA StepTypes ==
  ASSUME AdaptersInv, NEW p \in Panel, NEW i, i = req[p].id, NEW obj, obj = req[p].obj
  PROVE  /\ AdaptersTypeOK /\ i \in Id /\ i \in DOMAIN adapters /\ obj \in {Nobody} \cup Obj
         /\ req[p].row \in RowState
         /\ obj # Nobody => obj \in 1..made /\ obj <= made /\ owner[obj] = i
         /\ adapters[i] \in {Nobody} \cup Obj /\ adapters[i] <= made
         /\ adapters[i] # Nobody => adapters[i] \in 1..made /\ owner[adapters[i]] = i
         /\ Nobody \notin live /\ made \in Nat /\ Nobody \notin 1..made
         /\ i \notin raced => \A o \in live \ copied : owner[o] = i => adapters[i] = o
<1>1. AdaptersTypeOK /\ OwnerInv /\ OrphanInv
  BY DEF AdaptersInv
<1>2. /\ i \in Id /\ adapters \in [Id -> {Nobody} \cup Obj] /\ made \in Nat
      /\ obj \in {Nobody} \cup Obj /\ obj <= made /\ live \subseteq 1..made
      /\ adapters[i] # Nobody => owner[adapters[i]] = i
      /\ req[p].row \in RowState
  BY <1>1, AdaptersTypes
<1>3. /\ adapters[i] \in {Nobody} \cup Obj /\ adapters[i] <= made
      /\ obj # Nobody => owner[obj] = i
  BY <1>1, <1>2 DEF OwnerInv
<1>4. \A o \in {Nobody} \cup Obj : o # Nobody /\ o <= made => o \in 1..made
  BY <1>2, AdaptersConstants DEF Obj
<1>5. Nobody \notin 1..made
  BY DEF Nobody
<1>6. i \notin raced => \A o \in live \ copied : owner[o] = i => adapters[i] = o
  BY <1>1 DEF OrphanInv, Alone
<1> QED BY <1>1, <1>2, <1>3, <1>4, <1>5, <1>6

(* The table, the manager's map and the objects stay as they are.          *)
LEMMA StillElsewhere ==
  ASSUME AdaptersInv, NEW p \in Panel, NEW i, i = req[p].id,
         UNCHANGED <<rows, adapters, boot, toStart, copied, live, linked, failed, starts, world>>,
         started' \subseteq started,
         \A o \in 1..made : owner[o] # i => ((o \in started') <=> (o \in started))
  PROVE  Elsewhere(i)
<1>1. AdaptersTypeOK /\ OwnerInv
  BY DEF AdaptersInv
<1>2. /\ rows \in [Id -> RowState] /\ adapters \in [Id -> {Nobody} \cup Obj]
      /\ adapters[i] # Nobody => owner[adapters[i]] = i
      /\ linked \subseteq live /\ live \cup failed \cup started \cup copied \subseteq 1..made
      /\ made \in 0..MaxObj /\ owner \in [Obj -> Id] /\ starts \in [Obj -> Nat] /\ made \in Nat
      /\ adapters[i] <= made
      /\ i \notin raced => \A o \in live \ copied : owner[o] = i => adapters[i] = o
  BY <1>1, AdaptersTypes, StepTypes
<1> QED BY <1>2 DEF Elsewhere, world

LEMMA GetStep ==
  ASSUME AdaptersInv, NEW p \in Panel, Get(p)
  PROVE  AdaptersInv'
<1>1. PICK i, row, obj, step :
        /\ i = req[p].id /\ row = req[p].row /\ obj = req[p].obj
        /\ step \in {"get", "find"} /\ Now(p, step)
  BY DEF Get
<1>2. PICK kind \in Kinds, n \in Nat :
        /\ n = Len(req[p].todo) /\ Follows(req[p].todo, kind) /\ Comes(step, kind, n)
        /\ i \notin raced => Reached(kind, n, i, row, obj)
  BY <1>1, StepFacts
<1>3. PICK o : o = adapters[i]
  OBVIOUS
<1>4. MayHold(i, o)
  BY <1>1, <1>3, StepTypes DEF MayHold
<1>5. Done(p, o) /\ UNCHANGED <<manager, booting, links, world>>
  BY <1>1, <1>3 DEF Get
<1>6. Elsewhere(i)
  BY <1>1, <1>5, StillElsewhere DEF manager, booting, links
<1>7. n > 1 /\ n # 1
  <2>1. n \in {2, 5, 6, 10}
    BY <1>1, <1>2 DEF Comes
  <2> QED BY <2>1
<1>8. ASSUME i \notin raced PROVE Reached(kind, n - 1, i, row, o)'
  <2>1. Reached(kind, n, i, row, obj) /\ UNCHANGED <<rows, adapters, live, copied>>
    BY <1>2, <1>5, <1>8 DEF manager, booting, links
  <2>2. CASE kind = "on" /\ n = 2
    BY <1>3, <2>1, <2>2 DEF Reached, Enabling
  <2>3. CASE kind = "change" /\ n = 2
    BY <1>3, <2>1, <2>3 DEF Reached, Enabling
  <2>4. CASE kind = "change" /\ n = 10
    BY <1>3, <2>1, <2>4 DEF Reached, Disabling
  <2>5. CASE kind = "off" /\ n = 5
    BY <1>3, <2>1, <2>5 DEF Reached, Disabling
  <2>6. CASE kind = "delete" /\ n = 6
    BY <1>3, <2>1, <2>6 DEF Reached, Disabling
  <2>7. CASE kind \in {"on", "change"} /\ n = 5
    BY <1>3, <2>1, <2>7 DEF Reached, Enabling
  <2> QED BY <1>1, <1>2, <2>2, <2>3, <2>4, <2>5, <2>6, <2>7 DEF Comes
<1>9. i \notin raced => Moved(kind, n, i, row, o)'
  BY <1>7, <1>8 DEF Moved
<1>10. Follows(req[p].todo, kind) /\ i = req[p].id /\ row = req[p].row /\ n = Len(req[p].todo)
  BY <1>1, <1>2
<1> QED BY <1>4, <1>5, <1>6, <1>9, <1>10, DoneStep

(* Forgetting: what remains to be done is unaffected by it.                *)
LEMMA Forgotten ==
  ASSUME NEW kind \in Kinds, NEW n \in Nat, Comes("forget", kind, n), NEW i, NEW row, NEW obj,
         Reached(kind, n, i, row, obj), UNCHANGED <<rows, adapters, live, copied>>
  PROVE  Moved(kind, n, i, row, obj)'
<1>1. CASE kind \in {"on", "change"} /\ n = 4
  BY <1>1 DEF Moved, Reached, Enabling
<1>2. CASE kind = "change" /\ n = 8
  BY <1>2 DEF Moved, Reached, Disabling
<1>3. CASE kind = "change" /\ n = 6
  BY <1>3 DEF Moved, Reached, Disabling, Enabling
<1>4. CASE kind = "off" /\ n = 3
  BY <1>4 DEF Moved, Reached, Disabling
<1>5. CASE kind = "off" /\ n = 1
  BY <1>5 DEF Moved, Reached, Disabling, Settled
<1>6. CASE kind = "delete" /\ n \in {4, 2}
  BY <1>6 DEF Moved, Reached, Disabling
<1> QED BY <1>1, <1>2, <1>3, <1>4, <1>5, <1>6 DEF Comes

LEMMA SkipStep ==
  ASSUME AdaptersInv, NEW p \in Panel, Skip(p)
  PROVE  AdaptersInv'
<1>1. PICK i, row, obj, step :
        /\ i = req[p].id /\ row = req[p].row /\ obj = req[p].obj /\ obj = Nobody
        /\ step \in {"halt", "forget", "start"} /\ Now(p, step)
  BY DEF Skip
<1>2. PICK kind \in Kinds, n \in Nat :
        /\ n = Len(req[p].todo) /\ Follows(req[p].todo, kind) /\ Comes(step, kind, n)
        /\ i \notin raced => Reached(kind, n, i, row, obj)
  BY <1>1, StepFacts
<1>3. Done(p, obj) /\ UNCHANGED <<manager, booting, links, world>>
  BY <1>1 DEF Skip
<1>4. Elsewhere(i)
  BY <1>1, <1>3, StillElsewhere DEF manager, booting, links
<1>5. i \notin raced => Moved(kind, n, i, row, obj)'
  <2> SUFFICES ASSUME i \notin raced
               PROVE  Moved(kind, n, i, row, obj)'
    OBVIOUS
  <2>1. Reached(kind, n, i, row, obj) /\ UNCHANGED <<rows, adapters, live, copied>>
    BY <1>2, <1>3 DEF manager, booting, links
  <2>2. CASE step = "forget"
    BY <1>2, <2>1, <2>2, Forgotten
  <2>3. CASE step = "halt"
    <3>1. obj \notin live
      BY <1>1, StepTypes
    <3>2. CASE kind = "change" /\ n = 9
      BY <2>1, <3>1, <3>2 DEF Moved, Reached, Disabling
    <3>3. CASE kind = "off" /\ n = 4
      BY <2>1, <3>1, <3>3 DEF Moved, Reached, Disabling
    <3>4. CASE kind = "delete" /\ n = 5
      BY <2>1, <3>1, <3>4 DEF Moved, Reached, Disabling
    <3> QED BY <1>2, <2>3, <3>2, <3>3, <3>4 DEF Comes
  <2>4. CASE step = "start"
    <3>1. kind \in {"on", "change"} /\ n = 1
      BY <1>2, <2>4 DEF Comes
    <3> QED BY <1>1, <2>1, <3>1 DEF Moved, Reached, Enabling
  <2> QED BY <1>1, <2>2, <2>3, <2>4
<1>6. /\ Follows(req[p].todo, kind) /\ i = req[p].id /\ row = req[p].row /\ n = Len(req[p].todo)
      /\ MayHold(i, obj)
  BY <1>1, <1>2 DEF MayHold
<1> QED BY <1>3, <1>4, <1>5, <1>6, DoneStep

LEMMA ForgetStep ==
  ASSUME AdaptersInv, NEW p \in Panel, Forget(p)
  PROVE  AdaptersInv'
<1>1. PICK i, row, obj : i = req[p].id /\ row = req[p].row /\ obj = req[p].obj
  OBVIOUS
<1>2. PICK kind \in Kinds, n \in Nat :
        /\ n = Len(req[p].todo) /\ Follows(req[p].todo, kind) /\ Comes("forget", kind, n)
        /\ i \notin raced => Reached(kind, n, i, row, obj)
  BY <1>1, StepFacts DEF Forget
<1>3. /\ Done(p, obj) /\ UNCHANGED <<rows, adapters, booting, links, world>>
      /\ started' = started \ {obj}
  BY <1>1 DEF Forget
<1>4. obj # Nobody /\ owner[obj] = i /\ MayHold(i, obj)
  BY <1>1, StepTypes DEF Forget, MayHold
<1>5. Elsewhere(i)
  BY <1>1, <1>3, <1>4, StillElsewhere DEF booting, links
<1>6. i \notin raced => Moved(kind, n, i, row, obj)'
  BY <1>2, <1>3, Forgotten DEF booting, links
<1>7. Follows(req[p].todo, kind) /\ i = req[p].id /\ row = req[p].row /\ n = Len(req[p].todo)
  BY <1>1, <1>2
<1> QED BY <1>3, <1>4, <1>5, <1>6, <1>7, DoneStep

(* What all of them have, when the step changes started_, the map, the     *)
(* objects or the row of i.                                                *)
LEMMA ElsewhereTypes ==
  ASSUME AdaptersInv, NEW p \in Panel, NEW i, i = req[p].id
  PROVE  /\ rows \in [Id -> RowState] /\ adapters \in [Id -> {Nobody} \cup Obj]
         /\ linked \subseteq live /\ live \cup failed \cup started \cup copied \subseteq 1..made
         /\ made \in 0..MaxObj /\ owner \in [Obj -> Id] /\ starts \in [Obj -> Nat] /\ made \in Nat
         /\ i \in Id /\ adapters[i] <= made /\ {Nobody} \cup Obj \subseteq Nat /\ 1..made \subseteq Obj
         /\ adapters[i] # Nobody => owner[adapters[i]] = i
         /\ i \notin raced => \A o \in live \ copied : owner[o] = i => adapters[i] = o
BY StepTypes, AdaptersTypes, AdaptersConstants DEF AdaptersInv

LEMMA HaltStep ==
  ASSUME AdaptersInv, NEW p \in Panel, Halt(p)
  PROVE  AdaptersInv'
<1>1. PICK i, row, obj : i = req[p].id /\ row = req[p].row /\ obj = req[p].obj
  OBVIOUS
<1>2. PICK kind \in Kinds, n \in Nat :
        /\ n = Len(req[p].todo) /\ Follows(req[p].todo, kind) /\ Comes("halt", kind, n)
        /\ i \notin raced => Reached(kind, n, i, row, obj)
  BY <1>1, StepFacts DEF Halt
<1>3. Done(p, obj) /\ UNCHANGED <<manager, booting, world>> /\ Stops(obj)
  BY <1>1 DEF Halt
<1>4. obj \in 1..made /\ owner[obj] = i /\ MayHold(i, obj) /\ AdaptersTypeOK
  BY <1>1, StepTypes DEF Halt, MayHold
<1>5. obj \in Obj
  BY <1>1, <1>4, ElsewhereTypes
<1>6. live' = live \ {obj} /\ linked' \subseteq live' /\ failed' = failed /\ starts' \in [Obj -> Nat]
  BY <1>3, <1>4, <1>5, StopsFacts
<1>7. Elsewhere(i)
  BY <1>1, <1>3, <1>4, <1>6, ElsewhereTypes DEF Elsewhere, manager, booting, world
<1>8. i \notin raced => Moved(kind, n, i, row, obj)'
  <2> SUFFICES ASSUME i \notin raced PROVE Moved(kind, n, i, row, obj)'
    OBVIOUS
  <2>1. Reached(kind, n, i, row, obj) /\ UNCHANGED <<rows, adapters>> /\ obj \notin live'
    BY <1>2, <1>3, <1>6 DEF manager
  <2>2. CASE kind = "change" /\ n = 9
    BY <2>1, <2>2 DEF Moved, Reached, Disabling
  <2>3. CASE kind = "off" /\ n = 4
    BY <2>1, <2>3 DEF Moved, Reached, Disabling
  <2>4. CASE kind = "delete" /\ n = 5
    BY <2>1, <2>4 DEF Moved, Reached, Disabling
  <2> QED BY <1>2, <2>2, <2>3, <2>4 DEF Comes
<1>9. Follows(req[p].todo, kind) /\ i = req[p].id /\ row = req[p].row /\ n = Len(req[p].todo)
  BY <1>1, <1>2
<1> QED BY <1>3, <1>4, <1>7, <1>8, <1>9, DoneStep

LEMMA EraseStep ==
  ASSUME AdaptersInv, NEW p \in Panel, Erase(p)
  PROVE  AdaptersInv'
<1>1. PICK i, row, obj : i = req[p].id /\ row = req[p].row /\ obj = req[p].obj
  OBVIOUS
<1>2. PICK kind \in Kinds, n \in Nat :
        /\ n = Len(req[p].todo) /\ Follows(req[p].todo, kind) /\ Comes("erase", kind, n)
        /\ i \notin raced => Reached(kind, n, i, row, obj)
  BY <1>1, StepFacts DEF Erase
<1>3. PICK o : o = adapters[i]
  OBVIOUS
<1>4. /\ Done(p, o) /\ UNCHANGED <<rows, started, booting, world>>
      /\ adapters' = [adapters EXCEPT ![i] = Nobody]
      /\ IF o \in linked THEN Stops(o) ELSE UNCHANGED links
  BY <1>1, <1>3 DEF Erase
<1>5. /\ MayHold(i, o) /\ AdaptersTypeOK /\ Nobody \in {Nobody} \cup Obj /\ Nobody <= made
      /\ o # Nobody => owner[o] = i
  <2>1. Nobody <= made
    BY AdaptersTypes DEF AdaptersInv, Nobody
  <2> QED BY <1>1, <1>3, <2>1, StepTypes DEF MayHold
<1>6. /\ live' \subseteq live /\ \A x : x # o => ((x \in live') <=> (x \in live))
      /\ linked' \subseteq live' /\ failed' = failed /\ starts' \in [Obj -> Nat]
  <2>1. CASE o \in linked
    <3>1. o \in Obj
      BY <1>1, <2>1, ElsewhereTypes
    <3>2. live' = live \ {o} /\ linked' \subseteq live' /\ failed' = failed /\ starts' \in [Obj -> Nat]
      BY <1>4, <1>5, <2>1, <3>1, StopsFacts
    <3> QED BY <3>2
  <2>2. CASE o \notin linked
    BY <1>1, <1>4, <2>2, ElsewhereTypes DEF links
  <2> QED BY <2>1, <2>2
<1>7. i \notin raced => adapters[i] \notin live \ copied
  <2> SUFFICES ASSUME i \notin raced PROVE adapters[i] \notin live \ copied
    OBVIOUS
  <2>1. Reached(kind, n, i, row, obj)
    BY <1>2
  <2>2. CASE kind = "change" /\ n = 7
    BY <2>1, <2>2 DEF Reached, Disabling
  <2>3. CASE kind = "off" /\ n = 2
    BY <2>1, <2>3 DEF Reached, Disabling
  <2>4. CASE kind = "delete" /\ n = 3
    BY <2>1, <2>4 DEF Reached, Disabling
  <2> QED BY <1>2, <2>2, <2>3, <2>4 DEF Comes
<1>8. Elsewhere(i)
  <2>1. adapters' \in [Id -> {Nobody} \cup Obj] /\ adapters'[i] = Nobody
        /\ \A j \in Id \ {i} : adapters'[j] = adapters[j]
    BY <1>1, <1>4, <1>5, ElsewhereTypes
  <2>2. \A x \in 1..made : owner[x] # i => ((x \in live') <=> (x \in live))
    <3>1. o \in 1..made => owner[o] = i
      BY <1>5 DEF Nobody
    <3> QED BY <1>6, <3>1
  <2>3. i \notin raced => \A x \in live' \ copied : owner'[x] = i => adapters'[i] = x
    BY <1>1, <1>4, <1>6, <1>7, ElsewhereTypes DEF world
  <2> QED BY <1>1, <1>4, <1>5, <1>6, <2>1, <2>2, <2>3, ElsewhereTypes DEF Elsewhere, booting, world
<1>9. i \notin raced => Moved(kind, n, i, row, o)'
  <2> SUFFICES ASSUME i \notin raced PROVE Moved(kind, n, i, row, o)'
    OBVIOUS
  <2>1. Reached(kind, n, i, row, obj) /\ rows' = rows /\ adapters'[i] = Nobody
    BY <1>1, <1>2, <1>4, ElsewhereTypes
  <2>2. CASE kind = "change" /\ n = 7
    BY <2>1, <2>2 DEF Moved, Reached, Disabling
  <2>3. CASE kind = "off" /\ n = 2
    BY <2>1, <2>3 DEF Moved, Reached, Disabling
  <2>4. CASE kind = "delete" /\ n = 3
    BY <2>1, <2>4 DEF Moved, Reached, Disabling
  <2> QED BY <1>2, <2>2, <2>3, <2>4 DEF Comes
<1>10. Follows(req[p].todo, kind) /\ i = req[p].id /\ row = req[p].row /\ n = Len(req[p].todo)
  BY <1>1, <1>2
<1> QED BY <1>4, <1>5, <1>8, <1>9, <1>10, DoneStep

LEMMA RegisterStep ==
  ASSUME AdaptersInv, NEW p \in Panel, Register(p)
  PROVE  AdaptersInv'
<1>1. PICK i, row, obj, o, new :
        /\ i = req[p].id /\ row = req[p].row /\ obj = req[p].obj /\ o = Nobody /\ new = made + 1
  OBVIOUS
<1>2. PICK kind \in Kinds, n \in Nat :
        /\ n = Len(req[p].todo) /\ Follows(req[p].todo, kind) /\ Comes("put", kind, n)
        /\ i \notin raced => Reached(kind, n, i, row, obj)
  BY <1>1, StepFacts DEF Register
<1>3. /\ Done(p, o) /\ UNCHANGED <<rows, started, booting, links, requests, down, raced>>
      /\ made < MaxObj /\ made' = new
      /\ adapters' = [adapters EXCEPT ![i] = new] /\ owner' = [owner EXCEPT ![new] = i]
  BY <1>1 DEF Register
<1>4. /\ MayHold(i, o) /\ new \in Obj /\ new \in Nat /\ made <= new /\ new \notin 1..made
      /\ new \in 0..MaxObj /\ new # Nobody /\ 1..made \subseteq 1..new
  BY <1>1, <1>3, AdaptersConstants, ElsewhereTypes DEF MayHold, Obj, Nobody
<1>5. i \notin raced => rows[i] = "on" /\ adapters[i] = Nobody
  <2>1. kind \in {"on", "change"} /\ n = 3
    BY <1>2 DEF Comes
  <2> QED BY <1>2, <2>1 DEF Reached, Enabling
<1>6. Elsewhere(i)
  <2>1. /\ adapters' \in [Id -> {Nobody} \cup Obj] /\ adapters'[i] = new
        /\ \A j \in Id \ {i} : adapters'[j] = adapters[j]
        /\ owner' \in [Obj -> Id] /\ owner'[new] = i
        /\ \A x \in 1..made : owner'[x] = owner[x]
    BY <1>1, <1>3, <1>4, ElsewhereTypes
  <2>2. i \notin raced => \A x \in live' \ copied : owner'[x] = i => adapters'[i] = x
    <3>1. \A x \in live : x \in 1..made /\ x # Nobody
      BY <1>1, ElsewhereTypes DEF Nobody
    <3> QED BY <1>1, <1>3, <1>5, <2>1, <3>1, ElsewhereTypes DEF links
  <2> QED BY <1>1, <1>3, <1>4, <2>1, <2>2, ElsewhereTypes DEF Elsewhere, booting, links
<1>7. i \notin raced => Moved(kind, n, i, row, o)'
  <2> SUFFICES ASSUME i \notin raced PROVE Moved(kind, n, i, row, o)'
    OBVIOUS
  <2>1. rows' = rows /\ adapters'[i] # Nobody
    BY <1>1, <1>3, <1>4, ElsewhereTypes
  <2>2. kind \in {"on", "change"} /\ n = 3
    BY <1>2 DEF Comes
  <2> QED BY <1>5, <2>1, <2>2 DEF Moved, Reached, Enabling
<1>8. Follows(req[p].todo, kind) /\ i = req[p].id /\ row = req[p].row /\ n = Len(req[p].todo)
  BY <1>1, <1>2
<1> QED BY <1>3, <1>4, <1>6, <1>7, <1>8, DoneStep

(* start() and resumeConnection() of the adapter a request holds: what it  *)
(* asks of the objects and of started_.                                    *)
LEMMA StartingElsewhere ==
  ASSUME AdaptersInv, NEW p \in Panel, NEW i, i = req[p].id, NEW obj, obj = req[p].obj, obj # Nobody,
         NEW k \in {0, 1}, Starts(obj, k), UNCHANGED <<rows, adapters, booting, world>>,
         started' \subseteq started \cup {obj}, started \subseteq started',
         i \notin raced => obj = adapters[i]
  PROVE  Elsewhere(i) /\ obj \in live' \cup failed'
<1>1. obj \in 1..made /\ owner[obj] = i /\ AdaptersTypeOK
  BY StepTypes
<1>2. /\ live \subseteq live' /\ live' \subseteq live \cup {obj} /\ failed' \subseteq failed \cup {obj}
      /\ \A x : x # obj => ((x \in failed') <=> (x \in failed))
      /\ obj \in live' \cup failed' /\ linked' = linked /\ starts' \in [Obj -> Nat]
  BY <1>1, StartsFacts
<1>3. \A x \in 1..made : owner[x] # i =>
        /\ (x \in live') <=> (x \in live)
        /\ (x \in failed') <=> (x \in failed)
        /\ (x \in started') <=> (x \in started)
  BY <1>1, <1>2
<1>4. i \notin raced => \A x \in live' \ copied : owner'[x] = i => adapters'[i] = x
  BY <1>2, ElsewhereTypes DEF world
<1>5. /\ linked' \subseteq live' /\ failed' \cup started' \subseteq 1..made' /\ live' \subseteq 1..made
      /\ made' = made /\ owner' = owner /\ rows' = rows /\ adapters' = adapters
      /\ UNCHANGED <<boot, toStart, copied, down, raced, requests>>
  BY <1>1, <1>2, ElsewhereTypes DEF world, booting
<1> QED BY <1>2, <1>3, <1>4, <1>5, ElsewhereTypes DEF Elsewhere

LEMMA StartStep ==
  ASSUME AdaptersInv, NEW p \in Panel, Start(p)
  PROVE  AdaptersInv'
<1>1. PICK i, row, obj, o :
        i = req[p].id /\ row = req[p].row /\ obj = req[p].obj /\ o = Nobody
  OBVIOUS
<1>2. PICK kind \in Kinds, n \in Nat :
        /\ n = Len(req[p].todo) /\ Follows(req[p].todo, kind) /\ Comes("start", kind, n)
        /\ i \notin raced => Reached(kind, n, i, row, obj)
  BY <1>1, StepFacts DEF Start
<1>3. /\ Done(p, o) /\ obj # Nobody /\ Starts(obj, 1) /\ UNCHANGED <<rows, adapters, booting, world>>
      /\ started' \subseteq started \cup {obj} /\ started \subseteq started'
  BY <1>1 DEF Start
<1>4. MayHold(i, o)
  BY <1>1 DEF MayHold
<1>5. /\ n = 1
      /\ i \notin raced => rows[i] = "on" /\ adapters[i] # Nobody /\ obj = adapters[i]
  <2>1. kind \in {"on", "change"} /\ n = 1
    BY <1>2 DEF Comes
  <2> QED BY <1>2, <2>1 DEF Reached, Enabling
<1>6. Elsewhere(i) /\ obj \in live' \cup failed'
  BY <1>1, <1>3, <1>5, StartingElsewhere
<1>7. i \notin raced => Moved(kind, n, i, row, o)'
  BY <1>3, <1>5, <1>6 DEF Moved, Settled, Served
<1>8. Follows(req[p].todo, kind) /\ i = req[p].id /\ row = req[p].row /\ n = Len(req[p].todo)
  BY <1>1, <1>2
<1> QED BY <1>3, <1>4, <1>6, <1>7, <1>8, DoneStep

LEMMA ResumeStep ==
  ASSUME AdaptersInv, NEW p \in Panel, ResumeConnection(p)
  PROVE  AdaptersInv'
<1>1. PICK i, row, obj, o :
        i = req[p].id /\ row = req[p].row /\ obj = req[p].obj /\ o = Nobody
  OBVIOUS
<1>2. PICK kind \in Kinds, n \in Nat :
        /\ n = Len(req[p].todo) /\ Follows(req[p].todo, kind) /\ Comes("resume", kind, n)
        /\ kind = "resume" => obj # Nobody
        /\ i \notin raced => Reached(kind, n, i, row, obj)
  BY <1>1, StepFacts DEF ResumeConnection
<1>3. /\ Done(p, o) /\ Starts(obj, 0) /\ UNCHANGED <<rows, adapters, booting, world>>
      /\ started' = started
  BY <1>1 DEF ResumeConnection, manager
<1>4. MayHold(i, o)
  BY <1>1 DEF MayHold
<1>5. /\ n = 1 /\ obj # Nobody
      /\ i \notin raced => Settled(i) /\ obj = adapters[i]
  <2>1. kind = "resume" /\ n = 1
    BY <1>2 DEF Comes
  <2> QED BY <1>2, <2>1 DEF Reached
<1>6. Elsewhere(i) /\ obj \in live' \cup failed'
  BY <1>1, <1>3, <1>5, StartingElsewhere
<1>7. i \notin raced => Moved(kind, n, i, row, o)'
  BY <1>3, <1>5, <1>6 DEF Moved, Settled, Served
<1>8. Follows(req[p].todo, kind) /\ i = req[p].id /\ row = req[p].row /\ n = Len(req[p].todo)
  BY <1>1, <1>2
<1> QED BY <1>3, <1>4, <1>6, <1>7, <1>8, DoneStep

LEMMA SaveStep ==
  ASSUME AdaptersInv, NEW p \in Panel, Save(p)
  PROVE  AdaptersInv'
<1>1. PICK i, row, obj, o, step :
        /\ i = req[p].id /\ row = req[p].row /\ obj = req[p].obj /\ o = Nobody
        /\ step \in {"save", "remove"} /\ Now(p, step)
  BY DEF Save
<1>2. PICK kind \in Kinds, n \in Nat :
        /\ n = Len(req[p].todo) /\ Follows(req[p].todo, kind) /\ Comes(step, kind, n)
        /\ i \notin raced => Reached(kind, n, i, row, obj)
  BY <1>1, StepFacts
<1>3. /\ Done(p, o) /\ UNCHANGED <<adapters, started, booting, links, world>>
      /\ rows' = [rows EXCEPT ![i] = IF rows[i] = "absent" THEN "absent" ELSE row]
  BY <1>1 DEF Save
<1>4. MayHold(i, o) /\ row \in RowState /\ "absent" \in RowState
  BY <1>1, StepTypes DEF MayHold, RowState
<1>5. /\ rows' \in [Id -> RowState] /\ rows'[i] = IF rows[i] = "absent" THEN "absent" ELSE row
      /\ \A j \in Id \ {i} : rows'[j] = rows[j]
  BY <1>1, <1>3, <1>4, ElsewhereTypes
<1>6. Elsewhere(i)
  BY <1>1, <1>3, <1>5, ElsewhereTypes DEF Elsewhere, booting, links, world
<1>7. i \notin raced => Moved(kind, n, i, row, o)'
  <2> SUFFICES ASSUME i \notin raced PROVE Moved(kind, n, i, row, o)'
    OBVIOUS
  <2>1. Reached(kind, n, i, row, obj) /\ adapters' = adapters
    BY <1>2, <1>3
  <2>2. CASE kind = "on" /\ n = 6
    BY <1>5, <2>1, <2>2 DEF Moved, Reached, Settled, Enabling
  <2>3. CASE kind = "off" /\ n = 6
    BY <1>5, <2>1, <2>3 DEF Moved, Reached, Disabling
  <2>4. CASE kind = "change" /\ n = 11
    BY <1>5, <2>1, <2>4 DEF Moved, Reached, Disabling
  <2>5. CASE kind = "keep" /\ n = 1
    BY <1>5, <2>1, <2>5 DEF Moved, Reached, Settled
  <2>6. CASE kind = "delete" /\ n = 1
    BY <1>5, <2>1, <2>6 DEF Moved, Reached, Settled
  <2> QED BY <1>1, <1>2, <2>2, <2>3, <2>4, <2>5, <2>6 DEF Comes
<1>8. Follows(req[p].todo, kind) /\ i = req[p].id /\ row = req[p].row /\ n = Len(req[p].todo)
  BY <1>1, <1>2
<1> QED BY <1>3, <1>4, <1>6, <1>7, <1>8, DoneStep

-----------------------------------------------------------------------------
(* A request begins.                                                       *)
Begun(todo, kind, i, row, o) ==
  IF todo = <<>> THEN Settled(i)
  ELSE Reached(kind, Len(todo), i, row, o) /\ Follows(todo, kind)
Fits(todo, kind, o) == todo # <<>> => Follows(todo, kind) /\ (kind = "resume" => o # Nobody)

LEMMA BeginFacts ==
  ASSUME AdaptersInv, NEW p \in Panel, NEW i \in Id, NEW o, NEW row, NEW todo, Begin(p, i, o, row, todo)
  PROVE  /\ ~Busy(p) /\ ~down /\ requests < MaxRequests /\ requests' = requests + 1
         /\ req' = [req EXCEPT ![p] = [todo |-> todo, id |-> i, obj |-> o, row |-> row]]
         /\ raced \subseteq raced' /\ raced' \subseteq raced \cup {i}
         /\ \A q \in Panel : Busy(q) /\ req[q].id = i => i \in raced'
         /\ UNCHANGED <<adapters, started, booting, links, made, down, owner>>
         /\ i \notin raced' => i \notin raced /\ Settled(i)
<1>1. /\ ~Busy(p) /\ ~down /\ requests < MaxRequests /\ requests' = requests + 1
      /\ req' = [req EXCEPT ![p] = [todo |-> todo, id |-> i, obj |-> o, row |-> row]]
      /\ raced \subseteq raced' /\ raced' \subseteq raced \cup {i}
      /\ \A q \in Panel : Busy(q) /\ req[q].id = i => i \in raced'
      /\ UNCHANGED <<adapters, started, booting, links, made, down, owner>>
  BY DEF Begin, Busy
<1>2. ASSUME i \notin raced' PROVE i \notin raced /\ Settled(i)
  <2>1. i \in Id \ raced /\ \A q \in Panel : Busy(q) => req[q].id # i
    BY <1>1, <1>2
  <2> QED BY <1>1, <2>1 DEF AdaptersInv, RestInv
<1> QED BY <1>1, <1>2

LEMMA BeginStep ==
  ASSUME AdaptersInv, NEW p \in Panel, NEW i \in Id, NEW o, NEW row \in RowState, NEW todo \in Seq(Step),
         Begin(p, i, o, row, todo), MayHold(i, o),
         rows' \in [Id -> RowState], \A j \in Id \ {i} : rows'[j] = rows[j],
         NEW kind \in Kinds, Fits(todo, kind, o), i \notin raced' => Begun(todo, kind, i, row, o)'
  PROVE  AdaptersInv'
<1>0. AdaptersTypeOK /\ PlanInv /\ SoloInv /\ RestInv /\ OwnerInv /\ BootInv /\ OrphanInv
  BY DEF AdaptersInv
<1>1. /\ ~Busy(p) /\ ~down /\ requests < MaxRequests /\ requests' = requests + 1
      /\ req' = [req EXCEPT ![p] = [todo |-> todo, id |-> i, obj |-> o, row |-> row]]
      /\ raced \subseteq raced' /\ raced' \subseteq raced \cup {i}
      /\ \A q \in Panel : Busy(q) /\ req[q].id = i => i \in raced'
      /\ UNCHANGED <<adapters, started, booting, links, made, down, owner>>
  BY BeginFacts
<1>2. /\ o \in {Nobody} \cup Obj
      /\ o # Nobody => o <= made /\ owner[o] = i
  BY DEF MayHold
<1>3. [todo |-> todo, id |-> i, obj |-> o, row |-> row] \in Req
  BY <1>2 DEF Req
<1>4. /\ req' \in [Panel -> Req] /\ \A q \in Panel \ {p} : req'[q] = req[q]
      /\ req'[p].todo = todo /\ req'[p].id = i /\ req'[p].obj = o /\ req'[p].row = row
      /\ Busy(p)' <=> todo # <<>>
      /\ \A q \in Panel \ {p} : Busy(q)' <=> Busy(q)
  <2>1. req \in [Panel -> Req]
    BY <1>0, AdaptersTypes
  <2>2. PICK r : r = [todo |-> todo, id |-> i, obj |-> o, row |-> row]
    OBVIOUS
  <2>3. r \in Req /\ r.todo = todo /\ r.id = i /\ r.obj = o /\ r.row = row
    BY <1>3, <2>2
  <2>4. /\ req' \in [Panel -> Req] /\ req'[p] = r /\ \A q \in Panel \ {p} : req'[q] = req[q]
    BY <1>1, <2>1, <2>2, <2>3
  <2> QED BY <2>3, <2>4 DEF Busy
<1>5. AdaptersTypeOK'
  <2>1. o <= made /\ requests' \in 0..MaxRequests
    <3>1. Nobody <= made
      BY <1>0, AdaptersTypes DEF Nobody
    <3>2. requests \in 0..MaxRequests /\ MaxRequests \in Nat
      BY <1>0, AdaptersTypes, AdaptersConstants
    <3> QED BY <1>1, <1>2, <3>1, <3>2
  <2>2. /\ adapters \in [Id -> {Nobody} \cup Obj]
        /\ \A j \in Id : adapters[j] # Nobody => owner[adapters[j]] = j
        /\ boot \in {"wait", "lock", "starting", "done"} /\ toStart \subseteq copied
        /\ \A q \in Panel : req[q].obj <= made
        /\ linked \subseteq live /\ live \cup failed \cup started \cup copied \subseteq 1..made
        /\ made \in 0..MaxObj /\ down \in BOOLEAN
        /\ owner \in [Obj -> Id] /\ starts \in [Obj -> Nat] /\ raced \subseteq Id
    BY <1>0, AdaptersTypes
  <2>3. \A q \in Panel : req'[q].obj <= made
    BY <1>4, <2>1, <2>2
  <2>4. raced' \subseteq Id
    BY <1>1, <2>2
  <2> QED BY <1>1, <1>4, <2>1, <2>2, <2>3, <2>4, AdaptersNewTypes DEF booting, links
<1>6. UNCHANGED <<adapters, started, boot, toStart, copied, live, failed, made, down, owner>>
  BY <1>1 DEF booting, links
<1>7. \A j \in Id \ {i} : (Settled(j) <=> Settled(j)')
  BY <1>6 DEF Settled, Served
<1>8. PlanInv'
  <2> SUFFICES ASSUME NEW q \in Panel, Busy(q)'
               PROVE  \E k \in Kinds :
                        /\ Follows(req[q].todo, k)'
                        /\ k = "resume" => req'[q].obj # Nobody
                        /\ req'[q].id \notin raced' =>
                             Reached(k, Len(req[q].todo), req[q].id, req[q].row, req[q].obj)'
    BY DEF PlanInv
  <2>1. CASE q = p
    <3>1. todo # <<>> /\ Follows(todo, kind) /\ (kind = "resume" => o # Nobody)
      BY <1>4, <2>1 DEF Fits
    <3>2. i \notin raced' => Reached(kind, Len(todo), i, row, o)'
      BY <3>1 DEF Begun
    <3> QED BY <1>4, <2>1, <3>1, <3>2
  <2>2. CASE q # p
    <3>1. req'[q] = req[q] /\ Busy(q)
      BY <1>4, <2>2
    <3>2. PICK k \in Kinds :
            /\ Follows(req[q].todo, k)
            /\ k = "resume" => req[q].obj # Nobody
            /\ req[q].id \notin raced =>
                 Reached(k, Len(req[q].todo), req[q].id, req[q].row, req[q].obj)
      BY <1>0, <3>1 DEF PlanInv
    <3>3. ASSUME req[q].id \notin raced'
          PROVE  Reached(k, Len(req[q].todo), req[q].id, req[q].row, req[q].obj)'
      <4>0. PICK j, w, obj, n : j = req[q].id /\ w = req[q].row /\ obj = req[q].obj
                                 /\ n = Len(req[q].todo)
        OBVIOUS
      <4>1. j \in Id \ {i} /\ Reached(k, n, j, w, obj)
        BY <1>0, <1>1, <3>1, <3>2, <3>3, <4>0, AdaptersTypes
      <4>2. rows'[j] = rows[j] /\ (Settled(j) <=> Settled(j)')
        BY <1>7, <4>1
      <4>3. Reached(k, n, j, w, obj)'
        BY <1>6, <4>1, <4>2 DEF Reached, Enabling, Disabling
      <4> QED BY <3>1, <4>0, <4>3
    <3>4. Follows(req[q].todo, k)'
      BY <3>1, <3>2
    <3> QED BY <3>1, <3>2, <3>3, <3>4
  <2> QED BY <2>1, <2>2
<1>9. SoloInv'
  <2> SUFFICES ASSUME NEW q \in Panel, NEW r \in Panel \ {q}, Busy(q)', Busy(r)', req'[q].id = req'[r].id
               PROVE  req'[q].id \in raced'
    BY DEF SoloInv
  <2>1. CASE q = p
    BY <1>1, <1>4, <2>1
  <2>2. CASE r = p
    BY <1>1, <1>4, <2>2
  <2>3. CASE q # p /\ r # p
    BY <1>0, <1>1, <1>4, <2>3 DEF SoloInv
  <2> QED BY <2>1, <2>2, <2>3
<1>10. RestInv'
  <2> SUFFICES ASSUME NEW j \in Id \ raced', \A q \in Panel : Busy(q)' => req'[q].id # j
               PROVE  Settled(j)'
    BY DEF RestInv
  <2>1. CASE j = i
    <3>1. todo = <<>>
      BY <1>4, <2>1
    <3> QED BY <2>1, <3>1 DEF Begun
  <2>2. CASE j # i
    <3>1. \A q \in Panel : Busy(q) => req[q].id # j
      BY <1>1, <1>4
    <3>2. Settled(j)
      BY <1>0, <1>1, <3>1 DEF RestInv
    <3> QED BY <1>7, <2>2, <3>2
  <2> QED BY <2>1, <2>2
<1>11. OwnerInv'
  <2>1. \A j \in Id : adapters'[j] <= made'
    BY <1>0, <1>6 DEF OwnerInv
  <2>2. ASSUME NEW q \in Panel, req'[q].obj # Nobody PROVE owner'[req'[q].obj] = req'[q].id
    <3>1. CASE q = p
      BY <1>2, <1>4, <1>6, <2>2, <3>1
    <3>2. CASE q # p
      BY <1>0, <1>4, <1>6, <2>2, <3>2 DEF OwnerInv
    <3> QED BY <3>1, <3>2
  <2> QED BY <2>1, <2>2 DEF OwnerInv
<1>12. BootInv'
  BY <1>0, <1>1, <1>6 DEF BootInv
<1>13. OrphanInv'
  BY <1>0, <1>1, <1>6 DEF OrphanInv, Alone
<1> QED BY <1>5, <1>8, <1>9, <1>10, <1>11, <1>12, <1>13 DEF AdaptersInv

(* The steps of two lists, one after the other.                            *)
LEMMA Joined ==
  ASSUME NEW s \in Seq(Step), NEW t \in Seq(Step), NEW u \in Seq(Step), Len(u) = Len(s) + Len(t),
         \A k \in 1..Len(s) : s[k] = u[k], \A k \in 1..Len(t) : t[k] = u[Len(s) + k]
  PROVE  s \o t = u
<1>1. Len(s) \in Nat /\ Len(t) \in Nat
  BY LenProperties
<1>2. s \o t \in Seq(Step) /\ Len(s \o t) = Len(u)
      /\ \A i \in 1 .. Len(s) + Len(t) : (s \o t)[i] = IF i <= Len(s) THEN s[i] ELSE t[i - Len(s)]
  BY ConcatProperties
<1>3. ASSUME NEW i \in 1..Len(s) + Len(t) PROVE (s \o t)[i] = u[i]
  <2>1. CASE i <= Len(s)
    BY <1>1, <1>2, <1>3, <2>1
  <2>2. CASE ~(i <= Len(s))
    <3>1. i - Len(s) \in 1..Len(t) /\ Len(s) + (i - Len(s)) = i
      BY <1>1, <1>3, <2>2
    <3> QED BY <1>2, <2>2, <3>1
  <2> QED BY <2>1, <2>2
<1> QED BY <1>2, <1>3, SeqEqual

LEMMA RegisterStart ==
  <<"find", "forget", "put">> \o <<"get", "start">>
    = <<"find", "forget", "put", "get", "start">>
<1>1. PICK s, t, u :
        s = <<"find", "forget", "put">> /\ t = <<"get", "start">>
        /\ u = <<"find", "forget", "put", "get", "start">>
  OBVIOUS
<1>2. /\ s \in Seq(Step) /\ t \in Seq(Step) /\ u \in Seq(Step)
      /\ Len(s) = 3 /\ Len(t) = 2 /\ Len(u) = Len(s) + Len(t)
  BY <1>1 DEF Step
<1>3. /\ \A k \in 1..Len(s) : s[k] = u[k]
      /\ \A k \in 1..Len(t) : t[k] = u[Len(s) + k]
  BY <1>1, <1>2
<1>4. s \o t = u
  BY ONLY <1>2, <1>3, Joined
<1> QED BY ONLY <1>1, <1>4

LEMMA StopUnregister ==
  <<"get", "halt", "forget">> \o <<"erase", "forget">>
    = <<"get", "halt", "forget", "erase", "forget">>
<1>1. PICK s, t, u :
        s = <<"get", "halt", "forget">> /\ t = <<"erase", "forget">>
        /\ u = <<"get", "halt", "forget", "erase", "forget">>
  OBVIOUS
<1>2. /\ s \in Seq(Step) /\ t \in Seq(Step) /\ u \in Seq(Step)
      /\ Len(s) = 3 /\ Len(t) = 2 /\ Len(u) = Len(s) + Len(t)
  BY <1>1 DEF Step
<1>3. /\ \A k \in 1..Len(s) : s[k] = u[k]
      /\ \A k \in 1..Len(t) : t[k] = u[Len(s) + k]
  BY <1>1, <1>2
<1>4. s \o t = u
  BY ONLY <1>2, <1>3, Joined
<1> QED BY ONLY <1>1, <1>4

LEMMA StopToRegister ==
  <<"get", "halt", "forget", "erase", "forget">> \o <<"find", "forget", "put">>
    = <<"get", "halt", "forget", "erase", "forget", "find", "forget", "put">>
<1>1. PICK s, t, u :
        s = <<"get", "halt", "forget", "erase", "forget">> /\ t = <<"find", "forget", "put">>
        /\ u = <<"get", "halt", "forget", "erase", "forget", "find", "forget", "put">>
  OBVIOUS
<1>2. /\ s \in Seq(Step) /\ t \in Seq(Step) /\ u \in Seq(Step)
      /\ Len(s) = 5 /\ Len(t) = 3 /\ Len(u) = Len(s) + Len(t)
  BY <1>1 DEF Step
<1>3. /\ \A k \in 1..Len(s) : s[k] = u[k]
      /\ \A k \in 1..Len(t) : t[k] = u[Len(s) + k]
  BY <1>1, <1>2
<1>4. s \o t = u
  BY ONLY <1>2, <1>3, Joined
<1> QED BY ONLY <1>1, <1>4

LEMMA StopToStart ==
  <<"get", "halt", "forget", "erase", "forget", "find", "forget", "put">> \o <<"get", "start">>
    = <<"get", "halt", "forget", "erase", "forget", "find", "forget", "put", "get", "start">>
<1>1. PICK s, t, u :
        s = <<"get", "halt", "forget", "erase", "forget", "find", "forget", "put">> /\ t = <<"get", "start">>
        /\ u = <<"get", "halt", "forget", "erase", "forget", "find", "forget", "put", "get", "start">>
  OBVIOUS
<1>2. /\ s \in Seq(Step) /\ t \in Seq(Step) /\ u \in Seq(Step)
      /\ Len(s) = 8 /\ Len(t) = 2 /\ Len(u) = Len(s) + Len(t)
  BY <1>1 DEF Step
<1>3. /\ \A k \in 1..Len(s) : s[k] = u[k]
      /\ \A k \in 1..Len(t) : t[k] = u[Len(s) + k]
  BY <1>1, <1>2
<1>4. s \o t = u
  BY ONLY <1>2, <1>3, Joined
<1> QED BY ONLY <1>1, <1>4

LEMMA SaveOn ==
  <<"save">> \o <<"find", "forget", "put", "get", "start">>
    = <<"save", "find", "forget", "put", "get", "start">>
<1>1. PICK s, t, u :
        s = <<"save">> /\ t = <<"find", "forget", "put", "get", "start">>
        /\ u = <<"save", "find", "forget", "put", "get", "start">>
  OBVIOUS
<1>2. /\ s \in Seq(Step) /\ t \in Seq(Step) /\ u \in Seq(Step)
      /\ Len(s) = 1 /\ Len(t) = 5 /\ Len(u) = Len(s) + Len(t)
  BY <1>1 DEF Step
<1>3. /\ \A k \in 1..Len(s) : s[k] = u[k]
      /\ \A k \in 1..Len(t) : t[k] = u[Len(s) + k]
  BY <1>1, <1>2
<1>4. s \o t = u
  BY ONLY <1>2, <1>3, Joined
<1> QED BY ONLY <1>1, <1>4

LEMMA SaveChange ==
  <<"save">> \o <<"get", "halt", "forget", "erase", "forget", "find", "forget", "put", "get", "start">>
    = <<"save", "get", "halt", "forget", "erase", "forget", "find", "forget", "put", "get", "start">>
<1>1. PICK s, t, u :
        s = <<"save">> /\ t = <<"get", "halt", "forget", "erase", "forget", "find", "forget", "put", "get", "start">>
        /\ u = <<"save", "get", "halt", "forget", "erase", "forget", "find", "forget", "put", "get", "start">>
  OBVIOUS
<1>2. /\ s \in Seq(Step) /\ t \in Seq(Step) /\ u \in Seq(Step)
      /\ Len(s) = 1 /\ Len(t) = 10 /\ Len(u) = Len(s) + Len(t)
  BY <1>1 DEF Step
<1>3. /\ \A k \in 1..Len(s) : s[k] = u[k]
      /\ \A k \in 1..Len(t) : t[k] = u[Len(s) + k]
  BY <1>1, <1>2
<1>4. s \o t = u
  BY ONLY <1>2, <1>3, Joined
<1> QED BY ONLY <1>1, <1>4

LEMMA SaveOff ==
  <<"save">> \o <<"get", "halt", "forget", "erase", "forget">>
    = <<"save", "get", "halt", "forget", "erase", "forget">>
<1>1. PICK s, t, u :
        s = <<"save">> /\ t = <<"get", "halt", "forget", "erase", "forget">>
        /\ u = <<"save", "get", "halt", "forget", "erase", "forget">>
  OBVIOUS
<1>2. /\ s \in Seq(Step) /\ t \in Seq(Step) /\ u \in Seq(Step)
      /\ Len(s) = 1 /\ Len(t) = 5 /\ Len(u) = Len(s) + Len(t)
  BY <1>1 DEF Step
<1>3. /\ \A k \in 1..Len(s) : s[k] = u[k]
      /\ \A k \in 1..Len(t) : t[k] = u[Len(s) + k]
  BY <1>1, <1>2
<1>4. s \o t = u
  BY ONLY <1>2, <1>3, Joined
<1> QED BY ONLY <1>1, <1>4

LEMMA SaveRegister ==
  <<"save">> \o <<"find", "forget", "put">>
    = <<"save", "find", "forget", "put">>
<1>1. PICK s, t, u :
        s = <<"save">> /\ t = <<"find", "forget", "put">>
        /\ u = <<"save", "find", "forget", "put">>
  OBVIOUS
<1>2. /\ s \in Seq(Step) /\ t \in Seq(Step) /\ u \in Seq(Step)
      /\ Len(s) = 1 /\ Len(t) = 3 /\ Len(u) = Len(s) + Len(t)
  BY <1>1 DEF Step
<1>3. /\ \A k \in 1..Len(s) : s[k] = u[k]
      /\ \A k \in 1..Len(t) : t[k] = u[Len(s) + k]
  BY <1>1, <1>2
<1>4. s \o t = u
  BY ONLY <1>2, <1>3, Joined
<1> QED BY ONLY <1>1, <1>4

LEMMA SaveRegisterStart ==
  <<"save", "find", "forget", "put">> \o <<"get", "start">>
    = <<"save", "find", "forget", "put", "get", "start">>
<1>1. PICK s, t, u :
        s = <<"save", "find", "forget", "put">> /\ t = <<"get", "start">>
        /\ u = <<"save", "find", "forget", "put", "get", "start">>
  OBVIOUS
<1>2. /\ s \in Seq(Step) /\ t \in Seq(Step) /\ u \in Seq(Step)
      /\ Len(s) = 4 /\ Len(t) = 2 /\ Len(u) = Len(s) + Len(t)
  BY <1>1 DEF Step
<1>3. /\ \A k \in 1..Len(s) : s[k] = u[k]
      /\ \A k \in 1..Len(t) : t[k] = u[Len(s) + k]
  BY <1>1, <1>2
<1>4. s \o t = u
  BY ONLY <1>2, <1>3, Joined
<1> QED BY ONLY <1>1, <1>4

LEMMA StopRemove ==
  <<"get", "halt", "forget", "erase", "forget">> \o <<"remove">>
    = <<"get", "halt", "forget", "erase", "forget", "remove">>
<1>1. PICK s, t, u :
        s = <<"get", "halt", "forget", "erase", "forget">> /\ t = <<"remove">>
        /\ u = <<"get", "halt", "forget", "erase", "forget", "remove">>
  OBVIOUS
<1>2. /\ s \in Seq(Step) /\ t \in Seq(Step) /\ u \in Seq(Step)
      /\ Len(s) = 5 /\ Len(t) = 1 /\ Len(u) = Len(s) + Len(t)
  BY <1>1 DEF Step
<1>3. /\ \A k \in 1..Len(s) : s[k] = u[k]
      /\ \A k \in 1..Len(t) : t[k] = u[Len(s) + k]
  BY <1>1, <1>2
<1>4. s \o t = u
  BY ONLY <1>2, <1>3, Joined
<1> QED BY ONLY <1>1, <1>4

(* The plans of the four requests.                                         *)
LEMMA PlansOfEdits ==
  /\ RegisterAdapter \o StartAdapter = <<"find", "forget", "put", "get", "start">>
  /\ StopAdapter \o UnregisterAdapter = <<"get", "halt", "forget", "erase", "forget">>
  /\ <<"save">> \o Edits("off", "on") = Plan("on")
  /\ <<"save">> \o Edits("on", "on") = Plan("change")
  /\ <<"save">> \o Edits("on", "off") = Plan("off")
  /\ <<"save">> \o Edits("off", "off") = Plan("keep")
  /\ StopAdapter \o UnregisterAdapter \o <<"remove">> = Plan("delete")
  /\ <<"save">> \o RegisterAdapter \o StartAdapter = Plan("on")
  /\ <<"resume">> = Plan("resume")
<1>1. RegisterAdapter \o StartAdapter = <<"find", "forget", "put", "get", "start">>
  BY RegisterStart DEF RegisterAdapter, StartAdapter
<1>2. StopAdapter \o UnregisterAdapter = <<"get", "halt", "forget", "erase", "forget">>
  BY StopUnregister DEF StopAdapter, UnregisterAdapter
<1>3. <<"save">> \o Edits("off", "on") = Plan("on")
  <2>1. Edits("off", "on") = RegisterAdapter \o StartAdapter
    BY DEF Edits
  <2> QED BY <1>1, <2>1, SaveOn DEF Plan
<1>4. <<"save">> \o Edits("on", "on") = Plan("change")
  <2>1. Edits("on", "on") = StopAdapter \o UnregisterAdapter \o RegisterAdapter \o StartAdapter
    BY DEF Edits
  <2>2. StopAdapter \o UnregisterAdapter \o RegisterAdapter
          = <<"get", "halt", "forget", "erase", "forget", "find", "forget", "put">>
    BY <1>2, StopToRegister DEF RegisterAdapter
  <2>3. Edits("on", "on") = <<"get", "halt", "forget", "erase", "forget",
                              "find", "forget", "put", "get", "start">>
    BY <2>1, <2>2, StopToStart DEF StartAdapter
  <2> QED BY <2>3, SaveChange DEF Plan
<1>5. <<"save">> \o Edits("on", "off") = Plan("off")
  <2>1. Edits("on", "off") = StopAdapter \o UnregisterAdapter
    BY DEF Edits
  <2> QED BY <1>2, <2>1, SaveOff DEF Plan
<1>6. <<"save">> \o Edits("off", "off") = Plan("keep")
  <2>1. Edits("off", "off") = <<>>
    BY DEF Edits
  <2>2. <<"save">> \in Seq(Step)
    BY DEF Step
  <2> QED BY <2>1, <2>2, ConcatEmptySeq DEF Plan
<1>7. StopAdapter \o UnregisterAdapter \o <<"remove">> = Plan("delete")
  BY <1>2, StopRemove DEF Plan
<1>8. <<"save">> \o RegisterAdapter \o StartAdapter = Plan("on")
  <2>1. <<"save">> \o RegisterAdapter = <<"save", "find", "forget", "put">>
    BY SaveRegister DEF RegisterAdapter
  <2> QED BY <2>1, SaveRegisterStart DEF StartAdapter, Plan
<1>9. <<"resume">> = Plan("resume")
  BY DEF Plan
<1> QED BY <1>1, <1>2, <1>3, <1>4, <1>5, <1>6, <1>7, <1>8, <1>9

LEMMA WholePlan ==
  ASSUME NEW kind \in Kinds
  PROVE  Plan(kind) \in Seq(Step) /\ Plan(kind) # <<>> /\ Follows(Plan(kind), kind)
<1>1. Plan(kind) \in Seq(Step)
  <2>1. CASE kind = "on"
    BY <2>1 DEF Plan, Step
  <2>2. CASE kind = "change"
    BY <2>2 DEF Plan, Step
  <2>3. CASE kind = "off"
    BY <2>3 DEF Plan, Step
  <2>4. CASE kind = "keep"
    BY <2>4 DEF Plan, Step
  <2>5. CASE kind = "delete"
    BY <2>5 DEF Plan, Step
  <2>6. CASE kind = "resume"
    BY <2>6 DEF Plan, Step
  <2> QED BY <2>1, <2>2, <2>3, <2>4, <2>5, <2>6 DEF Kinds
<1>2. PICK n \in 1..11 : n = Len(Plan(kind))
  BY PlanLength
<1>3. Plan(kind) # <<>>
  BY <1>2
<1>4. \A k \in 1..n : n - n + k = k
  BY <1>2
<1> QED BY <1>1, <1>2, <1>3, <1>4 DEF Follows

LEMMA AllButSaved ==
  LET todo == <<"find", "forget", "put", "get", "start">> IN
  todo \in Seq(Step) /\ todo # <<>> /\ Len(todo) = 5 /\ Follows(todo, "on")
<1>1. PICK todo, plan : todo = <<"find", "forget", "put", "get", "start">> /\ plan = Plan("on")
  OBVIOUS
<1>2. todo \in Seq(Step) /\ todo # <<>> /\ Len(todo) = 5 /\ Len(plan) = 6
  BY <1>1 DEF Step, Plan
<1>3. \A k \in 1..5 : todo[k] = plan[1 + k]
  BY <1>1 DEF Plan
<1>4. Len(todo) \in 1..Len(plan) /\ \A k \in 1..Len(todo) : Len(plan) - Len(todo) + k = 1 + k
  BY <1>2
<1>5. \A k \in 1..Len(todo) : todo[k] = plan[Len(plan) - Len(todo) + k]
  BY <1>2, <1>3, <1>4
<1>6. Follows(todo, "on")
  BY ONLY <1>1, <1>4, <1>5 DEF Follows
<1> QED BY <1>1, <1>2, <1>6

(* What begins on an adapter no other request works on.                    *)
LEMMA PostStep ==
  ASSUME AdaptersInv, NEW p \in Panel, Post(p)
  PROVE  AdaptersInv'
<1>1. PICK i \in Id, row \in {"off", "on"} :
        /\ rows[i] = "absent" /\ rows' = [rows EXCEPT ![i] = row]
        /\ Begin(p, i, Nobody, row, Edits("off", row))
  BY DEF Post
<1>2. PICK todo, o : todo = Edits("off", row) /\ o = Nobody
  OBVIOUS
<1>3. Begin(p, i, o, row, todo)
  BY <1>1, <1>2
<1>4. /\ row \in RowState /\ rows' \in [Id -> RowState] /\ rows'[i] = row /\ MayHold(i, o)
      /\ \A j \in Id \ {i} : rows'[j] = rows[j]
  BY <1>1, <1>2, AdaptersTypes DEF AdaptersInv, MayHold, RowState
<1>5. /\ i \notin raced' => Settled(i)
      /\ UNCHANGED <<adapters, started, booting, links, made, down, owner>>
  BY <1>3, BeginFacts
<1>6. i \notin raced' => adapters[i] = Nobody
  BY <1>1, <1>5 DEF Settled
<1>7. todo \in Seq(Step) /\ Fits(todo, "on", o) /\ (i \notin raced' => Begun(todo, "on", i, row, o)')
  <2>1. CASE row = "off"
    <3>1. todo = <<>>
      BY <1>2, <2>1 DEF Edits
    <3> QED BY <1>4, <1>5, <1>6, <2>1, <3>1, EmptySeq DEF Fits, Begun, Settled
  <2>2. CASE row = "on"
    <3>1. todo = <<"find", "forget", "put", "get", "start">>
      BY <1>2, <2>2, PlansOfEdits DEF Edits
    <3>2. todo \in Seq(Step) /\ todo # <<>> /\ Len(todo) = 5 /\ Follows(todo, "on")
      BY <3>1, AllButSaved
    <3>3. i \notin raced' => Reached("on", 5, i, row, o)'
      BY <1>4, <1>5, <1>6, <2>2 DEF Reached, Enabling
    <3> QED BY <3>2, <3>3 DEF Fits, Begun
  <2> QED BY <2>1, <2>2
<1>8. "on" \in Kinds
  BY DEF Kinds
<1> QED BY <1>3, <1>4, <1>7, <1>8, BeginStep

(* A whole plan begins.                                                    *)
LEMMA BeginPlan ==
  ASSUME AdaptersInv, NEW p \in Panel, NEW i \in Id, NEW o, NEW row \in RowState, NEW kind \in Kinds,
         Begin(p, i, o, row, Plan(kind)), MayHold(i, o), rows' = rows, kind = "resume" => o # Nobody,
         Settled(i) => Reached(kind, Len(Plan(kind)), i, row, o)
  PROVE  AdaptersInv'
<1>1. PICK todo : todo = Plan(kind)
  OBVIOUS
<1>2. todo \in Seq(Step) /\ todo # <<>> /\ Follows(todo, kind)
  BY <1>1, WholePlan
<1>3. /\ i \notin raced' => Settled(i)
      /\ UNCHANGED <<adapters, started, booting, links, made, down, owner>>
  BY BeginFacts
<1>4. i \notin raced' => Begun(todo, kind, i, row, o)'
  <2> SUFFICES ASSUME i \notin raced' PROVE Begun(todo, kind, i, row, o)'
    OBVIOUS
  <2>1. PICK n : n = Len(todo)
    OBVIOUS
  <2>2. Reached(kind, n, i, row, o)
    BY <1>1, <1>3, <2>1
  <2>3. UNCHANGED <<rows, adapters, started, boot, toStart, copied, live, failed>>
    BY <1>3 DEF booting, links
  <2>4. Reached(kind, n, i, row, o)'
    BY <2>2, <2>3 DEF Reached, Enabling, Disabling, Settled, Served
  <2> QED BY <1>2, <2>1, <2>4 DEF Begun
<1>5. rows' \in [Id -> RowState] /\ \A j \in Id \ {i} : rows'[j] = rows[j]
  BY AdaptersTypes DEF AdaptersInv
<1>6. Begin(p, i, o, row, todo) /\ Fits(todo, kind, o)
  BY <1>1, <1>2 DEF Fits
<1> QED BY <1>2, <1>4, <1>5, <1>6, BeginStep

LEMMA PutStep ==
  ASSUME AdaptersInv, NEW p \in Panel, Put(p)
  PROVE  AdaptersInv'
<1>0. PICK o : o = Nobody
  OBVIOUS
<1>1. PICK i \in Id, row \in {"off", "on"} :
        /\ rows[i] # "absent" /\ Begin(p, i, o, row, <<"save">> \o Edits(rows[i], row))
        /\ rows' = rows /\ o = Nobody
  BY <1>0 DEF Put
<1>2. MayHold(i, o) /\ row \in RowState /\ rows[i] \in {"off", "on"}
  BY <1>1, AdaptersTypes DEF AdaptersInv, MayHold, RowState
<1>3. CASE rows[i] = "off" /\ row = "on"
  <2>1. Begin(p, i, o, row, Plan("on")) /\ "on" \in Kinds /\ Len(Plan("on")) = 6
    BY <1>1, <1>3, PlansOfEdits, PlanLength DEF Kinds
  <2>2. Settled(i) => Reached("on", 6, i, row, o)
    BY <1>3 DEF Reached
  <2> QED BY <1>1, <1>2, <2>1, <2>2, BeginPlan
<1>4. CASE rows[i] = "on" /\ row = "on"
  <2>1. Begin(p, i, o, row, Plan("change")) /\ "change" \in Kinds /\ Len(Plan("change")) = 11
    BY <1>1, <1>4, PlansOfEdits, PlanLength DEF Kinds
  <2>2. Settled(i) => Reached("change", 11, i, row, o)
    BY <1>4 DEF Reached, Disabling
  <2> QED BY <1>1, <1>2, <2>1, <2>2, BeginPlan
<1>5. CASE rows[i] = "on" /\ row = "off"
  <2>1. Begin(p, i, o, row, Plan("off")) /\ "off" \in Kinds /\ Len(Plan("off")) = 6
    BY <1>1, <1>5, PlansOfEdits, PlanLength DEF Kinds
  <2>2. Settled(i) => Reached("off", 6, i, row, o)
    BY <1>5 DEF Reached
  <2> QED BY <1>1, <1>2, <2>1, <2>2, BeginPlan
<1>6. CASE rows[i] = "off" /\ row = "off"
  <2>1. Begin(p, i, o, row, Plan("keep")) /\ "keep" \in Kinds
    BY <1>1, <1>6, PlansOfEdits DEF Kinds
  <2>2. Settled(i) => Reached("keep", Len(Plan("keep")), i, row, o)
    BY <1>6 DEF Reached
  <2> QED BY <1>1, <1>2, <2>1, <2>2, BeginPlan
<1> QED BY <1>2, <1>3, <1>4, <1>5, <1>6

LEMMA DeleteStep ==
  ASSUME AdaptersInv, NEW p \in Panel, Delete(p)
  PROVE  AdaptersInv'
<1>0. PICK row, o : row = "absent" /\ o = Nobody
  OBVIOUS
<1>1. PICK i \in Id :
        /\ rows[i] # "absent" /\ rows' = rows /\ o = Nobody /\ row = "absent"
        /\ Begin(p, i, o, row, StopAdapter \o UnregisterAdapter \o <<"remove">>)
  BY <1>0 DEF Delete
<1>2. MayHold(i, o) /\ row \in RowState
  BY <1>1 DEF MayHold, RowState
<1>3. Begin(p, i, o, row, Plan("delete")) /\ "delete" \in Kinds /\ Len(Plan("delete")) = 6
  BY <1>1, PlansOfEdits, PlanLength DEF Kinds
<1>4. Settled(i) => Reached("delete", 6, i, row, o)
  BY <1>1 DEF Reached, Disabling
<1> QED BY <1>1, <1>2, <1>3, <1>4, BeginPlan

LEMMA ReconnectStep ==
  ASSUME AdaptersInv, NEW p \in Panel, Reconnect(p)
  PROVE  AdaptersInv'
<1>0. PICK row : row = "on"
  OBVIOUS
<1>a. PICK i \in Id :
        /\ rows[i] # "absent" /\ rows' = rows
        /\ Begin(p, i, adapters[i], row,
             IF adapters[i] # Nobody THEN <<"resume">>
             ELSE (IF rows[i] = "off" THEN <<"save">> ELSE <<>>) \o RegisterAdapter \o StartAdapter)
  BY <1>0 DEF Reconnect
<1>b. PICK o : o = adapters[i]
  OBVIOUS
<1>1. /\ rows[i] # "absent" /\ rows' = rows /\ o = adapters[i] /\ row = "on"
      /\ Begin(p, i, o, row,
             IF o # Nobody THEN <<"resume">>
             ELSE (IF rows[i] = "off" THEN <<"save">> ELSE <<>>) \o RegisterAdapter \o StartAdapter)
  BY <1>0, <1>a, <1>b
<1>2. MayHold(i, o) /\ row \in RowState /\ rows[i] \in {"off", "on"}
  <2>1. AdaptersTypeOK /\ OwnerInv
    BY DEF AdaptersInv
  <2> QED BY <1>1, <2>1, AdaptersTypes DEF OwnerInv, MayHold, RowState
<1>3. CASE o # Nobody
  <2>1. Begin(p, i, o, row, Plan("resume")) /\ "resume" \in Kinds
    BY <1>1, <1>3, PlansOfEdits DEF Kinds
  <2>2. Settled(i) => Reached("resume", Len(Plan("resume")), i, row, o)
    BY <1>1 DEF Reached
  <2> QED BY <1>1, <1>2, <1>3, <2>1, <2>2, BeginPlan
<1>4. CASE o = Nobody /\ rows[i] = "off"
  <2>1. Begin(p, i, o, row, Plan("on")) /\ "on" \in Kinds /\ Len(Plan("on")) = 6
    <3>1. Begin(p, i, o, row, <<"save">> \o RegisterAdapter \o StartAdapter)
      BY <1>1, <1>4
    <3> QED BY <3>1, PlansOfEdits, PlanLength DEF Kinds
  <2>2. Settled(i) => Reached("on", 6, i, row, o)
    BY <1>1, <1>4 DEF Reached
  <2> QED BY <1>1, <1>2, <2>1, <2>2, BeginPlan
<1>5. CASE o = Nobody /\ rows[i] = "on"
  <2>1. PICK todo : todo = <<"find", "forget", "put", "get", "start">>
    OBVIOUS
  <2>2. todo \in Seq(Step) /\ todo # <<>> /\ Len(todo) = 5 /\ Follows(todo, "on")
    BY <2>1, AllButSaved
  <2>3. Begin(p, i, o, row, todo)
    <3>1. Begin(p, i, o, row, <<>> \o RegisterAdapter \o StartAdapter)
      BY <1>1, <1>5
    <3>2. RegisterAdapter \in Seq(Step)
      BY DEF RegisterAdapter, Step
    <3>3. <<>> \o RegisterAdapter = RegisterAdapter
      BY <3>2, ConcatEmptySeq
    <3> QED BY <2>1, <3>1, <3>3, PlansOfEdits
  <2>4. i \in raced'
    BY <1>1, <1>5, <2>3, BeginFacts DEF Settled
  <2>5. Fits(todo, "on", o) /\ "on" \in Kinds
    BY <2>2 DEF Fits, Kinds
  <2>6. rows' \in [Id -> RowState] /\ \A j \in Id \ {i} : rows'[j] = rows[j]
    BY <1>1, AdaptersTypes DEF AdaptersInv
  <2> QED BY <1>2, <2>2, <2>3, <2>4, <2>5, <2>6, BeginStep
<1> QED BY <1>2, <1>3, <1>4, <1>5

-----------------------------------------------------------------------------
(* startAll and the platforms: no row, no registration and no request      *)
(* changes.                                                                *)
LEMMA OutsideStep ==
  ASSUME AdaptersInv, UNCHANGED <<rows, adapters, req, made, requests, owner, raced, down>>, down => boot' = "done",
         boot' \in {"wait", "lock", "starting", "done"}, toStart' \subseteq copied',
         linked' \subseteq live', live' \cup failed' \cup started' \cup copied' \subseteq 1..made,
         starts' \in [Obj -> Nat], live' \ copied' \subseteq live \ copied,
         boot' = "wait" => boot = "wait" /\ copied' = copied,
         \A i \in Id : adapters[i] # Nobody /\ Served(adapters[i]) => Served(adapters[i])',
         \A i \in Id : adapters[i] \notin live \ copied => adapters[i] \notin live' \ copied'
  PROVE  AdaptersInv'
<1>0. AdaptersTypeOK /\ PlanInv /\ SoloInv /\ RestInv /\ OwnerInv /\ BootInv /\ OrphanInv
  BY DEF AdaptersInv
<1>1. AdaptersTypeOK'
  <2>1. /\ rows \in [Id -> RowState] /\ adapters \in [Id -> {Nobody} \cup Obj]
        /\ \A i \in Id : adapters[i] # Nobody => owner[adapters[i]] = i
        /\ req \in [Panel -> Req] /\ \A p \in Panel : req[p].obj <= made
        /\ made \in 0..MaxObj /\ requests \in 0..MaxRequests /\ down \in BOOLEAN
        /\ owner \in [Obj -> Id] /\ raced \subseteq Id
    BY <1>0, AdaptersTypes
  <2> QED BY <2>1, AdaptersNewTypes
<1>2. \A i \in Id : Settled(i) => Settled(i)'
  BY DEF Settled
<1>3. PlanInv'
  <2> SUFFICES ASSUME NEW q \in Panel, Busy(q)'
               PROVE  \E k \in Kinds :
                        /\ Follows(req[q].todo, k)'
                        /\ k = "resume" => req'[q].obj # Nobody
                        /\ req'[q].id \notin raced' =>
                             Reached(k, Len(req[q].todo), req[q].id, req[q].row, req[q].obj)'
    BY DEF PlanInv
  <2>1. Busy(q) /\ req' = req /\ raced' = raced
    BY DEF Busy
  <2>2. PICK k \in Kinds :
          /\ Follows(req[q].todo, k)
          /\ k = "resume" => req[q].obj # Nobody
          /\ req[q].id \notin raced =>
               Reached(k, Len(req[q].todo), req[q].id, req[q].row, req[q].obj)
    BY <1>0, <2>1 DEF PlanInv
  <2>3. PICK i, w, obj, n : i = req[q].id /\ w = req[q].row /\ obj = req[q].obj
                             /\ n = Len(req[q].todo)
    OBVIOUS
  <2>4. ASSUME i \notin raced PROVE Reached(k, n, i, w, obj)'
    <3>1. i \in Id /\ Reached(k, n, i, w, obj)
      BY <1>0, <2>2, <2>3, <2>4, AdaptersTypes
    <3>2. /\ Settled(i) => Settled(i)'
          /\ adapters[i] \notin live \ copied => adapters'[i] \notin live' \ copied'
          /\ rows' = rows /\ adapters' = adapters
      BY <1>2, <3>1
    <3>3. \A m : /\ Enabling(i, obj, m) => Enabling(i, obj, m)'
                 /\ Disabling(i, obj, m) => Disabling(i, obj, m)'
      BY <3>2 DEF Enabling, Disabling
    <3>4. PICK m5, m1 : m5 = n - 5 /\ m1 = n - 1
      OBVIOUS
    <3>5. /\ Enabling(i, obj, n) => Enabling(i, obj, n)'
          /\ Disabling(i, obj, n) => Disabling(i, obj, n)'
          /\ Disabling(i, obj, m1) => Disabling(i, obj, m1)'
          /\ Disabling(i, obj, m5) => Disabling(i, obj, m5)'
      BY ONLY <3>3
    <3> QED BY <3>1, <3>2, <3>4, <3>5 DEF Reached
  <2> QED BY <2>1, <2>2, <2>3, <2>4
<1>4. SoloInv'
  BY <1>0 DEF SoloInv, Busy
<1>5. RestInv'
  BY <1>0, <1>2 DEF RestInv, Busy
<1>6. OwnerInv'
  BY <1>0 DEF OwnerInv
<1>7. BootInv'
  BY <1>0 DEF BootInv, Quiet
<1>8. OrphanInv'
  BY <1>0 DEF OrphanInv, Alone
<1> QED BY <1>1, <1>3, <1>4, <1>5, <1>6, <1>7, <1>8 DEF AdaptersInv

(* What startAll finds.                                                    *)
LEMMA BootTypes ==
  ASSUME AdaptersInv
  PROVE  /\ boot \in {"wait", "lock", "starting", "done"} /\ toStart \subseteq copied
         /\ linked \subseteq live /\ live \cup failed \cup started \cup copied \subseteq 1..made
         /\ starts \in [Obj -> Nat] /\ Registered \subseteq 1..made
         /\ \A i \in Id : adapters[i] # Nobody => adapters[i] \in Registered
         /\ boot = "wait" => copied = {}
         /\ boot # "done" => ~down
         /\ AdaptersTypeOK
<1>1. AdaptersTypeOK /\ OwnerInv /\ BootInv
  BY DEF AdaptersInv
<1>2. \A i \in Id : adapters[i] # Nobody => adapters[i] \in 1..made
  BY <1>1, AdaptersTypes, AdaptersConstants DEF OwnerInv, Obj
<1>3. Registered \subseteq 1..made /\ \A i \in Id : adapters[i] # Nobody => adapters[i] \in Registered
  BY <1>2 DEF Registered
<1> QED BY <1>1, <1>3, AdaptersTypes DEF BootInv

LEMMA BootCopyStep ==
  ASSUME AdaptersInv, BootCopy
  PROVE  AdaptersInv'
<1>1. /\ boot = "wait" /\ ~down /\ boot' = "lock" /\ toStart' = Registered /\ copied' = Registered
      /\ UNCHANGED <<manager, req, links, world>>
  BY DEF BootCopy
<1>2. \A i \in Id : adapters[i] # Nobody /\ Served(adapters[i]) => Served(adapters[i])'
  BY <1>1, BootTypes DEF Served, links, manager
<1>3. /\ UNCHANGED <<rows, adapters, req, made, requests, owner, raced, down, live, linked, failed, started, starts>>
      /\ copied = {}
  BY <1>1, BootTypes DEF links, manager, world
<1> QED BY <1>1, <1>2, <1>3, BootTypes, OutsideStep

LEMMA BootLockStep ==
  ASSUME AdaptersInv, BootLock
  PROVE  AdaptersInv'
<1>1. /\ boot = "lock" /\ boot' = "starting" /\ UNCHANGED <<manager, toStart, copied, req, links, world>>
  BY DEF BootLock
<1>2. UNCHANGED <<rows, adapters, req, made, requests, owner, raced, down, live, linked, failed, started, starts,
                  toStart, copied>>
  BY <1>1 DEF links, manager, world
<1>3. \A i \in Id : adapters[i] # Nobody /\ Served(adapters[i]) => Served(adapters[i])'
  BY <1>1, <1>2 DEF Served
<1> QED BY <1>1, <1>2, <1>3, BootTypes, OutsideStep

LEMMA BootDoneStep ==
  ASSUME AdaptersInv, BootDone
  PROVE  AdaptersInv'
<1>1. /\ boot = "starting" /\ toStart = {} /\ boot' = "done"
      /\ UNCHANGED <<manager, toStart, copied, req, links, world>>
  BY DEF BootDone
<1>2. UNCHANGED <<rows, adapters, req, made, requests, owner, raced, down, live, linked, failed, started, starts,
                  toStart, copied>>
  BY <1>1 DEF links, manager, world
<1>3. \A i \in Id : adapters[i] # Nobody /\ Served(adapters[i]) => Served(adapters[i])'
  BY <1>1, <1>2 DEF Served
<1> QED BY <1>1, <1>2, <1>3, BootTypes, OutsideStep

LEMMA BootStartStep ==
  ASSUME AdaptersInv, BootStart
  PROVE  AdaptersInv'
<1>1. PICK o \in toStart :
        /\ boot = "starting" /\ toStart' = toStart \ {o}
        /\ IF o \in started THEN UNCHANGED <<started, links>>
           ELSE /\ Starts(o, 1)
                /\ started' = IF o \in failed' THEN started ELSE started \cup {o}
        /\ UNCHANGED <<rows, adapters, boot, copied, req, world>>
  BY DEF BootStart
<1>2. o \in 1..made /\ o \in copied /\ AdaptersTypeOK
  BY BootTypes
<1>3. /\ live' \subseteq live \cup {o} /\ linked' \subseteq live'
      /\ live' \cup failed' \cup started' \subseteq 1..made /\ starts' \in [Obj -> Nat]
      /\ \A x \in live \cup failed : x \in live' \cup failed'
      /\ \A x : x # o => ((x \in started') <=> (x \in started))
      /\ o \notin started => o \in live' \cup failed'
      /\ o \in started => started' = started
  <2>1. CASE o \in started
    BY <1>1, <1>2, <2>1, BootTypes DEF links
  <2>2. CASE o \notin started
    <3>1. /\ live \subseteq live' /\ live' \subseteq live \cup {o} /\ failed' \subseteq failed \cup {o}
          /\ o \in live' \cup failed' /\ live \cup failed \subseteq live' \cup failed'
          /\ linked' = linked /\ starts' \in [Obj -> Nat]
      BY <1>1, <1>2, <2>2, StartsFacts
    <3>2. started' \subseteq started \cup {o} /\ \A x : x # o => ((x \in started') <=> (x \in started))
      BY <1>1, <2>2
    <3> QED BY <1>2, <2>2, <3>1, <3>2, BootTypes
  <2> QED BY <2>1, <2>2
<1>4. \A x : Served(x) => Served(x)'
  <2> SUFFICES ASSUME NEW x, Served(x) PROVE Served(x)'
    OBVIOUS
  <2>1. CASE x \in live \cup failed
    BY <1>3, <2>1 DEF Served
  <2>2. CASE x \notin live \cup failed /\ x = o
    BY <1>3, <2>2 DEF Served
  <2>3. CASE x \notin live \cup failed /\ x # o
    BY <1>1, <1>3, <2>3 DEF Served
  <2> QED BY <2>1, <2>2, <2>3
<1>5. UNCHANGED <<rows, adapters, req, made, requests, owner, raced, down, copied, boot>>
  BY <1>1 DEF world
<1>6. live' \ copied' \subseteq live \ copied
  BY <1>2, <1>3, <1>5
<1>7. boot' = "wait" => boot = "wait" /\ copied' = copied
  BY <1>5
<1>8. /\ ~down /\ boot' \in {"wait", "lock", "starting", "done"} /\ toStart' \subseteq copied'
      /\ linked' \subseteq live' /\ live' \cup failed' \cup started' \cup copied' \subseteq 1..made
  BY <1>1, <1>3, <1>5, BootTypes
<1> QED BY <1>3, <1>4, <1>5, <1>6, <1>7, <1>8, OutsideStep

LEMMA LinkStep ==
  ASSUME AdaptersInv, Connect \/ Disconnect
  PROVE  AdaptersInv'
<1>1. linked' \subseteq live /\ UNCHANGED <<manager, booting, req, live, failed, starts, world>>
  BY BootTypes DEF Connect, Disconnect
<1>2. UNCHANGED <<rows, adapters, req, made, requests, owner, raced, down, live, failed, started, starts,
                  boot, toStart, copied>>
  BY <1>1 DEF booting, manager, world
<1>3. \A i \in Id : adapters[i] # Nobody /\ Served(adapters[i]) => Served(adapters[i])'
  BY <1>2 DEF Served
<1> QED BY <1>1, <1>2, <1>3, BootTypes, OutsideStep

LEMMA IdleStep ==
  ASSUME AdaptersInv, UNCHANGED adapterVars
  PROVE  AdaptersInv'
<1>1. UNCHANGED <<rows, adapters, req, made, requests, owner, raced, down, live, linked, failed, started, starts,
                  boot, toStart, copied>>
  BY DEF adapterVars, manager, booting, links, world
<1>2. \A i \in Id : adapters[i] # Nobody /\ Served(adapters[i]) => Served(adapters[i])'
  BY <1>1 DEF Served
<1> QED BY <1>1, <1>2, BootTypes, OutsideStep

LEMMA StopAllStep ==
  ASSUME AdaptersInv, StopAll
  PROVE  AdaptersInv'
<1>0. AdaptersTypeOK /\ OwnerInv /\ OrphanInv
  BY DEF AdaptersInv
<1>1. /\ down' = TRUE /\ live' = live \ Registered /\ linked' = linked \ Registered /\ started' = {}
      /\ starts' = [o \in Obj |-> IF o \in Registered THEN 0 ELSE starts[o]]
      /\ boot' = "done" /\ toStart' = {} /\ (\A p \in Panel : req[p].todo = <<>>)
      /\ UNCHANGED <<rows, adapters, copied, req, failed, made, requests, owner, raced>>
  BY DEF StopAll
<1>2. starts' \in [Obj -> Nat]
  BY <1>0, <1>1, AdaptersTypes
<1>3. AdaptersTypeOK'
  <2>1. /\ rows \in [Id -> RowState] /\ adapters \in [Id -> {Nobody} \cup Obj]
        /\ \A i \in Id : adapters[i] # Nobody => owner[adapters[i]] = i
        /\ req \in [Panel -> Req] /\ \A p \in Panel : req[p].obj <= made
        /\ made \in 0..MaxObj /\ requests \in 0..MaxRequests
        /\ owner \in [Obj -> Id] /\ raced \subseteq Id
    BY <1>0, AdaptersTypes
  <2>2. /\ linked' \subseteq live' /\ live' \cup failed' \cup started' \cup copied' \subseteq 1..made
        /\ toStart' \subseteq copied' /\ boot' \in {"wait", "lock", "starting", "done"} /\ down' \in BOOLEAN
    BY <1>1, BootTypes
  <2> QED BY <1>1, <1>2, <2>1, <2>2, AdaptersNewTypes
<1>4. PlanInv' /\ SoloInv' /\ RestInv'
  BY <1>1 DEF PlanInv, SoloInv, RestInv, Busy
<1>5. OwnerInv' /\ BootInv'
  BY <1>0, <1>1 DEF OwnerInv, BootInv, Quiet
<1>6. OrphanInv'
  <2> SUFFICES ASSUME NEW o \in live \ copied, o \notin Registered, Alone(o) PROVE FALSE
    BY <1>1 DEF OrphanInv, Alone
  <2>1. adapters[owner[o]] = o /\ owner[o] \in Id /\ o # Nobody
    BY <1>0, AdaptersTypes, AdaptersConstants DEF OrphanInv
  <2> QED BY <2>1, BootTypes
<1> QED BY <1>3, <1>4, <1>5, <1>6 DEF AdaptersInv

-----------------------------------------------------------------------------
(* The program starts with an object for each enabled row and no request.  *)
LEMMA AdaptersStart == AdaptersInit => AdaptersInv
<1> SUFFICES ASSUME AdaptersInit PROVE AdaptersInv
  OBVIOUS
<1> DEFINE On == {i \in Id : rows[i] = "on"}
<1>1. /\ rows \in [Id -> RowState] /\ IsFiniteSet(On)
      /\ Cardinality(On) \in Nat /\ Cardinality(On) <= MaxObj
  <2>1. rows \in Stored
    BY DEF AdaptersInit
  <2>2. On \subseteq Id /\ IsFiniteSet(Id)
    BY AdaptersAssumption
  <2>3. IsFiniteSet(On) /\ Cardinality(On) \in Nat
    BY <2>2, FS_Subset, FS_CardinalityType
  <2> QED BY <2>1, <2>3, AdaptersAssumption DEF RowState
<1>2. PICK map \in [On -> 1..Cardinality(On)] :
        /\ \A i, j \in On : map[i] = map[j] => i = j
        /\ made = Cardinality(On)
        /\ adapters = [i \in Id |-> IF i \in On THEN map[i] ELSE Nobody]
        /\ owner = [o \in Obj |-> CHOOSE i \in Id : (\E j \in On : map[j] = o) => adapters[i] = o]
  BY DEF AdaptersInit
<1> HIDE DEF On
<1>3. /\ started = {} /\ boot = "wait" /\ toStart = {} /\ copied = {}
      /\ req = [p \in Panel |-> NoRequest]
      /\ live = {} /\ linked = {} /\ failed = {} /\ starts = [o \in Obj |-> 0]
      /\ requests = 0 /\ down = FALSE /\ raced = {}
  BY DEF AdaptersInit
<1>4. MaxObj \in Nat /\ made \in 0..MaxObj /\ 1..made \subseteq Obj
  BY <1>1, <1>2, AdaptersConstants DEF Obj
<1>5. \A i \in On : map[i] \in 1..made /\ map[i] # Nobody
  BY <1>2 DEF Nobody
<1>6. adapters \in [Id -> {Nobody} \cup Obj]
  BY <1>2, <1>4, <1>5
<1>7. \A i \in Id : IF rows[i] = "on" THEN i \in On /\ adapters[i] = map[i] /\ adapters[i] # Nobody
                     ELSE adapters[i] = Nobody
  BY <1>2, <1>5 DEF On
<1>8. \A o \in Obj : owner[o] \in Id /\ ((\E j \in On : map[j] = o) => adapters[owner[o]] = o)
  <2> SUFFICES ASSUME NEW o \in Obj
               PROVE  owner[o] \in Id /\ ((\E j \in On : map[j] = o) => adapters[owner[o]] = o)
    OBVIOUS
  <2>1. \E i \in Id : (\E j \in On : map[j] = o) => adapters[i] = o
    <3>1. CASE \E j \in On : map[j] = o
      BY <1>2, <3>1 DEF On
    <3>2. CASE ~\E j \in On : map[j] = o
      BY <3>2, AdaptersAssumption
    <3> QED BY <3>1, <3>2
  <2>2. owner[o] = CHOOSE i \in Id : (\E j \in On : map[j] = o) => adapters[i] = o
    BY <1>2
  <2> QED BY <2>1, <2>2
<1>9. \A i \in Id : adapters[i] # Nobody => owner[adapters[i]] = i
  <2> SUFFICES ASSUME NEW i \in Id, adapters[i] # Nobody PROVE owner[adapters[i]] = i
    OBVIOUS
  <2>1. i \in On /\ adapters[i] = map[i] /\ adapters[i] \in Obj
    BY <1>4, <1>5, <1>7
  <2>2. PICK k \in Id : k = owner[adapters[i]] /\ adapters[k] = adapters[i]
    BY <1>8, <2>1
  <2>3. k \in On /\ map[k] = map[i]
    BY <1>7, <2>1, <2>2
  <2> QED BY <1>2, <2>1, <2>2, <2>3
<1>10. owner \in [Obj -> Id]
  BY <1>2, <1>8
<1>11. \A p \in Panel : req[p] = NoRequest /\ req[p].obj = Nobody /\ ~Busy(p)
  BY <1>3, AdaptersConstants DEF Busy
<1>12. AdaptersTypeOK
  <2>1. req \in [Panel -> Req] /\ starts \in [Obj -> Nat]
    BY <1>3, AdaptersConstants
  <2>2. \A p \in Panel : req[p].obj <= made
    BY <1>4, <1>11 DEF Nobody
  <2>3. requests \in 0..MaxRequests
    BY <1>3, AdaptersConstants
  <2> QED BY <1>1, <1>3, <1>4, <1>6, <1>9, <1>10, <2>1, <2>2, <2>3 DEF AdaptersTypeOK, Req, RowState
<1>13. PlanInv /\ SoloInv
  BY <1>11 DEF PlanInv, SoloInv
<1>14. RestInv
  BY <1>3, <1>7 DEF RestInv, Settled, Served
<1>15. OwnerInv
  <2>1. \A i \in Id : adapters[i] <= made
    <3> TAKE i \in Id
    <3>1. CASE adapters[i] = Nobody
      BY <1>4, <3>1 DEF Nobody
    <3>2. CASE adapters[i] # Nobody
      BY <1>4, <1>5, <1>7, <3>2
    <3> QED BY <3>1, <3>2
  <2> QED BY <1>11, <2>1 DEF OwnerInv
<1>16. BootInv /\ OrphanInv
  BY <1>3 DEF BootInv, OrphanInv
<1> QED BY <1>12, <1>13, <1>14, <1>15, <1>16 DEF AdaptersInv

LEMMA AdaptersGoOn == AdaptersInv /\ [AdaptersNext]_adapterVars => AdaptersInv'
<1> SUFFICES ASSUME AdaptersInv, [AdaptersNext]_adapterVars PROVE AdaptersInv'
  OBVIOUS
<1>1. ASSUME NEW p \in Panel, Request(p) PROVE AdaptersInv'
  <2>1. CASE Post(p)
    BY <2>1, PostStep
  <2>2. CASE Put(p)
    BY <2>2, PutStep
  <2>3. CASE Delete(p)
    BY <2>3, DeleteStep
  <2>4. CASE Reconnect(p)
    BY <2>4, ReconnectStep
  <2> QED BY <1>1, <2>1, <2>2, <2>3, <2>4 DEF Request
<1>2. ASSUME NEW p \in Panel, RequestStep(p) PROVE AdaptersInv'
  <2>1. CASE Get(p)
    BY <2>1, GetStep
  <2>2. CASE Skip(p)
    BY <2>2, SkipStep
  <2>3. CASE Halt(p)
    BY <2>3, HaltStep
  <2>4. CASE Forget(p)
    BY <2>4, ForgetStep
  <2>5. CASE Erase(p)
    BY <2>5, EraseStep
  <2>6. CASE Register(p)
    BY <2>6, RegisterStep
  <2>7. CASE Start(p)
    BY <2>7, StartStep
  <2>8. CASE ResumeConnection(p)
    BY <2>8, ResumeStep
  <2>9. CASE Save(p)
    BY <2>9, SaveStep
  <2> QED BY <1>2, <2>1, <2>2, <2>3, <2>4, <2>5, <2>6, <2>7, <2>8, <2>9 DEF RequestStep
<1>3. CASE StartAll
  <2>1. CASE BootCopy
    BY <2>1, BootCopyStep
  <2>2. CASE BootLock
    BY <2>2, BootLockStep
  <2>3. CASE BootStart
    BY <2>3, BootStartStep
  <2>4. CASE BootDone
    BY <2>4, BootDoneStep
  <2> QED BY <1>3, <2>1, <2>2, <2>3, <2>4 DEF StartAll
<1>4. CASE StopAll
  BY <1>4, StopAllStep
<1>5. CASE Connect \/ Disconnect
  BY <1>5, LinkStep
<1>6. CASE UNCHANGED adapterVars
  BY <1>6, IdleStep
<1> QED BY <1>1, <1>2, <1>3, <1>4, <1>5, <1>6 DEF AdaptersNext

(* The adapters' inductive invariant holds throughout.                     *)
THEOREM AdaptersInvariant == AdaptersSpec => []AdaptersInv
BY AdaptersStart, AdaptersGoOn, PTL DEF AdaptersSpec

(* Rows, registrations, objects and requests keep their types: an object   *)
(* is registered under the id it was made for only.                        *)
THEOREM AdaptersTypeCorrect == AdaptersSpec => []AdaptersTypeOK
<1>1. AdaptersInv => AdaptersTypeOK
  BY DEF AdaptersInv
<1> QED BY <1>1, AdaptersInvariant, PTL

(* api_service.h:3076-3091, 3105-3107, 3172-3182.  Between requests every  *)
(* enabled adapter is registered and was started, and no other is, if no   *)
(* two requests worked on it at once.                                      *)
THEOREM RowsStayInForce == AdaptersSpec => []RowsInForce
<1>1. AdaptersInv => RowsInForce
  <2> SUFFICES ASSUME AdaptersInv, Quiet, boot = "done", ~down, NEW i \in Id \ raced
               PROVE  IF rows[i] = "on" THEN adapters[i] \in live \cup failed ELSE adapters[i] = Nobody
    BY DEF RowsInForce
  <2>1. Settled(i)
    BY DEF AdaptersInv, RestInv, Quiet, Busy
  <2> QED BY <2>1 DEF Settled, Served
<1> QED BY <1>1, AdaptersInvariant, PTL

(* adapter_manager.h:82-88, 115-122.  Between requests an adapter that     *)
(* runs is registered, and none runs after main's stopAll, except one that *)
(* startAll had copied or that two requests raced for.                     *)
THEOREM NoneIsOrphaned == AdaptersSpec => []NoOrphan
<1>1. AdaptersInv => NoOrphan
  <2> SUFFICES ASSUME AdaptersInv, NEW o \in live \ copied, Alone(o)
               PROVE  o \in Registered /\ ~down
    BY DEF NoOrphan
  <2>1. ~down /\ adapters[owner[o]] = o
    BY DEF AdaptersInv, OrphanInv
  <2>2. o # Nobody /\ owner[o] \in Id
    BY BootTypes, AdaptersTypes, AdaptersConstants
  <2> QED BY <2>1, <2>2 DEF Registered
<1> QED BY <1>1, AdaptersInvariant, PTL

-----------------------------------------------------------------------------
(* MCRuntime.  Its busy mode runs LuaRuntime with one place in the queue   *)
(* and one more timer of a callback: what Lua_proofs shows for every value *)
(* of the constants, with these two.                                       *)
Small == INSTANCE Lua_proofs WITH MaxQueue <- 1, MaxArmed <- 1

(* The assumption of LuaRuntime, of these constants.                       *)
LEMMA SmallConstants ==
  /\ Needs \in [Rules -> SUBSET Locks]
  /\ {Small!Event, Small!None} \cap Rules = {}
  /\ {1, ExecCap, MaxReloads, 1} \subseteq Nat
BY ConstantsAssumption DEF Event, None, Small!Event, Small!None

LEMMA SmallStarts == LuaInit => Small!LuaInv
<1>1. LuaInit => Small!LuaInit
  BY DEF LuaInit, Small!LuaInit, Idle, Small!Idle, Callbacks, Small!Callbacks,
         Cycle, Small!Cycle, Generations, Small!Generations, None, Small!None
<1> QED BY <1>1, SmallConstants, Small!LuaStarts

(* The definitions that do not depend on the two constants are the same in *)
(* each instance.                                                          *)
LEMMA SmallNext == [LuaBusy!LuaNext]_luaVars => [Small!LuaNext]_(Small!luaVars)
<1> SUFFICES ASSUME [LuaBusy!LuaNext]_luaVars PROVE [Small!LuaNext]_(Small!luaVars)
  OBVIOUS
<1> USE DEF LuaBusy!Resume, Small!Resume, LuaBusy!Drain, Small!Drain, LuaBusy!Cycle, Small!Cycle,
            LuaBusy!Idle, Small!Idle, LuaBusy!At, Small!At, LuaBusy!None, Small!None,
            LuaBusy!Event, Small!Event
<1>1. LuaBusy!Callbacks = Small!Callbacks
  BY DEF LuaBusy!Callbacks, Small!Callbacks, LuaBusy!Generations, Small!Generations
<1>2. LuaBusy!Sleeping = Small!Sleeping /\ (LuaBusy!MutexFree <=> Small!MutexFree)
  BY DEF LuaBusy!Sleeping, Small!Sleeping, LuaBusy!MutexFree, Small!MutexFree
<1>3. \A m : LuaBusy!LockBusy(m) <=> Small!LockBusy(m)
  BY DEF LuaBusy!LockBusy, Small!LockBusy
<1>4. ASSUME NEW m, NEW waiting
      PROVE  /\ LuaBusy!RunToEnd(m, waiting) <=> Small!RunToEnd(m, waiting)
             /\ LuaBusy!Run(m, waiting) <=> Small!Run(m, waiting)
  BY <1>2 DEF LuaBusy!Run, Small!Run, LuaBusy!RunToEnd, Small!RunToEnd, LuaBusy!RunToSleep, Small!RunToSleep,
              LuaBusy!RunRefused, Small!RunRefused, LuaBusy!Release, Small!Release
<1>5. (LuaBusy!Reload <=> Small!Reload) /\ \A m : LuaBusy!Dispatch(m) <=> Small!Dispatch(m)
  BY <1>2, <1>3, <1>4 DEF LuaBusy!Reload, Small!Reload, LuaBusy!Dispatch, Small!Dispatch,
                          LuaBusy!RoomInQueue, Small!RoomInQueue
<1>6. /\ LuaBusy!Take <=> Small!Take
      /\ LuaBusy!EnterBusy <=> Small!EnterBusy
      /\ \A cb : LuaBusy!Expire(cb) <=> Small!Expire(cb)
  BY DEF LuaBusy!Take, Small!Take, LuaBusy!EnterBusy, Small!EnterBusy, LuaBusy!Expire, Small!Expire
<1>7. LuaBusy!Enter <=> Small!Enter
  <2>1. LuaBusy!ResumeCoroutine <=> Small!ResumeCoroutine
    BY DEF LuaBusy!ResumeCoroutine, Small!ResumeCoroutine, LuaBusy!NeedsOf, Small!NeedsOf,
           LuaBusy!Release, Small!Release
  <2>2. LuaBusy!RunCycleEvent <=> Small!RunCycleEvent
    BY <1>2 DEF LuaBusy!RunCycleEvent, Small!RunCycleEvent
  <2>3. (LuaBusy!DrainEnter <=> Small!DrainEnter) /\ (LuaBusy!DrainReenter <=> Small!DrainReenter)
    BY DEF LuaBusy!DrainEnter, Small!DrainEnter, LuaBusy!DrainReenter, Small!DrainReenter
  <2> QED BY <2>1, <2>2, <2>3 DEF LuaBusy!Enter, Small!Enter
<1>8. (LuaBusy!DrainStep <=> Small!DrainStep) /\ (LuaBusy!DrainLeave <=> Small!DrainLeave)
  BY <1>3, <1>4 DEF LuaBusy!DrainStep, Small!DrainStep, LuaBusy!DrainLeave, Small!DrainLeave
<1>9. LuaBusy!LuaNext <=> Small!LuaNext
  BY <1>1, <1>5, <1>6, <1>7, <1>8 DEF LuaBusy!LuaNext, Small!LuaNext, LuaBusy!Work, Small!Work
<1> QED BY <1>9 DEF luaVars, Small!luaVars

LEMMA SmallTyped == Small!LuaInv => LuaBusy!LuaTypeOK
BY DEF Small!LuaInv, Small!LuaTypeOK, LuaBusy!LuaTypeOK, LuaBusy!Callbacks, Small!Callbacks,
       LuaBusy!Generations, Small!Generations, LuaBusy!Idle, Small!Idle, LuaBusy!None, Small!None,
       LuaBusy!Event, Small!Event

(* The invariant of MCRuntime: that of the instance that runs, and that of *)
(* the adapters.                                                           *)
RuntimeInv ==
  /\ mode # "busy" => LuaInv
  /\ mode = "busy" => Small!LuaInv
  /\ AdaptersInv

LEMMA RuntimeStep == RuntimeInv /\ [RuntimeNext]_runtimeVars => RuntimeInv'
<1> SUFFICES ASSUME RuntimeInv, [RuntimeNext]_runtimeVars PROVE RuntimeInv'
  OBVIOUS
<1>1. mode' = mode
  BY DEF RuntimeNext, QueueRuns, BusyRuns, AdaptersRun, runtimeVars
<1>2. [AdaptersNext]_adapterVars
  BY DEF RuntimeNext, QueueRuns, BusyRuns, AdaptersRun, runtimeVars
<1>3. mode # "busy" => [LuaNext]_luaVars
  BY DEF RuntimeNext, QueueRuns, BusyRuns, AdaptersRun, runtimeVars
<1>4. mode = "busy" => [LuaBusy!LuaNext]_luaVars
  BY DEF RuntimeNext, QueueRuns, BusyRuns, AdaptersRun, runtimeVars
<1>5. AdaptersInv'
  BY <1>2, AdaptersGoOn DEF RuntimeInv
<1>6. mode # "busy" => LuaInv'
  BY <1>3, LuaStep DEF RuntimeInv
<1>7. mode = "busy" => Small!LuaInv'
  BY <1>4, SmallNext, SmallConstants, Small!LuaStep DEF RuntimeInv
<1> QED BY <1>1, <1>5, <1>6, <1>7 DEF RuntimeInv

(* In each of its modes what runs keeps its types, with either pair of     *)
(* limits, while the other part stays as it started.                       *)
THEOREM RuntimeTypeCorrect == RuntimeSpec => []RuntimeTypeOK
<1>1. RuntimeInit => RuntimeInv
  BY LuaStarts, SmallStarts, AdaptersStart DEF RuntimeInit, RuntimeInv
<1>2. RuntimeInv => RuntimeTypeOK
  BY SmallTyped DEF RuntimeInv, RuntimeTypeOK, LuaInv, AdaptersInv
<1> QED BY <1>1, <1>2, RuntimeStep, PTL DEF RuntimeSpec
==============================================================================
