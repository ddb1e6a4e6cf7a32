------------------------ MODULE ReplyDelivery_proofs ------------------------
(***************************************************************************)
(* Theorems about ReplyDelivery, for any finite set of messages, any       *)
(* groups and any limits of the queues.                                    *)
(***************************************************************************)
EXTENDS ReplyDelivery, SequenceTheorems, FiniteSetTheorems, TLAPS

In(x, q) == \E i \in 1..Len(q) : q[i] = x

(* The sequence q lists the set S, each element once.                      *)
Lists(q, S) ==
  /\ \A m \in Msg : m \in S <=> In(m, q)
  /\ \A i, j \in 1..Len(q) : q[i] = q[j] => i = j

(* The replies that have a place in the delayed queue.                     *)
Held == {m \in Msg : way[m] = "delay" /\ st[m] \in {"timer", "queued", "sending"}}
At(s) == {m \in Msg : st[m] = s}

WayInv == \A m \in Msg : /\ st[m] \in {"timer", "queued"} => way[m] = "delay"
                         /\ st[m] = "ai" => way[m] = "ai"
ListInv == Lists(callbacks, At("queued")) /\ Lists(ai, At("ai"))
HeldInv == tickets = Cardinality(Held)
ProcInv == /\ proc \in {"stopped", "closed"} => callbacks = <<>>
           /\ proc = "closed" => \A m \in Msg : way[m] = "delay" => st[m] # "sending"

(* An announcement that went out marked its group while it is current.     *)
NoticeInv ==
  /\ notice # 0 => notice = notices
  /\ \A m \in Msg : /\ carried[m] <= notices
                    /\ carried[m] # 0 => st[m] # "new"
                    /\ carried[m] # 0 /\ carried[m] = notice => group[m] \in pushed

(* A segment is sent at most once between two retries.                     *)
SentInv ==
  \A m \in Msg, k \in 1..NSegs :
    /\ sent[m][k] <= retries[m] + 1
    /\ st[m] # "over" /\ k >= next[m] => sent[m][k] <= retries[m]

IInv == TypeOK /\ WayInv /\ ListInv /\ HeldInv /\ ProcInv /\ NoticeTakenOnce /\ NoticeInv /\ SentInv

LEMMA Bounds ==
  /\ NSegs \in Nat /\ NSegs > 0 /\ DelayCap \in Nat /\ CallbackCap \in Nat /\ AiCap \in Nat
  /\ MaxNotices \in Nat /\ MaxChanges \in Nat /\ MaxRetries \in Nat
BY BoundAssumption

-----------------------------------------------------------------------------
(* What is said of queues below.                                           *)
LEMMA ListsAppend ==
  ASSUME NEW q \in Seq(Msg), NEW S, NEW m \in Msg, Lists(q, S), m \notin S
  PROVE  /\ Append(q, m) \in Seq(Msg) /\ Len(Append(q, m)) = Len(q) + 1
         /\ Lists(Append(q, m), S \cup {m})
<1> DEFINE p == Append(q, m)
<1>1. /\ p \in Seq(Msg) /\ Len(p) = Len(q) + 1 /\ Len(q) \in Nat
      /\ \A i \in 1..Len(q) : p[i] = q[i]
      /\ p[Len(q) + 1] = m
  BY AppendProperties, LenProperties
<1> HIDE DEF p
<1>2. \A i \in 1..Len(p) : i \in 1..Len(q) \/ i = Len(q) + 1
  BY <1>1
<1>3. \A i \in 1..Len(q) : i \in 1..Len(p)
  BY <1>1
<1>4. Len(q) + 1 \in 1..Len(p)
  BY <1>1
<1>5. \A n \in Msg : In(n, p) <=> In(n, q) \/ n = m
  BY <1>1, <1>2, <1>3, <1>4 DEF In
<1>6. \A i \in 1..Len(q) : q[i] # m
  BY DEF Lists, In
<1>7. \A i, j \in 1..Len(p) : p[i] = p[j] => i = j
  BY <1>1, <1>2, <1>6 DEF Lists
<1> QED BY <1>1, <1>5, <1>7 DEF Lists, p

LEMMA ListsTail ==
  ASSUME NEW q \in Seq(Msg), NEW S, Lists(q, S), q # <<>>
  PROVE  /\ Tail(q) \in Seq(Msg) /\ Len(Tail(q)) = Len(q) - 1
         /\ Head(q) \in Msg /\ Head(q) \in S
         /\ Lists(Tail(q), S \ {Head(q)})
<1> DEFINE p == Tail(q)
<1>1. /\ p \in Seq(Msg) /\ Len(p) = Len(q) - 1 /\ Len(q) \in Nat \ {0} /\ Head(q) \in Msg
      /\ \A i \in 1..Len(p) : p[i] = q[i + 1]
      /\ Head(q) = q[1]
  BY EmptySeq, HeadTailProperties, LenProperties
<1> HIDE DEF p
<1>2. \A i \in 1..Len(p) : i + 1 \in 1..Len(q) /\ i + 1 # 1
  BY <1>1
<1>3. \A i \in 1..Len(q) : i = 1 \/ (i - 1 \in 1..Len(p) /\ (i - 1) + 1 = i)
  BY <1>1
<1>4. 1 \in 1..Len(q)
  BY <1>1
<1>5. Head(q) \in S
  BY <1>1, <1>4 DEF Lists, In
<1>6. \A n \in Msg : In(n, p) => In(n, q) /\ n # Head(q)
  BY <1>1, <1>2, <1>4 DEF In, Lists
<1>7. \A n \in Msg : In(n, q) /\ n # Head(q) => In(n, p)
  <2> SUFFICES ASSUME NEW n \in Msg, In(n, q), n # Head(q) PROVE In(n, p)
    OBVIOUS
  <2>1. PICK i \in 1..Len(q) : q[i] = n
    BY DEF In
  <2>2. i # 1
    BY <1>1, <2>1
  <2>3. i - 1 \in 1..Len(p) /\ p[i - 1] = q[(i - 1) + 1] /\ (i - 1) + 1 = i
    BY <1>1, <1>3, <2>2
  <2> QED BY <2>1, <2>3 DEF In
<1>8. \A i, j \in 1..Len(p) : p[i] = p[j] => i = j
  <2> SUFFICES ASSUME NEW i \in 1..Len(p), NEW j \in 1..Len(p), p[i] = p[j] PROVE i = j
    OBVIOUS
  <2>1. i + 1 = j + 1
    BY <1>1, <1>2 DEF Lists
  <2> QED BY <2>1
<1> QED BY <1>1, <1>5, <1>6, <1>7, <1>8 DEF Lists, p

LEMMA ListsCount ==
  ASSUME NEW q \in Seq(Msg), NEW S \in SUBSET Msg, Lists(q, S)
  PROVE  IsFiniteSet(S) /\ Cardinality(S) = Len(q)
<1>1. q \in [1..Len(q) -> Msg] /\ Len(q) \in Nat
  BY LenProperties
<1>2. \A i \in 1..Len(q) : q[i] \in S
  BY <1>1 DEF Lists, In
<1>3. q \in Bijection(1..Len(q), S)
  <2>1. q \in [1..Len(q) -> S]
    BY <1>1, <1>2
  <2>2. \A m \in S : \E i \in 1..Len(q) : q[i] = m
    BY DEF Lists, In
  <2> QED BY <2>1, <2>2 DEF Bijection, Injection, Surjection, Lists, IsInjective
<1>4. ExistsBijection(1..Len(q), S)
  BY <1>3 DEF ExistsBijection
<1> QED BY <1>1, <1>4, FS_CountingElements, FS_NatBijection

(* A place is taken, or given back.                                        *)
LEMMA HeldCount ==
  /\ IsFiniteSet(Held) /\ Cardinality(Held) \in Nat
  /\ \A m \in Msg : m \in Held => Cardinality(Held) > 0
<1>1. IsFiniteSet(Held)
  BY BoundAssumption, FS_Subset DEF Held
<1>2. Cardinality(Held) \in Nat /\ (Cardinality(Held) = 0 <=> Held = {})
  BY <1>1, FS_CardinalityType, FS_EmptySet
<1> QED BY <1>1, <1>2

(* A step that changes the state of one message only.                      *)
LEMMA MoveOne ==
  ASSUME TypeOK, NEW m \in Msg, NEW s \in St, st' = [st EXCEPT ![m] = s],
         \A n \in Msg : n # m => way'[n] = way[n]
  PROVE  /\ st' \in [Msg -> St] /\ \A n \in Msg : st'[n] = IF n = m THEN s ELSE st[n]
         /\ Held' = IF way'[m] = "delay" /\ s \in {"timer", "queued", "sending"}
                    THEN Held \cup {m} ELSE Held \ {m}
         /\ At("queued")' = IF s = "queued" THEN At("queued") \cup {m} ELSE At("queued") \ {m}
         /\ At("ai")' = IF s = "ai" THEN At("ai") \cup {m} ELSE At("ai") \ {m}
<1>1. /\ st' \in [Msg -> St] /\ \A n \in Msg : st'[n] = IF n = m THEN s ELSE st[n]
  BY DEF TypeOK
<1> QED BY <1>1 DEF Held, At

Queues == WayInv /\ ListInv /\ HeldInv

(* No queue is touched, and the message moves between other places.        *)
LEMMA MoveOutside ==
  ASSUME TypeOK, Queues, NEW m \in Msg, NEW s \in St, st' = [st EXCEPT ![m] = s],
         \A n \in Msg : n # m => way'[n] = way[n],
         st[m] \notin {"queued", "ai"}, s \notin {"queued", "ai"}, s = "timer" => way'[m] = "delay",
         UNCHANGED <<callbacks, ai>>,
         LET before == way[m] = "delay" /\ st[m] \in {"timer", "sending"}
             after == way'[m] = "delay" /\ s \in {"timer", "sending"}
         IN  tickets' = IF before /\ ~after THEN tickets - 1
                        ELSE IF after /\ ~before THEN tickets + 1 ELSE tickets
  PROVE  Queues'
<1>1. WayInv'
  BY MoveOne DEF Queues, WayInv
<1>2. ListInv'
  <2>1. At("queued")' = At("queued") /\ At("ai")' = At("ai")
    BY MoveOne DEF At
  <2> QED BY <2>1 DEF Queues, ListInv, Lists, In
<1>3. HeldInv'
  <2>1. m \in Held <=> way[m] = "delay" /\ st[m] \in {"timer", "sending"}
    BY DEF Held
  <2>2. Held' = IF way'[m] = "delay" /\ s \in {"timer", "sending"} THEN Held \cup {m} ELSE Held \ {m}
    BY MoveOne
  <2>3. /\ Cardinality(Held \cup {m}) = IF m \in Held THEN Cardinality(Held) ELSE Cardinality(Held) + 1
        /\ Cardinality(Held \ {m}) = IF m \in Held THEN Cardinality(Held) - 1 ELSE Cardinality(Held)
    BY HeldCount, FS_AddElement, FS_RemoveElement
  <2> QED BY <2>1, <2>2, <2>3 DEF Queues, HeldInv
<1> QED BY <1>1, <1>2, <1>3 DEF Queues

LEMMA NothingMoves ==
  ASSUME Queues, UNCHANGED <<st, way, callbacks, ai, tickets>>
  PROVE  Queues'
BY DEF Queues, WayInv, ListInv, HeldInv, Lists, In, At, Held

LEMMA PostAiQueues ==
  ASSUME TypeOK, Queues, NEW m \in Msg, PostAi(m)
  PROVE  Queues'
<1>1. /\ st[m] = "prepared" /\ way[m] = "ai" /\ UNCHANGED <<callbacks, tickets>>
  BY DEF PostAi
<1>2. CASE ai' = Append(ai, m) /\ st' = [st EXCEPT ![m] = "ai"] /\ UNCHANGED way
  <2>1. WayInv'
    BY <1>1, <1>2, MoveOne DEF Queues, WayInv, St
  <2>2. ListInv'
    <3>1. At("queued")' = At("queued") /\ At("ai")' = At("ai") \cup {m} /\ m \notin At("ai")
      BY <1>1, <1>2, MoveOne DEF At, St
    <3>2. Lists(ai', At("ai") \cup {m})
      BY <1>2, <3>1, ListsAppend DEF TypeOK, Queues, ListInv
    <3> QED BY <1>1, <3>1, <3>2 DEF Queues, ListInv, Lists, In
  <2>3. Held' = Held
    BY <1>1, <1>2, MoveOne DEF Held, St
  <2> QED BY <1>1, <2>1, <2>2, <2>3 DEF Queues, HeldInv
<1>3. CASE ai' = ai /\ st' = [st EXCEPT ![m] = "sending"] /\ way' = [way EXCEPT ![m] = "inline"]
  <2>1. way'[m] = "inline" /\ \A n \in Msg : n # m => way'[n] = way[n]
    BY <1>3 DEF TypeOK
  <2> QED BY <1>1, <1>3, <2>1, MoveOutside DEF St
<1> QED BY <1>2, <1>3 DEF PostAi

LEMMA TimerQueues ==
  ASSUME TypeOK, Queues, NEW m \in Msg, TimerFires(m)
  PROVE  Queues'
<1>1. st[m] = "timer" /\ way[m] = "delay" /\ UNCHANGED <<ai, way>>
  BY DEF TimerFires, Queues, WayInv
<1>2. CASE callbacks' = Append(callbacks, m) /\ st' = [st EXCEPT ![m] = "queued"] /\ UNCHANGED tickets
  <2>1. WayInv'
    BY <1>1, <1>2, MoveOne DEF Queues, WayInv, St
  <2>2. ListInv'
    <3>1. At("ai")' = At("ai") /\ At("queued")' = At("queued") \cup {m} /\ m \notin At("queued")
      BY <1>1, <1>2, MoveOne DEF At, St
    <3>2. Lists(callbacks', At("queued") \cup {m})
      BY <1>2, <3>1, ListsAppend DEF TypeOK, Queues, ListInv
    <3> QED BY <1>1, <3>1, <3>2 DEF Queues, ListInv, Lists, In
  <2>3. Held' = Held
    BY <1>1, <1>2, MoveOne DEF Held, St
  <2> QED BY <1>2, <2>1, <2>2, <2>3 DEF Queues, HeldInv
<1>3. CASE callbacks' = callbacks /\ st' = [st EXCEPT ![m] = "over"] /\ tickets' = tickets - 1
  BY <1>1, <1>3, MoveOutside DEF St
<1> QED BY <1>2, <1>3 DEF TimerFires

LEMMA RunDelayedQueues ==
  ASSUME TypeOK, Queues, NEW m \in Msg, RunDelayed(m)
  PROVE  Queues' /\ callbacks' \in Seq(Msg) /\ Len(callbacks') = Len(callbacks) - 1
<1>1. /\ callbacks # <<>> /\ m = Head(callbacks) /\ callbacks' = Tail(callbacks) /\ UNCHANGED <<ai, way>>
  BY DEF RunDelayed
<1>2. /\ callbacks' \in Seq(Msg) /\ Len(callbacks') = Len(callbacks) - 1
      /\ m \in At("queued") /\ Lists(callbacks', At("queued") \ {m})
  BY <1>1, ListsTail DEF TypeOK, Queues, ListInv
<1>3. st[m] = "queued" /\ way[m] = "delay"
  BY <1>2 DEF At, Queues, WayInv
<1>4. PICK s \in {"sending", "over"} :
        st' = [st EXCEPT ![m] = s] /\ tickets' = IF s = "sending" THEN tickets ELSE tickets - 1
  BY DEF RunDelayed
<1>5. s \in St
  BY DEF St
<1>6. WayInv'
  BY <1>1, <1>4, <1>5, MoveOne DEF Queues, WayInv
<1>7. ListInv'
  <2>1. At("ai")' = At("ai") /\ At("queued")' = At("queued") \ {m}
    BY <1>1, <1>3, <1>4, <1>5, MoveOne DEF At
  <2> QED BY <1>1, <1>2, <2>1 DEF Queues, ListInv, Lists, In
<1>8. HeldInv'
  <2>1. m \in Held
    BY <1>3 DEF Held
  <2>2. Held' = IF s = "sending" THEN Held \cup {m} ELSE Held \ {m}
    BY <1>1, <1>3, <1>4, <1>5, MoveOne
  <2>3. Held \cup {m} = Held
    BY <2>1
  <2>4. IsFiniteSet(Held) /\ Cardinality(Held \ {m}) = Cardinality(Held) - 1
    BY <2>1, HeldCount, FS_RemoveElement
  <2>5. Cardinality(Held') = IF s = "sending" THEN Cardinality(Held) ELSE Cardinality(Held) - 1
    BY <2>2, <2>3, <2>4
  <2> QED BY <1>4, <2>5 DEF Queues, HeldInv
<1> QED BY <1>2, <1>6, <1>7, <1>8 DEF Queues

LEMMA RunAiQueues ==
  ASSUME TypeOK, Queues, NEW m \in Msg, RunAi(m)
  PROVE  /\ Queues' /\ st[m] = "ai" /\ way[m] = "ai"
         /\ ai' \in Seq(Msg) /\ Len(ai') = Len(ai) - 1
<1>1. /\ ai # <<>> /\ m = Head(ai) /\ ai' = Tail(ai) /\ st' = [st EXCEPT ![m] = "sending"]
      /\ UNCHANGED <<callbacks, way, tickets>>
  BY DEF RunAi
<1>2. /\ ai' \in Seq(Msg) /\ Len(ai') = Len(ai) - 1
      /\ m \in At("ai") /\ Lists(ai', At("ai") \ {m})
  BY <1>1, ListsTail DEF TypeOK, Queues, ListInv
<1>3. st[m] = "ai" /\ way[m] = "ai"
  BY <1>2 DEF At, Queues, WayInv
<1>4. WayInv'
  BY <1>1, MoveOne DEF Queues, WayInv, St
<1>5. ListInv'
  <2>1. At("queued")' = At("queued") /\ At("ai")' = At("ai") \ {m}
    BY <1>1, <1>3, MoveOne DEF At, St
  <2> QED BY <1>1, <1>2, <2>1 DEF Queues, ListInv, Lists, In
<1>6. Held' = Held
  BY <1>1, <1>3, MoveOne DEF Held, St
<1> QED BY <1>1, <1>2, <1>3, <1>4, <1>5, <1>6 DEF Queues, HeldInv

LEMMA StopQueues ==
  ASSUME TypeOK, Queues, StopCallbacks
  PROVE  Queues'
<1>1. /\ callbacks' = <<>> /\ UNCHANGED <<ai, way>> /\ tickets' = tickets - Len(callbacks)
      /\ st' = [m \in Msg |-> IF st[m] = "queued" THEN "over" ELSE st[m]]
  BY DEF StopCallbacks
<1>2. \A m \in Msg : st'[m] = IF st[m] = "queued" THEN "over" ELSE st[m]
  BY <1>1
<1>3. WayInv'
  BY <1>1, <1>2 DEF Queues, WayInv
<1>4. ListInv'
  <2>1. At("ai")' = At("ai") /\ At("queued")' = {}
    BY <1>2 DEF At
  <2>2. Len(callbacks') = 0
    BY <1>1, EmptySeq
  <2> QED BY <1>1, <2>1, <2>2 DEF Queues, ListInv, Lists, In
<1>5. HeldInv'
  <2>1. Held' = Held \ At("queued") /\ Held \cap At("queued") = At("queued")
    BY <1>1, <1>2 DEF Held, At, Queues, WayInv
  <2>2. Cardinality(At("queued")) = Len(callbacks)
    BY ListsCount DEF TypeOK, Queues, ListInv, At
  <2>3. Cardinality(Held') = Cardinality(Held) - Len(callbacks)
    <3> DEFINE H == Held
               Q == At("queued")
    <3>1. IsFiniteSet(H)
      BY HeldCount
    <3> HIDE DEF H, Q
    <3>2. Cardinality(H \ Q) = Cardinality(H) - Cardinality(H \cap Q)
      BY <3>1, FS_Difference
    <3> QED BY <2>1, <2>2, <3>2 DEF H, Q
  <2> QED BY <1>1, <2>3 DEF Queues, HeldInv
<1> QED BY <1>3, <1>4, <1>5 DEF Queues

(* Between two segments only a busy hook moves the message.                *)
LEMMA HookQueues ==
  ASSUME TypeOK, Queues, NEW m \in Msg, Send(m) \/ SendNotice(m)
  PROVE  Queues' /\ \A n \in Msg : st'[n] # st[n] => n = m /\ st'[n] \in {"timer", "over"}
<1>1. st[m] = "sending" /\ UNCHANGED <<way, callbacks, ai, tickets>>
  BY DEF Send, SendNotice, queues
<1>2. \/ st' = st
      \/ way[m] = "delay" /\ st' = [st EXCEPT ![m] = "timer"]
      \/ way[m] # "delay" /\ st' = [st EXCEPT ![m] = "over"]
  BY DEF Send, SendNotice, Hook, HookBusy
<1>3. CASE st' = st
  BY <1>1, <1>3, NothingMoves
<1>4. CASE way[m] = "delay" /\ st' = [st EXCEPT ![m] = "timer"]
  BY <1>1, <1>4, MoveOutside, MoveOne DEF St
<1>5. CASE way[m] # "delay" /\ st' = [st EXCEPT ![m] = "over"]
  BY <1>1, <1>5, MoveOutside, MoveOne DEF St
<1> QED BY <1>2, <1>3, <1>4, <1>5

LEMMA QueuesStep ==
  ASSUME TypeOK, Queues, [Next]_vars
  PROVE  Queues'
<1>1. ASSUME NEW m \in Msg, TakeNotice(m) PROVE Queues'
  BY <1>1, MoveOutside DEF TakeNotice, queues, St
<1>2. ASSUME NEW m \in Msg, PostDelayed(m) PROVE Queues'
  BY <1>2, MoveOutside DEF PostDelayed, St
<1>3. ASSUME NEW m \in Msg, FinishInline(m) PROVE Queues'
  BY <1>3, MoveOutside DEF FinishInline, queues, St
<1>4. ASSUME NEW m \in Msg, Finish(m) PROVE Queues'
  BY <1>4, MoveOutside DEF Finish, Release, St
<1>5. CASE \E m \in Msg : Handle(m)
  BY <1>1, <1>2, <1>3, <1>5, PostAiQueues DEF Handle
<1>6. CASE \E m \in Msg : Deliver(m)
  BY <1>4, <1>6, TimerQueues, RunDelayedQueues, RunAiQueues, HookQueues DEF Deliver
<1>7. CASE SetNotice \/ CancelNotice \/ Change \/ Cancel \/ Close \/ UNCHANGED vars
  BY <1>7, NothingMoves DEF SetNotice, CancelNotice, Change, Cancel, Close, vars, message, queues
<1> QED BY <1>5, <1>6, <1>7, StopQueues DEF Next

-----------------------------------------------------------------------------
(* After the executor has stopped no delayed reply starts to be sent.      *)
LEMMA ProcStep ==
  ASSUME TypeOK, Queues, ProcInv, [Next]_vars
  PROVE  ProcInv'
<1>1. ASSUME NEW m \in Msg, Handle(m) PROVE ProcInv'
  <2>1. UNCHANGED <<callbacks, proc>> /\ \A n \in Msg : way'[n] = "delay" /\ st'[n] = "sending" =>
                                            way[n] = "delay" /\ st[n] = "sending"
    BY <1>1 DEF Handle, TakeNotice, PostDelayed, PostAi, FinishInline, TypeOK, queues, world
  <2> QED BY <2>1 DEF ProcInv
<1>2. ASSUME NEW m \in Msg, TimerFires(m) PROVE ProcInv'
  BY <1>2 DEF TimerFires, world, ProcInv
<1>3. ASSUME NEW m \in Msg, RunDelayed(m) PROVE ProcInv'
  BY <1>3 DEF RunDelayed, world, ProcInv, TypeOK
<1>4. ASSUME NEW m \in Msg, RunAi(m) PROVE ProcInv'
  BY <1>4, RunAiQueues DEF RunAi, world, ProcInv, TypeOK
<1>5. ASSUME NEW m \in Msg, Send(m) \/ SendNotice(m) PROVE ProcInv'
  <2>1. UNCHANGED <<callbacks, proc, way>>
    BY <1>5 DEF Send, SendNotice, queues, world
  <2> QED BY <1>5, <2>1, HookQueues DEF ProcInv
<1>6. ASSUME NEW m \in Msg, Finish(m) PROVE ProcInv'
  BY <1>6 DEF Finish, world, ProcInv, TypeOK
<1>7. CASE SetNotice \/ CancelNotice \/ Change \/ UNCHANGED vars
  BY <1>7 DEF SetNotice, CancelNotice, Change, vars, message, queues, world, ProcInv
<1>8. CASE Cancel
  BY <1>8 DEF Cancel, ProcInv
<1>9. CASE StopCallbacks
  BY <1>9 DEF StopCallbacks, ProcInv
<1>10. CASE Close
  BY <1>10 DEF Close, Sending, message, queues, ProcInv
<1> QED BY <1>1, <1>2, <1>3, <1>4, <1>5, <1>6, <1>7, <1>8, <1>9, <1>10 DEF Next, Deliver

(* takeFor marks the group when it hands out the announcement.             *)
LEMMA NoticeStep ==
  ASSUME TypeOK, NoticeInv, NoticeTakenOnce, [Next]_vars
  PROVE  NoticeInv' /\ NoticeTakenOnce'
<1>1. ASSUME UNCHANGED <<notice, notices, pushed, carried, group>>,
             \A m \in Msg : st[m] # "new" => st'[m] # "new"
      PROVE  NoticeInv' /\ NoticeTakenOnce'
  BY <1>1 DEF NoticeInv, NoticeTakenOnce
<1>2. ASSUME NEW m \in Msg, TakeNotice(m) PROVE NoticeInv' /\ NoticeTakenOnce'
  <2>1. /\ st[m] = "new" /\ st' = [st EXCEPT ![m] = "prepared"] /\ UNCHANGED <<group, notice, notices>>
    BY <1>2 DEF TakeNotice, world
  <2>2. \A n \in Msg : st'[n] = IF n = m THEN "prepared" ELSE st[n]
    BY <2>1 DEF TypeOK
  <2>3. CASE UNCHANGED <<carried, pushed>>
    BY <2>1, <2>2, <2>3, <1>1
  <2>4. CASE /\ notice # 0 /\ group[m] \notin pushed
             /\ carried' = [carried EXCEPT ![m] = notice] /\ pushed' = pushed \cup {group[m]}
    <3>1. \A n \in Msg : carried'[n] = IF n = m THEN notice ELSE carried[n]
      BY <2>4 DEF TypeOK
    <3>2. NoticeInv'
      BY <2>1, <2>2, <2>4, <3>1 DEF NoticeInv, TypeOK
    <3>3. \A n \in Msg : n # m /\ carried[n] = notice => group[n] # group[m]
      BY <2>4 DEF NoticeInv
    <3>4. NoticeTakenOnce'
      BY <2>1, <3>1, <3>3 DEF NoticeTakenOnce
    <3> QED BY <3>2, <3>4
  <2> QED BY <1>2, <2>3, <2>4 DEF TakeNotice
<1>3. ASSUME NEW m \in Msg, PostDelayed(m) \/ PostAi(m) \/ FinishInline(m) \/ Deliver(m)
      PROVE  NoticeInv' /\ NoticeTakenOnce'
  <2>1. UNCHANGED <<notice, notices, pushed, carried, group>>
    BY <1>3 DEF PostDelayed, PostAi, FinishInline, Deliver, TimerFires, RunDelayed, RunAi, Send,
                SendNotice, Finish, world
  <2>2. \A n \in Msg : st[n] # "new" => st'[n] # "new"
    BY <1>3 DEF PostDelayed, PostAi, FinishInline, Deliver, TimerFires, RunDelayed, RunAi, Send,
                SendNotice, Finish, Hook, HookBusy, TypeOK
  <2> QED BY <1>1, <2>1, <2>2
<1>4. CASE SetNotice
  <2>1. /\ notice' = notices + 1 /\ notices' = notices + 1 /\ UNCHANGED <<carried, group, st>>
    BY <1>4 DEF SetNotice, message
  <2>2. notices \in Nat /\ \A m \in Msg : carried[m] \in Int /\ carried[m] <= notices
    BY BoundAssumption DEF TypeOK, NoticeInv, Notice
  <2> QED BY <2>1, <2>2 DEF NoticeInv, NoticeTakenOnce
<1>5. CASE CancelNotice
  BY <1>5 DEF CancelNotice, message, world, NoticeInv, NoticeTakenOnce
<1>6. CASE Change \/ Cancel \/ StopCallbacks \/ Close \/ UNCHANGED vars
  <2>1. UNCHANGED <<notice, notices, pushed, carried, group>>
    BY <1>6 DEF Change, Cancel, StopCallbacks, Close, vars, message, world
  <2>2. \A n \in Msg : st[n] # "new" => st'[n] # "new"
    BY <1>6 DEF Change, Cancel, StopCallbacks, Close, vars, message
  <2> QED BY <1>1, <2>1, <2>2
<1> QED BY <1>2, <1>3, <1>4, <1>5, <1>6 DEF Next, Handle

-----------------------------------------------------------------------------
(* A segment goes out again only after its callback was run again.         *)
LEMMA SentStep ==
  ASSUME TypeOK, SentInv, Queues, [Next]_vars
  PROVE  SentInv'
<1>1. ASSUME UNCHANGED <<sent, retries, next>>, \A m \in Msg : st[m] = "over" => st'[m] = "over"
      PROVE  SentInv'
  BY <1>1 DEF SentInv
<1>2. ASSUME NEW m \in Msg, Send(m) \/ SendNotice(m) PROVE SentInv'
  <2> SUFFICES ASSUME NEW n \in Msg, NEW k \in 1..NSegs
      PROVE /\ sent'[n][k] <= retries'[n] + 1
            /\ st'[n] # "over" /\ k >= next'[n] => sent'[n][k] <= retries'[n]
    BY DEF SentInv
  <2>1. /\ st[m] = "sending" /\ next[m] <= segs[m] + 1 /\ segs[m] \in 1..NSegs
        /\ next[m] \in Nat /\ NSegs \in Nat /\ retries[m] \in Nat /\ retries[n] \in Nat /\ next[n] \in Nat
        /\ sent[n][k] \in Nat
    <3>1. segs[m] \in 1..NSegs /\ next[m] \in 1..NSegs + 2 /\ next[n] \in 1..NSegs + 2
      BY DEF TypeOK
    <3>2. retries[m] \in 0..MaxRetries /\ retries[n] \in 0..MaxRetries
      BY DEF TypeOK
    <3>3. sent[n] \in [1..NSegs -> 0..MaxRetries + 1]
      BY DEF TypeOK
    <3>4. sent[n][k] \in 0..MaxRetries + 1
      BY <3>3
    <3>5. st[m] = "sending" /\ (next[m] <= segs[m] \/ next[m] = segs[m] + 1)
      BY <1>2 DEF Send, SendNotice
    <3> QED BY <3>1, <3>2, <3>4, <3>5, Bounds
  <2>2. /\ sent[n][k] <= retries[n] + 1
        /\ st[n] # "over" /\ k >= next[n] => sent[n][k] <= retries[n]
    BY DEF SentInv
  <2>3. CASE n # m
    <3>1. st'[n] = st[n] /\ next'[n] = next[n] /\ retries'[n] = retries[n] /\ sent'[n] = sent[n]
      BY <1>2, <2>3 DEF Send, SendNotice, Hook, HookBusy, TypeOK, history
    <3> QED BY <2>2, <3>1
  <2>4. CASE n = m
    <3>1. \/ sent'[m][k] = sent[m][k] /\ (st' = st => next'[m] >= next[m])
          \/ next[m] = k /\ sent'[m][k] = sent[m][k] + 1 /\ (st' = st => next'[m] = k + 1)
      <4>1. CASE sent' = [sent EXCEPT ![m][next[m]] = @ + 1] /\ Hook(m) /\ next[m] <= segs[m]
        <5>1. next[m] \in 1..NSegs
          BY <2>1, <4>1 DEF TypeOK
        <5>2. sent'[m][k] = IF k = next[m] THEN sent[m][k] + 1 ELSE sent[m][k]
          BY <4>1, <5>1 DEF TypeOK
        <5>3. st' = st => next'[m] = next[m] + 1
          BY <2>1, <4>1 DEF Hook, HookBusy, TypeOK, St
        <5> QED BY <2>1, <5>2, <5>3
      <4>2. CASE sent' = sent /\ (next' = [next EXCEPT ![m] = segs[m] + 1] \/ Hook(m))
        <5>1. st' = st => next'[m] >= next[m]
          BY <2>1, <4>2 DEF Hook, HookBusy, TypeOK, St
        <5> QED BY <4>2, <5>1
      <4> QED BY <1>2, <4>1, <4>2 DEF Send, SendNotice, history
    <3>2. \/ st' = st /\ retries' = retries
          \/ st'[m] = "over" /\ retries' = retries
          \/ retries'[m] = retries[m] + 1 /\ st'[m] = "timer"
      BY <1>2 DEF Send, SendNotice, Hook, HookBusy, TypeOK
    <3>3. next'[m] \in Nat
      <4>1. next' = next \/ next'[m] \in {next[m] + 1, 1, segs[m] + 1}
        BY <1>2 DEF Send, SendNotice, Hook, HookBusy, TypeOK
      <4> QED BY <2>1, <4>1
    <3> QED BY <2>1, <2>2, <2>4, <3>1, <3>2, <3>3
  <2> QED BY <2>3, <2>4
<1>3. ASSUME NEW m \in Msg, Handle(m) \/ TimerFires(m) \/ Finish(m) PROVE SentInv'
  <2>1. UNCHANGED <<sent, retries, next>>
    BY <1>3 DEF Handle, TakeNotice, PostDelayed, PostAi, FinishInline, TimerFires, Finish, history
  <2>2. \A n \in Msg : st[n] = "over" => st'[n] = "over"
    BY <1>3 DEF Handle, TakeNotice, PostDelayed, PostAi, FinishInline, TimerFires, Finish, TypeOK
  <2> QED BY <1>1, <2>1, <2>2
<1>4. ASSUME NEW m \in Msg, RunDelayed(m) PROVE SentInv'
  <2>1. UNCHANGED <<sent, retries, next>> /\ callbacks # <<>> /\ m = Head(callbacks)
    BY <1>4 DEF RunDelayed, history
  <2>2. st[m] = "queued"
    <3>1. m \in At("queued")
      BY <2>1, ListsTail DEF Queues, ListInv, TypeOK
    <3> QED BY <3>1 DEF At
  <2>3. \A n \in Msg : st[n] = "over" => st'[n] = "over"
    BY <1>4, <2>2 DEF RunDelayed, TypeOK
  <2> QED BY <1>1, <2>1, <2>3
<1>5. ASSUME NEW m \in Msg, RunAi(m) PROVE SentInv'
  <2>1. UNCHANGED <<sent, retries, next>> /\ st[m] = "ai"
    BY <1>5, RunAiQueues DEF RunAi, history
  <2>2. \A n \in Msg : st[n] = "over" => st'[n] = "over"
    BY <1>5, <2>1 DEF RunAi, TypeOK
  <2> QED BY <1>1, <2>1, <2>2
<1>6. CASE SetNotice \/ CancelNotice \/ Change \/ Cancel \/ StopCallbacks \/ Close \/ UNCHANGED vars
  BY <1>1, <1>6 DEF SetNotice, CancelNotice, Change, Cancel, StopCallbacks, Close, vars, message, history
<1> QED BY <1>2, <1>3, <1>4, <1>5, <1>6 DEF Next, Deliver

(* The types; the only difficult ones are numbers: a ticket given back had *)
(* been taken, and no segment was sent more often than it was tried.       *)
Ways == /\ st \in [Msg -> St] /\ way \in [Msg -> Way] /\ group \in [Msg -> Group]
        /\ segs \in [Msg -> 1..NSegs] /\ next \in [Msg -> 1..NSegs + 2]
        /\ missed \in [Msg -> BOOLEAN] /\ carried \in [Msg -> {0} \cup Notice]
        /\ retries \in [Msg -> 0..MaxRetries] /\ authority \in [Msg -> {0, 1}]
        /\ sent \in [Msg -> [1..NSegs -> Nat]]
Places == /\ tickets \in Int /\ tickets <= DelayCap /\ {open, connected} \subseteq BOOLEAN
          /\ callbacks \in Seq(Msg) /\ Len(callbacks) <= CallbackCap
          /\ ai \in Seq(Msg) /\ Len(ai) <= AiCap
Rest == /\ notice \in {0} \cup Notice /\ pushed \subseteq Group
        /\ grant \in {0, 1} /\ proc \in {"up", "cancelled", "stopped", "closed"}
        /\ notices \in 0..MaxNotices /\ changes \in 0..MaxChanges

LEMMA TypeParts ==
  /\ TypeOK => Ways /\ Places /\ Rest
  /\ Ways /\ Places /\ Rest /\ HeldInv /\ SentInv => TypeOK
<1>1. /\ {NSegs, DelayCap, CallbackCap, AiCap} \subseteq Nat \ {0}
      /\ {MaxNotices, MaxChanges, MaxRetries} \subseteq Nat
  BY BoundAssumption
<1>2. ASSUME TypeOK PROVE Ways /\ Places /\ Rest
  <2>1. sent \in [Msg -> [1..NSegs -> Nat]]
    BY <1>1, <1>2 DEF TypeOK
  <2>2. Ways
    BY <1>2, <2>1 DEF TypeOK, Ways
  <2>3. Places /\ Rest
    BY <1>1, <1>2 DEF TypeOK, Places, Rest
  <2> QED BY <2>2, <2>3
<1>3. ASSUME Ways, Places, Rest, HeldInv, SentInv PROVE TypeOK
  <2>1. sent \in [Msg -> [1..NSegs -> 0..MaxRetries + 1]]
    <3>1. ASSUME NEW m \in Msg, NEW k \in 1..NSegs PROVE sent[m][k] \in 0..MaxRetries + 1
      <4>1. retries[m] \in 0..MaxRetries
        BY <1>3 DEF Ways
      <4>2. sent[m] \in [1..NSegs -> Nat]
        BY <1>3 DEF Ways
      <4>3. sent[m][k] \in Nat
        BY <4>2
      <4>4. sent[m][k] <= retries[m] + 1
        BY <1>3 DEF SentInv
      <4> QED BY <4>1, <4>3, <4>4, Bounds
    <3> QED BY <1>3, <3>1 DEF Ways
  <2>2. tickets \in 0..DelayCap
    BY <1>1, <1>3, HeldCount DEF HeldInv, Places
  <2> QED BY <1>3, <2>1, <2>2 DEF TypeOK, Ways, Places, Rest
<1> QED BY <1>2, <1>3

LEMMA HandleTyped ==
  ASSUME TypeOK, NEW m \in Msg, Handle(m)
  PROVE  Ways' /\ Places' /\ Rest'
<1> USE Bounds
<1>0. Ways /\ Places /\ Rest
  BY TypeParts
<1>1. Rest'
  BY <1>0 DEF Handle, TakeNotice, PostDelayed, PostAi, FinishInline, Rest, Ways, world
<1>2. Ways'
  <2>1. UNCHANGED <<group, segs, next, retries, missed, sent>>
    BY DEF Handle, TakeNotice, PostDelayed, PostAi, FinishInline, history
  <2>2. st' \in [Msg -> St] /\ way' \in [Msg -> Way]
    BY <1>0 DEF Handle, TakeNotice, PostDelayed, PostAi, FinishInline, Ways, St, Way
  <2>3. carried' \in [Msg -> {0} \cup Notice] /\ authority' \in [Msg -> {0, 1}]
    BY <1>0 DEF Handle, TakeNotice, PostDelayed, PostAi, FinishInline, Ways, Rest
  <2> QED BY <1>0, <2>1, <2>2, <2>3 DEF Ways
<1>3. Places'
  <2>1. CASE TakeNotice(m) \/ FinishInline(m)
    BY <1>0, <2>1 DEF TakeNotice, FinishInline, Places, queues, world
  <2>2. CASE PostDelayed(m)
    BY <1>0, <2>2 DEF PostDelayed, Places, world
  <2>3. CASE PostAi(m)
    <3>1. Len(ai) \in Nat /\ Append(ai, m) \in Seq(Msg) /\ Len(Append(ai, m)) = Len(ai) + 1
      BY <1>0, AppendProperties, LenProperties DEF Places
    <3>2. ai' \in Seq(Msg) /\ Len(ai') <= AiCap
      BY <1>0, <2>3, <3>1 DEF PostAi, Places
    <3> QED BY <1>0, <2>3, <3>2 DEF PostAi, Places, world
  <2> QED BY <2>1, <2>2, <2>3 DEF Handle
<1> QED BY <1>1, <1>2, <1>3

LEMMA DeliverTyped ==
  ASSUME TypeOK, Queues, NEW m \in Msg, Deliver(m)
  PROVE  Ways' /\ Places' /\ Rest'
<1> USE Bounds
<1>0. Ways /\ Places /\ Rest
  BY TypeParts
<1>1. Rest'
  BY <1>0 DEF Deliver, TimerFires, RunDelayed, RunAi, Send, SendNotice, Finish, Rest, world
<1>2. Ways'
  <2>1. CASE TimerFires(m) \/ RunDelayed(m) \/ RunAi(m) \/ Finish(m)
    BY <1>0, <2>1 DEF TimerFires, RunDelayed, RunAi, Finish, Ways, St, history
  <2>2. CASE Send(m) \/ SendNotice(m)
    <3>1. /\ UNCHANGED <<way, group, segs, carried, authority>>
          /\ next[m] \in 1..NSegs + 1 /\ segs[m] + 1 \in 1..NSegs + 2
      BY <1>0, <2>2 DEF Send, SendNotice, Ways
    <3>2. Hook(m) => /\ st' \in [Msg -> St] /\ next' \in [Msg -> 1..NSegs + 2]
                     /\ retries' \in [Msg -> 0..MaxRetries]
      <4>1. CASE st' = st /\ retries' = retries /\ next' = [next EXCEPT ![m] = @ + 1]
        <5>1. next[m] + 1 \in 1..NSegs + 2
          BY <3>1
        <5>2. next' \in [Msg -> 1..NSegs + 2]
          BY <1>0, <4>1, <5>1 DEF Ways
        <5> QED BY <1>0, <4>1, <5>2 DEF Ways
      <4>2. CASE HookBusy(m)
        <5>1. st' \in [Msg -> St]
          BY <1>0, <4>2 DEF HookBusy, Ways, St
        <5>2. \/ /\ retries[m] < MaxRetries /\ retries' = [retries EXCEPT ![m] = @ + 1]
                 /\ next' = [next EXCEPT ![m] = 1]
              \/ UNCHANGED <<next, retries>>
          BY <4>2 DEF HookBusy
        <5>3. retries[m] \in 0..MaxRetries /\ retries \in [Msg -> 0..MaxRetries]
              /\ next \in [Msg -> 1..NSegs + 2]
          BY <1>0 DEF Ways
        <5>4. retries' \in [Msg -> 0..MaxRetries]
          <6>1. retries[m] < MaxRetries => retries[m] + 1 \in 0..MaxRetries
            BY <5>3
          <6> QED BY <5>2, <5>3, <6>1
        <5>5. next' \in [Msg -> 1..NSegs + 2]
          <6>1. 1 \in 1..NSegs + 2
            OBVIOUS
          <6> QED BY <5>2, <5>3, <6>1
        <5> QED BY <5>1, <5>4, <5>5
      <4> QED BY <4>1, <4>2 DEF Hook
    <3>3. CASE SendNotice(m)
      BY <1>0, <3>1, <3>2, <3>3 DEF SendNotice, Ways, history
    <3>4. CASE Send(m)
      <4>1. next[m] \in 1..NSegs
        BY <1>0, <3>4 DEF Send, Ways
      <4>2. sent' \in [Msg -> [1..NSegs -> Nat]]
        <5>1. sent' = sent \/ sent' = [sent EXCEPT ![m][next[m]] = @ + 1]
          BY <3>4 DEF Send
        <5>2. sent[m] \in [1..NSegs -> Nat] /\ [sent[m] EXCEPT ![next[m]] = @ + 1] \in [1..NSegs -> Nat]
          BY <1>0, <4>1 DEF Ways
        <5> QED BY <1>0, <5>1, <5>2 DEF Ways
      <4>3. /\ missed' \in [Msg -> BOOLEAN] /\ st' \in [Msg -> St]
            /\ next' \in [Msg -> 1..NSegs + 2] /\ retries' \in [Msg -> 0..MaxRetries]
        BY <1>0, <3>1, <3>2, <3>4 DEF Send, Ways
      <4> QED BY <1>0, <3>1, <4>2, <4>3 DEF Ways
    <3> QED BY <2>2, <3>3, <3>4
  <2> QED BY <2>1, <2>2 DEF Deliver
<1>3. Places'
  <2>1. CASE TimerFires(m)
    <3>1. /\ Len(callbacks) \in Nat /\ Append(callbacks, m) \in Seq(Msg)
          /\ Len(Append(callbacks, m)) = Len(callbacks) + 1
      BY <1>0, AppendProperties, LenProperties DEF Places
    <3>2. callbacks' \in Seq(Msg) /\ Len(callbacks') <= CallbackCap
      BY <1>0, <2>1, <3>1 DEF TimerFires, Places
    <3> QED BY <1>0, <2>1, <3>2 DEF TimerFires, Places, world
  <2>2. CASE RunDelayed(m)
    BY <1>0, <2>2, RunDelayedQueues, LenProperties DEF RunDelayed, Places, world
  <2>3. CASE RunAi(m)
    BY <1>0, <2>3, RunAiQueues, LenProperties DEF RunAi, Places, world
  <2>4. CASE Send(m) \/ SendNotice(m) \/ Finish(m)
    BY <1>0, <2>4 DEF Send, SendNotice, Finish, Release, Places, queues, world
  <2> QED BY <2>1, <2>2, <2>3, <2>4 DEF Deliver
<1> QED BY <1>1, <1>2, <1>3

LEMMA OthersTyped ==
  ASSUME TypeOK, SetNotice \/ CancelNotice \/ Change \/ Cancel \/ StopCallbacks \/ Close \/ UNCHANGED vars
  PROVE  Ways' /\ Places' /\ Rest'
<1> USE Bounds
<1>0. Ways /\ Places /\ Rest
  BY TypeParts
<1>1. Rest'
  BY <1>0 DEF SetNotice, CancelNotice, Change, Cancel, StopCallbacks, Close, vars, world, Rest, Notice
<1>2. Ways'
  BY <1>0 DEF SetNotice, CancelNotice, Change, Cancel, StopCallbacks, Close, vars, message, history, Ways, St
<1>3. Places'
  <2>1. CASE StopCallbacks
    <3>1. Len(callbacks) \in Nat /\ callbacks' \in Seq(Msg) /\ Len(callbacks') = 0
      BY <1>0, <2>1, EmptySeq, LenProperties DEF StopCallbacks, Places
    <3> QED BY <1>0, <2>1, <3>1 DEF StopCallbacks, Places
  <2>2. CASE SetNotice \/ CancelNotice \/ Change \/ Cancel \/ Close \/ UNCHANGED vars
    BY <1>0, <2>2 DEF SetNotice, CancelNotice, Change, Cancel, Close, vars, queues, world, Places
  <2> QED BY <2>1, <2>2
<1> QED BY <1>1, <1>2, <1>3

LEMMA Initially == Init => IInv
<1> SUFFICES ASSUME Init PROVE IInv
  OBVIOUS
<1> USE BoundAssumption DEF Init
<1>1. /\ callbacks \in Seq(Msg) /\ ai \in Seq(Msg) /\ Len(callbacks) = 0 /\ Len(ai) = 0
  BY EmptySeq
<1>2. WayInv /\ ProcInv /\ NoticeInv /\ NoticeTakenOnce /\ SentInv
  BY DEF WayInv, ProcInv, NoticeInv, NoticeTakenOnce, SentInv
<1>3. At("queued") = {} /\ At("ai") = {} /\ Held = {}
  BY DEF At, Held
<1>4. ListInv /\ HeldInv
  BY <1>1, <1>3, FS_EmptySet DEF ListInv, Lists, In, HeldInv
<1>5. TypeOK
  <2>1. way \in [Msg -> Way] /\ segs \in [Msg -> 1..NSegs]
    <3>1. PICK a \in Asked : way = [m \in Msg |-> a[m].way] /\ segs = [m \in Msg |-> a[m].segs]
      OBVIOUS
    <3>2. \A m \in Msg : a[m].way \in Way /\ a[m].segs \in 1..NSegs
      BY AskedAssumption
    <3> QED BY <3>1, <3>2
  <2>2. Ways
    BY <2>1 DEF Ways, St
  <2>3. Places /\ Rest
    BY <1>1 DEF Places, Rest
  <2> QED BY <2>2, <2>3, <1>2, <1>4, TypeParts
<1> QED BY <1>2, <1>4, <1>5 DEF IInv

LEMMA Invariance == Spec => []IInv
<1>1. Init => IInv
  BY Initially
<1>2. IInv /\ [Next]_vars => IInv'
  <2> SUFFICES ASSUME IInv, [Next]_vars PROVE IInv'
    OBVIOUS
  <2>1. TypeOK /\ Queues
    BY DEF IInv, Queues
  <2>2. Queues' /\ ProcInv' /\ NoticeInv' /\ NoticeTakenOnce' /\ SentInv'
    BY <2>1, QueuesStep, ProcStep, NoticeStep, SentStep DEF IInv
  <2>3. Ways' /\ Places' /\ Rest'
    BY <2>1, HandleTyped, DeliverTyped, OthersTyped DEF Next
  <2>4. TypeOK'
    <3>1. HeldInv' /\ SentInv'
      BY <2>2 DEF Queues
    <3> QED BY <2>3, <3>1, TypeParts, PTL
  <2> QED BY <2>2, <2>4 DEF IInv, Queues
<1> QED BY <1>1, <1>2, PTL DEF Spec

(* Every variable keeps its type: the queues their limits, and no segment  *)
(* is sent more often than its callback was run.                           *)
THEOREM TypeCorrect == Spec => []TypeOK
<1>1. IInv => TypeOK
  BY DEF IInv
<1> QED BY <1>1, Invariance, PTL

(* Every reply admitted to the delayed queue, and no other, has a place in *)
(* it, wherever it is.                                                     *)
THEOREM TicketsAreCounted == Spec => []TicketsCounted
<1>1. IInv => TicketsCounted
  BY DEF IInv, HeldInv, Held, TicketsCounted
<1> QED BY <1>1, Invariance, PTL

(* No two replies carry the same announcement to the same group.           *)
THEOREM NoticesAreTakenOnce == Spec => []NoticeTakenOnce
<1>1. IInv => NoticeTakenOnce
  BY DEF IInv
<1> QED BY <1>1, Invariance, PTL

(* Once the database is closed no delayed reply is being finished or can   *)
(* still start.                                                            *)
THEOREM DelayedAreDrained == Spec => []DelayedDrained
<1>1. IInv => DelayedDrained
  <2> SUFFICES ASSUME IInv, proc = "closed", NEW m \in Msg, way[m] = "delay"
      PROVE st[m] \notin {"queued", "sending"}
    BY DEF DelayedDrained
  <2>1. Len(callbacks) = 0
    BY EmptySeq DEF IInv, ProcInv
  <2>2. st[m] # "queued"
    BY <2>1 DEF IInv, ListInv, Lists, In, At
  <2> QED BY <2>2 DEF IInv, ProcInv
<1> QED BY <1>1, Invariance, PTL
=============================================================================
