----------------------------- MODULE Lua_proofs -----------------------------
(***************************************************************************)
(* Theorems about LuaRuntime, for any rules, locks, number of coroutines,  *)
(* size of the queues and number of reloads.                               *)
(***************************************************************************)
EXTENDS LuaRuntime, SequenceTheorems, FiniteSetTheorems, TLAPS

(* The worker drains the queue of this generation only, and what it has    *)
(* still to visit is there.                                                *)
DrainInv ==
  /\ worker.at \in {"draining", "sending"} =>
       /\ worker.cb = [kind |-> "drain", ref |-> None, gen |-> worker.cb.gen]
       /\ worker.cb.gen = generation => worker.left <= Len(queue)
  /\ worker.at = "draining" => worker.cb.gen = generation

(* LocksOwned, lock by lock.                                               *)
OwnInv ==
  /\ \A k \in Locks : k \in locks <=> \E r \in Refs : pending[r] # None /\ k \in NeedsOf(pending[r])
  /\ \A r, s \in Refs :
       pending[r] # None /\ pending[s] # None /\ r # s =>
         NeedsOf(pending[r]) \cap NeedsOf(pending[s]) = {}

In(cb, s) == \E i \in 1..Len(s) : s[i] = cb

(* A callback will be taken, or has been and is waiting for the mutex.     *)
Coming(cb) ==
  \/ armed[cb] > 0
  \/ In(cb, tasks)
  \/ worker.at = "entering" /\ worker.cb = cb

(* How many of the queue's first messages the drain has not come to.       *)
Unvisited ==
  IF worker.at \in {"draining", "sending"} /\ worker.cb.gen = generation THEN worker.left ELSE 0

QueueServed == \A i \in 1..Len(queue) : i > Unvisited => LockBusy(queue[i]) \/ Coming(Drain)
DrainServed == drainScheduled => Coming(Drain)
SleepServed == \A r \in Refs : pending[r] # None => Coming(Resume(r))

(* Unless a callback was dropped, whoever waits is served: a message that  *)
(* the drain has passed still lacks a lock, or another drain is coming.    *)
ServeInv == ~lost => QueueServed /\ DrainServed /\ SleepServed

(* No callback of a generation to come is under way.                       *)
PastInv ==
  \A cb \in Callbacks : cb.gen > generation =>
    ~Coming(cb) /\ (worker.at # "idle" => worker.cb # cb)

LuaInv == LuaTypeOK /\ DrainInv /\ PastInv /\ OwnInv /\ ServeInv

Owners == Rules \cup {Event, None}

LEMMA CallbacksAreTyped ==
  LuaTypeOK =>
    /\ Drain \in Callbacks /\ Cycle(generation) \in Callbacks
    /\ \A r \in Refs : Resume(r) \in Callbacks
    /\ generation < MaxReloads =>
         /\ Cycle(generation + 1) \in Callbacks
         /\ \A r \in Refs : [Resume(r) EXCEPT !.gen = generation + 1] \in Callbacks
BY ConstantsAssumption DEF LuaTypeOK, Generations, Callbacks, Drain, Cycle, Resume

(* What a script that runs, sleeps or is continued does to the rest, if it *)
(* was allowed to run.                                                     *)
Ran ==
  /\ suspended' \in BOOLEAN /\ drainScheduled' \in BOOLEAN /\ locks' \subseteq Locks
  /\ pending' \in [Refs -> Owners] /\ armed' \in [Callbacks -> Nat]
  /\ OwnInv'
  /\ \A cb \in Callbacks : armed[cb] <= armed'[cb] /\ (cb.gen # generation => armed'[cb] = armed[cb])
  /\ drainScheduled => drainScheduled'
  /\ drainScheduled' => drainScheduled \/ armed'[Drain] > 0

(* Release posts a drain unless nobody waits or one is posted.             *)
LEMMA ReleaseStep ==
  ASSUME LuaTypeOK, NEW keys, NEW waiting, NEW callbacks \in [Callbacks -> Nat],
         Release(keys, waiting, callbacks)
  PROVE  /\ locks' = locks \ keys
         /\ drainScheduled' \in BOOLEAN /\ armed' \in [Callbacks -> Nat]
         /\ \A cb \in Callbacks :
              callbacks[cb] <= armed'[cb] /\ (cb.gen # generation => armed'[cb] = callbacks[cb])
         /\ drainScheduled => drainScheduled'
         /\ drainScheduled' => drainScheduled \/ armed'[Drain] > 0
         /\ waiting = <<>> \/ drainScheduled'
<1>1. Drain \in Callbacks /\ Drain.gen = generation
  BY CallbacksAreTyped DEF Drain
<1>2. locks' = locks \ keys /\ drainScheduled \in BOOLEAN
  BY DEF Release, LuaTypeOK
<1>3. CASE waiting = <<>> \/ drainScheduled
  <2>1. drainScheduled' = drainScheduled /\ armed' = callbacks
    BY <1>3 DEF Release
  <2> QED BY <2>1, <1>2, <1>3
<1>4. CASE ~(waiting = <<>> \/ drainScheduled)
  <2>1. drainScheduled' = TRUE /\ armed' = [callbacks EXCEPT ![Drain] = @ + 1]
    BY <1>4 DEF Release
  <2>2. armed' \in [Callbacks -> Nat] /\ armed'[Drain] > 0
    BY <2>1, <1>1
  <2>3. \A cb \in Callbacks :
          callbacks[cb] <= armed'[cb] /\ (cb.gen # generation => armed'[cb] = callbacks[cb])
    BY <2>1, <1>1
  <2> QED BY <2>1, <2>2, <2>3, <1>2
<1> QED BY <1>3, <1>4

LEMMA RunStep ==
  ASSUME LuaTypeOK, OwnInv, NEW m \in Rules, NEW waiting, ~LockBusy(m), Run(m, waiting)
  PROVE  /\ Ran /\ locks \subseteq locks'
         /\ \A r \in Refs : pending'[r] # None => pending[r] # None \/ armed'[Resume(r)] > 0
<1>1. Needs[m] \subseteq Locks /\ Needs[m] \cap locks = {} /\ m # Event /\ m # None
  BY ConstantsAssumption DEF LockBusy
<1>2. armed \in [Callbacks -> Nat] /\ locks \subseteq Locks /\ pending \in [Refs -> Owners]
      /\ suspended \in BOOLEAN
  BY DEF LuaTypeOK, Owners
<1>3. CASE RunToEnd(m, waiting) \/ RunRefused(m, waiting)
  <2>1. Release(Needs[m], waiting, armed) /\ pending' = pending /\ suspended' \in BOOLEAN
    BY <1>2, <1>3 DEF RunToEnd, RunRefused
  <2>2. locks' = locks
    <3>1. locks' = locks \ Needs[m]
      BY <2>1 DEF Release
    <3> QED BY <3>1, <1>1
  <2>3. OwnInv'
    BY <2>1, <2>2 DEF OwnInv, NeedsOf
  <2> QED BY <2>1, <2>2, <2>3, <1>2, ReleaseStep DEF Ran
<1>4. CASE RunToSleep(m)
  <2>1. PICK r \in Refs \ Sleeping :
          /\ pending' = [pending EXCEPT ![r] = m]
          /\ armed' = [armed EXCEPT ![Resume(r)] = @ + 1]
    BY <1>4 DEF RunToSleep
  <2>2. pending[r] = None /\ Resume(r) \in Callbacks /\ Resume(r).gen = generation
    BY <2>1, CallbacksAreTyped DEF Sleeping, Resume
  <2>3. locks' = locks \cup Needs[m] /\ suspended' = suspended /\ drainScheduled' = drainScheduled
    BY <1>4 DEF RunToSleep
  <2>4. pending' \in [Refs -> Owners] /\ armed' \in [Callbacks -> Nat]
    BY <2>1, <2>2, <1>2 DEF Owners
  <2>5. \A s \in Refs : pending'[s] = IF s = r THEN m ELSE pending[s]
    BY <2>1, <1>2
  <2>6. \A cb \in Callbacks :
          armed[cb] <= armed'[cb] /\ (cb.gen # generation => armed'[cb] = armed[cb])
    BY <2>1, <2>2, <1>2
  <2>7. armed'[Resume(r)] > 0
    BY <2>1, <2>2, <1>2
  <2>8. NeedsOf(m) = Needs[m] /\ NeedsOf(m) \cap locks = {}
    BY <1>1 DEF NeedsOf
  <2>9. OwnInv'
    <3>1. \A s \in Refs : pending'[s] # None => pending[s] # None \/ s = r
      BY <2>5
    <3>2. \A s \in Refs : pending[s] # None => NeedsOf(pending[s]) \subseteq locks
      BY <1>1, <1>2, ConstantsAssumption DEF OwnInv, NeedsOf, Owners
    <3>3. \A k \in Locks : k \in locks' <=>
            \E s \in Refs : pending'[s] # None /\ k \in NeedsOf(pending'[s])
      BY <2>2, <2>3, <2>5, <2>8, <1>1 DEF OwnInv
    <3>4. \A s, t \in Refs : pending'[s] # None /\ pending'[t] # None /\ s # t =>
            NeedsOf(pending'[s]) \cap NeedsOf(pending'[t]) = {}
      BY <2>2, <2>5, <2>8, <3>1, <3>2 DEF OwnInv
    <3> QED BY <3>3, <3>4 DEF OwnInv, NeedsOf
  <2>10. locks' \subseteq Locks /\ locks \subseteq locks'
    BY <2>3, <1>1, <1>2
  <2>11. Ran
    BY <2>3, <2>4, <2>6, <2>9, <2>10, <1>2 DEF Ran, LuaTypeOK
  <2> QED BY <2>5, <2>7, <2>10, <2>11
<1> QED BY <1>3, <1>4 DEF Run

LEMMA WorkerTyped ==
  /\ LuaTypeOK =>
       /\ worker.at \in {"idle", "entering", "draining", "sending"}
       /\ worker.at = "idle" <=> worker = Idle
       /\ worker.at # "idle" => worker.cb \in Callbacks /\ worker.left \in 0..MaxQueue
  /\ \A phase, cb, n : At(phase, cb, n).at = phase /\ At(phase, cb, n).cb = cb /\ At(phase, cb, n).left = n
  /\ Idle.at = "idle"
BY DEF LuaTypeOK, Idle, At

LEMMA ResumeRuns ==
  ASSUME LuaTypeOK, OwnInv, ResumeCoroutine
  PROVE  /\ Ran /\ (locks \subseteq locks' \/ queue = <<>> \/ drainScheduled')
         /\ \A r \in Refs : pending'[r] # None =>
              pending[r] # None /\ (r = worker.cb.ref => armed'[Resume(r)] > 0)
<1> DEFINE r == worker.cb.ref
           co == pending[r]
<1>1. r \in Refs /\ worker.at = "entering"
  <2>1. worker.at = "entering" /\ worker.cb.kind = "resume"
    BY DEF ResumeCoroutine
  <2>2. worker.cb \in Callbacks
    BY <2>1, WorkerTyped
  <2> QED BY <2>1, <2>2 DEF Callbacks
<1>2. armed \in [Callbacks -> Nat] /\ locks \subseteq Locks /\ pending \in [Refs -> Owners]
      /\ suspended \in BOOLEAN /\ drainScheduled \in BOOLEAN
  BY DEF LuaTypeOK, Owners
<1>3. ASSUME co = None, UNCHANGED <<suspended, locks, pending, drainScheduled, armed>>
      PROVE Ran /\ locks \subseteq locks' /\ \A s \in Refs : pending'[s] # None => pending[s] # None /\ s # r
  <2>1. OwnInv'
    BY <1>3 DEF OwnInv, NeedsOf
  <2>2. \A cb \in Callbacks : armed[cb] <= armed'[cb]
    BY <1>2, <1>3
  <2> QED BY <1>2, <1>3, <2>1, <2>2 DEF Ran
<1>4. ASSUME co # None, pending' = [pending EXCEPT ![r] = None], Release(NeedsOf(co), queue, armed),
             suspended' \in BOOLEAN
      PROVE /\ Ran /\ (queue = <<>> \/ drainScheduled')
            /\ \A s \in Refs : pending'[s] # None => pending[s] # None /\ s # r
  <2>1. \A s \in Refs : pending'[s] = IF s = r THEN None ELSE pending[s]
    BY <1>1, <1>2, <1>4
  <2>2. locks' = locks \ NeedsOf(co)
    BY <1>2, <1>4, ReleaseStep
  <2>3. OwnInv'
    <3>1. \A k \in Locks : k \in locks' <=>
            \E s \in Refs : pending'[s] # None /\ k \in NeedsOf(pending'[s])
      BY <1>1, <1>4, <2>1, <2>2 DEF OwnInv
    <3>2. \A s, t \in Refs : pending'[s] # None /\ pending'[t] # None /\ s # t =>
            NeedsOf(pending'[s]) \cap NeedsOf(pending'[t]) = {}
      BY <2>1 DEF OwnInv
    <3> QED BY <3>1, <3>2 DEF OwnInv, NeedsOf
  <2>4. pending' \in [Refs -> Owners]
    BY <1>2, <1>4 DEF Owners
  <2> QED BY <1>2, <1>4, <2>1, <2>2, <2>3, <2>4, ReleaseStep DEF Ran
<1>5. ASSUME armed' = [armed EXCEPT ![Resume(r)] = @ + 1],
             UNCHANGED <<suspended, locks, pending, drainScheduled>>
      PROVE Ran /\ locks \subseteq locks' /\ armed'[Resume(r)] > 0
  <2>1. Resume(r) \in Callbacks /\ Resume(r).gen = generation
    BY <1>1, CallbacksAreTyped DEF Resume
  <2>2. OwnInv'
    BY <1>5 DEF OwnInv, NeedsOf
  <2>3. armed' \in [Callbacks -> Nat] /\ armed'[Resume(r)] > 0
    BY <1>2, <1>5, <2>1
  <2>4. \A cb \in Callbacks :
          armed[cb] <= armed'[cb] /\ (cb.gen # generation => armed'[cb] = armed[cb])
    BY <1>2, <1>5, <2>1
  <2> QED BY <1>2, <1>5, <2>2, <2>3, <2>4 DEF Ran
<1>6. \/ co = None /\ UNCHANGED <<suspended, locks, pending, drainScheduled, armed>>
      \/ /\ co # None /\ pending' = [pending EXCEPT ![r] = None]
         /\ Release(NeedsOf(co), queue, armed) /\ suspended' \in BOOLEAN
      \/ /\ armed' = [armed EXCEPT ![Resume(r)] = @ + 1]
         /\ UNCHANGED <<suspended, locks, pending, drainScheduled>>
  BY <1>2 DEF ResumeCoroutine
<1>7. CASE co = None /\ UNCHANGED <<suspended, locks, pending, drainScheduled, armed>>
  BY <1>3, <1>7
<1>8. CASE /\ co # None /\ pending' = [pending EXCEPT ![r] = None]
           /\ Release(NeedsOf(co), queue, armed) /\ suspended' \in BOOLEAN
  BY <1>4, <1>8
<1>9. CASE /\ armed' = [armed EXCEPT ![Resume(r)] = @ + 1]
           /\ UNCHANGED <<suspended, locks, pending, drainScheduled>>
  BY <1>5, <1>9
<1> QED BY <1>6, <1>7, <1>8, <1>9

LEMMA CycleStep ==
  ASSUME LuaTypeOK, PastInv, OwnInv, RunCycleEvent
  PROVE  /\ Ran /\ locks' = locks /\ drainScheduled' = drainScheduled
         /\ \A r \in Refs : pending'[r] # None => pending[r] # None \/ armed'[Resume(r)] > 0
<1> DEFINE again == [armed EXCEPT ![Cycle(generation)] = @ + 1]
<1>1. armed \in [Callbacks -> Nat] /\ locks \subseteq Locks /\ pending \in [Refs -> Owners]
      /\ suspended \in BOOLEAN /\ drainScheduled \in BOOLEAN
  BY DEF LuaTypeOK, Owners
<1>2. locks' = locks /\ drainScheduled' = drainScheduled
  BY DEF RunCycleEvent
<1>3. /\ again \in [Callbacks -> Nat]
      /\ \A cb \in Callbacks :
           armed[cb] <= again[cb] /\ (cb.gen # generation => again[cb] = armed[cb])
  <2>1. Cycle(generation) \in Callbacks /\ Cycle(generation).gen = generation
    BY CallbacksAreTyped DEF Cycle
  <2> QED BY <1>1, <2>1
<1>4. CASE pending' = pending /\ armed' \in {armed, again} /\ suspended' \in BOOLEAN
  <2>1. OwnInv'
    BY <1>2, <1>4 DEF OwnInv, NeedsOf
  <2>2. \A cb \in Callbacks :
          armed[cb] <= armed'[cb] /\ (cb.gen # generation => armed'[cb] = armed[cb])
    BY <1>1, <1>3, <1>4
  <2> QED BY <1>1, <1>2, <1>3, <1>4, <2>1, <2>2 DEF Ran
<1>5. CASE /\ suspended' = suspended
           /\ \E r \in Refs \ Sleeping :
                /\ pending' = [pending EXCEPT ![r] = Event]
                /\ armed' = [again EXCEPT ![Resume(r)] = @ + 1]
  <2>1. PICK r \in Refs \ Sleeping :
          /\ pending' = [pending EXCEPT ![r] = Event]
          /\ armed' = [again EXCEPT ![Resume(r)] = @ + 1]
    BY <1>5
  <2>2. pending[r] = None /\ Resume(r) \in Callbacks /\ Resume(r).gen = generation
    BY <2>1, CallbacksAreTyped DEF Sleeping, Resume
  <2>3. \A s \in Refs : pending'[s] = IF s = r THEN Event ELSE pending[s]
    BY <1>1, <2>1
  <2>4. OwnInv'
    <3>1. NeedsOf(Event) = {}
      BY DEF NeedsOf
    <3>2. \A k \in Locks : k \in locks' <=>
            \E s \in Refs : pending'[s] # None /\ k \in NeedsOf(pending'[s])
      BY <1>2, <2>2, <2>3, <3>1 DEF OwnInv
    <3>3. \A s, t \in Refs : pending'[s] # None /\ pending'[t] # None /\ s # t =>
            NeedsOf(pending'[s]) \cap NeedsOf(pending'[t]) = {}
      BY <2>3, <3>1 DEF OwnInv
    <3> QED BY <3>2, <3>3 DEF OwnInv, NeedsOf
  <2>5. armed' \in [Callbacks -> Nat] /\ armed'[Resume(r)] > 0
    BY <1>3, <2>1, <2>2
  <2>6. \A cb \in Callbacks :
          armed[cb] <= armed'[cb] /\ (cb.gen # generation => armed'[cb] = armed[cb])
    BY <1>1, <1>3, <2>1, <2>2
  <2>7. pending' \in [Refs -> Owners]
    BY <1>1, <2>1 DEF Owners
  <2>8. Ran
    BY <1>1, <1>2, <1>5, <2>4, <2>5, <2>6, <2>7 DEF Ran
  <2> QED BY <1>2, <2>3, <2>5, <2>8
<1> QED BY <1>1, <1>4, <1>5 DEF RunCycleEvent

LEMMA AppendElements ==
  ASSUME NEW S, NEW s \in Seq(S), NEW e \in S, NEW x
  PROVE  In(x, Append(s, e)) <=> In(x, s) \/ x = e
<1>1. Len(s) \in Nat
  BY LenProperties
<1>2. /\ Len(Append(s, e)) = Len(s) + 1
      /\ \A i \in 1..Len(s) : Append(s, e)[i] = s[i]
      /\ Append(s, e)[Len(s) + 1] = e
  BY AppendProperties
<1>3. ASSUME In(x, Append(s, e)) PROVE In(x, s) \/ x = e
  <2>1. PICK i \in 1..Len(s) + 1 : Append(s, e)[i] = x
    BY <1>2, <1>3 DEF In
  <2>2. i \in 1..Len(s) \/ i = Len(s) + 1
    BY <1>1
  <2> QED BY <1>2, <2>1, <2>2 DEF In
<1>4. ASSUME In(x, s) PROVE In(x, Append(s, e))
  <2>1. PICK i \in 1..Len(s) : s[i] = x
    BY <1>4 DEF In
  <2>2. i \in 1..Len(Append(s, e))
    BY <1>1, <1>2
  <2> QED BY <1>2, <2>1, <2>2 DEF In
<1>5. Len(s) + 1 \in 1..Len(Append(s, e))
  BY <1>1, <1>2
<1>6. In(e, Append(s, e))
  BY <1>2, <1>5 DEF In
<1> QED BY <1>3, <1>4, <1>6

LEMMA TailElements ==
  ASSUME NEW S, NEW s \in Seq(S), s # <<>>, NEW x
  PROVE  In(x, s) <=> x = Head(s) \/ In(x, Tail(s))
<1>1. Len(s) \in Nat \ {0}
  BY EmptySeq
<1>2. /\ Len(Tail(s)) = Len(s) - 1
      /\ \A i \in 1..Len(Tail(s)) : Tail(s)[i] = s[i + 1]
  BY HeadTailProperties
<1>3. Head(s) = s[1] /\ 1 \in 1..Len(s)
  BY <1>1
<1>4. ASSUME In(x, s) PROVE x = Head(s) \/ In(x, Tail(s))
  <2>1. PICK i \in 1..Len(s) : s[i] = x
    BY <1>4 DEF In
  <2>2. CASE i = 1
    BY <1>3, <2>1, <2>2
  <2>3. CASE i # 1
    <3>1. i - 1 \in 1..Len(Tail(s)) /\ (i - 1) + 1 = i
      BY <1>1, <1>2, <2>3
    <3>2. Tail(s)[i - 1] = x
      BY <1>2, <2>1, <3>1
    <3> QED BY <3>1, <3>2 DEF In
  <2> QED BY <2>2, <2>3
<1>5. ASSUME In(x, Tail(s)) PROVE In(x, s)
  <2>1. PICK i \in 1..Len(Tail(s)) : Tail(s)[i] = x
    BY <1>5 DEF In
  <2>2. i + 1 \in 1..Len(s)
    BY <1>1, <1>2
  <2> QED BY <1>2, <2>1, <2>2 DEF In
<1> QED BY <1>3, <1>4, <1>5 DEF In

(* The safety part of the invariant, one step at a time.                   *)
Safe == LuaTypeOK /\ DrainInv /\ PastInv /\ OwnInv

LEMMA QueueTyped ==
  LuaTypeOK =>
    /\ Len(queue) \in 0..MaxQueue /\ Len(tasks) \in 0..ExecCap
    /\ queue # <<>> =>
         /\ Head(queue) \in Rules /\ Tail(queue) \in Seq(Rules) /\ Len(Tail(queue)) = Len(queue) - 1
         /\ \A i \in 1..Len(Tail(queue)) : Tail(queue)[i] = queue[i + 1]
    /\ tasks # <<>> =>
         /\ Head(tasks) \in Callbacks /\ Tail(tasks) \in Seq(Callbacks)
         /\ Len(Tail(tasks)) = Len(tasks) - 1
BY LenProperties, HeadTailProperties, ConstantsAssumption DEF LuaTypeOK

LEMMA StillRan ==
  ASSUME LuaTypeOK, OwnInv, UNCHANGED <<suspended, locks, pending, drainScheduled, armed>>
  PROVE  Ran /\ locks \subseteq locks'
<1>1. OwnInv'
  BY DEF OwnInv, NeedsOf
<1>2. \A cb \in Callbacks : armed[cb] <= armed'[cb]
  BY DEF LuaTypeOK
<1> QED BY <1>1, <1>2 DEF Ran, LuaTypeOK, Owners

(* Nothing for a generation to come is armed now.                          *)
LEMMA RanPast ==
  ASSUME LuaTypeOK, PastInv, Ran, UNCHANGED <<generation, tasks>>,
         worker' = Idle \/ (worker'.at # "entering" /\ worker'.cb = worker.cb /\ worker.at # "idle")
           \/ worker' = worker
  PROVE  PastInv'
<1> SUFFICES ASSUME NEW cb \in Callbacks, cb.gen > generation
    PROVE ~Coming(cb)' /\ (worker'.at # "idle" => worker'.cb # cb)
  BY DEF PastInv
<1>1. cb.gen # generation
  BY ConstantsAssumption DEF LuaTypeOK, Callbacks, Generations
<1> QED BY <1>1, WorkerTyped DEF PastInv, Coming, Ran

(* Actions that leave all else alone, or finish the worker's task.         *)
LEMMA RanSafe ==
  ASSUME Safe, Ran, UNCHANGED <<generation, queue, tasks, lost>>,
         worker' = worker \/ worker' = Idle
  PROVE  Safe'
<1>1. LuaTypeOK'
  BY DEF Safe, Ran, LuaTypeOK, Owners
<1>2. DrainInv'
  BY WorkerTyped DEF Safe, DrainInv
<1>3. PastInv'
  BY RanPast DEF Safe
<1> QED BY <1>1, <1>2, <1>3 DEF Safe, Ran

LEMMA DispatchSafe == ASSUME Safe, NEW m \in Rules, Dispatch(m) PROVE Safe'
<1>1. CASE LockBusy(m)
  <2>1. /\ RoomInQueue /\ queue' = Append(queue, m)
        /\ UNCHANGED <<suspended, locks, pending, drainScheduled, armed, generation, tasks, worker, lost>>
    BY <1>1 DEF Dispatch
  <2>2. /\ queue' \in Seq(Rules) /\ Len(queue') = Len(queue) + 1
    BY <2>1, AppendProperties DEF Safe, LuaTypeOK
  <2>3. Len(queue) \in Nat /\ Len(queue) + 1 <= MaxQueue
    BY <2>1, QueueTyped, ConstantsAssumption DEF RoomInQueue, Safe
  <2>4. LuaTypeOK'
    BY <2>1, <2>2, <2>3 DEF Safe, LuaTypeOK
  <2>5. DrainInv'
    BY <2>1, <2>2, <2>3, WorkerTyped DEF Safe, DrainInv
  <2>6. PastInv' /\ OwnInv'
    BY <2>1 DEF Safe, PastInv, Coming, OwnInv, NeedsOf
  <2> QED BY <2>4, <2>5, <2>6 DEF Safe
<1>2. CASE ~LockBusy(m)
  BY <1>2, RunStep, RanSafe DEF Dispatch, Safe
<1> QED BY <1>1, <1>2

LEMMA ReloadSafe == ASSUME Safe, Reload PROVE Safe'
<1> DEFINE timers == [armed EXCEPT ![Cycle(generation + 1)] = @ + 1]
<1>1. /\ generation' = generation + 1 /\ generation \in Nat /\ generation < MaxReloads
      /\ queue' = <<>> /\ locks' = {} /\ drainScheduled' = FALSE /\ lost' = FALSE
      /\ UNCHANGED <<tasks, worker>> /\ worker.at # "draining"
  BY ConstantsAssumption DEF Reload, MutexFree, Safe, LuaTypeOK, Generations
<1>2. /\ Cycle(generation + 1) \in Callbacks /\ Cycle(generation + 1).gen = generation + 1
      /\ \A r \in Refs : /\ [Resume(r) EXCEPT !.gen = generation + 1] \in Callbacks
                         /\ [Resume(r) EXCEPT !.gen = generation + 1].gen = generation + 1
  BY <1>1, CallbacksAreTyped DEF Cycle, Resume, Safe
<1>3. /\ timers \in [Callbacks -> Nat]
      /\ \A cb \in Callbacks : cb.gen # generation + 1 => timers[cb] = armed[cb]
  BY <1>2 DEF Safe, LuaTypeOK
<1>4. /\ suspended' \in BOOLEAN /\ pending' \in [Refs -> {Event, None}]
      /\ armed' \in [Callbacks -> Nat]
      /\ \A cb \in Callbacks : cb.gen # generation + 1 => armed'[cb] = armed[cb]
  <2>1. CASE suspended' \in BOOLEAN /\ pending' = [r \in Refs |-> None] /\ armed' = timers
    BY <2>1, <1>3
  <2>2. CASE \E r \in Refs :
               /\ suspended' = FALSE
               /\ pending' = [s \in Refs |-> IF s = r THEN Event ELSE None]
               /\ armed' = [timers EXCEPT ![[Resume(r) EXCEPT !.gen = generation + 1]] = @ + 1]
    <3>1. PICK r \in Refs :
            /\ suspended' = FALSE
            /\ pending' = [s \in Refs |-> IF s = r THEN Event ELSE None]
            /\ armed' = [timers EXCEPT ![[Resume(r) EXCEPT !.gen = generation + 1]] = @ + 1]
      BY <2>2
    <3> DEFINE resume == [Resume(r) EXCEPT !.gen = generation + 1]
    <3>2. resume \in Callbacks /\ resume.gen = generation + 1
      BY <1>2
    <3>3. armed' = [timers EXCEPT ![resume] = @ + 1]
      BY <3>1
    <3> HIDE DEF resume, timers
    <3>4. /\ armed' \in [Callbacks -> Nat]
          /\ \A cb \in Callbacks : cb.gen # generation + 1 => armed'[cb] = armed[cb]
      BY <3>2, <3>3, <1>3
    <3> QED BY <3>1, <3>4
  <2> QED BY <2>1, <2>2 DEF Reload
<1>5. LuaTypeOK'
  <2>1. generation' \in Generations
    BY <1>1, ConstantsAssumption DEF Generations
  <2>2. queue' \in Seq(Rules) /\ Len(queue') <= MaxQueue
    BY <1>1, EmptySeq, ConstantsAssumption
  <2> QED BY <1>1, <1>4, <2>1, <2>2 DEF Safe, LuaTypeOK
<1>6. DrainInv'
  <2>1. worker.at = "sending" => worker.cb.gen # generation + 1
    <3> SUFFICES ASSUME worker.at = "sending", worker.cb.gen = generation + 1 PROVE FALSE
      OBVIOUS
    <3>1. worker.cb \in Callbacks /\ worker.cb.gen > generation
      BY <1>1, WorkerTyped DEF Safe
    <3> QED BY <3>1 DEF Safe, PastInv
  <2> QED BY <1>1, <2>1 DEF Safe, DrainInv
<1>7. PastInv'
  <2> SUFFICES ASSUME NEW cb \in Callbacks, cb.gen > generation + 1
      PROVE ~Coming(cb)' /\ (worker.at # "idle" => worker.cb # cb)
    BY <1>1 DEF PastInv
  <2>1. cb.gen > generation /\ cb.gen # generation + 1
    BY <1>1, ConstantsAssumption DEF Callbacks, Generations
  <2> QED BY <1>1, <1>4, <2>1 DEF Safe, PastInv, Coming
<1>8. OwnInv'
  BY <1>1, <1>4 DEF OwnInv, NeedsOf
<1> QED BY <1>5, <1>6, <1>7, <1>8 DEF Safe

LEMMA ExpireSafe == ASSUME Safe, NEW c \in Callbacks, Expire(c) PROVE Safe'
<1>1. /\ armed[c] > 0 /\ armed' = [armed EXCEPT ![c] = @ - 1]
      /\ UNCHANGED <<generation, suspended, locks, pending, queue, drainScheduled, worker>>
      /\ armed \in [Callbacks -> Nat]
  BY DEF Expire, Safe, LuaTypeOK
<1>2. armed' \in [Callbacks -> Nat] /\ \A cb \in Callbacks : armed'[cb] <= armed[cb]
  BY <1>1
<1>3. /\ tasks' \in Seq(Callbacks) /\ Len(tasks') <= ExecCap /\ lost' \in BOOLEAN
      /\ \A cb \in Callbacks : In(cb, tasks') => In(cb, tasks) \/ cb = c
  <2>1. CASE Len(tasks) < ExecCap
    <3>1. tasks' = Append(tasks, c) /\ lost' = lost
      BY <2>1 DEF Expire
    <3>2. tasks' \in Seq(Callbacks) /\ Len(tasks') = Len(tasks) + 1
      BY <3>1, AppendProperties DEF Safe, LuaTypeOK
    <3>3. \A cb \in Callbacks : In(cb, tasks') => In(cb, tasks) \/ cb = c
      BY <3>1, AppendElements DEF Safe, LuaTypeOK
    <3> QED BY <2>1, <3>1, <3>2, <3>3, QueueTyped, ConstantsAssumption DEF Safe, LuaTypeOK
  <2>2. CASE ~(Len(tasks) < ExecCap)
    BY <2>2 DEF Expire, Safe, LuaTypeOK
  <2> QED BY <2>1, <2>2
<1>4. LuaTypeOK'
  BY <1>1, <1>2, <1>3 DEF Safe, LuaTypeOK
<1>5. DrainInv'
  BY <1>1 DEF Safe, DrainInv
<1>6. PastInv'
  <2> SUFFICES ASSUME NEW cb \in Callbacks, cb.gen > generation
      PROVE ~Coming(cb)' /\ (worker.at # "idle" => worker.cb # cb)
    BY <1>1 DEF PastInv
  <2>1. ~Coming(cb) /\ (worker.at # "idle" => worker.cb # cb)
    BY DEF Safe, PastInv
  <2>2. cb # c
    BY <2>1, <1>1 DEF Coming
  <2> QED BY <2>1, <2>2, <1>1, <1>2, <1>3 DEF Coming
<1>7. OwnInv'
  BY <1>1 DEF Safe, OwnInv, NeedsOf
<1> QED BY <1>4, <1>5, <1>6, <1>7 DEF Safe

LEMMA TakeSafe == ASSUME Safe, Take PROVE Safe'
<1>1. /\ worker = Idle /\ tasks # <<>> /\ tasks' = Tail(tasks)
      /\ worker' = Idle \/ worker' = At("entering", Head(tasks), 0)
      /\ UNCHANGED <<generation, suspended, locks, pending, queue, drainScheduled, armed, lost>>
  BY DEF Take
<1>2. /\ Head(tasks) \in Callbacks /\ tasks' \in Seq(Callbacks) /\ Len(tasks') <= ExecCap
      /\ \A cb : In(cb, tasks) <=> cb = Head(tasks) \/ In(cb, tasks')
  <2>1. Head(tasks) \in Callbacks /\ tasks' \in Seq(Callbacks) /\ Len(tasks') <= ExecCap
    BY <1>1, QueueTyped, ConstantsAssumption DEF Safe
  <2>2. \A cb : In(cb, tasks) <=> cb = Head(tasks) \/ In(cb, tasks')
    BY <1>1, TailElements DEF Safe, LuaTypeOK
  <2> QED BY <2>1, <2>2
<1>3. LuaTypeOK'
  <2>1. worker' = Idle \/ worker' \in [at : {"entering", "draining", "sending"}, cb : Callbacks,
                                       left : 0..MaxQueue]
    BY <1>1, <1>2, ConstantsAssumption DEF At
  <2> QED BY <1>1, <1>2, <2>1 DEF Safe, LuaTypeOK
<1>4. DrainInv'
  BY <1>1, WorkerTyped DEF Safe, DrainInv
<1>5. PastInv'
  <2> SUFFICES ASSUME NEW cb \in Callbacks, cb.gen > generation
      PROVE ~Coming(cb)' /\ (worker'.at # "idle" => worker'.cb # cb)
    BY <1>1 DEF PastInv
  <2>1. ~In(cb, tasks) /\ armed[cb] <= 0
    BY DEF Safe, PastInv, Coming, LuaTypeOK
  <2>2. cb # Head(tasks) /\ ~In(cb, tasks')
    BY <2>1, <1>2
  <2>3. CASE worker' = Idle
    BY <2>1, <2>2, <2>3, <1>1, WorkerTyped DEF Coming, Safe, LuaTypeOK
  <2>4. CASE worker' = At("entering", Head(tasks), 0)
    <3>1. worker'.cb = Head(tasks)
      BY <2>4, WorkerTyped
    <3> QED BY <3>1, <2>1, <2>2, <1>1 DEF Coming, Safe, LuaTypeOK
  <2> QED BY <1>1, <2>3, <2>4
<1>6. OwnInv'
  BY <1>1 DEF Safe, OwnInv, NeedsOf
<1> QED BY <1>3, <1>4, <1>5, <1>6 DEF Safe

LEMMA EnterBusySafe == ASSUME Safe, EnterBusy PROVE Safe'
<1>1. /\ worker.at \in {"entering", "sending"} /\ worker' = Idle
      /\ armed' = [armed EXCEPT ![worker.cb] = @ + 1]
      /\ UNCHANGED <<generation, suspended, locks, pending, queue, drainScheduled, tasks, lost>>
  BY DEF EnterBusy
<1>2. worker.cb \in Callbacks /\ armed \in [Callbacks -> Nat]
  BY <1>1, WorkerTyped DEF Safe, LuaTypeOK
<1>3. armed' \in [Callbacks -> Nat] /\ \A cb \in Callbacks : cb # worker.cb => armed'[cb] = armed[cb]
  BY <1>1, <1>2
<1>4. LuaTypeOK'
  BY <1>1, <1>3 DEF Safe, LuaTypeOK
<1>5. DrainInv'
  BY <1>1, WorkerTyped DEF DrainInv
<1>6. PastInv'
  BY <1>1, <1>3, WorkerTyped DEF Safe, PastInv, Coming
<1>7. OwnInv'
  BY <1>1 DEF Safe, OwnInv, NeedsOf
<1> QED BY <1>4, <1>5, <1>6, <1>7 DEF Safe

LEMMA DrainEnterSafe == ASSUME Safe, DrainEnter PROVE Safe'
<1>1. /\ worker.at = "entering" /\ worker.cb.kind = "drain" /\ worker.cb \in Callbacks
      /\ UNCHANGED <<generation, suspended, locks, pending, queue, armed, tasks, lost>>
  BY WorkerTyped DEF DrainEnter, Safe
<1>2. worker.cb = [kind |-> "drain", ref |-> None, gen |-> worker.cb.gen]
  BY <1>1 DEF Callbacks
<1>3. \/ worker' = Idle /\ drainScheduled' = drainScheduled
      \/ /\ worker.cb.gen = generation /\ drainScheduled' = FALSE
         /\ worker' = At("draining", worker.cb, Len(queue))
  BY DEF DrainEnter
<1>4. Len(queue) \in 0..MaxQueue
  BY QueueTyped DEF Safe
<1>5. LuaTypeOK'
  <2>1. worker' = Idle \/ worker' \in [at : {"entering", "draining", "sending"}, cb : Callbacks,
                                       left : 0..MaxQueue]
    BY <1>1, <1>3, <1>4 DEF At
  <2> QED BY <1>1, <1>3, <2>1 DEF Safe, LuaTypeOK
<1>6. DrainInv'
  BY <1>1, <1>2, <1>3, <1>4, WorkerTyped DEF DrainInv
<1>7. PastInv'
  BY <1>1, <1>3, WorkerTyped DEF Safe, PastInv, Coming
<1>8. OwnInv'
  BY <1>1 DEF Safe, OwnInv, NeedsOf
<1> QED BY <1>5, <1>6, <1>7, <1>8 DEF Safe

(* Of the three ways of a turn of the loop only two change the worker.     *)
LEMMA DrainTurn ==
  ASSUME Safe, DrainStep
  PROVE  /\ worker.at = "draining" /\ worker.left > 0 /\ queue # <<>>
         /\ Ran /\ locks \subseteq locks'
         /\ \A r \in Refs : pending'[r] # None => pending[r] # None \/ armed'[Resume(r)] > 0
         /\ \/ queue' = Tail(queue)
            \/ LockBusy(Head(queue)) /\ queue' = Append(Tail(queue), Head(queue))
         /\ \E at \in {"draining", "sending"} : worker' = At(at, worker.cb, worker.left - 1)
         /\ UNCHANGED <<generation, tasks, lost>>
<1>1. worker.at = "draining" /\ worker.left > 0 /\ UNCHANGED <<generation, tasks, lost>>
  BY DEF DrainStep
<1>2. queue # <<>>
  <2>1. worker.left <= Len(queue) /\ Len(queue) \in Nat /\ worker.left \in Nat
    BY <1>1, WorkerTyped, QueueTyped, ConstantsAssumption DEF Safe, DrainInv
  <2> QED BY <1>1, <2>1
<1>3. Head(queue) \in Rules
  BY <1>2, QueueTyped DEF Safe
<1>4. CASE LockBusy(Head(queue))
  BY <1>1, <1>2, <1>4, StillRan DEF DrainStep, Safe
<1>5. CASE ~LockBusy(Head(queue)) /\ UNCHANGED <<suspended, locks, pending, drainScheduled, armed>>
  BY <1>1, <1>2, <1>5, StillRan DEF DrainStep, Safe
<1>6. CASE ~LockBusy(Head(queue)) /\ Run(Head(queue), Tail(queue))
  BY <1>1, <1>2, <1>3, <1>6, RunStep DEF DrainStep, Safe
<1> QED BY <1>4, <1>5, <1>6 DEF DrainStep, Run

LEMMA DrainStepSafe == ASSUME Safe, DrainStep PROVE Safe'
<1>1. PICK at \in {"draining", "sending"} : worker' = At(at, worker.cb, worker.left - 1)
  BY DrainTurn
<1>2. worker.cb \in Callbacks /\ worker.left \in 1..MaxQueue /\ worker.at = "draining"
  BY DrainTurn, WorkerTyped DEF Safe
<1>3. queue' \in Seq(Rules) /\ Len(queue') <= MaxQueue /\ Len(queue') >= Len(queue) - 1
      /\ Len(queue) \in Nat /\ Len(queue') \in Nat
  <2>1. /\ queue # <<>> /\ Tail(queue) \in Seq(Rules) /\ Head(queue) \in Rules
        /\ Len(Tail(queue)) = Len(queue) - 1 /\ Len(queue) \in 0..MaxQueue
    BY DrainTurn, QueueTyped DEF Safe
  <2>2. /\ Append(Tail(queue), Head(queue)) \in Seq(Rules)
        /\ Len(Append(Tail(queue), Head(queue))) = Len(Tail(queue)) + 1
    BY <2>1, AppendProperties
  <2>3. Len(queue) \in Nat \ {0}
    BY <2>1, EmptySeq
  <2>4. MaxQueue \in Nat
    BY ConstantsAssumption
  <2>5. CASE queue' = Tail(queue)
    BY <2>1, <2>3, <2>4, <2>5
  <2>6. CASE queue' = Append(Tail(queue), Head(queue))
    BY <2>1, <2>2, <2>3, <2>4, <2>6
  <2> QED BY <2>5, <2>6, DrainTurn
<1>4. LuaTypeOK'
  <2>1. worker' \in [at : {"entering", "draining", "sending"}, cb : Callbacks, left : 0..MaxQueue]
    BY <1>1, <1>2, ConstantsAssumption DEF At
  <2> QED BY <1>3, <2>1, DrainTurn DEF Safe, LuaTypeOK, Ran, Owners
<1>5. DrainInv'
  BY <1>1, <1>2, <1>3, DrainTurn, WorkerTyped DEF Safe, DrainInv
<1>6. PastInv'
  BY <1>1, <1>2, DrainTurn, RanPast, WorkerTyped DEF Safe
<1> QED BY <1>4, <1>5, <1>6, DrainTurn DEF Safe, Ran

LEMMA WorkSafe ==
  ASSUME Safe, Work
  PROVE  Safe'
<1>1. CASE Take
  BY <1>1, TakeSafe
<1>2. CASE ResumeCoroutine
  BY <1>2, ResumeRuns, RanSafe DEF ResumeCoroutine, Safe
<1>3. CASE RunCycleEvent
  BY <1>3, CycleStep, RanSafe DEF RunCycleEvent, Safe
<1>4. CASE DrainEnter
  BY <1>4, DrainEnterSafe
<1>5. CASE DrainStep
  BY <1>5, DrainStepSafe
<1>6. CASE DrainLeave
  BY <1>6, StillRan, RanSafe DEF DrainLeave, Safe
<1>7. CASE DrainReenter
  <2>1. CASE worker.cb.gen # generation
    BY <1>7, <2>1, StillRan, RanSafe DEF DrainReenter, Safe
  <2>2. CASE worker.cb.gen = generation
    <3>1. /\ worker.at = "sending" /\ worker' = At("draining", worker.cb, worker.left)
          /\ UNCHANGED <<generation, suspended, locks, pending, queue, drainScheduled, armed, tasks, lost>>
      BY <1>7, <2>2 DEF DrainReenter
    <3>2. worker.cb \in Callbacks /\ worker.left \in 0..MaxQueue
      BY <3>1, WorkerTyped DEF Safe
    <3>3. LuaTypeOK'
      <4>1. worker' \in [at : {"entering", "draining", "sending"}, cb : Callbacks, left : 0..MaxQueue]
        BY <3>1, <3>2 DEF At
      <4> QED BY <3>1, <4>1 DEF Safe, LuaTypeOK
    <3>4. DrainInv'
      BY <3>1, <2>2, WorkerTyped DEF Safe, DrainInv
    <3>5. PastInv' /\ OwnInv'
      BY <3>1, StillRan, RanPast, WorkerTyped DEF Safe, Ran
    <3> QED BY <3>3, <3>4, <3>5 DEF Safe
  <2> QED BY <2>1, <2>2
<1> QED BY <1>1, <1>2, <1>3, <1>4, <1>5, <1>6, <1>7 DEF Work, Enter

LEMMA LuaSafeStep == ASSUME Safe, [LuaNext]_luaVars PROVE Safe'
<1>1. CASE UNCHANGED luaVars
  BY <1>1, StillRan, RanSafe DEF luaVars, Safe
<1>2. CASE LuaNext
  BY <1>2, DispatchSafe, ReloadSafe, ExpireSafe, EnterBusySafe, WorkSafe DEF LuaNext
<1> QED BY <1>1, <1>2

(* Every step but a reload: it is enough that no lock is released without  *)
(* a drain, that a drain that was coming still is, and that every sleeping *)
(* coroutine has its callback.                                             *)
ServedOn == QueueServed /\ DrainServed /\ SleepServed

LEMMA ServesOn ==
  ASSUME LuaTypeOK, ServedOn, Ran, UNCHANGED <<generation, queue>>,
         Unvisited' >= Unvisited \/ Coming(Drain)',
         Coming(Drain) => Coming(Drain)',
         locks \subseteq locks' \/ queue = <<>> \/ drainScheduled',
         \A r \in Refs : pending'[r] # None => Coming(Resume(r))',
         Unvisited \in Nat, Unvisited' \in Nat
  PROVE  ServedOn'
<1>1. Drain' = Drain /\ \A r \in Refs : Resume(r)' = Resume(r)
  BY DEF Drain, Resume
<1>2. DrainServed'
  BY <1>1 DEF ServedOn, DrainServed, Ran, Coming
<1>3. SleepServed'
  BY DEF SleepServed
<1>4. QueueServed'
  <2> SUFFICES ASSUME NEW i \in 1..Len(queue), i > Unvisited', ~Coming(Drain)'
      PROVE LockBusy(queue[i])'
    BY DEF QueueServed
  <2>1. i > Unvisited /\ ~Coming(Drain)
    BY DEF ServedOn
  <2>2. LockBusy(queue[i])
    BY <2>1 DEF ServedOn, QueueServed
  <2>3. locks \subseteq locks'
    <3>1. ~drainScheduled'
      BY <1>2 DEF DrainServed
    <3>2. queue # <<>>
      BY EmptySeq DEF LuaTypeOK
    <3> QED BY <3>1, <3>2
  <2> QED BY <2>2, <2>3 DEF LockBusy
<1> QED BY <1>2, <1>3, <1>4 DEF ServedOn

LEMMA UnvisitedTyped ==
  /\ LuaTypeOK => Unvisited \in Nat
  /\ worker.at \in {"idle", "entering"} => Unvisited = 0
  /\ LuaTypeOK /\ DrainInv /\ Unvisited # 0 => worker.at \in {"draining", "sending"} /\ worker.cb = Drain
BY WorkerTyped DEF Unvisited, DrainInv, Drain

LEMMA DispatchServes ==
  ASSUME Safe, ServedOn, NEW m \in Rules, Dispatch(m) PROVE ServedOn'
<1>1. UNCHANGED <<generation, tasks, worker, lost>>
  BY DEF Dispatch
<1>2. CASE LockBusy(m)
  <2>1. queue' = Append(queue, m) /\ UNCHANGED <<suspended, locks, pending, drainScheduled, armed>>
    BY <1>2 DEF Dispatch
  <2>2. /\ Len(queue') = Len(queue) + 1 /\ Len(queue) \in Nat
        /\ \A i \in 1..Len(queue) : queue'[i] = queue[i]
        /\ queue'[Len(queue) + 1] = m
    BY <2>1, AppendProperties, LenProperties DEF Safe, LuaTypeOK
  <2>3. /\ Drain' = Drain /\ Unvisited' = Unvisited
        /\ \A cb : Coming(cb)' <=> Coming(cb)
        /\ \A r \in Refs : Resume(r)' = Resume(r)
        /\ \A n \in Rules : LockBusy(n)' <=> LockBusy(n)
    BY <1>1, <2>1 DEF Drain, Resume, Unvisited, Coming, LockBusy
  <2>4. QueueServed'
    <3> SUFFICES ASSUME NEW i \in 1..Len(queue'), i > Unvisited', ~Coming(Drain)'
        PROVE Needs[queue'[i]] \cap locks' # {}
      BY DEF QueueServed, LockBusy
    <3>1. CASE i \in 1..Len(queue)
      <4>1. ~Coming(Drain)
        BY <1>1, <2>1 DEF Coming, Drain
      <4>2. LockBusy(queue[i])
        BY <2>3, <3>1, <4>1 DEF ServedOn, QueueServed
      <4> QED BY <2>1, <2>2, <3>1, <4>2 DEF LockBusy
    <3>2. CASE i = Len(queue) + 1
      BY <3>2, <1>2, <2>1, <2>2 DEF LockBusy
    <3> QED BY <2>2, <3>1, <3>2
  <2>5. DrainServed' /\ SleepServed'
    BY <1>1, <2>1 DEF ServedOn, DrainServed, SleepServed, Coming, Drain, Resume
  <2> QED BY <2>4, <2>5 DEF ServedOn
<1>3. CASE ~LockBusy(m)
  <2>1. Run(m, queue) /\ queue' = queue
    BY <1>3 DEF Dispatch
  <2>2. /\ Ran /\ locks \subseteq locks'
        /\ \A r \in Refs : pending'[r] # None => pending[r] # None \/ armed'[Resume(r)] > 0
    BY <1>3, <2>1, RunStep DEF Safe
  <2>3. /\ Drain' = Drain /\ Unvisited' = Unvisited
        /\ \A r \in Refs : Resume(r)' = Resume(r)
    BY <1>1 DEF Drain, Resume, Unvisited
  <2>4. \A cb \in Callbacks : Coming(cb) => Coming(cb)'
    <3>1. \A cb \in Callbacks : armed[cb] \in Nat /\ armed'[cb] \in Nat /\ armed[cb] <= armed'[cb]
      BY <2>2 DEF Ran, Safe, LuaTypeOK
    <3> QED BY <1>1, <3>1 DEF Coming
  <2>5. Drain \in Callbacks /\ \A r \in Refs : Resume(r) \in Callbacks
    BY CallbacksAreTyped DEF Safe
  <2>6. \A r \in Refs : pending'[r] # None => Coming(Resume(r))'
    BY <2>2, <2>3, <2>4, <2>5 DEF ServedOn, SleepServed, Coming
  <2>7. Coming(Drain) => Coming(Drain)'
    BY <2>3, <2>4, <2>5 DEF Coming
  <2>8. Unvisited \in Nat
    BY UnvisitedTyped DEF Safe
  <2> QED BY <1>1, <2>1, <2>2, <2>3, <2>6, <2>7, <2>8, ServesOn DEF Safe
<1> QED BY <1>2, <1>3

LEMMA ReloadServes == ASSUME Safe, Reload PROVE ServedOn'
<1>1. queue' = <<>> /\ drainScheduled' = FALSE /\ generation' = generation + 1 /\ generation < MaxReloads
  BY DEF Reload
<1>2. QueueServed' /\ DrainServed'
  BY <1>1, EmptySeq DEF QueueServed, DrainServed
<1>3. SleepServed'
  <2> DEFINE timers == [armed EXCEPT ![Cycle(generation + 1)] = @ + 1]
             resume(r) == [Resume(r) EXCEPT !.gen = generation + 1]
  <2>1. \A r \in Refs : Resume(r)' = resume(r) /\ resume(r) \in Callbacks
    BY <1>1, CallbacksAreTyped DEF Resume, Safe
  <2>2. timers \in [Callbacks -> Nat]
    BY <1>1, CallbacksAreTyped DEF Safe, LuaTypeOK
  <2>3. CASE pending' = [r \in Refs |-> None]
    BY <2>3 DEF SleepServed
  <2>4. CASE \E r \in Refs :
               /\ pending' = [s \in Refs |-> IF s = r THEN Event ELSE None]
               /\ armed' = [timers EXCEPT ![resume(r)] = @ + 1]
    <3>1. PICK r \in Refs :
            /\ pending' = [s \in Refs |-> IF s = r THEN Event ELSE None]
            /\ armed' = [timers EXCEPT ![resume(r)] = @ + 1]
      BY <2>4
    <3>2. resume(r) \in Callbacks /\ Resume(r)' = resume(r)
      BY <2>1
    <3> HIDE DEF timers, resume
    <3>3. armed'[resume(r)] > 0
      BY <3>1, <3>2, <2>2
    <3>4. \A s \in Refs : pending'[s] # None => s = r
      BY <3>1
    <3> QED BY <3>2, <3>3, <3>4 DEF SleepServed, Coming
  <2> QED BY <2>3, <2>4 DEF Reload
<1> QED BY <1>2, <1>3 DEF ServedOn

LEMMA ExpireServes ==
  ASSUME Safe, ServedOn, NEW c \in Callbacks, Expire(c), ~lost' PROVE ServedOn'
<1>1. /\ armed[c] > 0 /\ armed' = [armed EXCEPT ![c] = @ - 1]
      /\ UNCHANGED <<generation, suspended, locks, pending, queue, drainScheduled, worker>>
      /\ armed \in [Callbacks -> Nat]
  BY DEF Expire, Safe, LuaTypeOK
<1>2. \A cb \in Callbacks : In(cb, tasks) \/ (cb = c /\ cb.gen = generation) => In(cb, tasks')
  <2>1. CASE Len(tasks) < ExecCap
    <3>1. tasks' = Append(tasks, c)
      BY <2>1 DEF Expire
    <3> QED BY <3>1, AppendElements DEF Safe, LuaTypeOK
  <2>2. CASE ~(Len(tasks) < ExecCap)
    BY <2>2 DEF Expire
  <2> QED BY <2>1, <2>2
<1>3. \A cb \in Callbacks : cb.gen = generation /\ Coming(cb) => Coming(cb)'
  BY <1>1, <1>2 DEF Coming
<1>4. /\ Drain \in Callbacks /\ Drain.gen = generation
      /\ \A r \in Refs : Resume(r) \in Callbacks /\ Resume(r).gen = generation
  BY CallbacksAreTyped DEF Safe, Drain, Resume
<1>5. /\ Drain' = Drain /\ Unvisited' = Unvisited
      /\ \A r \in Refs : Resume(r)' = Resume(r)
      /\ \A n \in Rules : LockBusy(n)' <=> LockBusy(n)
  BY <1>1 DEF Drain, Resume, Unvisited, LockBusy
<1>6. Coming(Drain) => Coming(Drain)'
  BY <1>3, <1>4, <1>5 DEF Coming
<1>7. \A r \in Refs : Coming(Resume(r)) => Coming(Resume(r))'
  BY <1>3, <1>4, <1>5 DEF Coming
<1>8. QueueServed'
  BY <1>1, <1>5, <1>6 DEF ServedOn, QueueServed, LockBusy
<1> QED BY <1>1, <1>6, <1>7, <1>8 DEF ServedOn, DrainServed, SleepServed

LEMMA TakeServes == ASSUME Safe, ServedOn, Take PROVE ServedOn'
<1>1. /\ worker = Idle /\ tasks # <<>> /\ tasks' = Tail(tasks)
      /\ worker' = IF Head(tasks).kind = "resume" /\ Head(tasks).gen # generation
                   THEN Idle ELSE At("entering", Head(tasks), 0)
      /\ UNCHANGED <<generation, suspended, locks, pending, queue, drainScheduled, armed, lost>>
  BY DEF Take
<1>2. \A cb : In(cb, tasks) <=> cb = Head(tasks) \/ In(cb, tasks')
  BY <1>1, TailElements DEF Safe, LuaTypeOK
<1>3. worker'.at \in {"idle", "entering"} /\ worker.at = "idle"
  BY <1>1, WorkerTyped
<1>4. \A cb : cb.gen = generation /\ Coming(cb) => Coming(cb)'
  <2> SUFFICES ASSUME NEW cb, cb.gen = generation, Coming(cb), cb = Head(tasks)
      PROVE worker'.at = "entering" /\ worker'.cb = cb
    BY <1>1, <1>2, <1>3 DEF Coming
  <2> QED BY <1>1, WorkerTyped
<1>5. Drain.gen = generation /\ \A r \in Refs : Resume(r).gen = generation
  BY DEF Drain, Resume
<1>6. Drain' = Drain /\ \A r \in Refs : Resume(r)' = Resume(r)
  BY <1>1 DEF Drain, Resume
<1>7. Unvisited' = 0 /\ Unvisited = 0
  BY <1>3 DEF Unvisited
<1>8. Coming(Drain) => Coming(Drain)'
  BY <1>4, <1>5, <1>6 DEF Coming
<1>9. \A r \in Refs : Coming(Resume(r)) => Coming(Resume(r))'
  BY <1>4, <1>5, <1>6 DEF Coming
<1>10. QueueServed'
  BY <1>1, <1>7, <1>8 DEF ServedOn, QueueServed, LockBusy
<1> QED BY <1>1, <1>8, <1>9, <1>10 DEF ServedOn, DrainServed, SleepServed

LEMMA EnterBusyServes ==
  ASSUME Safe, ServedOn, EnterBusy PROVE ServedOn'
<1>1. /\ worker.at \in {"entering", "sending"} /\ worker' = Idle
      /\ armed' = [armed EXCEPT ![worker.cb] = @ + 1]
      /\ UNCHANGED <<generation, suspended, locks, pending, queue, drainScheduled, tasks, lost>>
  BY DEF EnterBusy
<1>2. worker.cb \in Callbacks /\ armed \in [Callbacks -> Nat]
  BY <1>1, WorkerTyped DEF Safe, LuaTypeOK
<1>3. armed'[worker.cb] > 0 /\ \A cb \in Callbacks : armed[cb] > 0 => armed'[cb] > 0
  BY <1>1, <1>2
<1>4. \A cb \in Callbacks : Coming(cb) => Coming(cb)'
  BY <1>1, <1>3 DEF Coming
<1>5. /\ Drain' = Drain /\ Drain \in Callbacks
      /\ \A r \in Refs : Resume(r)' = Resume(r) /\ Resume(r) \in Callbacks
  BY <1>1, CallbacksAreTyped DEF Drain, Resume, Safe
<1>6. Coming(Drain) => Coming(Drain)'
  BY <1>4, <1>5 DEF Coming
<1>7. \A r \in Refs : Coming(Resume(r)) => Coming(Resume(r))'
  BY <1>4, <1>5 DEF Coming
<1>8. Unvisited' = 0
  BY <1>1, WorkerTyped DEF Unvisited
<1>9. Unvisited = 0 \/ Coming(Drain)'
  <2>1. CASE Unvisited # 0
    <3>1. worker.cb = Drain
      BY <2>1, UnvisitedTyped DEF Safe
    <3> QED BY <3>1, <1>3, <1>5 DEF Coming
  <2> QED BY <2>1
<1>10. QueueServed'
  BY <1>1, <1>5, <1>6, <1>8, <1>9 DEF ServedOn, QueueServed, LockBusy
<1> QED BY <1>1, <1>6, <1>7, <1>10 DEF ServedOn, DrainServed, SleepServed

(* The end of a task other than a drain.                                   *)
LEMMA TaskServes ==
  ASSUME Safe, ServedOn, Ran, UNCHANGED <<generation, queue, tasks>>,
         worker.at = "entering", worker' = Idle, worker.cb # Drain,
         locks \subseteq locks' \/ queue = <<>> \/ drainScheduled',
         \A r \in Refs : pending'[r] # None =>
           armed'[Resume(r)] > 0 \/ (pending[r] # None /\ worker.cb # Resume(r))
  PROVE  ServedOn'
<1>1. \A cb \in Callbacks : armed[cb] > 0 => armed'[cb] > 0
  BY DEF Ran, Safe, LuaTypeOK
<1>2. \A cb \in Callbacks : Coming(cb) /\ worker.cb # cb => Coming(cb)'
  BY <1>1 DEF Coming
<1>3. /\ Drain' = Drain /\ Drain \in Callbacks
      /\ \A r \in Refs : Resume(r)' = Resume(r) /\ Resume(r) \in Callbacks
  BY CallbacksAreTyped DEF Drain, Resume, Safe
<1>4. Coming(Drain) => Coming(Drain)'
  BY <1>2, <1>3 DEF Coming
<1>5. \A r \in Refs : pending'[r] # None => Coming(Resume(r))'
  <2> SUFFICES ASSUME NEW r \in Refs, pending'[r] # None PROVE Coming(Resume(r))'
    OBVIOUS
  <2>1. CASE armed'[Resume(r)] > 0
    BY <2>1, <1>3 DEF Coming
  <2>2. CASE pending[r] # None /\ worker.cb # Resume(r)
    <3>1. Coming(Resume(r))
      BY <2>2 DEF ServedOn, SleepServed
    <3> QED BY <3>1, <2>2, <1>2, <1>3 DEF Coming
  <2> QED BY <2>1, <2>2
<1>6. Unvisited = 0 /\ Unvisited' = 0
  BY WorkerTyped DEF Unvisited
<1> QED BY <1>4, <1>5, <1>6, ServesOn DEF Safe

LEMMA ResumeServes ==
  ASSUME Safe, ServedOn, ResumeCoroutine PROVE ServedOn'
<1>1. /\ worker.at = "entering" /\ worker.cb.kind = "resume" /\ worker' = Idle
      /\ UNCHANGED <<generation, queue, tasks>>
  BY DEF ResumeCoroutine
<1>2. worker.cb # Drain /\ \A r \in Refs : r # worker.cb.ref => worker.cb # Resume(r)
  BY <1>1 DEF Drain, Resume
<1>3. /\ Ran /\ (locks \subseteq locks' \/ queue = <<>> \/ drainScheduled')
      /\ \A r \in Refs : pending'[r] # None =>
           pending[r] # None /\ (r = worker.cb.ref => armed'[Resume(r)] > 0)
  BY ResumeRuns DEF Safe
<1> QED BY <1>1, <1>2, <1>3, TaskServes

LEMMA CycleServes ==
  ASSUME Safe, ServedOn, RunCycleEvent PROVE ServedOn'
<1>1. /\ worker.at = "entering" /\ worker.cb.kind = "cycle" /\ worker' = Idle
      /\ UNCHANGED <<generation, queue, tasks>>
  BY DEF RunCycleEvent
<1>2. worker.cb # Drain /\ \A r \in Refs : worker.cb # Resume(r)
  BY <1>1 DEF Drain, Resume
<1> QED BY <1>1, <1>2, CycleStep, TaskServes DEF Safe

LEMMA DrainEnterServes ==
  ASSUME Safe, ServedOn, DrainEnter PROVE ServedOn'
<1>1. /\ worker.at = "entering" /\ worker.cb.kind = "drain" /\ worker.cb \in Callbacks
      /\ UNCHANGED <<generation, suspended, locks, pending, queue, armed, tasks, lost>>
  BY WorkerTyped DEF DrainEnter, Safe
<1>2. \A r \in Refs : worker.cb # Resume(r) /\ Resume(r)' = Resume(r)
  BY <1>1 DEF Resume
<1>3. CASE worker.cb.gen # generation
  <2>1. worker' = Idle /\ drainScheduled' = drainScheduled /\ worker.cb # Drain
    BY <1>1, <1>3 DEF DrainEnter, Drain
  <2> QED BY <1>1, <1>2, <2>1, StillRan, TaskServes DEF Safe, ServedOn, SleepServed
<1>4. CASE worker.cb.gen = generation
  <2>1. worker' = At("draining", worker.cb, Len(queue)) /\ drainScheduled' = FALSE
    BY <1>1, <1>4 DEF DrainEnter
  <2>2. Unvisited' = Len(queue) /\ Len(queue) \in Nat
    BY <1>1, <1>4, <2>1, WorkerTyped, QueueTyped, ConstantsAssumption DEF Unvisited, Safe
  <2>3. QueueServed'
    BY <1>1, <2>2 DEF QueueServed
  <2>4. DrainServed'
    BY <2>1 DEF DrainServed
  <2>5. SleepServed'
    BY <1>1, <1>2 DEF ServedOn, SleepServed, Coming
  <2> QED BY <2>3, <2>4, <2>5 DEF ServedOn
<1> QED BY <1>3, <1>4

LEMMA DrainStepServes ==
  ASSUME Safe, ServedOn, DrainStep PROVE ServedOn'
<1>1. PICK at \in {"draining", "sending"} : worker' = At(at, worker.cb, worker.left - 1)
  BY DrainTurn
<1>2. /\ worker.at = "draining" /\ worker.cb.gen = generation
      /\ worker.left \in 1..MaxQueue /\ worker.left <= Len(queue)
      /\ worker'.at \in {"draining", "sending"} /\ worker'.cb = worker.cb
      /\ worker'.left = worker.left - 1
  BY <1>1, DrainTurn, WorkerTyped DEF Safe, DrainInv
<1>3. /\ Ran /\ locks \subseteq locks' /\ queue # <<>> /\ UNCHANGED <<generation, tasks>>
      /\ \A r \in Refs : pending'[r] # None => pending[r] # None \/ armed'[Resume(r)] > 0
  BY DrainTurn
<1>4. Unvisited = worker.left /\ Unvisited' = worker.left - 1
  BY <1>2, <1>3 DEF Unvisited
<1>5. \A cb \in Callbacks : Coming(cb) => Coming(cb)'
  <2>1. \A cb \in Callbacks : armed[cb] > 0 => armed'[cb] > 0
    BY <1>3 DEF Ran, Safe, LuaTypeOK
  <2> QED BY <1>2, <1>3, <2>1 DEF Coming
<1>6. /\ Drain' = Drain /\ Drain \in Callbacks
      /\ \A r \in Refs : Resume(r)' = Resume(r) /\ Resume(r) \in Callbacks
  BY <1>3, CallbacksAreTyped DEF Drain, Resume, Safe
<1>7. Coming(Drain) => Coming(Drain)'
  BY <1>5, <1>6 DEF Coming
<1>8. SleepServed'
  BY <1>3, <1>5, <1>6 DEF ServedOn, SleepServed, Coming
<1>9. DrainServed'
  BY <1>3, <1>6, <1>7 DEF ServedOn, DrainServed, Ran, Coming
<1>10. QueueServed'
  <2> SUFFICES ASSUME NEW i \in 1..Len(queue'), i > Unvisited', ~Coming(Drain)'
      PROVE Needs[queue'[i]] \cap locks' # {}
    BY DEF QueueServed, LockBusy
  <2>1. \A j \in 1..Len(queue) : j > Unvisited => Needs[queue[j]] \cap locks' # {}
    BY <1>3, <1>7 DEF ServedOn, QueueServed, LockBusy
  <2>2. /\ Len(Tail(queue)) = Len(queue) - 1 /\ Len(queue) \in Nat /\ Len(Tail(queue)) \in Nat
        /\ \A j \in 1..Len(Tail(queue)) : Tail(queue)[j] = queue[j + 1]
        /\ Head(queue) \in Rules /\ Tail(queue) \in Seq(Rules)
    BY <1>3, QueueTyped, EmptySeq, LenProperties DEF Safe, LuaTypeOK
  <2>3. ASSUME i \in 1..Len(Tail(queue)) PROVE Needs[Tail(queue)[i]] \cap locks' # {}
    <3>1. i + 1 \in 1..Len(queue) /\ i + 1 > Unvisited
      BY <2>2, <2>3, <1>2, <1>4
    <3> QED BY <2>1, <2>2, <2>3, <3>1
  <2>4. CASE queue' = Tail(queue)
    BY <2>3, <2>4
  <2>5. CASE LockBusy(Head(queue)) /\ queue' = Append(Tail(queue), Head(queue))
    <3>1. /\ Len(queue') = Len(Tail(queue)) + 1
          /\ \A j \in 1..Len(Tail(queue)) : queue'[j] = Tail(queue)[j]
          /\ queue'[Len(Tail(queue)) + 1] = Head(queue)
      BY <2>2, <2>5, AppendProperties
    <3>2. CASE i \in 1..Len(Tail(queue))
      BY <2>3, <3>1, <3>2
    <3>3. CASE i = Len(Tail(queue)) + 1
      BY <1>3, <2>5, <3>1, <3>3 DEF LockBusy
    <3> QED BY <2>2, <3>1, <3>2, <3>3
  <2> QED BY <2>4, <2>5, DrainTurn
<1> QED BY <1>8, <1>9, <1>10 DEF ServedOn

LEMMA DrainLoopServes ==
  ASSUME Safe, ServedOn, DrainLeave \/ DrainReenter PROVE ServedOn'
<1>1. /\ UNCHANGED <<generation, suspended, locks, pending, queue, drainScheduled, armed, tasks, lost>>
      /\ worker.at \in {"draining", "sending"} /\ worker'.at \in {"idle", "draining"}
  BY WorkerTyped DEF DrainLeave, DrainReenter
<1>2. Unvisited' = Unvisited
  BY <1>1, WorkerTyped DEF Unvisited, DrainLeave, DrainReenter
<1>3. /\ Drain' = Drain /\ \A r \in Refs : Resume(r)' = Resume(r)
  BY <1>1 DEF Drain, Resume
<1>4. \A cb : Coming(cb) => Coming(cb)'
  BY <1>1 DEF Coming
<1>5. Coming(Drain) => Coming(Drain)'
  BY <1>3, <1>4 DEF Coming
<1>6. \A r \in Refs : pending'[r] # None => Coming(Resume(r))'
  BY <1>1, <1>3, <1>4 DEF ServedOn, SleepServed, Coming
<1> QED BY <1>1, <1>2, <1>5, <1>6, StillRan, ServesOn, UnvisitedTyped DEF Safe

LEMMA ServeStep ==
  ASSUME Safe, ServeInv, [LuaNext]_luaVars PROVE ServeInv'
<1> SUFFICES ASSUME ~lost' PROVE ServedOn'
  BY DEF ServeInv, ServedOn
<1>1. CASE Reload
  BY <1>1, ReloadServes
<1>2. CASE UNCHANGED luaVars
  <2>1. ServedOn
    BY <1>2 DEF ServeInv, ServedOn, luaVars
  <2> QED BY <1>2, <2>1 DEF ServedOn, QueueServed, DrainServed, SleepServed, Coming, Drain, Resume,
                            LockBusy, Unvisited, luaVars
<1>3. ASSUME ~Reload, LuaNext PROVE ServedOn'
  <2>1. ServedOn
    <3>1. CASE \E cb \in Callbacks : Expire(cb)
      BY <3>1 DEF Expire, ServeInv, ServedOn, Safe, LuaTypeOK
    <3>2. CASE Work
      BY <3>2, DrainTurn DEF Work, Enter, Take, ResumeCoroutine, RunCycleEvent, DrainEnter,
                             DrainReenter, DrainLeave, ServeInv, ServedOn
    <3>3. CASE EnterBusy \/ \E m \in Rules : Dispatch(m)
      BY <3>3 DEF EnterBusy, Dispatch, ServeInv, ServedOn
    <3> QED BY <1>3, <3>1, <3>2, <3>3 DEF LuaNext
  <2>2. CASE Work
    BY <2>1, <2>2, TakeServes, ResumeServes, CycleServes, DrainEnterServes, DrainStepServes,
       DrainLoopServes DEF Work, Enter
  <2> QED BY <2>1, <2>2, <1>3, DispatchServes, ExpireServes, EnterBusyServes DEF LuaNext
<1> QED BY <1>1, <1>2, <1>3

LEMMA LuaStarts == LuaInit => LuaInv
<1> SUFFICES ASSUME LuaInit PROVE LuaInv
  OBVIOUS
<1>1. /\ generation = 0 /\ suspended = FALSE /\ locks = {} /\ pending = [r \in Refs |-> None]
      /\ queue = <<>> /\ drainScheduled = FALSE /\ tasks = <<>> /\ worker = Idle /\ lost = FALSE
      /\ armed = [cb \in Callbacks |-> IF cb = Cycle(0) THEN 1 ELSE 0]
  BY DEF LuaInit
<1>2. worker.at = "idle"
  BY <1>1, WorkerTyped
<1>3. Len(queue) = 0 /\ Len(tasks) = 0 /\ queue \in Seq(Rules) /\ tasks \in Seq(Callbacks)
  BY <1>1, EmptySeq
<1>4. LuaTypeOK
  <2>1. generation \in Generations /\ 0 <= MaxQueue /\ 0 <= ExecCap
    BY <1>1, ConstantsAssumption DEF Generations
  <2>2. armed \in [Callbacks -> Nat]
    BY <1>1
  <2> QED BY <1>1, <1>3, <2>1, <2>2 DEF LuaTypeOK
<1>5. DrainInv
  BY <1>2 DEF DrainInv
<1>6. PastInv
  <2> SUFFICES ASSUME NEW cb \in Callbacks, cb.gen > generation PROVE ~Coming(cb)
    BY <1>2 DEF PastInv
  <2>1. cb # Cycle(0)
    BY <1>1 DEF Cycle
  <2>2. armed[cb] = 0
    BY <1>1, <2>1
  <2> QED BY <1>2, <1>3, <2>2 DEF Coming, In
<1>7. OwnInv
  BY <1>1 DEF OwnInv
<1>8. ServeInv
  BY <1>1, <1>3 DEF ServeInv, QueueServed, DrainServed, SleepServed
<1> QED BY <1>4, <1>5, <1>6, <1>7, <1>8 DEF LuaInv

LEMMA LuaStep == LuaInv /\ [LuaNext]_luaVars => LuaInv'
BY LuaSafeStep, ServeStep DEF LuaInv, Safe

LEMMA LuaGoesOn == LuaSpec => []LuaInv
<1>1. LuaInit => LuaInv
  BY LuaStarts
<1>2. LuaInv /\ [LuaNext]_luaVars => LuaInv'
  BY LuaStep
<1> QED BY <1>1, <1>2, PTL DEF LuaSpec

(* The values stay of their types and the queues within their limits: 256  *)
(* waiting messages, 128 waiting callbacks.                                *)
THEOREM LuaTypeCorrect == LuaSpec => []LuaTypeOK
<1>1. LuaInv => LuaTypeOK
  BY DEF LuaInv
<1> QED BY <1>1, LuaGoesOn, PTL

(* The locks in force are those of the sleeping coroutines, and no two     *)
(* coroutines have the same one.                                           *)
THEOREM LocksAreOwned == LuaSpec => []LocksOwned
<1>1. LuaInv => LocksOwned
  <2> SUFFICES ASSUME LuaTypeOK, OwnInv PROVE LocksOwned
    BY DEF LuaInv
  <2>1. locks \subseteq Locks /\ \A r \in Refs : pending[r] # None => NeedsOf(pending[r]) \subseteq Locks
    BY ConstantsAssumption DEF LuaTypeOK, NeedsOf
  <2>2. \A k : k \in locks <=> \E r \in Refs : pending[r] # None /\ k \in NeedsOf(pending[r])
    BY <2>1 DEF OwnInv
  <2>3. locks = UNION {NeedsOf(pending[r]) : r \in Sleeping}
    BY <2>2 DEF Sleeping
  <2> QED BY <2>3 DEF LocksOwned, OwnInv, Sleeping
<1> QED BY <1>1, LuaGoesOn, PTL

(* Unless the full executor has dropped a callback of this generation, a   *)
(* sleeping coroutine has a callback that will continue it, and a queued   *)
(* message lacks a lock that a coroutine holds or a drain is on its way.   *)
THEOREM WaitersAreServed == LuaSpec => []WaitersServed
<1>1. LuaInv => WaitersServed
  <2> SUFFICES ASSUME LuaTypeOK, DrainInv, ServeInv, ~lost
      PROVE /\ \A r \in Sleeping : OnItsWay(Resume(r))
            /\ \A i \in 1..Len(queue) : LockBusy(queue[i]) \/ OnItsWay(Drain)
    BY DEF LuaInv, WaitersServed
  <2>1. \A cb : Coming(cb) => OnItsWay(cb)
    BY WorkerTyped DEF Coming, OnItsWay, In
  <2>2. Unvisited # 0 => OnItsWay(Drain)
    BY UnvisitedTyped, WorkerTyped DEF OnItsWay
  <2>3. \A i \in 1..Len(queue) : LockBusy(queue[i]) \/ OnItsWay(Drain)
    BY <2>1, <2>2 DEF ServeInv, QueueServed
  <2> QED BY <2>1, <2>3 DEF ServeInv, SleepServed, Sleeping
<1> QED BY <1>1, LuaGoesOn, PTL
==============================================================================
