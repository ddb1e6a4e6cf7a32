------------------------------ MODULE LuaRuntime ------------------------------
(***************************************************************************)
(* The scheduling core of the Lua plugin runtime                           *)
(* (core/mod/lua_plugin_manager.cpp) with the executor that runs its       *)
(* delayed callbacks (common/bounded_executor.h, main.cpp pluginScheduler) *)
(*                                                                         *)
(* A message that matches a rule runs the rule's script under the runtime  *)
(* mutex.  A rule may name locks: while a coroutine that holds one sleeps, *)
(* another message of a rule with the same lock is not run but queued, and *)
(* replayed by a "drain" callback after the lock is released.  Sleeping    *)
(* coroutines are continued by "resume" callbacks, cycle events by "cycle" *)
(* callbacks.  Every callback is a timer of the event loop that hands its  *)
(* task to one worker with a finite queue: a task that finds the queue     *)
(* full is dropped.  A reload frees the runtime and starts a generation.   *)
(*                                                                         *)
(* The mutex admits a caller only if it becomes free within 100 ms: a      *)
(* message that is not admitted fails, a callback is armed again.          *)
(***************************************************************************)
EXTENDS Naturals, Sequences

CONSTANTS
    Rules,         \* the reply rules of the mod; a message stands for the rule it matches
    Locks,         \* the keys of the rules' locks
    Needs,         \* Needs[m]: the locks of rule m
    Refs,          \* registry references: as many as coroutines may sleep (256)
    MaxQueue,      \* queued dispatches (256 in the code)
    ExecCap,       \* tasks waiting for the worker (128 in the code)
    MaxReloads,    \* bound: reloads
    MaxArmed       \* bound: timers of one callback when the runtime is busy

VARIABLES
    generation,    \* runtimeGeneration_
    suspended,     \* suspendedMods_ holds the mod
    locks,         \* activeLegacyLocks_
    pending,       \* pendingCoroutines_: registry reference -> the rule asleep there
    queue,         \* queuedDispatches_
    drainScheduled,\* lockDrainScheduled_
    armed,         \* how many timers of the event loop carry this callback
    tasks,         \* the worker's queue
    worker,        \* what the worker does
    lost           \* the full executor has dropped a callback of this generation

luaVars == <<generation, suspended, locks, pending, queue, drainScheduled, armed,
          tasks, worker, lost>>

Generations == 0..MaxReloads
Event == "event"                   \* the owner of a cycle event's coroutine
None == "none"                     \* no coroutine, no reference

ASSUME ConstantsAssumption ==
    /\ Needs \in [Rules -> SUBSET Locks]
    /\ {Event, None} \cap Rules = {}
    /\ {MaxQueue, ExecCap, MaxReloads, MaxArmed} \subseteq Nat

Callbacks == [kind : {"resume"}, ref : Refs, gen : Generations]
               \cup [kind : {"drain", "cycle"}, ref : {None}, gen : Generations]

Resume(r) == [kind |-> "resume", ref |-> r, gen |-> generation]
Drain == [kind |-> "drain", ref |-> None, gen |-> generation]
Cycle(g) == [kind |-> "cycle", ref |-> None, gen |-> g]

Idle == [at |-> "idle"]
At(phase, cb, n) == [at |-> phase, cb |-> cb, left |-> n]
MutexFree == worker.at # "draining"

NeedsOf(owner) == IF owner = Event THEN {} ELSE Needs[owner]
Sleeping == {r \in Refs : pending[r] # None}

-----------------------------------------------------------------------------
\* The state after a rule has released its locks: a drain is posted unless
\* nobody waits or one is already on its way (`callbacks' already includes
\* what the caller itself has armed).
Release(keys, waiting, callbacks) ==
    /\ locks' = locks \ keys
    /\ IF waiting = <<>> \/ drainScheduled
       THEN UNCHANGED drainScheduled /\ armed' = callbacks
       ELSE drainScheduled' = TRUE /\ armed' = [callbacks EXCEPT ![Drain] = @ + 1]

\* Mutant: a rule runs as soon as one of its locks is free.
LockBusyAll(m) == Needs[m] # {} /\ Needs[m] \subseteq locks

\* consumeLimits: every lock of the rule is free, or the rule is busy.
LockBusy(m) == Needs[m] \cap locks # {}

\* The rule's script starts, holding its locks, and returns, fails or runs out
\* of its time (which suspends the mod); the lease releases its locks.
RunToEnd(m, waiting) ==
    /\ Release(Needs[m], waiting, armed)
    /\ suspended' \in {suspended, TRUE}
    /\ UNCHANGED pending

\* The script sleeps: its coroutine keeps the locks.
RunToSleep(m) ==
    /\ \E r \in Refs \ Sleeping :
          /\ pending' = [pending EXCEPT ![r] = m]
          /\ armed' = [armed EXCEPT ![Resume(r)] = @ + 1]
    /\ locks' = locks \cup Needs[m]
    /\ UNCHANGED <<suspended, drainScheduled>>

\* With 256 coroutines asleep a script is refused; the lease still releases.
RunRefused(m, waiting) ==
    /\ Sleeping = Refs
    /\ Release(Needs[m], waiting, armed)
    /\ UNCHANGED <<suspended, pending>>

\* dispatch() of a rule whose locks are free (`waiting' is the queue meanwhile).
\* A rule of text only (staticEcho) runs to its end even with no room to sleep.
Run(m, waiting) ==
    \/ RunToEnd(m, waiting)
    \/ RunToSleep(m)
    \/ RunRefused(m, waiting)

-----------------------------------------------------------------------------
\* Mutant: the limit is compared with <= instead of <.
RoomForOneMore == Len(queue) <= MaxQueue

\* The queue of dispatches takes another one.
RoomInQueue == Len(queue) < MaxQueue

\* A message thread calls dispatch(), which holds the runtime mutex throughout.
\* No rule of a suspended mod is a candidate, so then nothing happens; nothing
\* happens either when the mutex is not free within 100 ms, when a limit of the
\* rule is used up, or when a busy rule finds the queue full.
Dispatch(m) ==
    /\ MutexFree /\ ~suspended
    /\ \/ /\ LockBusy(m)
          /\ RoomInQueue
          /\ queue' = Append(queue, m)
          /\ UNCHANGED <<suspended, locks, pending, drainScheduled, armed>>
       \/ /\ ~LockBusy(m)
          /\ Run(m, queue)
          /\ UNCHANGED queue
    /\ UNCHANGED <<generation, tasks, worker, lost>>

\* reload(): freeRuntime, init and loadDirLocked under one hold of the mutex.
\* The cycle event is registered anew: its timer is armed and it runs at once.
Reload ==
    /\ generation < MaxReloads
    /\ MutexFree
    /\ generation' = generation + 1
    /\ queue' = <<>>
    /\ locks' = {}
    /\ drainScheduled' = FALSE
    /\ LET timers == [armed EXCEPT ![Cycle(generation + 1)] = @ + 1] IN
       \/ /\ suspended' \in BOOLEAN
          /\ pending' = [r \in Refs |-> None]
          /\ armed' = timers
       \/ \E r \in Refs :
             /\ suspended' = FALSE
             /\ pending' = [s \in Refs |-> IF s = r THEN Event ELSE None]
             /\ armed' = [timers EXCEPT ![[Resume(r) EXCEPT !.gen = generation + 1]] = @ + 1]
    /\ lost' = FALSE
    /\ UNCHANGED <<tasks, worker>>

-----------------------------------------------------------------------------
\* A timer of the event loop expires: its task joins the worker's queue, or is
\* dropped, with a warning, when the queue is full (BoundedExecutor::submit).
Expire(cb) ==
    /\ armed[cb] > 0
    /\ armed' = [armed EXCEPT ![cb] = @ - 1]
    /\ IF Len(tasks) < ExecCap
       THEN tasks' = Append(tasks, cb) /\ UNCHANGED lost
       ELSE lost' = (lost \/ cb.gen = generation) /\ UNCHANGED tasks
    /\ UNCHANGED <<generation, suspended, locks, pending, queue, drainScheduled,
                   worker>>

\* The worker takes a task.  A resume callback compares generations before it
\* enters the runtime, outside the mutex; the others compare inside.
Take ==
    /\ worker = Idle
    /\ tasks # <<>>
    /\ tasks' = Tail(tasks)
    /\ worker' = IF Head(tasks).kind = "resume" /\ Head(tasks).gen # generation
                 THEN Idle ELSE At("entering", Head(tasks), 0)
    /\ UNCHANGED <<generation, suspended, locks, pending, queue, drainScheduled,
                   armed, lost>>

\* The mutex is not free within 100 ms.  Nothing has run: runPluginCallback
\* asks for a retry, and the same callback is armed again.
EnterBusy ==
    /\ worker.at \in {"entering", "sending"}
    /\ armed[worker.cb] < MaxArmed
    /\ armed' = [armed EXCEPT ![worker.cb] = @ + 1]
    /\ worker' = Idle
    /\ UNCHANGED <<generation, suspended, locks, pending, queue, drainScheduled,
                   tasks, lost>>

\* resumeCoroutine: whatever coroutine now has the reference is continued,
\* unless its mod is suspended or its group or sender has been shut out.
ResumeCoroutine ==
    /\ worker.at = "entering" /\ worker.cb.kind = "resume"
    /\ LET r == worker.cb.ref
           co == pending[r] IN
       \/ /\ co = None
          /\ UNCHANGED <<suspended, locks, pending, drainScheduled, armed>>
       \/ /\ co # None                                        \* shut out
          /\ pending' = [pending EXCEPT ![r] = None]
          /\ Release(NeedsOf(co), queue, armed)
          /\ UNCHANGED suspended
       \/ /\ co # None /\ ~suspended                          \* returns or fails
          /\ pending' = [pending EXCEPT ![r] = None]
          /\ Release(NeedsOf(co), queue, armed)
          /\ suspended' \in BOOLEAN
       \/ /\ co # None /\ ~suspended                          \* sleeps again
          /\ armed' = [armed EXCEPT ![Resume(r)] = @ + 1]
          /\ UNCHANGED <<suspended, locks, pending, drainScheduled>>
    /\ worker' = Idle
    /\ UNCHANGED <<generation, queue, tasks, lost>>

\* runCycleEvent: the next round is armed first, then the event's script runs.
RunCycleEvent ==
    /\ worker.at = "entering" /\ worker.cb.kind = "cycle"
    /\ LET again == [armed EXCEPT ![Cycle(generation)] = @ + 1] IN
       \/ /\ worker.cb.gen # generation \/ suspended
          /\ UNCHANGED <<suspended, pending, armed>>
       \/ /\ worker.cb.gen = generation /\ ~suspended
          /\ suspended' \in BOOLEAN
          /\ armed' = again
          /\ UNCHANGED pending
       \/ /\ worker.cb.gen = generation /\ ~suspended
          /\ \E r \in Refs \ Sleeping :
                /\ pending' = [pending EXCEPT ![r] = Event]
                /\ armed' = [again EXCEPT ![Resume(r)] = @ + 1]
          /\ UNCHANGED suspended
    /\ worker' = Idle
    /\ UNCHANGED <<generation, locks, queue, drainScheduled, tasks, lost>>

\* Mutant: the flag stays set.
DrainEnterMarked ==
    /\ worker.at = "entering" /\ worker.cb.kind = "drain"
    /\ worker' = IF worker.cb.gen # generation THEN Idle
                 ELSE At("draining", worker.cb, Len(queue))
    /\ UNCHANGED <<generation, suspended, locks, pending, queue, drainScheduled,
                   armed, tasks, lost>>

\* drainLegacyLocks: the flag is cleared on entry, so that a release during the
\* drain posts the next one; the loop visits each task queued at that moment.
DrainEnter ==
    /\ worker.at = "entering" /\ worker.cb.kind = "drain"
    /\ IF worker.cb.gen # generation
       THEN worker' = Idle /\ UNCHANGED drainScheduled
       ELSE worker' = At("draining", worker.cb, Len(queue)) /\ drainScheduled' = FALSE
    /\ UNCHANGED <<generation, suspended, locks, pending, queue, armed, tasks, lost>>

\* One turn of the loop, still inside the mutex.  A task whose locks are taken
\* goes to the back; the sender of another may have been shut out; the rest is
\* dispatched, and to send its reply the loop leaves the mutex.
DrainStep ==
    /\ worker.at = "draining" /\ worker.left > 0
    /\ LET m == Head(queue)
           next == At("draining", worker.cb, worker.left - 1) IN
       IF LockBusy(m)
       THEN /\ queue' = Append(Tail(queue), m)
            /\ worker' = next
            /\ UNCHANGED <<suspended, locks, pending, drainScheduled, armed>>
       ELSE /\ queue' = Tail(queue)
            /\ \/ /\ worker' = next                     \* shut out, or no such rule
                  /\ UNCHANGED <<suspended, locks, pending, drainScheduled, armed>>
               \/ /\ ~suspended
                  /\ Run(m, Tail(queue))
                  /\ worker' = next
               \/ /\ ~suspended
                  /\ RunToEnd(m, Tail(queue))
                  /\ worker' = At("sending", worker.cb, worker.left - 1)
    /\ UNCHANGED <<generation, tasks, lost>>

DrainLeave ==
    /\ worker.at = "draining" /\ worker.left = 0
    /\ worker' = Idle
    /\ UNCHANGED <<generation, suspended, locks, pending, queue, drainScheduled,
                   armed, tasks, lost>>

\* The reply is sent and the mutex taken again: a reload meanwhile ends the drain.
DrainReenter ==
    /\ worker.at = "sending"
    /\ worker' = IF worker.cb.gen = generation
                 THEN At("draining", worker.cb, worker.left) ELSE Idle
    /\ UNCHANGED <<generation, suspended, locks, pending, queue, drainScheduled,
                   armed, tasks, lost>>

Enter == ResumeCoroutine \/ RunCycleEvent \/ DrainEnter \/ DrainReenter
Work == Take \/ Enter \/ DrainStep \/ DrainLeave

-----------------------------------------------------------------------------
LuaInit ==
    /\ generation = 0
    /\ suspended = FALSE
    /\ locks = {}
    /\ pending = [r \in Refs |-> None]
    /\ queue = <<>>
    /\ drainScheduled = FALSE
    /\ armed = [cb \in Callbacks |-> IF cb = Cycle(0) THEN 1 ELSE 0]
    /\ tasks = <<>>
    /\ worker = Idle
    /\ lost = FALSE

LuaNext ==
    \/ \E m \in Rules : Dispatch(m)
    \/ Reload
    \/ \E cb \in Callbacks : Expire(cb)
    \/ EnterBusy
    \/ Work

LuaSpec == LuaInit /\ [][LuaNext]_luaVars

-----------------------------------------------------------------------------
LuaTypeOK ==
    /\ generation \in Generations
    /\ suspended \in BOOLEAN
    /\ locks \subseteq Locks
    /\ pending \in [Refs -> Rules \cup {Event, None}]
    /\ queue \in Seq(Rules) /\ Len(queue) <= MaxQueue
    /\ drainScheduled \in BOOLEAN
    /\ armed \in [Callbacks -> Nat]
    /\ tasks \in Seq(Callbacks) /\ Len(tasks) <= ExecCap
    /\ \/ worker = Idle
       \/ worker \in [at : {"entering", "draining", "sending"}, cb : Callbacks, left : 0..MaxQueue]
    /\ lost \in BOOLEAN

\* A callback is on its way: a timer, a task of the worker, or what the worker
\* is doing.
OnItsWay(cb) ==
    \/ armed[cb] > 0
    \/ \E i \in 1..Len(tasks) : tasks[i] = cb
    \/ worker # Idle /\ worker.cb = cb

\* The locks in force are exactly those of the sleeping coroutines, and no two
\* coroutines have the same one: nothing that sleeps is interleaved with another
\* message of the same lock, and no lock outlives its coroutine.
LocksOwned ==
    /\ locks = UNION {NeedsOf(pending[r]) : r \in Sleeping}
    /\ \A r, s \in Sleeping :
          r # s => NeedsOf(pending[r]) \cap NeedsOf(pending[s]) = {}

\* Whoever waits is going to be served, unless the full executor dropped a
\* callback of this generation: a sleeping coroutine has a callback that will
\* continue it, and a queued message waits for a lock that a sleeping coroutine
\* holds or for a drain that is on its way.
WaitersServed ==
    ~lost => /\ \A r \in Sleeping : OnItsWay(Resume(r))
             /\ \A i \in 1..Len(queue) : LockBusy(queue[i]) \/ OnItsWay(Drain)

==============================================================================
