---------------------------- MODULE BuiltinLogin ----------------------------
(***************************************************************************)
(* The built-in login (service/openopq_runtime.cpp): the bot keeps one     *)
(* openopq process per account.  Runtime maps an account to its Instance,  *)
(* whose worker thread prepares, starts and watches the process and starts *)
(* it again when it exits.                                                 *)
(*                                                                         *)
(* launch, stop, forget and status are called on several threads: by       *)
(* startAdapter and startAll, by resumeConnection, which takes no lock of  *)
(* the manager, and by the panel.  Each critical section of the map's      *)
(* mutex is one step; an Instance is reached through shared pointers, and  *)
(* who drops the last one destroys it, which ends its worker.              *)
(*                                                                         *)
(* One account.  Downloading, the manifest and the console are one step    *)
(* that succeeds, fails or is rejected.                                    *)
(***************************************************************************)
EXTENDS Naturals, FiniteSets

CONSTANTS
    Threads,       \* callers
    Settings,      \* launch parameters
    MaxObj,        \* bound: Instance objects at once
    MaxCalls,      \* bound: calls
    MaxCrashes     \* bound: kills of the bot

ASSUME LoginAssumption == Settings # {} /\ {MaxObj, MaxCalls, MaxCrashes} \subseteq Nat

VARIABLES
    instances,     \* the Instance in the map, Nobody for none
    inst,          \* the Instance objects
    caller,        \* what each thread is doing
    proc,          \* openopq processes: of an Instance, or Nobody's, which
                   \* survived a killed bot; "dying" once sent SIGTERM
    dir,           \* the account's directory exists
    calls, crashes,
    overlapped     \* history: two calls other than status overlapped

loginVars == <<instances, inst, caller, proc, dir, calls, crashes, overlapped>>
loginWorld == <<calls, crashes, overlapped>>

Nobody == 0
Obj == 1..MaxObj
UnusedInst == [settings |-> CHOOSE s \in Settings : TRUE, stopping |-> FALSE, alive |-> FALSE,
           joinable |-> FALSE, pc |-> "unused"]
NoCall == [at |-> "idle", act |-> "none", settings |-> CHOOSE s \in Settings : TRUE,
         obj |-> Nobody, dead |-> Nobody]

LoginTypeOK ==
    /\ instances \in {Nobody} \cup Obj
    /\ inst \in [Obj -> [settings : Settings, stopping : BOOLEAN, alive : BOOLEAN,
                         joinable : BOOLEAN,
                         pc : {"unused", "made", "start", "prepare", "kill", "spawn", "run",
                               "sleep", "ended"}]]
    /\ caller \in [Threads ->
          [at : {"idle", "find", "signal", "check", "join", "mark", "make", "begin", "thread",
                 "release", "remove"},
           act : {"none", "launch", "stop", "forget", "status"}, settings : Settings,
           obj : {Nobody} \cup Obj, dead : {Nobody} \cup Obj]]
    /\ \A t \in Threads : caller[t].obj # Nobody => inst[caller[t].obj].pc # "unused"
    /\ proc \in [{Nobody} \cup Obj -> {"none", "up", "dying"}]
    /\ dir \in BOOLEAN /\ overlapped \in BOOLEAN
    /\ calls \in 0..MaxCalls /\ crashes \in 0..MaxCrashes

LoginInit ==
    /\ instances = Nobody /\ inst = [o \in Obj |-> UnusedInst]
    /\ caller = [t \in Threads |-> NoCall]
    /\ proc = [p \in {Nobody} \cup Obj |-> "none"] /\ dir = FALSE
    /\ calls = 0 /\ crashes = 0 /\ overlapped = FALSE

-----------------------------------------------------------------------------
(* The calls.                                                              *)

Does(t, step) == caller[t].at = step /\ caller[t].dead = Nobody

(* The map's mutex is free unless launch destroys what it overwrites.      *)
MutexFree == \A t \in Threads : ~(caller[t].dead # Nobody /\ caller[t].at = "begin")

CallBegins(t) ==
    /\ Does(t, "idle") /\ calls < MaxCalls /\ calls' = calls + 1
    /\ \E act \in {"launch", "stop", "forget", "status"}, s \in Settings :
          /\ act # "launch" => s = NoCall.settings
          /\ caller' = [caller EXCEPT ![t] = [NoCall EXCEPT !.at = "find", !.act = act, !.settings = s]]
          /\ overlapped' = (overlapped \/ \E u \in Threads :
                caller[u] # NoCall /\ "status" \notin {act, caller[u].act})
    /\ UNCHANGED <<instances, inst, proc, dir, crashes>>

(* Thread t goes on, or returns, with o in hand and d to destroy first.    *)
ContinuesReaping(t, step, o, d) ==
    caller' = [caller EXCEPT ![t] = IF step = "idle" /\ d = Nobody THEN NoCall
                                ELSE [@ EXCEPT !.at = step, !.obj = o, !.dead = d]]
Continues(t, step, o) == ContinuesReaping(t, step, o, Nobody)

(* What follows the stop of an Instance, or finding none.                  *)
AfterStop(t) == CASE caller[t].act = "launch" -> "make"
              [] caller[t].act = "forget" -> "remove"
              [] OTHER -> "idle"

(* launch leaves a running Instance with the same parameters alone, and    *)
(* takes any other out of the map to stop it; stop and forget take it out; *)
(* status keeps a pointer while it asks the console.                       *)
Find(t) ==
    /\ Does(t, "find") /\ MutexFree
    /\ LET o == instances IN
       \/ o = Nobody /\ Continues(t, AfterStop(t), o) /\ UNCHANGED instances
       \/ /\ o # Nobody /\ caller[t].act = "launch"
          /\ inst[o].settings = caller[t].settings /\ inst[o].alive
          /\ Continues(t, "idle", Nobody) /\ UNCHANGED instances
       \/ o # Nobody /\ caller[t].act = "status" /\ Continues(t, "release", o) /\ UNCHANGED instances
       \/ /\ o # Nobody /\ caller[t].act # "status"
          /\ caller[t].act = "launch" => ~(inst[o].settings = caller[t].settings /\ inst[o].alive)
          /\ instances' = Nobody /\ Continues(t, "signal", o)
    /\ UNCHANGED <<inst, proc, dir, loginWorld>>

(* Instance::stop: tell the worker ...                                     *)
Signal(t) ==
    /\ Does(t, "signal") /\ inst' = [inst EXCEPT ![caller[t].obj].stopping = TRUE]
    /\ Continues(t, "check", caller[t].obj) /\ UNCHANGED <<instances, proc, dir, loginWorld>>

(* ... and join it if there is one.                                        *)
Check(t) ==
    /\ Does(t, "check")
    /\ Continues(t, IF inst[caller[t].obj].joinable THEN "join" ELSE "mark", caller[t].obj)
    /\ UNCHANGED <<instances, inst, proc, dir, loginWorld>>

Join(t) ==
    /\ Does(t, "join") /\ inst[caller[t].obj].pc = "ended"
    /\ inst' = [inst EXCEPT ![caller[t].obj].joinable = FALSE]
    /\ Continues(t, "mark", caller[t].obj) /\ UNCHANGED <<instances, proc, dir, loginWorld>>

(* The objects, and what t destroys, once t drops its pointer to o in the  *)
(* objects `now': the destructor of the last owner tells the worker to     *)
(* stop and waits for it.                                                  *)
Last(t, o, kept) == o # kept /\ \A u \in Threads \ {t} : caller[u].obj # o
Dropped(t, o, kept, now) ==
    IF ~Last(t, o, kept) THEN now
    ELSE [now EXCEPT ![o] = IF @.joinable THEN [@ EXCEPT !.stopping = TRUE] ELSE UnusedInst]

(* Mutant: the worker is detached and left alone.                          *)
DeadByDetached(t, o, kept) == Nobody

DeadBy(t, o, kept) == IF Last(t, o, kept) /\ inst[o].joinable THEN o ELSE Nobody

(* The end of stop().  (launch keeps its pointer until it returns, to an   *)
(* Instance it has stopped.)                                               *)
Mark(t) ==
    /\ Does(t, "mark")
    /\ LET o == caller[t].obj IN
       /\ inst' = Dropped(t, o, instances, [inst EXCEPT ![o].alive = FALSE])
       /\ ContinuesReaping(t, AfterStop(t), Nobody, DeadBy(t, o, instances))
    /\ UNCHANGED <<instances, proc, dir, loginWorld>>

(* launch: a new Instance goes into the map, over one that another launch  *)
(* has put there since.                                                    *)
Make(t) ==
    /\ Does(t, "make") /\ MutexFree
    /\ \E o \in Obj :
          /\ inst[o].pc = "unused" /\ \A q \in Obj : inst[q].pc = "unused" => o <= q
          /\ LET made == [inst EXCEPT ![o] = [UnusedInst EXCEPT !.settings = caller[t].settings,
                                                            !.pc = "made"]] IN
             inst' = IF instances = Nobody THEN made ELSE Dropped(t, instances, o, made)
          /\ ContinuesReaping(t, "begin", o,
                         IF instances = Nobody THEN Nobody ELSE DeadBy(t, instances, o))
          /\ instances' = o
    /\ UNCHANGED <<proc, dir, loginWorld>>

(* Instance::start: whatever stop() said before is taken back ...          *)
StartBegins(t) ==
    /\ Does(t, "begin")
    /\ inst' = [inst EXCEPT ![caller[t].obj].stopping = FALSE, ![caller[t].obj].alive = TRUE]
    /\ Continues(t, "thread", caller[t].obj) /\ UNCHANGED <<instances, proc, dir, loginWorld>>

(* ... and the worker is made.                                             *)
StartThread(t) ==
    /\ Does(t, "thread")
    /\ inst' = [inst EXCEPT ![caller[t].obj].joinable = TRUE, ![caller[t].obj].pc = "start"]
    /\ Continues(t, "release", caller[t].obj) /\ UNCHANGED <<instances, proc, dir, loginWorld>>

(* launch and status return.                                               *)
Release(t) ==
    /\ Does(t, "release")
    /\ LET o == caller[t].obj IN
       /\ inst' = Dropped(t, o, instances, inst)
       /\ ContinuesReaping(t, "idle", Nobody, DeadBy(t, o, instances))
    /\ UNCHANGED <<instances, proc, dir, loginWorld>>

(* The destructor's join.                                                  *)
Reap(t) ==
    /\ caller[t].dead # Nobody /\ inst[caller[t].dead].pc = "ended"
    /\ inst' = [inst EXCEPT ![caller[t].dead] = UnusedInst]
    /\ Continues(t, caller[t].at, caller[t].obj) /\ UNCHANGED <<instances, proc, dir, loginWorld>>

(* forget: the account's directory is deleted.                             *)
Remove(t) ==
    /\ Does(t, "remove") /\ dir' = FALSE /\ Continues(t, "idle", Nobody)
    /\ UNCHANGED <<instances, inst, proc, loginWorld>>

-----------------------------------------------------------------------------
(* Instance::run, on the worker thread.                                    *)

Ended(o) == inst' = [inst EXCEPT ![o].pc = "ended", ![o].alive = FALSE]
WorkerGoesOn(o, step) == inst' = [inst EXCEPT ![o].pc = step]

OpenDir(o) ==
    /\ inst[o].pc = "start" /\ WorkerGoesOn(o, "prepare") /\ dir' = TRUE
    /\ UNCHANGED <<instances, caller, proc, loginWorld>>

(* Manifest, binary and configuration: interrupted, rejected by the centre *)
(* (or the configuration cannot be written, which is certain without the   *)
(* directory), failed for now, or ready.                                   *)
Prepare(o) ==
    /\ inst[o].pc = "prepare"
    /\ \/ Ended(o)
       \/ ~inst[o].stopping /\ WorkerGoesOn(o, "sleep")
       \/ ~inst[o].stopping /\ dir /\ WorkerGoesOn(o, "kill")
    /\ UNCHANGED <<instances, caller, proc, dir, loginWorld>>

(* Mutant: the processes of an earlier bot are not found.                  *)
KillStaleOwn(o) ==
    /\ inst[o].pc = "kill" /\ WorkerGoesOn(o, "spawn")
    /\ proc' = [proc EXCEPT ![o] = IF @ = "up" THEN "dying" ELSE @]
    /\ UNCHANGED <<instances, caller, dir, loginWorld>>

(* pkill by the account's data directory, whosever the process is: it      *)
(* sends SIGTERM and does not wait for the process to end.                 *)
KillStale(o) ==
    /\ inst[o].pc = "kill" /\ WorkerGoesOn(o, "spawn")
    /\ proc' = [p \in DOMAIN proc |-> IF proc[p] = "up" THEN "dying" ELSE proc[p]]
    /\ UNCHANGED <<instances, caller, dir, loginWorld>>

Spawn(o) ==
    /\ inst[o].pc = "spawn" /\ WorkerGoesOn(o, "run") /\ proc' = [proc EXCEPT ![o] = "up"]
    /\ UNCHANGED <<instances, caller, dir, loginWorld>>

(* The process has exited, or is killed because the Instance stops.        *)
Watch(o) ==
    /\ inst[o].pc = "run"
    /\ \/ inst[o].stopping /\ Ended(o) /\ proc' = [proc EXCEPT ![o] = "none"]
       \/ ~inst[o].stopping /\ proc[o] = "none" /\ WorkerGoesOn(o, "sleep") /\ UNCHANGED proc
    /\ UNCHANGED <<instances, caller, dir, loginWorld>>

(* The back-off ends; a notification that comes too early only makes it    *)
(* last to its end.                                                        *)
Wake(o) ==
    /\ inst[o].pc = "sleep"
    /\ IF inst[o].stopping THEN Ended(o) ELSE WorkerGoesOn(o, "prepare")
    /\ UNCHANGED <<instances, caller, proc, dir, loginWorld>>

-----------------------------------------------------------------------------
(* A process exits by itself, or of the signal it was sent.                *)
Exit(p) ==
    /\ proc[p] # "none" /\ proc' = [proc EXCEPT ![p] = "none"]
    /\ UNCHANGED <<instances, inst, caller, dir, loginWorld>>

(* The bot is killed and started again; its processes stay (not so on      *)
(* Windows, where they share a job object).  The survivors count as one,   *)
(* dying if each of them has been sent the signal.                         *)
Survives == IF \E q \in DOMAIN proc : proc[q] = "up" THEN "up"
            ELSE IF \E q \in DOMAIN proc : proc[q] = "dying" THEN "dying" ELSE "none"

Crash ==
    /\ crashes < MaxCrashes /\ crashes' = crashes + 1
    /\ instances' = Nobody /\ inst' = [o \in Obj |-> UnusedInst]
    /\ caller' = [t \in Threads |-> NoCall]
    /\ proc' = [p \in DOMAIN proc |-> IF p = Nobody THEN Survives ELSE "none"]
    /\ UNCHANGED <<dir, calls, overlapped>>

CallStep(t) == \/ Find(t) \/ Signal(t) \/ Check(t) \/ Join(t) \/ Mark(t) \/ Make(t)
               \/ StartBegins(t) \/ StartThread(t) \/ Release(t) \/ Reap(t) \/ Remove(t)
Worker(o) == \/ OpenDir(o) \/ Prepare(o) \/ KillStale(o) \/ Spawn(o) \/ Watch(o) \/ Wake(o)

LoginNext ==
    \/ \E t \in Threads : CallBegins(t) \/ CallStep(t)
    \/ \E o \in Obj : Worker(o)
    \/ \E p \in DOMAIN proc : Exit(p)
    \/ Crash

LoginSpec == LoginInit /\ [][LoginNext]_loginVars

(* Threads are scheduled, and a process that was sent a signal ends.       *)
FairLoginSpec ==
    /\ LoginSpec
    /\ \A t \in Threads : WF_loginVars(CallStep(t))
    /\ \A o \in Obj : WF_loginVars(Worker(o))
    /\ \A p \in {Nobody} \cup Obj : WF_loginVars(proc[p] = "dying" /\ Exit(p))

-----------------------------------------------------------------------------
Quiet == \A t \in Threads : caller[t] = NoCall
Works(o) == inst[o].pc \notin {"unused", "made", "ended"}

(* A survivor that has been told to end.                                   *)
Signalled(p) == p = Nobody /\ proc[p] = "dying"

(* openopq_runtime.cpp:442-446, 692-706, 769, 817-872.  An account is      *)
(* logged in once.  Between calls only the Instance in the map has a       *)
(* worker or a process, however launches, stops and looks at the status    *)
(* overlapped: the destructor of the last owner catches what a race left   *)
(* over.  And where no launch, stop or forget overlapped another there are *)
(* never two processes, but for a survivor of a killed bot that has been   *)
(* sent SIGTERM: the code does not wait for it, so it may run beside the   *)
(* new process until it ends.  Nor is there then a process of this bot     *)
(* whose directory has been deleted.                                       *)
OneLogin ==
    /\ Quiet => \A o \in Obj : Works(o) \/ proc[o] # "none" => o = instances
    /\ ~overlapped => Cardinality({p \in DOMAIN proc : proc[p] # "none" /\ ~Signalled(p)}) <= 1
    /\ ~overlapped /\ ~dir => \A o \in Obj : proc[o] = "none"

(* openopq_runtime.h:92: forget stops the Instance and deletes its         *)
(* directory.  It does so whatever else is called meanwhile.               *)
ForgetFinishes ==
    \A t \in Threads : caller[t].act = "forget" ~> caller[t].act # "forget" \/ caller[t].at = "idle"
=============================================================================
