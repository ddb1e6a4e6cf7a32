----------------------------- MODULE PosixUpdate -----------------------------
(***************************************************************************)
(* The POSIX package manager (launcher_posix.cpp) and its journalled       *)
(* replacement of the program files (posix_update.h, class Transaction),   *)
(* with the core process it supervises.                                    *)
(*                                                                         *)
(* Program paths are numbered in the order in which begin() visits them,   *)
(* so the loop index of begin() and of recover() is a path.  The content   *)
(* of a path is the number of the package it came from, 0 for what was     *)
(* first shipped.  A step of the manager is one system call that changes   *)
(* the disk or a process; Crash (SIGKILL) may come between any two steps   *)
(* and Fault makes the pending call throw.                                 *)
(***************************************************************************)
EXTENDS Integers

CONSTANTS
  NPaths,       \* number of program paths a package may replace
  Manager,      \* the path dice-next, the executable a user or systemd starts
  Server,       \* the path dice-next-server, the core
  Dirs,         \* paths that are directories: removing one is not atomic
  Required,     \* paths validatePackage insists on
  MaxPackages,  \* bound: packages the core downloads
  MaxCrashes,   \* bound: manager processes killed
  MaxFaults,    \* bound: system calls that fail
  Absent,       \* no file
  Torn          \* a directory whose removal was interrupted

Path == 1..NPaths
Package == 1..MaxPackages
Whole == {0} \cup Package
Content == Whole \cup {Absent, Torn}

ASSUME PathAssumption ==
  /\ NPaths \in Nat \ {0}
  /\ Manager \in Path /\ Server \in Path /\ Manager # Server
  /\ Dirs \subseteq Path \ {Manager, Server}
  /\ Required \subseteq Path /\ {Manager, Server} \subseteq Required
ASSUME BoundAssumption ==
  MaxPackages \in Nat /\ MaxCrashes \in Nat /\ MaxFaults \in Nat
ASSUME ContentAssumption == Absent \notin Whole /\ Torn \notin Whole /\ Absent # Torn

VARIABLES
  live,       \* the installation: content of each program path
  stage,      \* updates/pending: content of each path
  stagePkg,   \* the package in updates/pending, 0 when the directory is absent
  armed,      \* pendingUpdateMayApply(updates/pending)
  saved,      \* updates/rollbacks/<id> of the journalled transaction
  journal,    \* updates/transaction.json
  result,     \* updates/last-result.json
  pc,         \* where the manager is, "down" when no manager runs
  at,         \* the path the loop of begin() or recover() is at
  ret,        \* where the manager goes on after a recovery or a commit
  installing, \* main's local: the core being launched is a new one
  stopping,   \* a SIGTERM or SIGINT has reached this manager image
  core,       \* the core process
  issued,     \* the last package the core has downloaded
  crashes, faults,  \* how much of the two budgets is spent
  fate        \* history: what became of each package

disk == <<live, stage, stagePkg, armed, saved, journal, result, fate>>
ctl == <<at, ret, installing>>
budget == <<issued, crashes, faults>>
vars == <<live, stage, stagePkg, armed, saved, journal, result, pc, at, ret,
          installing, stopping, core, issued, crashes, faults, fate>>

NoFiles == [p \in Path |-> Absent]
NoMoves == [p \in Path |-> "no"]
NoJournal == [active |-> FALSE, pkg |-> 0, moves |-> NoMoves,
              prepared |-> FALSE, committed |-> FALSE]

(* Where an exception of begin() is caught, where one escapes to main's    *)
(* last handler, and the states in which the manager has a live child.     *)
BeginPc == {"intent", "backup", "replace", "prepared", "reexecNew"}
UndoPc == {"undo", "undoResult", "undoStage", "undoJournal"}
CommitPc == {"commitResult", "commitStage", "commitJournal"}
Pc == {"down", "loop", "validate", "reject", "rejectMove", "journal", "resume",
       "launch", "relaunch", "commit", "wait", "reexecOld", "abort"}
      \cup BeginPc \cup UndoPc \cup CommitPc

TypeDisk ==
  /\ live \in [Path -> Content]
  /\ stage \in [Path -> Whole \cup {Absent}]
  /\ stagePkg \in {0} \cup Package
  /\ armed \in BOOLEAN
  /\ saved \in [Path -> Content]
  /\ journal \in [active : BOOLEAN, pkg : {0} \cup Package,
                  moves : [Path -> {"no", "old", "new"}],
                  prepared : BOOLEAN, committed : BOOLEAN]
  /\ result \in [pkg : {0} \cup Package, ok : BOOLEAN]
  /\ fate \in [Package -> {"none", "begun", "installed", "rolledback", "rejected"}]

TypeProcess ==
  /\ pc \in Pc
  /\ at \in 0..(NPaths + 1)
  /\ ret \in {"loop", "launch", "relaunch", "wait"}
  /\ installing \in BOOLEAN
  /\ stopping \in BOOLEAN
  /\ core \in {"none", "up", "exited", "restart"}
  /\ issued \in 0..MaxPackages
  /\ crashes \in 0..MaxCrashes
  /\ faults \in 0..MaxFaults

TypeOK == TypeDisk /\ TypeProcess

Init ==
  /\ live \in {f \in [Path -> {0, Absent}] : f[Manager] = 0 /\ f[Server] = 0}
  /\ stage = NoFiles /\ stagePkg = 0 /\ armed = FALSE
  /\ saved = NoFiles /\ journal = NoJournal
  /\ result = [pkg |-> 0, ok |-> TRUE]
  /\ pc = "down" /\ at = 0 /\ ret = "loop"
  /\ installing = FALSE /\ stopping = FALSE /\ core = "none"
  /\ issued = 0 /\ crashes = 0 /\ faults = 0
  /\ fate = [k \in Package |-> "none"]

-----------------------------------------------------------------------------
(* The manager's main.                                                     *)

(* recover(): finish a committed transaction, undo any other one, or       *)
(* return at once.  Then go on at r.                                       *)
EnterRecover(r) ==
  /\ ret' = r
  /\ IF ~journal.active THEN pc' = r /\ at' = 0
     ELSE IF journal.committed THEN pc' = "commitResult" /\ at' = 0
     ELSE pc' = "undo" /\ at' = NPaths

(* Deviation: a manager that starts without looking for a transaction.     *)
EnterMainBlind ==
  /\ installing' = FALSE /\ stopping' = FALSE
  /\ pc' = "loop" /\ at' = 0 /\ ret' = "loop"

(* A manager image starts: signal handlers and locals are fresh, and an    *)
(* interrupted transaction is settled first.                               *)
EnterMain ==
  /\ installing' = FALSE /\ stopping' = FALSE
  /\ EnterRecover("loop")

(* Deviation: the core does not inherit the lock.                          *)
StartUnlocked ==
  /\ pc = "down"
  /\ live[Manager] # Absent
  /\ EnterMain
  /\ UNCHANGED <<disk, core, budget>>

(* A user, systemd or launchd runs dice-next.  flock on manager.lock fails *)
(* while another manager, or a core that inherited the lock, is alive.     *)
Start ==
  /\ pc = "down" /\ core = "none"
  /\ live[Manager] # Absent
  /\ EnterMain
  /\ UNCHANGED <<disk, core, budget>>

Loop ==
  /\ pc = "loop"
  /\ pc' = IF stopping THEN "down"
           ELSE IF stagePkg # 0 /\ armed THEN "validate" ELSE "launch"
  /\ UNCHANGED <<disk, ctl, stopping, core, budget>>

(* validatePackage and the two startup probes of the staged executables.   *)
(* A probe also throws when the manager has been told to stop.             *)
Validate ==
  /\ pc = "validate"
  /\ \/ ~stopping /\ pc' = "journal"
     \/ pc' = "reject"
  /\ UNCHANGED <<disk, ctl, stopping, core, budget>>

(* The handler of a package refused before its transaction began: report,  *)
(* then move the package aside.                                            *)
Reject ==
  /\ pc = "reject"
  /\ result' = [pkg |-> stagePkg, ok |-> FALSE]
  /\ pc' = "rejectMove"
  /\ UNCHANGED <<live, stage, stagePkg, armed, saved, journal, fate, ctl, stopping,
                 core, budget>>

RejectMove ==
  /\ pc = "rejectMove"
  /\ fate' = [fate EXCEPT ![stagePkg] = "rejected"]
  /\ stage' = NoFiles /\ stagePkg' = 0 /\ armed' = FALSE
  /\ pc' = "launch" /\ installing' = FALSE
  /\ UNCHANGED <<live, saved, journal, result, at, ret, stopping, core, budget>>

-----------------------------------------------------------------------------
(* Transaction::begin.                                                     *)

BeginJournal ==
  /\ pc = "journal"
  /\ journal' = [active |-> TRUE, pkg |-> stagePkg, moves |-> NoMoves,
                 prepared |-> FALSE, committed |-> FALSE]
  /\ saved' = NoFiles
  /\ fate' = [fate EXCEPT ![stagePkg] = "begun"]
  /\ pc' = "intent" /\ at' = 1
  /\ UNCHANGED <<live, stage, stagePkg, armed, result, ret, installing, stopping,
                 core, budget>>

(* Deviation: the intent is not persisted before the renames.              *)
IntentUnwritten ==
  /\ pc = "intent" /\ at \in Path /\ stage[at] # Absent
  /\ journal' = journal
  /\ pc' = "backup"
  /\ UNCHANGED <<live, stage, stagePkg, armed, saved, result, fate, ctl, stopping,
                 core, budget>>

(* Persist the intent for the path before either rename.                   *)
Intent ==
  /\ pc = "intent" /\ at \in Path /\ stage[at] # Absent
  /\ journal' = [journal EXCEPT !.moves[at] = IF live[at] # Absent THEN "old" ELSE "new"]
  /\ pc' = "backup"
  /\ UNCHANGED <<live, stage, stagePkg, armed, saved, result, fate, ctl, stopping,
                 core, budget>>

(* Deviation: the loop of begin() runs one path too far.                   *)
IntentSkipPastEnd ==
  /\ pc = "intent"
  /\ \/ (at \notin Path \/ stage[at] = Absent) /\ at' = at + 1 /\ pc' = pc
     \/ at \notin Path /\ at' = 0 /\ pc' = "prepared"
  /\ UNCHANGED <<disk, ret, installing, stopping, core, budget>>

(* The package has no such path, or every path has been visited.           *)
IntentSkip ==
  /\ pc = "intent"
  /\ \/ at \in Path /\ stage[at] = Absent /\ at' = at + 1 /\ pc' = pc
     \/ at \notin Path /\ at' = 0 /\ pc' = "prepared"
  /\ UNCHANGED <<disk, ret, installing, stopping, core, budget>>

Backup ==
  /\ pc = "backup"
  /\ IF live[at] # Absent
     THEN /\ saved' = [saved EXCEPT ![at] = live[at]]
          /\ live' = [live EXCEPT ![at] = Absent]
     ELSE UNCHANGED <<saved, live>>
  /\ pc' = "replace"
  /\ UNCHANGED <<stage, stagePkg, armed, journal, result, fate, ctl, stopping, core,
                 budget>>

Replace ==
  /\ pc = "replace"
  /\ live' = [live EXCEPT ![at] = stage[at]]
  /\ stage' = [stage EXCEPT ![at] = Absent]
  /\ pc' = "intent" /\ at' = at + 1
  /\ UNCHANGED <<stagePkg, armed, saved, journal, result, fate, ret, installing,
                 stopping, core, budget>>

Prepared ==
  /\ pc = "prepared"
  /\ journal' = [journal EXCEPT !.prepared = TRUE]
  /\ pc' = "reexecNew" /\ installing' = TRUE
  /\ UNCHANGED <<live, stage, stagePkg, armed, saved, result, fate, at, ret, stopping,
                 core, budget>>

(* reexecManager(resume = true): the new manager image takes over with the *)
(* same PID and lock.  A signal the old image had recorded is gone.        *)
ReexecNew ==
  /\ pc = "reexecNew" /\ live[Manager] # Absent
  /\ pc' = "resume" /\ stopping' = FALSE /\ installing' = FALSE
  /\ UNCHANGED <<disk, at, ret, core, budget>>

(* Transaction::resume, then the head of the loop.                         *)
Resume ==
  /\ pc = "resume"
  /\ IF journal.prepared /\ ~journal.committed /\ ~stopping
     THEN pc' = "launch" /\ installing' = TRUE
     ELSE pc' = "down" /\ installing' = FALSE
  /\ UNCHANGED <<disk, at, ret, stopping, core, budget>>

-----------------------------------------------------------------------------
(* Launching the core, and Transaction::commit once it runs.               *)

Launch ==
  /\ pc \in {"launch", "relaunch"} /\ live[Server] # Absent
  /\ core' = "up"
  /\ pc' = IF installing THEN "commit" ELSE "wait"
  /\ UNCHANGED <<disk, ctl, stopping, budget>>

(* execv fails.  A new core that cannot start is rolled back and the       *)
(* restored one launched; any other failure ends the manager.              *)
LaunchFails ==
  /\ pc \in {"launch", "relaunch"}
  /\ IF installing
     THEN EnterRecover("relaunch") /\ installing' = FALSE
     ELSE pc' = "down" /\ UNCHANGED ctl
  /\ UNCHANGED <<disk, stopping, core, budget>>

Commit ==
  /\ pc = "commit"
  /\ journal' = [journal EXCEPT !.committed = TRUE]
  /\ fate' = [fate EXCEPT ![journal.pkg] = "installed"]
  /\ pc' = "commitResult" /\ ret' = "wait" /\ installing' = FALSE
  /\ UNCHANGED <<live, stage, stagePkg, armed, saved, result, at, stopping, core,
                 budget>>

(* Deviation: recover() of a committed transaction only cleans up.         *)
CommitResultForgotten ==
  /\ pc = "commitResult"
  /\ result' = IF ret = "wait" THEN [pkg |-> journal.pkg, ok |-> TRUE] ELSE result
  /\ pc' = "commitStage"
  /\ UNCHANGED <<live, stage, stagePkg, armed, saved, journal, fate, ctl, stopping,
                 core, budget>>

CommitResult ==
  /\ pc = "commitResult"
  /\ result' = [pkg |-> journal.pkg, ok |-> TRUE]
  /\ pc' = "commitStage"
  /\ UNCHANGED <<live, stage, stagePkg, armed, saved, journal, fate, ctl, stopping,
                 core, budget>>

(* remove_all(updates/pending) works through the directory.                *)
CommitStage ==
  /\ pc = "commitStage"
  /\ \/ \E p \in Path :
          /\ stage[p] # Absent
          /\ stage' = [stage EXCEPT ![p] = Absent]
          /\ UNCHANGED <<stagePkg, armed, pc>>
     \/ /\ stage = NoFiles
        /\ stagePkg' = 0 /\ armed' = FALSE /\ pc' = "commitJournal"
        /\ UNCHANGED stage
  /\ UNCHANGED <<live, saved, journal, result, fate, ctl, stopping, core, budget>>

CommitJournal ==
  /\ pc = "commitJournal"
  /\ journal' = NoJournal /\ saved' = NoFiles
  /\ pc' = ret
  /\ UNCHANGED <<live, stage, stagePkg, armed, result, fate, ctl, stopping, core,
                 budget>>

-----------------------------------------------------------------------------
(* Transaction::recover of a transaction that was not committed: the moves *)
(* in reverse order, each undone only as far as the disk shows it went.    *)

MustRemove(p) ==
  /\ live[p] # Absent
  /\ \/ saved[p] # Absent
     \/ journal.moves[p] = "new" /\ stage[p] = Absent

UndoRemove ==
  /\ pc = "undo" /\ at \in Path
  /\ journal.moves[at] # "no" /\ MustRemove(at)
  /\ \/ at \in Dirs /\ live[at] # Torn /\ live' = [live EXCEPT ![at] = Torn]
     \/ live' = [live EXCEPT ![at] = Absent]
  /\ UNCHANGED <<stage, stagePkg, armed, saved, journal, result, fate, pc, ctl,
                 stopping, core, budget>>

UndoNext ==
  /\ pc = "undo"
  /\ \/ /\ at \in Path
        /\ journal.moves[at] = "no" \/ ~MustRemove(at)
        /\ IF journal.moves[at] # "no" /\ saved[at] # Absent
           THEN /\ live' = [live EXCEPT ![at] = saved[at]]
                /\ saved' = [saved EXCEPT ![at] = Absent]
           ELSE UNCHANGED <<live, saved>>
        /\ at' = at - 1 /\ pc' = pc
     \/ at \notin Path /\ pc' = "undoResult" /\ UNCHANGED <<at, live, saved>>
  /\ UNCHANGED <<stage, stagePkg, armed, journal, result, fate, ret, installing,
                 stopping, core, budget>>

UndoResult ==
  /\ pc = "undoResult"
  /\ result' = [pkg |-> journal.pkg, ok |-> FALSE]
  /\ pc' = "undoStage"
  /\ UNCHANGED <<live, stage, stagePkg, armed, saved, journal, fate, ctl, stopping,
                 core, budget>>

(* Deviation: the failed package stays in updates/pending.                 *)
UndoStageLeft ==
  /\ pc = "undoStage"
  /\ fate' = [fate EXCEPT ![journal.pkg] = "rolledback"]
  /\ UNCHANGED <<stage, stagePkg, armed>>
  /\ pc' = "undoJournal"
  /\ UNCHANGED <<live, saved, journal, result, ctl, stopping, core, budget>>

(* Keep the failed package for inspection, under another name.             *)
UndoStage ==
  /\ pc = "undoStage"
  /\ fate' = [fate EXCEPT ![journal.pkg] = "rolledback"]
  /\ stage' = NoFiles /\ stagePkg' = 0 /\ armed' = FALSE
  /\ pc' = "undoJournal"
  /\ UNCHANGED <<live, saved, journal, result, ctl, stopping, core, budget>>

(* Deviation: the journal is not removed after a rollback.                 *)
UndoJournalLeft ==
  /\ pc = "undoJournal"
  /\ UNCHANGED <<journal, saved>>
  /\ pc' = ret
  /\ UNCHANGED <<live, stage, stagePkg, armed, result, fate, ctl, stopping, core,
                 budget>>

UndoJournal ==
  /\ pc = "undoJournal"
  /\ journal' = NoJournal /\ saved' = NoFiles
  /\ pc' = ret
  /\ UNCHANGED <<live, stage, stagePkg, armed, result, fate, ctl, stopping, core,
                 budget>>

-----------------------------------------------------------------------------
(* The core, signals, kills and failing system calls.                      *)

(* A managed core publishes a verified package in updates/pending, held    *)
(* until it is authorised.  The manager is in waitpid by then.             *)
Download ==
  /\ core = "up" /\ pc = "wait"
  /\ issued < MaxPackages /\ issued' = issued + 1
  /\ \E S \in SUBSET Path :
       /\ Required \subseteq S
       /\ stage' = [p \in Path |-> IF p \in S THEN issued' ELSE Absent]
  /\ stagePkg' = issued' /\ armed' = FALSE
  /\ UNCHANGED <<live, saved, journal, result, fate, pc, ctl, stopping, core, crashes,
                 faults>>

(* The hold is lifted, or the permission to install on restart written or  *)
(* revoked.                                                                *)
Authorize ==
  /\ core = "up" /\ pc = "wait" /\ stagePkg # 0
  /\ armed' = ~armed
  /\ UNCHANGED <<live, stage, stagePkg, saved, journal, result, fate, pc, ctl,
                 stopping, core, budget>>

(* The core ends by itself, asking for a restart or not.  Without a        *)
(* manager nobody reads its exit status.                                   *)
CoreExit ==
  /\ core = "up"
  /\ core' \in IF pc = "down" THEN {"none"} ELSE {"exited", "restart"}
  /\ UNCHANGED <<disk, pc, ctl, stopping, budget>>

Reap ==
  /\ pc = "wait" /\ core \in {"exited", "restart"}
  /\ pc' = IF stopping \/ core = "exited" THEN "down" ELSE "reexecOld"
  /\ core' = "none"
  /\ UNCHANGED <<disk, ctl, stopping, budget>>

ReexecOld ==
  /\ pc = "reexecOld" /\ live[Manager] # Absent
  /\ EnterMain
  /\ UNCHANGED <<disk, core, budget>>

(* main's last handler: terminate the child, wait for it, give up.         *)
Abort ==
  /\ pc = "abort"
  /\ core' = "none" /\ pc' = "down" /\ at' = 0 /\ ret' = "loop" /\ installing' = FALSE
  /\ UNCHANGED <<disk, stopping, budget>>

Signal ==
  /\ pc # "down" /\ ~stopping
  /\ stopping' = TRUE
  /\ UNCHANGED <<disk, pc, ctl, core, budget>>

(* The pending call throws.  begin() is undone; an exception of recover()  *)
(* or of commit() ends the manager, and the core with it.                  *)
Fault ==
  /\ faults < MaxFaults /\ faults' = faults + 1
  /\ \/ pc = "journal" /\ pc' = "reject" /\ UNCHANGED ctl
     \/ pc \in BeginPc /\ EnterRecover("launch") /\ installing' = FALSE
     \/ /\ pc \in {"reject", "rejectMove", "resume", "reexecOld"} \cup UndoPc \cup CommitPc
        /\ core = "none"
        /\ pc' = "down" /\ at' = 0 /\ ret' = "loop" /\ installing' = FALSE
     \/ /\ pc \in {"commit"} \cup CommitPc
        /\ core # "none"
        /\ pc' = "abort" /\ UNCHANGED ctl
  /\ UNCHANGED <<disk, stopping, core, issued, crashes>>

Crash ==
  /\ pc # "down"
  /\ crashes < MaxCrashes /\ crashes' = crashes + 1
  /\ pc' = "down" /\ at' = 0 /\ ret' = "loop" /\ installing' = FALSE /\ stopping' = FALSE
  /\ core' = IF core = "up" THEN "up" ELSE "none"
  /\ UNCHANGED <<disk, issued, faults>>

ManagerStep ==
  \/ Loop \/ Validate \/ Reject \/ RejectMove
  \/ BeginJournal \/ Intent \/ IntentSkip \/ Backup \/ Replace \/ Prepared
  \/ ReexecNew \/ Resume \/ Launch \/ LaunchFails
  \/ Commit \/ CommitResult \/ CommitStage \/ CommitJournal
  \/ UndoRemove \/ UndoNext \/ UndoResult \/ UndoStage \/ UndoJournal
  \/ Reap \/ ReexecOld \/ Abort

Next == \/ Start \/ ManagerStep \/ Download \/ Authorize \/ CoreExit
        \/ Signal \/ Fault \/ Crash

(* Whoever supervises the manager starts it again, the manager runs, and a *)
(* core that lost its manager ends some day.                               *)
Fairness == WF_vars(Start) /\ WF_vars(ManagerStep) /\ WF_vars(CoreExit)
Spec == Init /\ [][Next]_vars /\ Fairness

-----------------------------------------------------------------------------
(* What the installation is worth.                                         *)

(* What recover() would put at p: the content the journal protects.        *)
Restored(p) ==
  IF journal.moves[p] = "no" THEN live[p]
  ELSE IF saved[p] # Absent THEN saved[p]
  ELSE IF journal.moves[p] = "new" /\ stage[p] = Absent THEN Absent
  ELSE live[p]

Durable == [p \in Path |-> IF journal.active /\ ~journal.committed
                           THEN Restored(p) ELSE live[p]]

(* The package still to be decided: what is left of it in updates/pending  *)
(* together with the files the open transaction has taken from there.      *)
Offered == IF stagePkg = 0 \/ journal.committed THEN NoFiles
           ELSE [p \in Path |-> IF stage[p] # Absent \/ journal.moves[p] # "no"
                                THEN stagePkg ELSE Absent]

Verdict == [k \in Package |-> IF fate[k] = "begun" THEN "none" ELSE fate[k]]

(* posix_update.h:181-193, 214-257, docs/posix-update-acceptance.md:22.     *)
(* The update is atomic and durable: the program files change from one     *)
(* release to the next only at the commit, all at once, whatever step a    *)
(* kill, a failing call or a stop interrupts, and each package gets one    *)
(* verdict.                                                                *)
Atomic == INSTANCE AtomicInstall WITH
            installed <- Durable, offer <- Offered, verdict <- Verdict
AtomicInstallation == Atomic!Spec

(* launcher_posix.cpp:215-228.  A core is launched from a whole release:   *)
(* the durable files, or those overlaid with every file of the package     *)
(* being installed, never from a directory in the middle of a transaction. *)
Overlay(old, new) == [p \in Path |-> IF new[p] # Absent THEN new[p] ELSE old[p]]
CoreStartsWhole ==
  [][core # "up" /\ core' = "up" =>
       /\ live \in {Durable, Overlay(Durable, Offered)}
       /\ \A p \in Path : live[p] # Torn]_vars

(* posix_update.h:3 and launcher_posix.cpp:152.  No program file is        *)
(* touched while a core runs, also when its manager was killed and another *)
(* one has been started.                                                   *)
FilesStillWhileCoreRuns == [][core = "up" => live' = live]_vars

(* posix_update.h:254.  A package whose installation was begun is never    *)
(* begun again: it ends installed or set aside, not in a retry loop.       *)
NoSecondAttempt ==
  [][~journal.active /\ journal'.active => fate[journal'.pkg] = "none"]_vars

(* posix_update.h:214-220, 229-233, 253.  Once no transaction is open, the *)
(* report the core will read says of the last decided package what         *)
(* happened to it, across any interruption.                                *)
ReportedTruly ==
  ~journal.active =>
    \A k \in Package : fate[k] \in {"installed", "rolledback"} =>
      /\ result.pkg >= k
      /\ result.pkg = k => result.ok = (fate[k] = "installed")

(* An interrupted transaction is settled, unless the interruption left no  *)
(* manager executable to start.                                            *)
Settles == journal.active ~> (~journal.active \/ live[Manager] = Absent)

(* posix_update.h:186-187, docs/posix-update-acceptance.md:22: after an    *)
(* interruption the next launch of the manager recovers.  It can only if   *)
(* there still is a manager to launch.                                     *)
NextLaunchRecovers == journal.active /\ pc = "down" => live[Manager] # Absent
=============================================================================
