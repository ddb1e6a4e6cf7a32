---------------------------- MODULE UpdateService ----------------------------
(***************************************************************************)
(* The update service inside the core (update_service.cpp): one worker     *)
(* thread, a one-slot job queue, HTTP handlers and a minute timer that     *)
(* share its state under mutex_, and the package it keeps in               *)
(* updates/pending for the launcher to apply at the next start.            *)
(*                                                                         *)
(* One action is one critical section, or one step of the worker between   *)
(* two of them.  Releases are numbered; the core runs `version'.  The      *)
(* launcher's own steps are PosixUpdate; here it is one step.              *)
(***************************************************************************)
EXTENDS Integers

CONSTANTS
  MaxTag,      \* releases 1..MaxTag exist, the shipped version is 0
  MaxSaves,    \* bound: settings saved
  MaxJobs,     \* bound: operations requested
  MaxFaults,   \* bound: file operations and restart callbacks that fail
  MaxCrashes   \* bound: cores killed

ASSUME BoundAssumption == /\ MaxTag \in Nat \ {0}
                          /\ {MaxSaves, MaxJobs, MaxFaults, MaxCrashes} \subseteq Nat

Tag == 1..MaxTag
InstallTime == {"early", "late"}
Setting == [action : {"notify", "download", "install"}, scheduled : BOOLEAN,
            time : InstallTime]
Job == {"check", "download", "install"}
Moment == {"none", "ahead", "past"}   \* of a planned installation, against now

VARIABLES
  \* on disk
  pending,   \* updates/pending, its gate files and its update.json; tag 0: absent
  setting,   \* the update/* keys of the configuration
  version,   \* the release that is installed
  \* members of UpdateService
  proc,      \* the core: down, up, or in ~UpdateService
  quitting,  \* relaunchSelf was called: app().quit() will come
  job, work, \* the queued job, and where the worker is in its own
  phase, active, cancelled, sched, plan, pendingTag, latest,
  getting,   \* doDownload's local manifest
  \* history and budgets
  agreed,    \* the administrator agreed to install the package in updates/pending
  saves, jobs, faults, crashes

flags == <<active, cancelled, sched>>
known == <<plan, pendingTag, latest, getting>>
budget == <<saves, jobs, faults, crashes>>
vars == <<pending, setting, version, proc, quitting, job, work, phase, active,
          cancelled, sched, plan, pendingTag, latest, getting, agreed, saves, jobs,
          faults, crashes>>

NoPackage == [tag |-> 0, held |-> FALSE, permit |-> FALSE, auto |-> FALSE,
              enabled |-> FALSE, at |-> "none", time |-> "early"]

TypeOK ==
  /\ pending \in [tag : {0} \cup Tag, held : BOOLEAN, permit : BOOLEAN, auto : BOOLEAN,
                  enabled : BOOLEAN, at : Moment, time : InstallTime]
  /\ setting \in Setting
  /\ {version, pendingTag, latest, getting} \subseteq {0} \cup Tag
  /\ proc \in {"down", "up", "stopping"}
  /\ job \in Job \cup {"none"}
  /\ work \in {"idle", "check", "download", "fetch", "rotate", "publish", "finish",
               "install", "authorize", "restart"}
  /\ phase \in {"idle", "checking", "up_to_date", "available", "downloading",
                "cancelling", "cancelled", "staged", "scheduled", "installing", "error"}
  /\ plan \in Moment
  /\ {quitting, active, cancelled, sched, agreed} \subseteq BOOLEAN
  /\ saves \in 0..MaxSaves /\ jobs \in 0..MaxJobs
  /\ faults \in 0..MaxFaults /\ crashes \in 0..MaxCrashes

(* pendingUpdateMayApply: what the launcher asks at the next start.        *)
MayApply(p) == p.tag # 0 /\ (~p.held \/ p.permit)

(* Deviation: a package that is staged or has failed keeps the service busy. *)
BusyWhenStaged == active \/ phase \notin {"idle", "up_to_date", "available"} \/ job # "none"

Busy == active \/ phase \in {"checking", "installing"} \/ job # "none"

-----------------------------------------------------------------------------
(* reconcilePendingLocked(s, arm) on package p: what it leaves on disk, in *)
(* plan, pendingTag and phase.  Its file operations, in order: revoke the  *)
(* permission to install on restart, write the metadata, write the         *)
(* permission; with a fault one of them fails and the caller sees ok FALSE. *)
Reconciled(p, s, arm) ==
  LET install == s.action = "install"
      auto == install /\ (arm \/ p.auto)
      enabled == install /\ s.scheduled /\ (arm \/ p.enabled)
      at == IF ~enabled THEN "none"
            ELSE IF p.at = "none" \/ p.time # s.time THEN "ahead" ELSE p.at
      done == [p EXCEPT !.held = TRUE, !.auto = auto, !.enabled = enabled, !.at = at,
                        !.time = IF enabled THEN s.time ELSE @, !.permit = auto]
      gated == [p EXCEPT !.held = TRUE]
      Outcome(q, due, ph) == [pkg |-> q, plan |-> due, tag |-> p.tag, phase |-> ph, ok |-> TRUE]
      Failed(q, tag) == [pkg |-> q, plan |-> "none", tag |-> tag, phase |-> phase, ok |-> FALSE]
      untouched == p.tag = 0 \/ (~p.held /\ ~(arm /\ install /\ s.scheduled))
      stale == p.tag <= version
  IN IF untouched
     THEN {[pkg |-> p, plan |-> "none", tag |-> 0, phase |-> phase, ok |-> TRUE]}
     ELSE {IF stale THEN Outcome([gated EXCEPT !.permit = FALSE], "none", "staged")
           ELSE Outcome(done, done.at, IF done.at = "none" THEN "staged" ELSE "scheduled")}
          \cup (IF faults = MaxFaults THEN {} ELSE
                {Failed(p, 0), Failed(gated, 0), Failed(gated, p.tag)} \cup
                (IF stale THEN {} ELSE
                 {Failed([q EXCEPT !.permit = auto /\ p.permit], p.tag) : q \in {gated, done}}))

(* The caller of reconcilePendingLocked stores its outcome.                *)
Reconcile(s, arm) ==
  \E o \in Reconciled(pending, s, arm) :
    /\ pending' = o.pkg /\ plan' = o.plan /\ pendingTag' = o.tag
    /\ phase' = IF o.ok THEN o.phase ELSE "error"
    /\ faults' = IF o.ok THEN faults ELSE faults + 1

(* What a new process starts from.                                         *)
Fresh ==
  /\ proc' = "down" /\ quitting' = FALSE /\ job' = "none" /\ work' = "idle"
  /\ phase' = "idle" /\ active' = FALSE /\ cancelled' = FALSE /\ sched' = FALSE
  /\ plan' = "none" /\ pendingTag' = 0 /\ latest' = 0 /\ getting' = 0

Init ==
  /\ pending \in {NoPackage, [NoPackage EXCEPT !.tag = 1]}  \* staged by an older core
  /\ setting = [action |-> "notify", scheduled |-> FALSE, time |-> "early"]
  /\ version = 0
  /\ proc = "down" /\ quitting = FALSE /\ job = "none" /\ work = "idle" /\ phase = "idle"
  /\ active = FALSE /\ cancelled = FALSE /\ sched = FALSE /\ plan = "none"
  /\ pendingTag = 0 /\ latest = 0 /\ getting = 0
  /\ agreed = (pending.tag # 0)
  /\ saves = 0 /\ jobs = 0 /\ faults = 0 /\ crashes = 0

-----------------------------------------------------------------------------
(* The process.                                                            *)

(* The launcher applies the package, or fails to and sets it aside, and    *)
(* starts the core, whose constructor finds no package.                    *)
BootApplies ==
  /\ proc = "down" /\ MayApply(pending)
  /\ version' \in {version, pending.tag}
  /\ pending' = NoPackage /\ agreed' = FALSE
  /\ proc' = "up"
  /\ UNCHANGED <<setting, quitting, job, work, phase, flags, known, budget>>

(* The constructor restores the state of the package that is still there.  *)
Boot ==
  /\ proc = "down" /\ ~MayApply(pending)
  /\ Reconcile(setting, FALSE)
  /\ proc' = "up"
  /\ UNCHANGED <<setting, version, quitting, job, work, flags, latest, getting, agreed,
                 saves, jobs, crashes>>

(* ~UpdateService: after relaunchSelf's app().quit(), or after a SIGTERM.  *)
Stop ==
  /\ proc = "up" /\ proc' = "stopping"
  /\ UNCHANGED <<pending, setting, version, quitting, job, work, phase, flags, known,
                 agreed, budget>>

(* The worker has been joined.                                             *)
Exit ==
  /\ proc = "stopping" /\ work = "idle"
  /\ Fresh
  /\ UNCHANGED <<pending, setting, version, agreed, budget>>

Crash ==
  /\ proc # "down"
  /\ crashes < MaxCrashes /\ crashes' = crashes + 1
  /\ Fresh
  /\ UNCHANGED <<pending, setting, version, agreed, saves, jobs, faults>>

(* The planned moment passes.                                              *)
Time ==
  /\ "ahead" \in {plan, pending.at}
  /\ plan' = IF plan = "ahead" THEN "past" ELSE plan
  /\ pending' = [pending EXCEPT !.at = IF @ = "ahead" THEN "past" ELSE @]
  /\ UNCHANGED <<setting, version, proc, quitting, job, work, phase, flags, pendingTag,
                 latest, getting, agreed, budget>>

-----------------------------------------------------------------------------
(* Requests, each one critical section of mutex_.                          *)

(* queueJobLocked(j, ph).                                                  *)
QueueJob(j, ph) ==
  /\ proc = "up" /\ ~Busy
  /\ jobs < MaxJobs /\ jobs' = jobs + 1
  /\ job' = j /\ phase' = ph

(* updateSettings(s).  Saving the configuration may fail: then nothing     *)
(* changes.  The package is reconciled only when no operation is running.  *)
UpdateSettings(s) ==
  /\ proc = "up" /\ phase # "installing" /\ s # setting
  /\ saves < MaxSaves /\ saves' = saves + 1
  /\ setting' = s
  /\ agreed' = (pending.tag # 0 /\ (agreed \/ s.action = "install"))
  /\ IF Busy THEN UNCHANGED <<pending, plan, pendingTag, phase, faults>>
     ELSE Reconcile(s, TRUE)
  /\ UNCHANGED <<version, proc, quitting, job, work, flags, latest, getting, jobs,
                 crashes>>

RequestCheck ==
  /\ QueueJob("check", "checking")
  /\ UNCHANGED <<pending, setting, version, proc, quitting, work, flags, known, agreed,
                 saves, faults, crashes>>

RequestDownload ==
  /\ latest > version
  /\ QueueJob("download", "downloading")
  /\ cancelled' = FALSE /\ active' = TRUE
  /\ UNCHANGED <<pending, setting, version, proc, quitting, work, sched, known, agreed,
                 saves, faults, crashes>>

(* Deviation: a cancelled download counts as over at once.                 *)
CancelEndsDownload ==
  /\ proc = "up" /\ active /\ ~cancelled
  /\ cancelled' = TRUE /\ phase' = "cancelling" /\ active' = FALSE
  /\ UNCHANGED <<pending, setting, version, proc, quitting, job, work, sched, known,
                 agreed, budget>>

RequestCancelDownload ==
  /\ proc = "up" /\ active /\ ~cancelled
  /\ cancelled' = TRUE /\ phase' = "cancelling"
  /\ UNCHANGED <<pending, setting, version, proc, quitting, job, work, active, sched,
                 known, agreed, budget>>

(* Also requestManualRestart when the policy is to install what is ready.  *)
RequestInstall ==
  /\ pending.tag # 0
  /\ QueueJob("install", "installing")
  /\ sched' = FALSE /\ agreed' = TRUE
  /\ UNCHANGED <<pending, setting, version, proc, quitting, work, active, cancelled,
                 known, saves, faults, crashes>>

(* requestManualRestart without a package to install first.                *)
RequestRestart ==
  /\ proc = "up" /\ phase # "installing"
  /\ Busy \/ setting.action # "install" \/ pending.tag = 0
  /\ quitting' = TRUE
  /\ UNCHANGED <<pending, setting, version, proc, job, work, phase, flags, known, agreed,
                 budget>>

(* The minute timer: reconcile, then start a planned installation whose    *)
(* moment has come, or a version check that is due.                        *)
Tick ==
  /\ proc = "up" /\ ~Busy
  /\ \E o \in Reconciled(pending, setting, FALSE) :
       /\ pending' = o.pkg /\ plan' = o.plan /\ pendingTag' = o.tag
       /\ faults' = IF o.ok THEN faults ELSE faults + 1
       /\ \/ ~o.ok /\ phase' = "error" /\ UNCHANGED <<job, sched, jobs>>
          \/ /\ o.ok /\ o.plan = "past" /\ jobs < MaxJobs
             /\ job' = "install" /\ phase' = "installing" /\ sched' = TRUE
             /\ jobs' = jobs + 1
          \/ /\ o.ok /\ o.plan # "past"
             /\ \/ phase' = o.phase /\ UNCHANGED <<job, jobs>>
                \/ /\ jobs < MaxJobs /\ jobs' = jobs + 1
                   /\ job' = "check" /\ phase' = "checking"
             /\ UNCHANGED sched
  /\ UNCHANGED <<setting, version, proc, quitting, work, active, cancelled, latest,
                 getting, agreed, saves, crashes>>

-----------------------------------------------------------------------------
(* The worker.                                                             *)

(* Deviation: a wake-up is taken for a job.                                *)
TakeWakeUp ==
  /\ proc = "up" /\ work = "idle"
  /\ work' = job /\ job' = "none"
  /\ UNCHANGED <<pending, setting, version, proc, quitting, phase, flags, known, agreed,
                 budget>>

TakeJob ==
  /\ proc = "up" /\ work = "idle" /\ job # "none"
  /\ work' = job /\ job' = "none"
  /\ UNCHANGED <<pending, setting, version, proc, quitting, phase, flags, known, agreed,
                 budget>>

(* No source answers, the release has no package for this platform, or the *)
(* check throws; nothing is recorded once the service is stopping.         *)
CheckFails ==
  /\ work = "check" /\ work' = "idle"
  /\ phase' = IF proc = "stopping" THEN phase ELSE "error"
  /\ UNCHANGED <<pending, setting, version, proc, quitting, job, flags, known, agreed,
                 budget>>

(* The policy is read again under the lock; a mirror may be behind.        *)
CheckDone ==
  /\ work = "check" /\ proc = "up" /\ work' = "idle"
  /\ \E t \in {0} \cup Tag :
       /\ latest' = t
       /\ IF t > version /\ t # pendingTag /\ setting.action # "notify"
          THEN /\ phase' = "downloading" /\ active' = TRUE /\ cancelled' = FALSE
               /\ job' = "download"
          ELSE /\ phase' = IF plan # "none" THEN "scheduled"
                           ELSE IF t > version THEN "available" ELSE "up_to_date"
               /\ UNCHANGED <<active, cancelled, job>>
  /\ UNCHANGED <<pending, setting, version, proc, quitting, sched, plan, pendingTag,
                 getting, agreed, budget>>

DownloadBegin ==
  /\ work = "download" /\ ~cancelled
  /\ getting' = latest /\ work' = "fetch"
  /\ UNCHANGED <<pending, setting, version, proc, quitting, job, phase, flags, plan,
                 pendingTag, latest, agreed, budget>>

(* doDownload's fail: cancelled, stopping, or an error; up to the moment   *)
(* the new package begins to replace the previous one.                     *)
DownloadFails ==
  /\ \/ work = "download" /\ cancelled
     \/ work \in {"fetch", "rotate"}
  /\ work' = "idle"
  /\ IF proc = "stopping" THEN UNCHANGED <<phase, active>>
     ELSE phase' = (IF cancelled THEN "cancelled" ELSE "error") /\ active' = FALSE
  /\ UNCHANGED <<pending, setting, version, proc, quitting, job, cancelled, sched, known,
                 agreed, budget>>

(* The archive is verified and unpacked, its gate files written.           *)
Fetched ==
  /\ work = "fetch" /\ work' = "rotate"
  /\ UNCHANGED <<pending, setting, version, proc, quitting, job, phase, flags, known,
                 agreed, budget>>

(* prepareStage: the last look at the cancel flag, then the package staged *)
(* before is moved away...                                                 *)
Rotate ==
  /\ work = "rotate" /\ ~cancelled /\ proc = "up"
  /\ pending' = NoPackage /\ agreed' = FALSE
  /\ work' = "publish"
  /\ UNCHANGED <<setting, version, proc, quitting, job, phase, flags, known, budget>>

(* Deviation: the new package is not held.                                 *)
PublishOpen ==
  /\ work = "publish" /\ work' = "finish"
  /\ pending' = [NoPackage EXCEPT !.tag = getting]
  /\ agreed' = (setting.action = "install")
  /\ UNCHANGED <<setting, version, proc, quitting, job, phase, flags, known, budget>>

(* ...and the new one takes its place, held.                               *)
Publish ==
  /\ work = "publish" /\ work' = "finish"
  /\ pending' = [NoPackage EXCEPT !.tag = getting, !.held = TRUE]
  /\ agreed' = (setting.action = "install")
  /\ UNCHANGED <<setting, version, proc, quitting, job, phase, flags, known, budget>>

(* The end of doDownload, with the policy as it is now.                    *)
Finish ==
  /\ work = "finish" /\ work' = "idle"
  /\ IF proc = "stopping"
     THEN UNCHANGED <<pending, job, phase, active, sched, plan, pendingTag, faults>>
     ELSE /\ active' = FALSE
          /\ IF cancelled
             THEN phase' = "cancelled" /\ UNCHANGED <<pending, job, sched, plan, pendingTag, faults>>
             ELSE \E o \in Reconciled(pending, setting, TRUE) :
               /\ pending' = o.pkg /\ plan' = o.plan /\ pendingTag' = o.tag
               /\ faults' = IF o.ok THEN faults ELSE faults + 1
               /\ IF o.ok /\ setting.action = "install" /\ ~setting.scheduled
                  THEN phase' = "installing" /\ job' = "install" /\ sched' = FALSE
                  ELSE /\ phase' = IF o.ok THEN o.phase ELSE "error"
                       /\ UNCHANGED <<job, sched>>
  /\ UNCHANGED <<setting, version, proc, quitting, cancelled, latest, getting, agreed,
                 saves, jobs, crashes>>

(* Deviation: the phase is not reset when there was no plan to give up.    *)
InstallGivesUpSilently(p) ==
  /\ phase' = (IF sched THEN "error" ELSE phase) /\ sched' = FALSE /\ work' = "idle"
  /\ plan' = IF sched THEN "none" ELSE plan
  /\ pending' = IF sched THEN [p EXCEPT !.enabled = FALSE, !.at = "none"] ELSE p

(* doInstall's fail on package p: a planned installation is given up.      *)
InstallGivesUp(p) ==
  /\ phase' = "error" /\ sched' = FALSE /\ work' = "idle"
  /\ plan' = IF sched THEN "none" ELSE plan
  /\ pending' = IF sched THEN [p EXCEPT !.enabled = FALSE, !.at = "none"] ELSE p

(* The launcher that would apply the package may be gone.                  *)
InstallBegin ==
  /\ work = "install"
  /\ \/ /\ work' = "authorize"
        /\ UNCHANGED <<phase, sched, plan, pending, faults>>
     \/ /\ faults < MaxFaults /\ faults' = faults + 1
        /\ InstallGivesUp(pending)
  /\ UNCHANGED <<setting, version, proc, quitting, job, active, cancelled, pendingTag,
                 latest, getting, agreed, saves, jobs, crashes>>

(* 350 ms later: give way to a shutdown, look at the plan once more, and   *)
(* lift the hold.                                                          *)
InstallAuthorize ==
  /\ work = "authorize"
  /\ IF proc = "stopping"
     THEN /\ work' = "idle"
          /\ UNCHANGED <<pending, phase, plan, pendingTag, sched, faults>>
     ELSE \E o \in IF sched THEN Reconciled(pending, setting, FALSE)
                   ELSE {[pkg |-> pending, plan |-> "past", tag |-> pendingTag,
                          phase |-> phase, ok |-> TRUE]} :
            /\ pendingTag' = o.tag
            /\ IF o.ok /\ o.plan = "past"
               THEN \/ /\ pending' = [o.pkg EXCEPT !.held = FALSE]
                       /\ plan' = "none" /\ phase' = "installing" /\ work' = "restart"
                       /\ UNCHANGED <<sched, faults>>
                    \/ /\ faults < MaxFaults /\ faults' = faults + 1
                       /\ InstallGivesUp(o.pkg)
               ELSE /\ pending' = o.pkg /\ plan' = o.plan /\ work' = "idle"
                    /\ phase' = IF o.ok THEN o.phase ELSE "error"
                    /\ faults' = IF o.ok THEN faults ELSE faults + 1
                    /\ UNCHANGED sched
  /\ UNCHANGED <<setting, version, proc, quitting, job, active, cancelled, latest, getting,
                 agreed, saves, jobs, crashes>>

(* The restart callback; when it throws the package is held again.         *)
Restart ==
  /\ work = "restart"
  /\ \/ /\ quitting' = TRUE /\ work' = "idle"
        /\ UNCHANGED <<phase, sched, plan, pending, faults>>
     \/ /\ faults < MaxFaults /\ faults' = faults + 1
        /\ InstallGivesUp([pending EXCEPT !.held = TRUE])
        /\ UNCHANGED quitting
  /\ UNCHANGED <<setting, version, proc, job, active, cancelled, pendingTag, latest,
                 getting, agreed, saves, jobs, crashes>>

Worker == \/ TakeJob \/ CheckFails \/ CheckDone
          \/ DownloadBegin \/ DownloadFails \/ Fetched \/ Rotate \/ Publish \/ Finish
          \/ InstallBegin \/ InstallAuthorize \/ Restart

Next == \/ BootApplies \/ Boot \/ Stop \/ Exit \/ Crash \/ Time
        \/ \E s \in Setting : UpdateSettings(s)
        \/ RequestCheck \/ RequestDownload \/ RequestCancelDownload \/ RequestInstall
        \/ RequestRestart \/ Tick \/ Worker

(* The worker runs and its network calls time out, the timer ticks, a quit *)
(* ends the process once the worker is joined, and the core is started     *)
(* again.                                                                  *)
Fairness == /\ WF_vars(Worker) /\ WF_vars(Tick) /\ WF_vars(Exit)
            /\ WF_vars(quitting /\ Stop) /\ WF_vars(BootApplies \/ Boot)
Spec == Init /\ [][Next]_vars /\ Fairness

-----------------------------------------------------------------------------
(* docs/posix-update-acceptance.md:20, update_service.cpp:1874-1882.  No   *)
(* package is applied at a start unless the administrator agreed to it:    *)
(* the policy was to install while it was staged, or its installation was  *)
(* requested.  Downloads cancelled, settings changed or cores killed half  *)
(* way leave nothing behind that installs itself.                          *)
AppliedWithConsent ==
  [][proc = "down" /\ pending.tag # 0 /\ pending'.tag = 0 => agreed]_vars

(* update_service.cpp:959-962.  While the worker has a job the service     *)
(* says it is busy, whatever requests, cancellations and settings arrive:  *)
(* handlers never touch updates/pending under the worker's hands.          *)
BusyCoversWorker == proc = "up" /\ work # "idle" => Busy

(* update_service.cpp:932, 1039.  The phase that locks settings, restarts  *)
(* and every other operation out is always left again.                     *)
InstallingEnds == phase = "installing" ~> phase # "installing"

(* update_service.cpp:691-695, docs/roadmap.md:114.  Once the policy is no *)
(* longer to install, the permission to install on restart goes away.      *)
EventuallyRevoked ==
  pending.permit /\ setting.action # "install" ~>
    ~pending.permit \/ setting.action = "install"

(* docs/roadmap.md:114, test ChangingStrategyRevokesPermission: switching  *)
(* to download-only or notify-only revokes the permission, so a restart    *)
(* from then on does not apply a held package.                             *)
SwitchingRevokes ==
  proc # "down" /\ setting.action # "install" => ~(pending.held /\ pending.permit)
=============================================================================
