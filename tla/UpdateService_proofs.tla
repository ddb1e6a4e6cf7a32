------------------------ MODULE UpdateService_proofs ------------------------
(***************************************************************************)
(* Theorems about UpdateService, for any number of releases, requests,     *)
(* faults and crashes.                                                     *)
(***************************************************************************)
EXTENDS UpdateService, TLAPS

Package == [tag : {0} \cup Tag, held : BOOLEAN, permit : BOOLEAN, auto : BOOLEAN,
            enabled : BOOLEAN, at : Moment, time : InstallTime]
Phase == {"idle", "checking", "up_to_date", "available", "downloading",
          "cancelling", "cancelled", "staged", "scheduled", "installing", "error"}

Downloads == {"download", "fetch", "rotate", "publish", "finish"}
Installs == {"install", "authorize", "restart"}

(* What the service shows while a job waits or is being done.              *)
BusyInv ==
  /\ job # "none" => work = "idle"
  /\ proc = "down" => job = "none" /\ work = "idle" /\ phase = "idle" /\ ~active
  /\ proc = "up" =>
       /\ job = "check" \/ work = "check" => phase = "checking" /\ ~active
       /\ job = "download" \/ work \in Downloads => active
       /\ job = "install" \/ work \in Installs => phase = "installing" /\ ~active

(* Something about the package lets it be installed, now or later.         *)
Gates(p) == ~p.held \/ p.permit \/ p.auto \/ p.enabled \/ p.at # "none"

(* Nothing does, and nobody is about to, unless the administrator agreed.  *)
ConsentInv ==
  pending.tag # 0 /\ (\/ Gates(pending)
                      \/ job = "install" \/ work \in Installs
                      \/ work = "finish" /\ setting.action = "install") => agreed

IInv == TypeOK /\ BusyInv /\ ConsentInv

LEMMA Bounds ==
  /\ MaxTag \in Nat /\ MaxSaves \in Nat /\ MaxJobs \in Nat /\ MaxFaults \in Nat /\ MaxCrashes \in Nat
BY BoundAssumption

(* What reconciling a package can do to its gates.                         *)
LEMMA ReconciledFacts ==
  ASSUME TypeOK, NEW p \in Package, NEW s \in Setting, NEW arm \in BOOLEAN,
         NEW o \in Reconciled(p, s, arm)
  PROVE  /\ o.pkg \in Package /\ o.pkg.tag = p.tag
         /\ o.plan \in Moment /\ o.tag \in {0} \cup Tag /\ o.phase \in {phase, "staged", "scheduled"}
         /\ o.ok \in BOOLEAN /\ (~o.ok => faults # MaxFaults)
         /\ Gates(o.pkg) => Gates(p) \/ (arm /\ s.action = "install")
         /\ o.ok /\ o.plan = "past" => p.tag # 0 /\ Gates(p)
<1> DEFINE install == s.action = "install"
           auto == install /\ (arm \/ p.auto)
           enabled == install /\ s.scheduled /\ (arm \/ p.enabled)
           at == IF ~enabled THEN "none"
                 ELSE IF p.at = "none" \/ p.time # s.time THEN "ahead" ELSE p.at
           done == [p EXCEPT !.held = TRUE, !.auto = auto, !.enabled = enabled, !.at = at,
                             !.time = IF enabled THEN s.time ELSE @, !.permit = auto]
           gated == [p EXCEPT !.held = TRUE]
           before == [pkg |-> p, plan |-> "none", tag |-> 0, phase |-> phase, ok |-> TRUE]
           stale == [pkg |-> [gated EXCEPT !.permit = FALSE], plan |-> "none", tag |-> p.tag,
                     phase |-> "staged", ok |-> TRUE]
           success == [pkg |-> done, plan |-> done.at, tag |-> p.tag,
                       phase |-> IF done.at = "none" THEN "staged" ELSE "scheduled", ok |-> TRUE]
           Failed(q, tag) == [pkg |-> q, plan |-> "none", tag |-> tag, phase |-> phase, ok |-> FALSE]
           Half(q) == [q EXCEPT !.permit = auto /\ p.permit]
<1>1. \/ o = before
      \/ p.tag # 0 /\ o \in {stale, success}
      \/ faults # MaxFaults /\ o \in {Failed(p, 0), Failed(gated, 0), Failed(gated, p.tag),
                                      Failed(Half(gated), p.tag), Failed(Half(done), p.tag)}
  BY DEF Reconciled
<1>2. /\ gated \in Package /\ gated.tag = p.tag /\ (Gates(gated) => Gates(p))
      /\ [gated EXCEPT !.permit = FALSE] \in Package /\ [gated EXCEPT !.permit = FALSE].tag = p.tag
      /\ Gates([gated EXCEPT !.permit = FALSE]) => Gates(p)
      /\ Half(gated) \in Package /\ Half(gated).tag = p.tag /\ (Gates(Half(gated)) => Gates(p))
  BY DEF Package, Gates
<1>3. /\ auto \in BOOLEAN /\ enabled \in BOOLEAN /\ at \in Moment /\ s.time \in InstallTime
      /\ auto \/ enabled \/ at # "none" => Gates(p) \/ (arm /\ install)
      /\ at = "past" => Gates(p)
  BY DEF Package, Setting, Moment, Gates
<1> HIDE DEF auto, enabled, at
<1>4. /\ done \in Package /\ done.tag = p.tag /\ done.held = TRUE /\ done.auto = auto
      /\ done.enabled = enabled /\ done.at = at /\ done.permit = auto
      /\ Half(done) \in Package /\ Half(done).tag = p.tag /\ Half(done).held = TRUE
      /\ Half(done).auto = auto /\ Half(done).enabled = enabled /\ Half(done).at = at
      /\ Half(done).permit = (auto /\ p.permit)
  BY <1>3 DEF Package
<1>5. /\ Gates(done) => Gates(p) \/ (arm /\ install)
      /\ Gates(Half(done)) => Gates(p) \/ (arm /\ install)
  BY <1>3, <1>4 DEF Gates
<1>6. p.tag \in {0} \cup Tag
  BY DEF Package
<1> HIDE DEF done, gated, Half
<1>7. CASE o = before
  BY <1>7 DEF Moment
<1>8. CASE p.tag # 0 /\ o = stale
  BY <1>2, <1>6, <1>8 DEF Moment
<1>9. CASE p.tag # 0 /\ o = success
  BY <1>3, <1>4, <1>5, <1>6, <1>9 DEF Moment
<1>10. CASE faults # MaxFaults /\ o \in {Failed(p, 0), Failed(gated, 0), Failed(gated, p.tag),
                                      Failed(Half(gated), p.tag), Failed(Half(done), p.tag)}
  <2>1. PICK q \in {p, gated, Half(gated), Half(done)}, tag \in {0, p.tag} : o = Failed(q, tag)
    BY <1>10
  <2>2. /\ q \in Package /\ q.tag = p.tag
        /\ Gates(q) => Gates(p) \/ (arm /\ install)
    <3>1. q \in Package /\ q.tag = p.tag
      BY <1>2, <1>4, <2>1
    <3>2. Gates(q) => Gates(p) \/ (arm /\ install)
      BY <1>2, <1>5, <2>1
    <3> QED BY <3>1, <3>2
  <2>3. /\ o.pkg = q /\ o.plan = "none" /\ o.tag = tag /\ o.phase = phase /\ o.ok = FALSE
    BY <2>1
  <2> QED BY <1>6, <1>10, <2>1, <2>2, <2>3 DEF Moment
<1> QED BY <1>1, <1>7, <1>8, <1>9, <1>10

-----------------------------------------------------------------------------
(* A caller that stores the outcome.                                       *)
LEMMA FaultCounted ==
  ASSUME TypeOK, NEW f, f = faults \/ (f = faults + 1 /\ faults # MaxFaults)
  PROVE  f \in 0..MaxFaults
BY Bounds DEF TypeOK

LEMMA ReconcileFacts ==
  ASSUME TypeOK, NEW s \in Setting, NEW arm \in BOOLEAN, Reconcile(s, arm)
  PROVE  /\ pending' \in Package /\ pending'.tag = pending.tag
         /\ plan' \in Moment /\ pendingTag' \in {0} \cup Tag
         /\ phase' \in {phase, "staged", "scheduled", "error"}
         /\ faults' \in 0..MaxFaults
         /\ Gates(pending') => Gates(pending) \/ (arm /\ s.action = "install")
<1>1. pending \in Package
  BY DEF TypeOK, Package
<1>2. PICK o \in Reconciled(pending, s, arm) :
        /\ pending' = o.pkg /\ plan' = o.plan /\ pendingTag' = o.tag
        /\ phase' = IF o.ok THEN o.phase ELSE "error"
        /\ faults' = IF o.ok THEN faults ELSE faults + 1
  BY DEF Reconcile
<1>3. /\ o.pkg \in Package /\ o.pkg.tag = pending.tag
      /\ o.plan \in Moment /\ o.tag \in {0} \cup Tag /\ o.phase \in {phase, "staged", "scheduled"}
      /\ (~o.ok => faults # MaxFaults)
      /\ Gates(o.pkg) => Gates(pending) \/ (arm /\ s.action = "install")
  BY <1>1, ReconciledFacts
<1>4. faults' \in 0..MaxFaults
  BY <1>2, <1>3, FaultCounted
<1> QED BY <1>2, <1>3, <1>4

(* A planned installation is given up.                                     *)
LEMMA GivesUpFacts ==
  ASSUME TypeOK, NEW p \in Package, InstallGivesUp(p)
  PROVE  /\ pending' \in Package /\ pending'.tag = p.tag
         /\ plan' \in Moment /\ phase' = "error" /\ sched' = FALSE /\ work' = "idle"
<1>1. /\ [p EXCEPT !.enabled = FALSE, !.at = "none"] \in Package
      /\ [p EXCEPT !.enabled = FALSE, !.at = "none"].tag = p.tag
  BY DEF Package, Moment
<1> QED BY <1>1 DEF InstallGivesUp, TypeOK, Moment

-----------------------------------------------------------------------------
LEMMA TypeStep ==
  ASSUME TypeOK, [Next]_vars
  PROVE  TypeOK'
<1> DEFINE Disk == /\ pending' \in Package /\ setting' \in Setting /\ version' \in {0} \cup Tag
                   /\ agreed' \in BOOLEAN
           Mind == /\ pendingTag' \in {0} \cup Tag /\ latest' \in {0} \cup Tag
                   /\ getting' \in {0} \cup Tag /\ plan' \in Moment /\ phase' \in Phase
           Mode == /\ proc' \in {"down", "up", "stopping"} /\ job' \in Job \cup {"none"}
                   /\ work' \in {"idle"} \cup {"check"} \cup Downloads \cup Installs
                   /\ quitting' \in BOOLEAN /\ active' \in BOOLEAN /\ cancelled' \in BOOLEAN
                   /\ sched' \in BOOLEAN
           Spent == /\ saves' \in 0..MaxSaves /\ jobs' \in 0..MaxJobs
                    /\ faults' \in 0..MaxFaults /\ crashes' \in 0..MaxCrashes
<1> USE Bounds DEF TypeOK, Package, Phase, Downloads, Installs
<1>0. pending \in Package /\ NoPackage \in Package
  BY DEF NoPackage, InstallTime, Moment
<1>1. ASSUME Disk, Mind, Mode, Spent PROVE TypeOK'
  BY <1>1
<1>2. CASE BootApplies
  <2>1. Disk
    BY <1>0, <1>2 DEF BootApplies, flags, known, budget
  <2>2. Mind
    BY <1>0, <1>2 DEF BootApplies, flags, known, budget
  <2>3. Mode
    BY <1>0, <1>2 DEF BootApplies, flags, known, budget
  <2>4. Spent
    BY <1>0, <1>2 DEF BootApplies, flags, known, budget
  <2> QED BY <1>1, <2>1, <2>2, <2>3, <2>4
<1>3. CASE Boot
  BY <1>1, <1>3, ReconcileFacts DEF Boot, flags
<1>4. CASE Stop
  BY <1>1, <1>4 DEF Stop, flags, known, budget
<1>5. CASE Exit
  BY <1>1, <1>5 DEF Exit, Fresh, budget, Moment
<1>6. CASE Crash
  <2>1. Disk
    BY <1>6 DEF Crash, Fresh, Moment
  <2>2. Mind
    BY <1>6 DEF Crash, Fresh, Moment
  <2>3. Mode
    BY <1>6 DEF Crash, Fresh, Moment
  <2>4. Spent
    BY <1>6 DEF Crash, Fresh, Moment
  <2> QED BY <1>1, <2>1, <2>2, <2>3, <2>4
<1>7. CASE Time
  BY <1>1, <1>7 DEF Time, flags, budget, Moment
<1>8. ASSUME NEW s \in Setting, UpdateSettings(s) PROVE TypeOK'
  <2>1. CASE Busy
    BY <1>1, <1>8, <2>1 DEF UpdateSettings, flags
  <2>2. CASE ~Busy
    <3>1. Reconcile(s, TRUE)
      BY <1>8, <2>2 DEF UpdateSettings
    <3>2. Disk
      <4>1. agreed' \in BOOLEAN
        BY <1>8 DEF UpdateSettings
      <4>2. setting' = s /\ version' = version
        BY <1>8 DEF UpdateSettings
      <4> QED BY <3>1, <4>1, <4>2, ReconcileFacts
    <3>3. Mind
      BY <1>8, <3>1, ReconcileFacts DEF UpdateSettings
    <3>4. Mode
      BY <1>8 DEF UpdateSettings, flags
    <3>5. Spent
      <4>1. faults' \in 0..MaxFaults
        BY <3>1, ReconcileFacts
      <4> QED BY <1>8, <4>1 DEF UpdateSettings
    <3> QED BY <1>1, <3>2, <3>3, <3>4, <3>5
  <2> QED BY <2>1, <2>2
<1>9. CASE RequestCheck
  BY <1>1, <1>9 DEF RequestCheck, QueueJob, flags, known, Job
<1>10. CASE RequestDownload
  <2>1. Disk
    BY <1>10 DEF RequestDownload, QueueJob, known, Job
  <2>2. Mind
    BY <1>10 DEF RequestDownload, QueueJob, known, Job
  <2>3. Mode
    BY <1>10 DEF RequestDownload, QueueJob, known, Job
  <2>4. Spent
    BY <1>10 DEF RequestDownload, QueueJob, known, Job
  <2> QED BY <1>1, <2>1, <2>2, <2>3, <2>4
<1>11. CASE RequestCancelDownload
  BY <1>1, <1>11 DEF RequestCancelDownload, known, budget
<1>12. CASE RequestInstall
  <2>1. Disk
    BY <1>12 DEF RequestInstall, QueueJob, known, Job
  <2>2. Mind
    BY <1>12 DEF RequestInstall, QueueJob, known, Job
  <2>3. Mode
    BY <1>12 DEF RequestInstall, QueueJob, known, Job
  <2>4. Spent
    BY <1>12 DEF RequestInstall, QueueJob, known, Job
  <2> QED BY <1>1, <2>1, <2>2, <2>3, <2>4
<1>13. CASE RequestRestart
  BY <1>1, <1>13 DEF RequestRestart, flags, known, budget
<1>14. CASE Tick
  <2>1. PICK o \in Reconciled(pending, setting, FALSE) :
          /\ pending' = o.pkg /\ plan' = o.plan /\ pendingTag' = o.tag
          /\ faults' = IF o.ok THEN faults ELSE faults + 1
          /\ phase' \in {"error", "installing", "checking", o.phase}
          /\ job' \in {job, "install", "check"} /\ sched' \in {sched, TRUE}
          /\ jobs' = jobs \/ (jobs < MaxJobs /\ jobs' = jobs + 1)
    BY <1>14 DEF Tick
  <2>2. /\ o.pkg \in Package /\ o.plan \in Moment /\ o.tag \in {0} \cup Tag
        /\ o.phase \in {phase, "staged", "scheduled"} /\ (~o.ok => faults # MaxFaults)
    BY <1>0, ReconciledFacts
  <2>3. Spent
    BY <1>14, <2>1, <2>2 DEF Tick
  <2>4. Disk /\ Mind
    BY <1>14, <2>1, <2>2 DEF Tick
  <2>5. Mode
    BY <1>14, <2>1 DEF Tick, Job
  <2> QED BY <1>1, <2>3, <2>4, <2>5
<1>15. CASE TakeJob
  BY <1>1, <1>15 DEF TakeJob, flags, known, budget, Job
<1>16. CASE CheckFails
  BY <1>1, <1>16 DEF CheckFails, flags, known, budget
<1>17. CASE CheckDone
  BY <1>1, <1>17 DEF CheckDone, budget, Job
<1>18. CASE DownloadBegin
  BY <1>1, <1>18 DEF DownloadBegin, flags, budget
<1>19. CASE DownloadFails
  <2>1. Disk /\ Mind /\ Spent
    BY <1>1, <1>19 DEF DownloadFails, known, budget
  <2>2. phase' \in {phase, "cancelled", "error"} /\ active' \in {active, FALSE}
    BY <1>19 DEF DownloadFails
  <2>3. Mode
    BY <1>1, <1>19, <2>2 DEF DownloadFails
  <2> QED BY <1>1, <2>1, <2>3
<1>20. CASE Fetched
  BY <1>1, <1>20 DEF Fetched, flags, known, budget
<1>21. CASE Rotate
  <2>1. Disk
    BY <1>0, <1>1, <1>21 DEF Rotate
  <2>2. Mind
    BY <1>1, <1>21 DEF Rotate, known
  <2>3. Mode
    BY <1>1, <1>21 DEF Rotate, flags
  <2>4. Spent
    BY <1>1, <1>21 DEF Rotate, budget
  <2> QED BY <1>1, <2>1, <2>2, <2>3, <2>4
<1>22. CASE Publish
  <2>1. [NoPackage EXCEPT !.tag = getting, !.held = TRUE] \in Package
    BY <1>0
  <2> QED BY <1>1, <1>22, <2>1 DEF Publish, flags, known, budget
<1>23. CASE Finish
  <2>1. CASE proc = "stopping" \/ cancelled
    BY <1>0, <1>1, <1>23, <2>1 DEF Finish
  <2>2. CASE proc # "stopping" /\ ~cancelled
    <3>1. PICK o \in Reconciled(pending, setting, TRUE) :
            /\ pending' = o.pkg /\ plan' = o.plan /\ pendingTag' = o.tag
            /\ faults' = IF o.ok THEN faults ELSE faults + 1
            /\ phase' \in {"error", "installing", o.phase}
            /\ job' \in {job, "install"} /\ sched' \in {sched, FALSE}
      BY <1>23, <2>2 DEF Finish
    <3>2. /\ o.pkg \in Package /\ o.plan \in Moment /\ o.tag \in {0} \cup Tag
          /\ o.phase \in {phase, "staged", "scheduled"} /\ (~o.ok => faults # MaxFaults)
      BY <1>0, ReconciledFacts
    <3>3. Spent
      BY <1>23, <3>1, <3>2 DEF Finish
    <3>4. Disk /\ Mind
      BY <1>23, <3>1, <3>2 DEF Finish
    <3>5. Mode
      BY <1>23, <2>2, <3>1 DEF Finish, Job
    <3> QED BY <1>1, <3>3, <3>4, <3>5
  <2> QED BY <2>1, <2>2
<1>24. CASE InstallBegin
  <2>1. Disk
    BY <1>0, GivesUpFacts, <1>24 DEF InstallBegin
  <2>2. Mind
    BY <1>0, GivesUpFacts, <1>24 DEF InstallBegin
  <2>3. Mode
    BY <1>0, GivesUpFacts, <1>24 DEF InstallBegin
  <2>4. Spent
    BY <1>0, GivesUpFacts, <1>24 DEF InstallBegin
  <2> QED BY <1>1, <2>1, <2>2, <2>3, <2>4
<1>25. CASE InstallAuthorize
  <2>1. CASE proc = "stopping"
    BY <1>0, <1>1, <1>25, <2>1 DEF InstallAuthorize
  <2>2. CASE proc # "stopping"
    <3>1. PICK o \in IF sched THEN Reconciled(pending, setting, FALSE)
                     ELSE {[pkg |-> pending, plan |-> "past", tag |-> pendingTag,
                            phase |-> phase, ok |-> TRUE]} :
            /\ pendingTag' = o.tag
            /\ \/ /\ pending' = [o.pkg EXCEPT !.held = FALSE]
                  /\ plan' = "none" /\ phase' = "installing" /\ work' = "restart"
                  /\ UNCHANGED <<sched, faults>>
               \/ /\ faults < MaxFaults /\ faults' = faults + 1
                  /\ InstallGivesUp(o.pkg)
               \/ /\ pending' = o.pkg /\ plan' = o.plan /\ work' = "idle"
                  /\ phase' \in {o.phase, "error"}
                  /\ faults' = IF o.ok THEN faults ELSE faults + 1
                  /\ UNCHANGED sched
      BY <1>25, <2>2 DEF InstallAuthorize
    <3>2. /\ o.pkg \in Package /\ o.plan \in Moment /\ o.tag \in {0} \cup Tag
          /\ o.phase \in {phase, "staged", "scheduled"} /\ (~o.ok => faults # MaxFaults)
      <4>1. CASE sched
        BY <1>0, <3>1, <4>1, ReconciledFacts
      <4>2. CASE ~sched
        BY <1>0, <3>1, <4>2 DEF Moment
      <4> QED BY <4>1, <4>2
    <3>3. [o.pkg EXCEPT !.held = FALSE] \in Package
      BY <3>2
    <3>4. Spent
      BY <1>25, <3>1, <3>2 DEF InstallAuthorize
    <3>5. /\ pending' \in Package /\ plan' \in Moment /\ phase' \in Phase /\ sched' \in BOOLEAN
          /\ work' \in {"restart", "idle"}
      BY <3>1, <3>2, <3>3, GivesUpFacts DEF Moment
    <3> QED BY <1>1, <1>25, <3>1, <3>2, <3>4, <3>5 DEF InstallAuthorize
  <2> QED BY <2>1, <2>2
<1>26. CASE Restart
  <2>1. [pending EXCEPT !.held = TRUE] \in Package
    BY <1>0
  <2>2. Disk
    BY <1>26, <2>1, GivesUpFacts DEF Restart
  <2>3. Mind
    BY <1>26, <2>1, GivesUpFacts DEF Restart
  <2>4. Mode
    BY <1>26, <2>1, GivesUpFacts DEF Restart
  <2>5. Spent
    BY <1>26 DEF Restart
  <2> QED BY <1>1, <2>2, <2>3, <2>4, <2>5
<1>27. CASE UNCHANGED vars
  BY <1>1, <1>27 DEF vars
<1> QED BY <1>2, <1>3, <1>4, <1>5, <1>6, <1>7, <1>8, <1>9, <1>10, <1>11, <1>12, <1>13, <1>14,
           <1>15, <1>16, <1>17, <1>18, <1>19, <1>20, <1>21, <1>22, <1>23, <1>24, <1>25, <1>26,
           <1>27 DEF Next, Worker

-----------------------------------------------------------------------------
(* Whoever gives the worker something to do shows it in the phase or the   *)
(* download flag, and nothing takes that back before the worker is done.   *)
LEMMA BusyStep ==
  ASSUME TypeOK, BusyInv, [Next]_vars
  PROVE  BusyInv'
<1> USE DEF BusyInv, Downloads, Installs
<1>0. \A s \in Setting : \A arm \in BOOLEAN : Reconcile(s, arm) => phase' \in {phase, "staged", "scheduled", "error"}
  BY ReconcileFacts
<1>1. proc = "up" /\ ~Busy => job = "none" /\ work = "idle" /\ ~active
  BY DEF Busy, TypeOK
<1>2. CASE BootApplies
  BY <1>2 DEF BootApplies, flags
<1>3. CASE Boot
  BY <1>3 DEF Boot, flags
<1>4. CASE Stop
  BY <1>4 DEF Stop, flags
<1>5. CASE Exit \/ Crash
  BY <1>5 DEF Exit, Crash, Fresh
<1>6. CASE Time
  BY <1>6 DEF Time, flags
<1>7. ASSUME NEW s \in Setting, UpdateSettings(s) PROVE BusyInv'
  <2>1. CASE Busy
    BY <1>7, <2>1 DEF UpdateSettings, flags
  <2>2. CASE ~Busy
    BY <1>1, <1>7, <2>2 DEF UpdateSettings, flags
  <2> QED BY <2>1, <2>2
<1>8. CASE RequestCheck
  BY <1>1, <1>8 DEF RequestCheck, QueueJob, flags
<1>9. CASE RequestDownload
  BY <1>1, <1>9 DEF RequestDownload, QueueJob
<1>10. CASE RequestCancelDownload
  BY <1>10 DEF RequestCancelDownload
<1>11. CASE RequestInstall
  BY <1>1, <1>11 DEF RequestInstall, QueueJob
<1>12. CASE RequestRestart
  BY <1>12 DEF RequestRestart, flags
<1>13. CASE Tick
  BY <1>1, <1>13 DEF Tick
<1>14. CASE TakeJob
  BY <1>14 DEF TakeJob, flags, TypeOK, Job
<1>15. CASE CheckFails
  BY <1>15 DEF CheckFails, flags
<1>16. CASE CheckDone
  BY <1>16 DEF CheckDone
<1>17. CASE DownloadBegin \/ Fetched \/ Rotate \/ Publish
  BY <1>17 DEF DownloadBegin, Fetched, Rotate, Publish, flags
<1>18. CASE DownloadFails
  BY <1>18 DEF DownloadFails, TypeOK
<1>19. CASE Finish
  BY <1>19 DEF Finish, TypeOK
<1>20. CASE InstallBegin
  BY <1>20 DEF InstallBegin, InstallGivesUp
<1>21. CASE InstallAuthorize
  BY <1>21 DEF InstallAuthorize, InstallGivesUp
<1>22. CASE Restart
  BY <1>22 DEF Restart, InstallGivesUp
<1>23. CASE UNCHANGED vars
  BY <1>23 DEF vars
<1> QED BY <1>2, <1>3, <1>4, <1>5, <1>6, <1>7, <1>8, <1>9, <1>10, <1>11, <1>12, <1>13, <1>14,
           <1>15, <1>16, <1>17, <1>18, <1>19, <1>20, <1>21, <1>22, <1>23 DEF Next, Worker

-----------------------------------------------------------------------------
(* A gate is opened on two occasions only: the package is reconciled with  *)
(* the policy to install, or its installation is under way; the            *)
(* administrator has agreed to each.                                       *)
LEMMA ConsentStep ==
  ASSUME TypeOK, BusyInv, ConsentInv, [Next]_vars
  PROVE  ConsentInv'
<1> USE DEF ConsentInv, Installs
<1>0. pending \in Package /\ setting \in Setting
  BY DEF TypeOK, Package
<1>1. ASSUME UNCHANGED <<agreed, setting>>, pending'.tag = pending.tag,
             Gates(pending') => Gates(pending) \/ work \in Installs
                                \/ (work = "finish" /\ setting.action = "install"),
             job' = "install" \/ work' \in Installs =>
               \/ job = "install" \/ work \in Installs \/ (pending.tag # 0 => Gates(pending))
               \/ work = "finish" /\ setting.action = "install",
             work' = "finish" => work = "finish"
      PROVE  ConsentInv'
  BY <1>1
<1>2. CASE BootApplies
  BY <1>2 DEF BootApplies, NoPackage
<1>3. CASE Boot
  BY <1>1, <1>3, ReconcileFacts DEF Boot, TypeOK
<1>4. CASE Stop \/ RequestCheck \/ RequestDownload \/ RequestCancelDownload \/ RequestRestart
  BY <1>4 DEF Stop, RequestCheck, RequestDownload, RequestCancelDownload, RequestRestart, QueueJob
<1>5. CASE Exit \/ Crash
  BY <1>5 DEF Exit, Crash, Fresh
<1>6. CASE Time
  <2>1. pending' = [pending EXCEPT !.at = IF @ = "ahead" THEN "past" ELSE @]
    BY <1>6 DEF Time
  <2>2. pending'.tag = pending.tag /\ (Gates(pending') => Gates(pending))
    BY <1>0, <2>1 DEF Package, Gates
  <2> QED BY <1>1, <1>6, <2>2 DEF Time
<1>7. ASSUME NEW s \in Setting, UpdateSettings(s) PROVE ConsentInv'
  <2>1. /\ setting' = s /\ UNCHANGED <<job, work>>
        /\ agreed' = (pending.tag # 0 /\ (agreed \/ s.action = "install"))
    BY <1>7 DEF UpdateSettings
  <2>2. pending'.tag = pending.tag /\ (Gates(pending') => Gates(pending) \/ s.action = "install")
    <3>1. CASE Busy
      BY <1>7, <3>1 DEF UpdateSettings
    <3>2. CASE ~Busy
      BY <1>7, <3>2, ReconcileFacts DEF UpdateSettings
    <3> QED BY <3>1, <3>2
  <2> QED BY <2>1, <2>2
<1>8. CASE RequestInstall
  BY <1>8 DEF RequestInstall
<1>9. CASE Tick
  <2>1. PICK o \in Reconciled(pending, setting, FALSE) :
          /\ pending' = o.pkg
          /\ job' = "install" => job = "install" \/ (o.ok /\ o.plan = "past")
    BY <1>9 DEF Tick
  <2>2. /\ o.pkg.tag = pending.tag /\ (Gates(o.pkg) => Gates(pending))
        /\ o.ok /\ o.plan = "past" => Gates(pending)
    <3>1. \A arm \in BOOLEAN : o \in Reconciled(pending, setting, arm) =>
            /\ o.pkg.tag = pending.tag
            /\ Gates(o.pkg) => Gates(pending) \/ (arm /\ setting.action = "install")
            /\ o.ok /\ o.plan = "past" => Gates(pending)
      BY <1>0, ReconciledFacts
    <3> QED BY <2>1, <3>1
  <2> QED BY <1>1, <1>9, <2>1, <2>2 DEF Tick
<1>10. CASE TakeJob
  BY <1>1, <1>10 DEF TakeJob, TypeOK, Job
<1>11. CASE CheckFails \/ CheckDone
  BY <1>1, <1>11 DEF CheckFails, CheckDone
<1>12. CASE DownloadBegin \/ DownloadFails \/ Fetched
  BY <1>1, <1>12 DEF DownloadBegin, DownloadFails, Fetched
<1>13. CASE Rotate
  BY <1>13 DEF Rotate, NoPackage
<1>14. CASE Publish
  <2>1. /\ pending' = [NoPackage EXCEPT !.tag = getting, !.held = TRUE]
        /\ agreed' = (setting.action = "install") /\ work' = "finish" /\ work = "publish"
        /\ UNCHANGED <<job, setting>>
    BY <1>14 DEF Publish
  <2>2. ~Gates(pending')
    BY <2>1 DEF Gates, NoPackage
  <2>3. job' = "none"
    BY <2>1 DEF BusyInv
  <2> QED BY <2>1, <2>2, <2>3
<1>15. CASE Finish
  <2>1. UNCHANGED <<agreed, setting>> /\ work = "finish" /\ work' = "idle" /\ job = "none"
    BY <1>15 DEF Finish, BusyInv
  <2>2. CASE proc = "stopping" \/ cancelled
    BY <1>1, <1>15, <2>1, <2>2 DEF Finish
  <2>3. CASE proc # "stopping" /\ ~cancelled
    <3>1. PICK o \in Reconciled(pending, setting, TRUE) :
            pending' = o.pkg /\ (job' = "install" => job = "install" \/ setting.action = "install")
      BY <1>15, <2>3 DEF Finish
    <3>2. o.pkg.tag = pending.tag /\ (Gates(o.pkg) => Gates(pending) \/ setting.action = "install")
      <4>1. \A arm \in BOOLEAN : o \in Reconciled(pending, setting, arm) =>
              /\ o.pkg.tag = pending.tag
              /\ Gates(o.pkg) => Gates(pending) \/ (arm /\ setting.action = "install")
        BY <1>0, ReconciledFacts
      <4> QED BY <3>1, <4>1
    <3> QED BY <1>1, <2>1, <3>1, <3>2
  <2> QED BY <2>2, <2>3
<1>16. CASE InstallBegin
  <2>1. pending'.tag = pending.tag /\ UNCHANGED <<agreed, setting>> /\ work = "install" /\ work' # "finish"
    BY <1>0, <1>16, GivesUpFacts DEF InstallBegin
  <2> QED BY <1>1, <2>1
<1>17. CASE InstallAuthorize
  <2>1. UNCHANGED <<agreed, setting>> /\ work = "authorize" /\ work' # "finish"
    BY <1>17 DEF InstallAuthorize, InstallGivesUp
  <2>2. pending'.tag = pending.tag
    <3>1. CASE proc = "stopping"
      BY <1>17, <3>1 DEF InstallAuthorize
    <3>2. CASE proc # "stopping"
      <4>1. PICK o \in IF sched THEN Reconciled(pending, setting, FALSE)
                       ELSE {[pkg |-> pending, plan |-> "past", tag |-> pendingTag,
                              phase |-> phase, ok |-> TRUE]} :
              \/ pending' = [o.pkg EXCEPT !.held = FALSE]
              \/ InstallGivesUp(o.pkg)
              \/ pending' = o.pkg
        BY <1>17, <3>2 DEF InstallAuthorize
      <4>2. o.pkg \in Package /\ o.pkg.tag = pending.tag
        <5>1. CASE sched
          BY <1>0, <4>1, <5>1, ReconciledFacts
        <5>2. CASE ~sched
          BY <1>0, <4>1, <5>2
        <5> QED BY <5>1, <5>2
      <4>3. [o.pkg EXCEPT !.held = FALSE].tag = o.pkg.tag
        BY <4>2 DEF Package
      <4> QED BY <4>1, <4>2, <4>3, GivesUpFacts
    <3> QED BY <3>1, <3>2
  <2> QED BY <1>1, <2>1, <2>2
<1>18. CASE Restart
  <2>1. /\ [pending EXCEPT !.held = TRUE] \in Package
        /\ [pending EXCEPT !.held = TRUE].tag = pending.tag
    BY <1>0 DEF Package
  <2>2. pending'.tag = pending.tag /\ UNCHANGED <<agreed, setting>> /\ work = "restart" /\ work' = "idle"
    BY <1>18, <2>1, GivesUpFacts DEF Restart
  <2> QED BY <1>1, <2>2
<1>19. CASE UNCHANGED vars
  BY <1>19 DEF vars
<1> QED BY <1>2, <1>3, <1>4, <1>5, <1>6, <1>7, <1>8, <1>9, <1>10, <1>11, <1>12, <1>13, <1>14,
           <1>15, <1>16, <1>17, <1>18, <1>19 DEF Next, Worker

-----------------------------------------------------------------------------
LEMMA InitFacts == Init => IInv
<1> SUFFICES ASSUME Init PROVE IInv
  OBVIOUS
<1>1. pending \in Package /\ agreed \in BOOLEAN
  <2>1. 1 \in Tag
    BY BoundAssumption DEF Tag
  <2>2. NoPackage \in Package /\ [NoPackage EXCEPT !.tag = 1] \in Package
    BY <2>1 DEF NoPackage, Package, InstallTime, Moment
  <2> QED BY <2>2 DEF Init
<1>2. TypeOK
  <2>1. /\ {version, pendingTag, latest, getting} \subseteq {0} \cup Tag /\ plan \in Moment
        /\ setting \in Setting
    BY DEF Init, Setting, InstallTime, Moment
  <2>2. /\ saves \in 0..MaxSaves /\ jobs \in 0..MaxJobs
        /\ faults \in 0..MaxFaults /\ crashes \in 0..MaxCrashes
    BY Bounds DEF Init
  <2>3. /\ proc \in {"down", "up", "stopping"} /\ job \in Job \cup {"none"} /\ work = "idle"
        /\ phase = "idle" /\ {quitting, active, cancelled, sched, agreed} \subseteq BOOLEAN
    BY <1>1 DEF Init
  <2> QED BY <1>1, <2>1, <2>2, <2>3 DEF TypeOK, Package
<1>3. BusyInv
  BY DEF Init, BusyInv, Downloads, Installs
<1>4. ConsentInv
  BY DEF Init, ConsentInv
<1> QED BY <1>2, <1>3, <1>4 DEF IInv

LEMMA Invariance == Spec => []IInv
<1>1. IInv /\ [Next]_vars => IInv'
  BY TypeStep, BusyStep, ConsentStep DEF IInv
<1> QED BY InitFacts, <1>1, PTL DEF Spec

-----------------------------------------------------------------------------
(* Every variable keeps its type, whatever is requested, fails or crashes. *)
THEOREM TypeCorrect == Spec => []TypeOK
<1>1. IInv => TypeOK
  BY DEF IInv
<1> QED BY Invariance, <1>1, PTL

(* While the worker has a job the service says it is busy                  *)
(* (update_service.cpp:959-962), for any number of releases, requests,     *)
(* failures and crashes.                                                   *)
THEOREM BusyIsCovered == Spec => []BusyCoversWorker
<1>1. IInv => BusyCoversWorker
  BY DEF IInv, BusyInv, BusyCoversWorker, Busy, TypeOK, Downloads, Installs
<1> QED BY Invariance, <1>1, PTL

(* No package is applied at a start unless the administrator agreed to it  *)
(* (docs/posix-update-acceptance.md:20): the only step that takes a        *)
(* package away while the core is down applies one whose gates are open.   *)
THEOREM ConsentIsAsked == Spec => AppliedWithConsent
<1>1. ASSUME IInv, [Next]_vars
      PROVE  [proc = "down" /\ pending.tag # 0 /\ pending'.tag = 0 => agreed]_vars
  <2>1. SUFFICES ASSUME Next, proc = "down", pending.tag # 0, pending'.tag = 0 PROVE agreed
    BY <1>1
  <2>2. work = "idle"
    BY <1>1, <2>1 DEF IInv, BusyInv
  <2>3. CASE BootApplies
    BY <1>1, <2>1, <2>3 DEF BootApplies, MayApply, IInv, ConsentInv, Gates
  <2>4. CASE Boot
    BY <1>1, <2>1, <2>4, ReconcileFacts DEF Boot, IInv, TypeOK
  <2>5. CASE Time
    BY <1>1, <2>1, <2>5 DEF Time, IInv, TypeOK
  <2>6. ~(\E s \in Setting : UpdateSettings(s)) /\ ~(RequestCheck \/ RequestDownload \/ Stop
          \/ RequestCancelDownload \/ RequestInstall \/ RequestRestart \/ Tick \/ Exit \/ Crash)
    BY <2>1 DEF UpdateSettings, RequestCheck, RequestDownload, RequestCancelDownload, RequestInstall,
                RequestRestart, Tick, QueueJob, Stop, Exit, Crash
  <2>7. ~Worker
    BY <2>1, <2>2 DEF Worker, TakeJob, CheckFails, CheckDone, DownloadBegin, DownloadFails, Fetched,
                Rotate, Publish, Finish, InstallBegin, InstallAuthorize, Restart
  <2> QED BY <2>1, <2>3, <2>4, <2>5, <2>6, <2>7 DEF Next
<1> QED BY Invariance, <1>1, PTL DEF Spec, AppliedWithConsent
=============================================================================
