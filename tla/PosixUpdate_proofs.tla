------------------------- MODULE PosixUpdate_proofs -------------------------
(***************************************************************************)
(* Theorems about PosixUpdate, for any number of paths, packages, crashes  *)
(* and faults.                                                             *)
(***************************************************************************)
EXTENDS PosixUpdate, TLAPS

(* A transaction that recover() would undo.                                *)
Open == journal.active /\ ~journal.committed

(* pc determines whether the journal is open, committed or absent; a       *)
(* manager that is down may have left any of the three behind.             *)
JournalInv ==
  /\ ~journal.active => journal = NoJournal /\ saved = NoFiles
  /\ journal.active => journal.pkg \in Package
  /\ pc \in BeginPc \cup UndoPc \cup {"resume", "commit"} => Open
  /\ pc \in CommitPc => journal.active /\ journal.committed
  /\ pc = "abort" => journal.active
  /\ pc \in {"loop", "validate", "reject", "rejectMove", "journal", "relaunch", "wait",
             "reexecOld"} => ~journal.active
  /\ pc = "launch" => IF installing THEN Open ELSE ~journal.active
  /\ pc \in {"relaunch", "wait", "loop"} => ~installing

(* Whose child the core is.                                                *)
CoreInv ==
  /\ core # "none" => pc \in {"down", "wait", "commit", "abort"} \cup CommitPc
  /\ pc \in {"wait", "commit", "abort"} => core # "none"
  /\ pc \in CommitPc => (ret = "wait" <=> core # "none")
  /\ pc = "down" => core \in {"none", "up"}
  /\ pc \in UndoPc => ret # "wait"
  /\ pc \in CommitPc => ret \in {"loop", "wait"}
  /\ pc \in UndoPc \cup CommitPc => ~installing

(* What lies in updates/pending and what is known of the package.          *)
StageInv ==
  /\ \A p \in Path : stage[p] \in {stagePkg, Absent}
  /\ stagePkg = 0 => stage = NoFiles
  /\ stagePkg \in {0, issued}
  /\ \A k \in Package : k > issued => fate[k] = "none"
  /\ stagePkg # 0 /\ ~journal.active => fate[stagePkg] = "none" /\ stage[Manager] # Absent
  /\ Open /\ stagePkg # 0 =>
       /\ stagePkg = journal.pkg /\ fate[stagePkg] = "begun"
       /\ stage[Manager] # Absent \/ journal.moves[Manager] # "no"
  /\ Open /\ stagePkg = 0 => fate[journal.pkg] = "rolledback"
  /\ journal.active /\ journal.committed =>
       fate[journal.pkg] = "installed" /\ stagePkg \in {0, journal.pkg}
  /\ \A k \in Package : fate[k] = "begun" => journal.active /\ k = journal.pkg
  /\ pc \in {"validate", "reject", "rejectMove", "journal"} => stagePkg # 0
  /\ pc \in BeginPc \cup {"resume", "commit"} => stagePkg # 0
  /\ pc = "launch" /\ installing => stagePkg # 0
  /\ pc \in {"undoJournal", "commitJournal"} => stagePkg = 0

Undone(p) == saved[p] = Absent /\ (journal.moves[p] = "new" => live[p] = Absent)
Moved(p) == stage[p] = Absent /\ (journal.moves[p] # "no" => live[p] = journal.pkg)

(* How far the open transaction got with each path.                        *)
PathInv ==
  /\ \A p \in Path : saved[p] # Torn
  /\ \A p \in Path : live[p] = Torn => Open /\ journal.moves[p] # "no" /\ MustRemove(p)
  /\ Open => \A p \in Path :
       /\ journal.moves[p] # "old" => saved[p] = Absent
       /\ journal.moves[p] = "new" /\ stage[p] # Absent => live[p] = Absent
       /\ stagePkg = 0 => Undone(p)
  /\ pc \in {"undoResult", "undoStage", "undoJournal"} => \A p \in Path : Undone(p)
  /\ pc = "undo" => at <= NPaths /\ \A p \in Path : p > at => Undone(p)
  /\ pc \in {"intent", "backup", "replace"} => \A p \in Path :
       /\ p < at => Moved(p)
       /\ p > at => journal.moves[p] = "no"
  /\ pc = "intent" /\ at \in Path => journal.moves[at] = "no"
  /\ pc \in {"backup", "replace"} =>
       at \in Path /\ journal.moves[at] # "no" /\ stage[at] = stagePkg
  /\ pc = "backup" => (journal.moves[at] = "old" <=> live[at] # Absent) /\ saved[at] = Absent
  /\ pc = "replace" => live[at] = Absent /\ (journal.moves[at] = "old" <=> saved[at] # Absent)
  /\ pc \in {"prepared", "reexecNew", "resume", "commit"} => \A p \in Path : Moved(p)
  /\ pc = "launch" /\ installing => \A p \in Path : Moved(p)
  /\ pc = "intent" => at > 0

(* What last-result.json says.                                             *)
ReportInv ==
  /\ ReportedTruly
  /\ result.pkg <= issued
  /\ journal.active => \A k \in Package :
       fate[k] \in {"installed", "rolledback"} /\ k # journal.pkg =>
         /\ k < journal.pkg /\ result.pkg >= k
         /\ result.pkg = k => result.ok = (fate[k] = "installed")
  /\ stagePkg # 0 => \A k \in Package : fate[k] # "none" => k <= stagePkg
  /\ pc \in {"undoStage", "undoJournal"} => result = [pkg |-> journal.pkg, ok |-> FALSE]
  /\ Open /\ stagePkg = 0 => result = [pkg |-> journal.pkg, ok |-> FALSE]
  /\ pc \in {"commitStage", "commitJournal"} => result = [pkg |-> journal.pkg, ok |-> TRUE]
  /\ journal.active => result.pkg <= journal.pkg

IInv == TypeOK /\ JournalInv /\ CoreInv /\ StageInv /\ PathInv /\ ReportInv

(* Every step preserves the invariant: one step of the proof per action,   *)
(* and under it one per conjunct.                                          *)
\* A transaction nobody works on stays as it is.
LEMMA PathsSame ==
  ASSUME PathInv, UNCHANGED <<live, stage, stagePkg, saved, journal>>,
         UNCHANGED <<pc, at, installing>> \/ pc' = "down"
  PROVE  PathInv'
<1>1. CASE UNCHANGED <<pc, at, installing>>
  BY <1>1 DEF PathInv, Undone, Moved, MustRemove, Open
<1>2. CASE pc' = "down"
  BY <1>2 DEF PathInv, Undone, Moved, MustRemove, Open
<1> QED BY <1>1, <1>2

LEMMA StepInv == IInv /\ [Next]_vars => IInv'
<1> SUFFICES ASSUME IInv, [Next]_vars PROVE IInv'
  OBVIOUS
<1> USE PathAssumption, BoundAssumption, ContentAssumption
<1> USE DEF disk, ctl, budget, Path, Package, Whole, Content, NoFiles,
            NoMoves, NoJournal, BeginPc, UndoPc, CommitPc, Open, IInv, TypeOK, TypeDisk, TypeProcess
<1>1. CASE Start
  <2>1. TypeDisk'
    BY <1>1 DEF Start, EnterMain, EnterRecover
  <2>2. TypeProcess'
    <3>1. at' \in 0..(NPaths + 1)
      BY <1>1 DEF Start, EnterMain, EnterRecover
    <3>2. pc' \in Pc /\ ret' \in {"loop", "launch", "relaunch", "wait"}
      BY <1>1 DEF Start, EnterMain, EnterRecover, Pc
    <3>3. installing' \in BOOLEAN /\ stopping' \in BOOLEAN /\ core' \in {"none", "up", "exited", "restart"}
      BY <1>1 DEF Start, EnterMain, EnterRecover
    <3>4. issued' \in 0..MaxPackages /\ crashes' \in 0..MaxCrashes /\ faults' \in 0..MaxFaults
      BY <1>1 DEF Start, EnterMain, EnterRecover
    <3> QED BY <3>1, <3>2, <3>3, <3>4
  <2>3. JournalInv'
    BY <1>1 DEF Start, EnterMain, EnterRecover, JournalInv, CoreInv
  <2>4. CoreInv'
    BY <1>1 DEF Start, EnterMain, EnterRecover, JournalInv, CoreInv
  <2>5. StageInv'
    BY <1>1 DEF Start, EnterMain, EnterRecover, CoreInv, StageInv
  <2>6. PathInv'
    BY <1>1 DEF Start, EnterMain, EnterRecover, StageInv, PathInv, Undone, Moved, MustRemove
  <2>7. ReportInv'
    BY <1>1 DEF Start, EnterMain, EnterRecover, ReportInv, ReportedTruly
  <2> QED BY <2>1, <2>2, <2>3, <2>4, <2>5, <2>6, <2>7
<1>2. CASE Loop
  <2>1. TypeDisk'
    BY <1>2 DEF Loop
  <2>2. TypeProcess'
    BY <1>2 DEF Loop, Pc
  <2>3. JournalInv'
    BY <1>2 DEF Loop, JournalInv, CoreInv
  <2>4. CoreInv'
    BY <1>2 DEF Loop, JournalInv, CoreInv
  <2>5. StageInv'
    BY <1>2 DEF Loop, JournalInv, CoreInv, StageInv
  <2>6. PathInv'
    BY <1>2 DEF Loop, JournalInv, StageInv, PathInv, Undone, Moved, MustRemove
  <2>7. ReportInv'
    BY <1>2 DEF Loop, JournalInv, ReportInv, ReportedTruly
  <2> QED BY <2>1, <2>2, <2>3, <2>4, <2>5, <2>6, <2>7
<1>3. CASE Validate
  <2>1. TypeDisk'
    BY <1>3 DEF Validate
  <2>2. TypeProcess'
    BY <1>3 DEF Validate, Pc
  <2>3. JournalInv'
    BY <1>3 DEF Validate, JournalInv, CoreInv
  <2>4. CoreInv'
    BY <1>3 DEF Validate, JournalInv, CoreInv
  <2>5. StageInv'
    BY <1>3 DEF Validate, CoreInv, StageInv
  <2>6. PathInv'
    BY <1>3 DEF Validate, StageInv, PathInv, Undone, Moved, MustRemove
  <2>7. ReportInv'
    BY <1>3 DEF Validate, ReportInv, ReportedTruly
  <2> QED BY <2>1, <2>2, <2>3, <2>4, <2>5, <2>6, <2>7
<1>4. CASE Reject
  <2>1. TypeDisk'
    BY <1>4 DEF Reject
  <2>2. TypeProcess'
    BY <1>4 DEF Reject, Pc
  <2>3. JournalInv'
    BY <1>4 DEF Reject, JournalInv, CoreInv
  <2>4. CoreInv'
    BY <1>4 DEF Reject, JournalInv, CoreInv
  <2>5. StageInv'
    BY <1>4 DEF Reject, CoreInv, StageInv
  <2>6. PathInv'
    BY <1>4 DEF Reject, StageInv, PathInv, Undone, Moved, MustRemove
  <2>7. ReportInv'
    <3>1. (ReportedTruly)'
      BY <1>4 DEF Reject, StageInv, ReportInv, ReportedTruly
    <3>2. (result.pkg <= issued)'
      BY <1>4 DEF Reject, StageInv, ReportInv, ReportedTruly
    <3>3. (journal.active => \A k \in Package : fate[k] \in {"installed", "rolledback"} /\ k # journal.pkg => /\ k < journal.pkg /\ result.pkg >= k /\ (result.pkg = k => result.ok = (fate[k] = "installed")))'
      BY <1>4 DEF Reject, StageInv, ReportInv, ReportedTruly
    <3>4. (stagePkg # 0 => \A k \in Package : fate[k] # "none" => k <= stagePkg)'
      BY <1>4 DEF Reject, ReportInv, ReportedTruly
    <3>5. (pc \in {"undoStage", "undoJournal"} => result = [pkg |-> journal.pkg, ok |-> FALSE])'
      BY <1>4 DEF Reject, ReportInv, ReportedTruly
    <3>6. (Open /\ stagePkg = 0 => result = [pkg |-> journal.pkg, ok |-> FALSE])'
      BY <1>4 DEF Reject, JournalInv, ReportInv, ReportedTruly
    <3>7. (pc \in {"commitStage", "commitJournal"} => result = [pkg |-> journal.pkg, ok |-> TRUE])'
      BY <1>4 DEF Reject, JournalInv, ReportInv, ReportedTruly
    <3>8. (journal.active => result.pkg <= journal.pkg)'
      BY <1>4 DEF Reject, JournalInv, ReportInv, ReportedTruly
    <3> QED BY <3>1, <3>2, <3>3, <3>4, <3>5, <3>6, <3>7, <3>8 DEF ReportInv
  <2> QED BY <2>1, <2>2, <2>3, <2>4, <2>5, <2>6, <2>7
<1>5. CASE RejectMove
  <2>1. TypeDisk'
    BY <1>5 DEF RejectMove
  <2>2. TypeProcess'
    BY <1>5 DEF RejectMove, Pc
  <2>3. JournalInv'
    BY <1>5 DEF RejectMove, JournalInv, CoreInv
  <2>4. CoreInv'
    BY <1>5 DEF RejectMove, JournalInv, CoreInv
  <2>5. StageInv'
    BY <1>5 DEF RejectMove, JournalInv, CoreInv, StageInv
  <2>6. PathInv'
    BY <1>5 DEF RejectMove, JournalInv, StageInv, PathInv, Undone, Moved, MustRemove
  <2>7. ReportInv'
    BY <1>5 DEF RejectMove, JournalInv, ReportInv, ReportedTruly
  <2> QED BY <2>1, <2>2, <2>3, <2>4, <2>5, <2>6, <2>7
<1>6. CASE BeginJournal
  <2>1. TypeDisk'
    BY <1>6 DEF BeginJournal
  <2>2. TypeProcess'
    BY <1>6 DEF BeginJournal, Pc
  <2>3. JournalInv'
    BY <1>6 DEF BeginJournal, JournalInv, CoreInv, StageInv
  <2>4. CoreInv'
    BY <1>6 DEF BeginJournal, JournalInv, CoreInv
  <2>5. StageInv'
    BY <1>6 DEF BeginJournal, JournalInv, CoreInv, StageInv
  <2>6. PathInv'
    BY <1>6 DEF BeginJournal, JournalInv, StageInv, PathInv, Undone, Moved, MustRemove
  <2>7. ReportInv'
    <3>1. (ReportedTruly)'
      BY <1>6 DEF BeginJournal, JournalInv, ReportInv, ReportedTruly
    <3>2. (result.pkg <= issued)'
      BY <1>6 DEF BeginJournal, ReportInv, ReportedTruly
    <3>3. (journal.active => \A k \in Package : fate[k] \in {"installed", "rolledback"} /\ k # journal.pkg => /\ k < journal.pkg /\ result.pkg >= k /\ (result.pkg = k => result.ok = (fate[k] = "installed")))'
      BY <1>6 DEF BeginJournal, StageInv, ReportInv, ReportedTruly
    <3>4. (stagePkg # 0 => \A k \in Package : fate[k] # "none" => k <= stagePkg)'
      BY <1>6 DEF BeginJournal, StageInv, ReportInv, ReportedTruly
    <3>5. (pc \in {"undoStage", "undoJournal"} => result = [pkg |-> journal.pkg, ok |-> FALSE])'
      BY <1>6 DEF BeginJournal, ReportInv, ReportedTruly
    <3>6. (Open /\ stagePkg = 0 => result = [pkg |-> journal.pkg, ok |-> FALSE])'
      BY <1>6 DEF BeginJournal, StageInv, ReportInv, ReportedTruly
    <3>7. (pc \in {"commitStage", "commitJournal"} => result = [pkg |-> journal.pkg, ok |-> TRUE])'
      BY <1>6 DEF BeginJournal, StageInv, ReportInv, ReportedTruly
    <3>8. (journal.active => result.pkg <= journal.pkg)'
      BY <1>6 DEF BeginJournal, StageInv, ReportInv, ReportedTruly
    <3> QED BY <3>1, <3>2, <3>3, <3>4, <3>5, <3>6, <3>7, <3>8 DEF ReportInv
  <2> QED BY <2>1, <2>2, <2>3, <2>4, <2>5, <2>6, <2>7
<1>7. CASE Intent
  <2>1. TypeDisk'
    BY <1>7 DEF Intent
  <2>2. TypeProcess'
    BY <1>7 DEF Intent, Pc
  <2>3. JournalInv'
    BY <1>7 DEF Intent, JournalInv, CoreInv
  <2>4. CoreInv'
    BY <1>7 DEF Intent, JournalInv, CoreInv
  <2>5. StageInv'
    BY <1>7 DEF Intent, CoreInv, StageInv
  <2>6. PathInv'
    BY <1>7 DEF Intent, JournalInv, StageInv, PathInv, Undone, Moved, MustRemove
  <2>7. ReportInv'
    BY <1>7 DEF Intent, JournalInv, StageInv, ReportInv, ReportedTruly
  <2> QED BY <2>1, <2>2, <2>3, <2>4, <2>5, <2>6, <2>7
<1>8. CASE IntentSkip
  <2>1. TypeDisk'
    BY <1>8 DEF IntentSkip
  <2>2. TypeProcess'
    BY <1>8 DEF IntentSkip, Pc
  <2>3. JournalInv'
    BY <1>8 DEF IntentSkip, JournalInv, CoreInv
  <2>4. CoreInv'
    BY <1>8 DEF IntentSkip, JournalInv, CoreInv
  <2>5. StageInv'
    BY <1>8 DEF IntentSkip, CoreInv, StageInv
  <2>6. PathInv'
    BY <1>8 DEF IntentSkip, StageInv, PathInv, Undone, Moved, MustRemove
  <2>7. ReportInv'
    BY <1>8 DEF IntentSkip, ReportInv, ReportedTruly
  <2> QED BY <2>1, <2>2, <2>3, <2>4, <2>5, <2>6, <2>7
<1>9. CASE Backup
  <2>1. TypeDisk'
    <3>1. live' \in [Path -> Content]
      BY <1>9 DEF Backup
    <3>2. stage' \in [Path -> Whole \cup {Absent}] /\ stagePkg' \in {0} \cup Package
      BY <1>9 DEF Backup
    <3>3. armed' \in BOOLEAN /\ result' \in [pkg : {0} \cup Package, ok : BOOLEAN]
      BY <1>9 DEF Backup
    <3>4. saved' \in [Path -> Content]
      BY <1>9 DEF Backup
    <3>5. journal' \in [active : BOOLEAN, pkg : {0} \cup Package, moves : [Path -> {"no", "old", "new"}], prepared : BOOLEAN, committed : BOOLEAN]
      BY <1>9 DEF Backup
    <3>6. fate' \in [Package -> {"none", "begun", "installed", "rolledback", "rejected"}]
      BY <1>9 DEF Backup
    <3> QED BY <3>1, <3>2, <3>3, <3>4, <3>5, <3>6
  <2>2. TypeProcess'
    BY <1>9 DEF Backup, Pc
  <2>3. JournalInv'
    BY <1>9 DEF Backup, JournalInv, CoreInv
  <2>4. CoreInv'
    BY <1>9 DEF Backup, JournalInv, CoreInv
  <2>5. StageInv'
    BY <1>9 DEF Backup, CoreInv, StageInv
  <2>6. PathInv'
    BY <1>9 DEF Backup, StageInv, PathInv, Undone, Moved, MustRemove
  <2>7. ReportInv'
    BY <1>9 DEF Backup, StageInv, ReportInv, ReportedTruly
  <2> QED BY <2>1, <2>2, <2>3, <2>4, <2>5, <2>6, <2>7
<1>10. CASE Replace
  <2>1. TypeDisk'
    BY <1>10 DEF Replace
  <2>2. TypeProcess'
    <3>1. at' \in 0..(NPaths + 1)
      BY <1>10 DEF Replace, PathInv
    <3>2. pc' \in Pc /\ ret' \in {"loop", "launch", "relaunch", "wait"}
      BY <1>10 DEF Replace, Pc, PathInv
    <3>3. installing' \in BOOLEAN /\ stopping' \in BOOLEAN /\ core' \in {"none", "up", "exited", "restart"}
      BY <1>10 DEF Replace, PathInv
    <3>4. issued' \in 0..MaxPackages /\ crashes' \in 0..MaxCrashes /\ faults' \in 0..MaxFaults
      BY <1>10 DEF Replace
    <3> QED BY <3>1, <3>2, <3>3, <3>4
  <2>3. JournalInv'
    BY <1>10 DEF Replace, JournalInv, CoreInv
  <2>4. CoreInv'
    BY <1>10 DEF Replace, JournalInv, CoreInv
  <2>5. StageInv'
    <3>1. (\A p \in Path : stage[p] \in {stagePkg, Absent})'
      BY <1>10 DEF Replace, CoreInv, StageInv
    <3>2. (stagePkg = 0 => stage = NoFiles)'
      BY <1>10 DEF Replace, CoreInv, StageInv
    <3>3. (stagePkg \in {0, issued})'
      BY <1>10 DEF Replace, CoreInv, StageInv
    <3>4. (\A k \in Package : k > issued => fate[k] = "none")'
      BY <1>10 DEF Replace, CoreInv, StageInv
    <3>5. (stagePkg # 0 /\ ~journal.active => fate[stagePkg] = "none" /\ stage[Manager] # Absent)'
      BY <1>10 DEF Replace, JournalInv, CoreInv, StageInv
    <3>6. (Open /\ stagePkg # 0 => stagePkg = journal.pkg /\ fate[stagePkg] = "begun" /\ (stage[Manager] # Absent \/ journal.moves[Manager] # "no"))'
      BY <1>10 DEF Replace, JournalInv, CoreInv, StageInv, PathInv
    <3>7. (Open /\ stagePkg = 0 => fate[journal.pkg] = "rolledback")'
      BY <1>10 DEF Replace, CoreInv, StageInv
    <3>8. (journal.active /\ journal.committed => fate[journal.pkg] = "installed" /\ stagePkg \in {0, journal.pkg})'
      BY <1>10 DEF Replace, CoreInv, StageInv
    <3>9. (\A k \in Package : fate[k] = "begun" => journal.active /\ k = journal.pkg)'
      BY <1>10 DEF Replace, CoreInv, StageInv
    <3>10. (pc \in {"validate", "reject", "rejectMove", "journal"} => stagePkg # 0)'
      BY <1>10 DEF Replace, CoreInv, StageInv
    <3>11. (pc \in BeginPc \cup {"resume", "commit"} => stagePkg # 0)'
      BY <1>10 DEF Replace, CoreInv, StageInv
    <3>12. (pc = "launch" /\ installing => stagePkg # 0)'
      BY <1>10 DEF Replace, CoreInv, StageInv
    <3>13. (pc \in {"undoJournal", "commitJournal"} => stagePkg = 0)'
      BY <1>10 DEF Replace, CoreInv
    <3> QED BY <3>1, <3>2, <3>3, <3>4, <3>5, <3>6, <3>7, <3>8, <3>9, <3>10, <3>11, <3>12,
          <3>13 DEF StageInv
  <2>6. PathInv'
    BY <1>10 DEF Replace, JournalInv, StageInv, PathInv, Undone, Moved, MustRemove
  <2>7. ReportInv'
    BY <1>10 DEF Replace, JournalInv, StageInv, ReportInv, ReportedTruly
  <2> QED BY <2>1, <2>2, <2>3, <2>4, <2>5, <2>6, <2>7
<1>11. CASE Prepared
  <2>1. TypeDisk'
    BY <1>11 DEF Prepared
  <2>2. TypeProcess'
    BY <1>11 DEF Prepared, Pc
  <2>3. JournalInv'
    BY <1>11 DEF Prepared, JournalInv, CoreInv
  <2>4. CoreInv'
    BY <1>11 DEF Prepared, JournalInv, CoreInv
  <2>5. StageInv'
    BY <1>11 DEF Prepared, CoreInv, StageInv
  <2>6. PathInv'
    BY <1>11 DEF Prepared, StageInv, PathInv, Undone, Moved, MustRemove
  <2>7. ReportInv'
    BY <1>11 DEF Prepared, ReportInv, ReportedTruly
  <2> QED BY <2>1, <2>2, <2>3, <2>4, <2>5, <2>6, <2>7
<1>12. CASE ReexecNew
  <2>1. TypeDisk'
    BY <1>12 DEF ReexecNew
  <2>2. TypeProcess'
    BY <1>12 DEF ReexecNew, Pc
  <2>3. JournalInv'
    BY <1>12 DEF ReexecNew, JournalInv, CoreInv
  <2>4. CoreInv'
    BY <1>12 DEF ReexecNew, JournalInv, CoreInv
  <2>5. StageInv'
    BY <1>12 DEF ReexecNew, CoreInv, StageInv
  <2>6. PathInv'
    BY <1>12 DEF ReexecNew, StageInv, PathInv, Undone, Moved, MustRemove
  <2>7. ReportInv'
    BY <1>12 DEF ReexecNew, ReportInv, ReportedTruly
  <2> QED BY <2>1, <2>2, <2>3, <2>4, <2>5, <2>6, <2>7
<1>13. CASE Resume
  <2>1. TypeDisk'
    BY <1>13 DEF Resume
  <2>2. TypeProcess'
    BY <1>13 DEF Resume, Pc
  <2>3. JournalInv'
    BY <1>13 DEF Resume, JournalInv, CoreInv
  <2>4. CoreInv'
    BY <1>13 DEF Resume, JournalInv, CoreInv
  <2>5. StageInv'
    BY <1>13 DEF Resume, CoreInv, StageInv
  <2>6. PathInv'
    BY <1>13 DEF Resume, StageInv, PathInv, Undone, Moved, MustRemove
  <2>7. ReportInv'
    BY <1>13 DEF Resume, ReportInv, ReportedTruly
  <2> QED BY <2>1, <2>2, <2>3, <2>4, <2>5, <2>6, <2>7
<1>14. CASE Launch
  <2>1. TypeDisk'
    BY <1>14 DEF Launch
  <2>2. TypeProcess'
    BY <1>14 DEF Launch, Pc
  <2>3. JournalInv'
    BY <1>14 DEF Launch, JournalInv, CoreInv
  <2>4. CoreInv'
    BY <1>14 DEF Launch, JournalInv, CoreInv
  <2>5. StageInv'
    BY <1>14 DEF Launch, JournalInv, CoreInv, StageInv
  <2>6. PathInv'
    BY <1>14 DEF Launch, JournalInv, StageInv, PathInv, Undone, Moved, MustRemove
  <2>7. ReportInv'
    BY <1>14 DEF Launch, JournalInv, ReportInv, ReportedTruly
  <2> QED BY <2>1, <2>2, <2>3, <2>4, <2>5, <2>6, <2>7
<1>15. CASE LaunchFails
  <2>1. TypeDisk'
    BY <1>15 DEF LaunchFails, EnterRecover
  <2>2. TypeProcess'
    <3>1. at' \in 0..(NPaths + 1)
      BY <1>15 DEF LaunchFails, EnterRecover
    <3>2. pc' \in Pc /\ ret' \in {"loop", "launch", "relaunch", "wait"}
      BY <1>15 DEF LaunchFails, EnterRecover, Pc
    <3>3. installing' \in BOOLEAN /\ stopping' \in BOOLEAN /\ core' \in {"none", "up", "exited", "restart"}
      BY <1>15 DEF LaunchFails, EnterRecover
    <3>4. issued' \in 0..MaxPackages /\ crashes' \in 0..MaxCrashes /\ faults' \in 0..MaxFaults
      BY <1>15 DEF LaunchFails, EnterRecover
    <3> QED BY <3>1, <3>2, <3>3, <3>4
  <2>3. JournalInv'
    BY <1>15 DEF LaunchFails, EnterRecover, JournalInv, CoreInv
  <2>4. CoreInv'
    BY <1>15 DEF LaunchFails, EnterRecover, JournalInv, CoreInv
  <2>5. StageInv'
    BY <1>15 DEF LaunchFails, EnterRecover, JournalInv, CoreInv, StageInv
  <2>6. PathInv'
    BY <1>15 DEF LaunchFails, EnterRecover, StageInv, PathInv, Undone, Moved, MustRemove
  <2>7. ReportInv'
    BY <1>15 DEF LaunchFails, EnterRecover, ReportInv, ReportedTruly
  <2> QED BY <2>1, <2>2, <2>3, <2>4, <2>5, <2>6, <2>7
<1>16. CASE Commit
  <2>1. TypeDisk'
    BY <1>16 DEF Commit
  <2>2. TypeProcess'
    BY <1>16 DEF Commit, Pc
  <2>3. JournalInv'
    BY <1>16 DEF Commit, JournalInv, CoreInv
  <2>4. CoreInv'
    BY <1>16 DEF Commit, JournalInv, CoreInv
  <2>5. StageInv'
    BY <1>16 DEF Commit, JournalInv, CoreInv, StageInv
  <2>6. PathInv'
    BY <1>16 DEF Commit, JournalInv, StageInv, PathInv, Undone, Moved, MustRemove
  <2>7. ReportInv'
    BY <1>16 DEF Commit, JournalInv, StageInv, ReportInv, ReportedTruly
  <2> QED BY <2>1, <2>2, <2>3, <2>4, <2>5, <2>6, <2>7
<1>17. CASE CommitResult
  <2>1. TypeDisk'
    BY <1>17 DEF CommitResult
  <2>2. TypeProcess'
    BY <1>17 DEF CommitResult, Pc
  <2>3. JournalInv'
    BY <1>17 DEF CommitResult, JournalInv, CoreInv
  <2>4. CoreInv'
    BY <1>17 DEF CommitResult, JournalInv, CoreInv
  <2>5. StageInv'
    BY <1>17 DEF CommitResult, CoreInv, StageInv
  <2>6. PathInv'
    BY <1>17 DEF CommitResult, StageInv, PathInv, Undone, Moved, MustRemove
  <2>7. ReportInv'
    <3>1. (ReportedTruly)'
      BY <1>17 DEF CommitResult, JournalInv, ReportInv, ReportedTruly
    <3>2. (result.pkg <= issued)'
      BY <1>17 DEF CommitResult, JournalInv, StageInv, ReportInv, ReportedTruly
    <3>3. (journal.active => \A k \in Package : fate[k] \in {"installed", "rolledback"} /\ k # journal.pkg => /\ k < journal.pkg /\ result.pkg >= k /\ (result.pkg = k => result.ok = (fate[k] = "installed")))'
      <4>1. journal' = journal /\ fate' = fate /\ result'.pkg = journal.pkg
        BY <1>17 DEF CommitResult
      <4>2. journal.active /\ journal.pkg \in Package
        BY <1>17 DEF CommitResult, JournalInv
      <4>3. ASSUME NEW k \in Package, fate[k] \in {"installed", "rolledback"}, k # journal.pkg
            PROVE k < journal.pkg
        BY <4>2, <4>3 DEF ReportInv
      <4>4. ASSUME NEW k \in Package, k < journal.pkg PROVE result'.pkg >= k /\ result'.pkg # k
        BY <4>1, <4>2, <4>4
      <4> QED BY <4>1, <4>3, <4>4
    <3>4. (stagePkg # 0 => \A k \in Package : fate[k] # "none" => k <= stagePkg)'
      BY <1>17 DEF CommitResult, ReportInv, ReportedTruly
    <3>5. (pc \in {"undoStage", "undoJournal"} => result = [pkg |-> journal.pkg, ok |-> FALSE])'
      BY <1>17 DEF CommitResult, ReportInv, ReportedTruly
    <3>6. (Open /\ stagePkg = 0 => result = [pkg |-> journal.pkg, ok |-> FALSE])'
      BY <1>17 DEF CommitResult, JournalInv, ReportInv, ReportedTruly
    <3>7. (pc \in {"commitStage", "commitJournal"} => result = [pkg |-> journal.pkg, ok |-> TRUE])'
      BY <1>17 DEF CommitResult, JournalInv, ReportInv, ReportedTruly
    <3>8. (journal.active => result.pkg <= journal.pkg)'
      BY <1>17 DEF CommitResult, ReportInv, ReportedTruly
    <3> QED BY <3>1, <3>2, <3>3, <3>4, <3>5, <3>6, <3>7, <3>8 DEF ReportInv
  <2> QED BY <2>1, <2>2, <2>3, <2>4, <2>5, <2>6, <2>7
<1>18. CASE CommitStage
  <2>1. TypeDisk'
    <3>1. live' \in [Path -> Content]
      BY <1>18 DEF CommitStage
    <3>2. stage' \in [Path -> Whole \cup {Absent}] /\ stagePkg' \in {0} \cup Package
      BY <1>18 DEF CommitStage
    <3>3. armed' \in BOOLEAN /\ result' \in [pkg : {0} \cup Package, ok : BOOLEAN]
      BY <1>18 DEF CommitStage
    <3>4. saved' \in [Path -> Content]
      BY <1>18 DEF CommitStage
    <3>5. journal' \in [active : BOOLEAN, pkg : {0} \cup Package, moves : [Path -> {"no", "old", "new"}], prepared : BOOLEAN, committed : BOOLEAN]
      BY <1>18 DEF CommitStage
    <3>6. fate' \in [Package -> {"none", "begun", "installed", "rolledback", "rejected"}]
      BY <1>18 DEF CommitStage
    <3> QED BY <3>1, <3>2, <3>3, <3>4, <3>5, <3>6
  <2>2. TypeProcess'
    BY <1>18 DEF CommitStage, Pc
  <2>3. JournalInv'
    BY <1>18 DEF CommitStage, JournalInv, CoreInv
  <2>4. CoreInv'
    BY <1>18 DEF CommitStage, JournalInv, CoreInv
  <2>5. StageInv'
    BY <1>18 DEF CommitStage, JournalInv, CoreInv, StageInv
  <2>6. PathInv'
    BY <1>18 DEF CommitStage, JournalInv, StageInv, PathInv, Undone, Moved, MustRemove
  <2>7. ReportInv'
    BY <1>18 DEF CommitStage, JournalInv, ReportInv, ReportedTruly
  <2> QED BY <2>1, <2>2, <2>3, <2>4, <2>5, <2>6, <2>7
<1>19. CASE CommitJournal
  <2>1. TypeDisk'
    BY <1>19 DEF CommitJournal
  <2>2. TypeProcess'
    BY <1>19 DEF CommitJournal, Pc
  <2>3. JournalInv'
    BY <1>19 DEF CommitJournal, JournalInv, CoreInv
  <2>4. CoreInv'
    BY <1>19 DEF CommitJournal, JournalInv, CoreInv
  <2>5. StageInv'
    <3>1. (\A p \in Path : stage[p] \in {stagePkg, Absent})'
      BY <1>19 DEF CommitJournal, CoreInv, StageInv
    <3>2. (stagePkg = 0 => stage = NoFiles)'
      BY <1>19 DEF CommitJournal, CoreInv, StageInv
    <3>3. (stagePkg \in {0, issued})'
      BY <1>19 DEF CommitJournal, CoreInv, StageInv
    <3>4. (\A k \in Package : k > issued => fate[k] = "none")'
      BY <1>19 DEF CommitJournal, CoreInv, StageInv
    <3>5. (stagePkg # 0 /\ ~journal.active => fate[stagePkg] = "none" /\ stage[Manager] # Absent)'
      BY <1>19 DEF CommitJournal, CoreInv, StageInv
    <3>6. (Open /\ stagePkg # 0 => stagePkg = journal.pkg /\ fate[stagePkg] = "begun" /\ (stage[Manager] # Absent \/ journal.moves[Manager] # "no"))'
      BY <1>19 DEF CommitJournal, CoreInv, StageInv
    <3>7. (Open /\ stagePkg = 0 => fate[journal.pkg] = "rolledback")'
      BY <1>19 DEF CommitJournal, CoreInv
    <3>8. (journal.active /\ journal.committed => fate[journal.pkg] = "installed" /\ stagePkg \in {0, journal.pkg})'
      BY <1>19 DEF CommitJournal, CoreInv
    <3>9. (\A k \in Package : fate[k] = "begun" => journal.active /\ k = journal.pkg)'
      BY <1>19 DEF CommitJournal, CoreInv, StageInv
    <3>10. (pc \in {"validate", "reject", "rejectMove", "journal"} => stagePkg # 0)'
      BY <1>19 DEF CommitJournal, CoreInv, StageInv
    <3>11. (pc \in BeginPc \cup {"resume", "commit"} => stagePkg # 0)'
      BY <1>19 DEF CommitJournal, CoreInv
    <3>12. (pc = "launch" /\ installing => stagePkg # 0)'
      BY <1>19 DEF CommitJournal, CoreInv
    <3>13. (pc \in {"undoJournal", "commitJournal"} => stagePkg = 0)'
      BY <1>19 DEF CommitJournal, CoreInv
    <3> QED BY <3>1, <3>2, <3>3, <3>4, <3>5, <3>6, <3>7, <3>8, <3>9, <3>10, <3>11, <3>12,
          <3>13 DEF StageInv
  <2>6. PathInv'
    BY <1>19 DEF CommitJournal, StageInv, PathInv, Undone, Moved, MustRemove
  <2>7. ReportInv'
    BY <1>19 DEF CommitJournal, StageInv, ReportInv, ReportedTruly
  <2> QED BY <2>1, <2>2, <2>3, <2>4, <2>5, <2>6, <2>7
<1>20. CASE UndoRemove
  <2>1. TypeDisk'
    BY <1>20 DEF UndoRemove, MustRemove
  <2>2. TypeProcess'
    BY <1>20 DEF UndoRemove, MustRemove, Pc
  <2>3. JournalInv'
    BY <1>20 DEF UndoRemove, MustRemove, JournalInv, CoreInv
  <2>4. CoreInv'
    BY <1>20 DEF UndoRemove, MustRemove, JournalInv, CoreInv
  <2>5. StageInv'
    BY <1>20 DEF UndoRemove, MustRemove, CoreInv, StageInv
  <2>6. PathInv'
    BY <1>20 DEF UndoRemove, MustRemove, JournalInv, StageInv, PathInv, Undone, Moved
  <2>7. ReportInv'
    BY <1>20 DEF UndoRemove, MustRemove, JournalInv, ReportInv, ReportedTruly
  <2> QED BY <2>1, <2>2, <2>3, <2>4, <2>5, <2>6, <2>7
<1>21. CASE UndoNext
  <2>1. TypeDisk'
    <3>1. live' \in [Path -> Content]
      BY <1>21 DEF UndoNext, MustRemove
    <3>2. stage' \in [Path -> Whole \cup {Absent}] /\ stagePkg' \in {0} \cup Package
      BY <1>21 DEF UndoNext, MustRemove
    <3>3. armed' \in BOOLEAN /\ result' \in [pkg : {0} \cup Package, ok : BOOLEAN]
      BY <1>21 DEF UndoNext, MustRemove
    <3>4. saved' \in [Path -> Content]
      BY <1>21 DEF UndoNext, MustRemove
    <3>5. journal' \in [active : BOOLEAN, pkg : {0} \cup Package, moves : [Path -> {"no", "old", "new"}], prepared : BOOLEAN, committed : BOOLEAN]
      BY <1>21 DEF UndoNext, MustRemove
    <3>6. fate' \in [Package -> {"none", "begun", "installed", "rolledback", "rejected"}]
      BY <1>21 DEF UndoNext, MustRemove
    <3> QED BY <3>1, <3>2, <3>3, <3>4, <3>5, <3>6
  <2>2. TypeProcess'
    BY <1>21 DEF UndoNext, MustRemove, Pc
  <2>3. JournalInv'
    BY <1>21 DEF UndoNext, MustRemove, JournalInv, CoreInv
  <2>4. CoreInv'
    BY <1>21 DEF UndoNext, MustRemove, JournalInv, CoreInv
  <2>5. StageInv'
    BY <1>21 DEF UndoNext, MustRemove, CoreInv, StageInv
  <2>6. PathInv'
    <3>1. (\A p \in Path : saved[p] # Torn)'
      BY <1>21 DEF UndoNext, MustRemove, StageInv, PathInv, Undone, Moved
    <3>2. (\A p \in Path : live[p] = Torn => Open /\ journal.moves[p] # "no" /\ MustRemove(p))'
      BY <1>21 DEF UndoNext, MustRemove, PathInv, Undone, Moved
    <3>3. (Open => \A p \in Path : journal.moves[p] # "old" => saved[p] = Absent)'
      BY <1>21 DEF UndoNext, MustRemove, PathInv, Undone, Moved
    <3>4. (Open => \A p \in Path : journal.moves[p] = "new" /\ stage[p] # Absent => live[p] = Absent)'
      BY <1>21 DEF UndoNext, MustRemove, PathInv, Undone, Moved
    <3>5. (Open => \A p \in Path : stagePkg = 0 => Undone(p))'
      BY <1>21 DEF UndoNext, MustRemove, PathInv, Undone, Moved
    <3>6. (pc \in {"undoResult", "undoStage", "undoJournal"} => \A p \in Path : Undone(p))'
      BY <1>21 DEF UndoNext, MustRemove, PathInv, Undone, Moved
    <3>7. (pc = "undo" => at <= NPaths)'
      BY <1>21 DEF UndoNext, MustRemove, PathInv, Undone, Moved
    <3>8. (pc = "undo" => \A p \in Path : p > at => Undone(p))'
      BY <1>21 DEF UndoNext, MustRemove, JournalInv, PathInv, Undone, Moved
    <3>9. (pc \in {"intent", "backup", "replace"} => \A p \in Path : (p < at => Moved(p)) /\ (p > at => journal.moves[p] = "no"))'
      BY <1>21 DEF UndoNext, MustRemove, JournalInv, PathInv, Undone, Moved
    <3>10. (pc = "intent" /\ at \in Path => journal.moves[at] = "no")'
      BY <1>21 DEF UndoNext, MustRemove, PathInv, Undone, Moved
    <3>11. (pc \in {"backup", "replace"} => at \in Path /\ journal.moves[at] # "no" /\ stage[at] = stagePkg)'
      BY <1>21 DEF UndoNext, MustRemove, PathInv, Undone, Moved
    <3>12. (pc = "backup" => (journal.moves[at] = "old" <=> live[at] # Absent) /\ saved[at] = Absent)'
      BY <1>21 DEF UndoNext, MustRemove, PathInv, Undone, Moved
    <3>13. (pc = "replace" => live[at] = Absent /\ (journal.moves[at] = "old" <=> saved[at] # Absent))'
      BY <1>21 DEF UndoNext, MustRemove, PathInv, Undone, Moved
    <3>14. (pc \in {"prepared", "reexecNew", "resume", "commit"} => \A p \in Path : Moved(p))'
      BY <1>21 DEF UndoNext, MustRemove, PathInv, Undone, Moved
    <3>15. (pc = "launch" /\ installing => \A p \in Path : Moved(p))'
      BY <1>21 DEF UndoNext, MustRemove, PathInv, Undone, Moved
    <3>16. (pc = "intent" => at > 0)'
      BY <1>21 DEF UndoNext, MustRemove, PathInv, Undone, Moved
    <3> QED BY <3>1, <3>2, <3>3, <3>4, <3>5, <3>6, <3>7, <3>8, <3>9, <3>10, <3>11, <3>12, <3>13,
          <3>14, <3>15, <3>16 DEF PathInv
  <2>7. ReportInv'
    BY <1>21 DEF UndoNext, MustRemove, ReportInv, ReportedTruly
  <2> QED BY <2>1, <2>2, <2>3, <2>4, <2>5, <2>6, <2>7
<1>22. CASE UndoResult
  <2>1. TypeDisk'
    BY <1>22 DEF UndoResult
  <2>2. TypeProcess'
    BY <1>22 DEF UndoResult, Pc
  <2>3. JournalInv'
    BY <1>22 DEF UndoResult, JournalInv, CoreInv
  <2>4. CoreInv'
    BY <1>22 DEF UndoResult, JournalInv, CoreInv
  <2>5. StageInv'
    BY <1>22 DEF UndoResult, CoreInv, StageInv
  <2>6. PathInv'
    BY <1>22 DEF UndoResult, StageInv, PathInv, Undone, Moved, MustRemove
  <2>7. ReportInv'
    <3>1. (ReportedTruly)'
      BY <1>22 DEF UndoResult, JournalInv, ReportInv, ReportedTruly
    <3>2. (result.pkg <= issued)'
      BY <1>22 DEF UndoResult, JournalInv, StageInv, ReportInv, ReportedTruly
    <3>3. (journal.active => \A k \in Package : fate[k] \in {"installed", "rolledback"} /\ k # journal.pkg => /\ k < journal.pkg /\ result.pkg >= k /\ (result.pkg = k => result.ok = (fate[k] = "installed")))'
      <4>1. journal' = journal /\ fate' = fate /\ result'.pkg = journal.pkg
        BY <1>22 DEF UndoResult
      <4>2. journal.active /\ journal.pkg \in Package
        BY <1>22 DEF UndoResult, JournalInv
      <4>3. ASSUME NEW k \in Package, fate[k] \in {"installed", "rolledback"}, k # journal.pkg
            PROVE k < journal.pkg
        BY <4>2, <4>3 DEF ReportInv
      <4>4. ASSUME NEW k \in Package, k < journal.pkg PROVE result'.pkg >= k /\ result'.pkg # k
        BY <4>1, <4>2, <4>4
      <4> QED BY <4>1, <4>3, <4>4
    <3>4. (stagePkg # 0 => \A k \in Package : fate[k] # "none" => k <= stagePkg)'
      BY <1>22 DEF UndoResult, ReportInv, ReportedTruly
    <3>5. (pc \in {"undoStage", "undoJournal"} => result = [pkg |-> journal.pkg, ok |-> FALSE])'
      BY <1>22 DEF UndoResult, ReportInv, ReportedTruly
    <3>6. (Open /\ stagePkg = 0 => result = [pkg |-> journal.pkg, ok |-> FALSE])'
      BY <1>22 DEF UndoResult, ReportInv, ReportedTruly
    <3>7. (pc \in {"commitStage", "commitJournal"} => result = [pkg |-> journal.pkg, ok |-> TRUE])'
      BY <1>22 DEF UndoResult, ReportInv, ReportedTruly
    <3>8. (journal.active => result.pkg <= journal.pkg)'
      BY <1>22 DEF UndoResult, ReportInv, ReportedTruly
    <3> QED BY <3>1, <3>2, <3>3, <3>4, <3>5, <3>6, <3>7, <3>8 DEF ReportInv
  <2> QED BY <2>1, <2>2, <2>3, <2>4, <2>5, <2>6, <2>7
<1>23. CASE UndoStage
  <2>1. TypeDisk'
    BY <1>23 DEF UndoStage
  <2>2. TypeProcess'
    BY <1>23 DEF UndoStage, Pc
  <2>3. JournalInv'
    BY <1>23 DEF UndoStage, JournalInv, CoreInv
  <2>4. CoreInv'
    BY <1>23 DEF UndoStage, JournalInv, CoreInv
  <2>5. StageInv'
    BY <1>23 DEF UndoStage, JournalInv, CoreInv, StageInv
  <2>6. PathInv'
    BY <1>23 DEF UndoStage, JournalInv, StageInv, PathInv, Undone, Moved, MustRemove
  <2>7. ReportInv'
    BY <1>23 DEF UndoStage, ReportInv, ReportedTruly
  <2> QED BY <2>1, <2>2, <2>3, <2>4, <2>5, <2>6, <2>7
<1>24. CASE UndoJournal
  <2>1. TypeDisk'
    BY <1>24 DEF UndoJournal
  <2>2. TypeProcess'
    BY <1>24 DEF UndoJournal, Pc
  <2>3. JournalInv'
    BY <1>24 DEF UndoJournal, JournalInv, CoreInv
  <2>4. CoreInv'
    BY <1>24 DEF UndoJournal, JournalInv, CoreInv
  <2>5. StageInv'
    <3>1. (\A p \in Path : stage[p] \in {stagePkg, Absent})'
      BY <1>24 DEF UndoJournal, CoreInv, StageInv
    <3>2. (stagePkg = 0 => stage = NoFiles)'
      BY <1>24 DEF UndoJournal, CoreInv, StageInv
    <3>3. (stagePkg \in {0, issued})'
      BY <1>24 DEF UndoJournal, CoreInv, StageInv
    <3>4. (\A k \in Package : k > issued => fate[k] = "none")'
      BY <1>24 DEF UndoJournal, CoreInv, StageInv
    <3>5. (stagePkg # 0 /\ ~journal.active => fate[stagePkg] = "none" /\ stage[Manager] # Absent)'
      BY <1>24 DEF UndoJournal, CoreInv, StageInv
    <3>6. (Open /\ stagePkg # 0 => stagePkg = journal.pkg /\ fate[stagePkg] = "begun" /\ (stage[Manager] # Absent \/ journal.moves[Manager] # "no"))'
      BY <1>24 DEF UndoJournal, CoreInv, StageInv
    <3>7. (Open /\ stagePkg = 0 => fate[journal.pkg] = "rolledback")'
      BY <1>24 DEF UndoJournal, CoreInv
    <3>8. (journal.active /\ journal.committed => fate[journal.pkg] = "installed" /\ stagePkg \in {0, journal.pkg})'
      BY <1>24 DEF UndoJournal, CoreInv
    <3>9. (\A k \in Package : fate[k] = "begun" => journal.active /\ k = journal.pkg)'
      BY <1>24 DEF UndoJournal, CoreInv, StageInv
    <3>10. (pc \in {"validate", "reject", "rejectMove", "journal"} => stagePkg # 0)'
      BY <1>24 DEF UndoJournal, CoreInv, StageInv
    <3>11. (pc \in BeginPc \cup {"resume", "commit"} => stagePkg # 0)'
      BY <1>24 DEF UndoJournal, CoreInv
    <3>12. (pc = "launch" /\ installing => stagePkg # 0)'
      BY <1>24 DEF UndoJournal, CoreInv
    <3>13. (pc \in {"undoJournal", "commitJournal"} => stagePkg = 0)'
      BY <1>24 DEF UndoJournal, CoreInv
    <3> QED BY <3>1, <3>2, <3>3, <3>4, <3>5, <3>6, <3>7, <3>8, <3>9, <3>10, <3>11, <3>12,
          <3>13 DEF StageInv
  <2>6. PathInv'
    BY <1>24 DEF UndoJournal, StageInv, PathInv, Undone, Moved, MustRemove
  <2>7. ReportInv'
    BY <1>24 DEF UndoJournal, JournalInv, StageInv, ReportInv, ReportedTruly
  <2> QED BY <2>1, <2>2, <2>3, <2>4, <2>5, <2>6, <2>7
<1>25. CASE Download
  <2>1. TypeDisk'
    <3>1. live' \in [Path -> Content]
      BY <1>25 DEF Download
    <3>2. stage' \in [Path -> Whole \cup {Absent}] /\ stagePkg' \in {0} \cup Package
      BY <1>25 DEF Download
    <3>3. armed' \in BOOLEAN /\ result' \in [pkg : {0} \cup Package, ok : BOOLEAN]
      BY <1>25 DEF Download
    <3>4. saved' \in [Path -> Content]
      BY <1>25 DEF Download
    <3>5. journal' \in [active : BOOLEAN, pkg : {0} \cup Package, moves : [Path -> {"no", "old", "new"}], prepared : BOOLEAN, committed : BOOLEAN]
      BY <1>25 DEF Download
    <3>6. fate' \in [Package -> {"none", "begun", "installed", "rolledback", "rejected"}]
      BY <1>25 DEF Download
    <3> QED BY <3>1, <3>2, <3>3, <3>4, <3>5, <3>6
  <2>2. TypeProcess'
    BY <1>25 DEF Download, Pc
  <2>3. JournalInv'
    BY <1>25 DEF Download, JournalInv, CoreInv
  <2>4. CoreInv'
    BY <1>25 DEF Download, JournalInv, CoreInv
  <2>5. StageInv'
    BY <1>25 DEF Download, JournalInv, CoreInv, StageInv
  <2>6. PathInv'
    BY <1>25 DEF Download, JournalInv, StageInv, PathInv, Undone, Moved, MustRemove
  <2>7. ReportInv'
    BY <1>25 DEF Download, JournalInv, StageInv, ReportInv, ReportedTruly
  <2> QED BY <2>1, <2>2, <2>3, <2>4, <2>5, <2>6, <2>7
<1>26. CASE Authorize
  <2>1. TypeDisk'
    BY <1>26 DEF Authorize
  <2>2. TypeProcess'
    BY <1>26 DEF Authorize, Pc
  <2>3. JournalInv'
    BY <1>26 DEF Authorize, JournalInv, CoreInv
  <2>4. CoreInv'
    BY <1>26 DEF Authorize, JournalInv, CoreInv
  <2>5. StageInv'
    BY <1>26 DEF Authorize, CoreInv, StageInv
  <2>6. PathInv'
    BY <1>26 DEF Authorize, StageInv, PathInv, Undone, Moved, MustRemove
  <2>7. ReportInv'
    BY <1>26 DEF Authorize, ReportInv, ReportedTruly
  <2> QED BY <2>1, <2>2, <2>3, <2>4, <2>5, <2>6, <2>7
<1>27. CASE CoreExit
  <2>1. TypeDisk'
    BY <1>27 DEF CoreExit
  <2>2. TypeProcess'
    BY <1>27 DEF CoreExit, Pc
  <2>3. JournalInv'
    BY <1>27 DEF CoreExit, JournalInv, CoreInv
  <2>4. CoreInv'
    BY <1>27 DEF CoreExit, JournalInv, CoreInv
  <2>5. StageInv'
    BY <1>27 DEF CoreExit, CoreInv, StageInv
  <2>6. PathInv'
    BY <1>27 DEF CoreExit, StageInv, PathInv, Undone, Moved, MustRemove
  <2>7. ReportInv'
    BY <1>27 DEF CoreExit, ReportInv, ReportedTruly
  <2> QED BY <2>1, <2>2, <2>3, <2>4, <2>5, <2>6, <2>7
<1>28. CASE Reap
  <2>1. TypeDisk'
    BY <1>28 DEF Reap
  <2>2. TypeProcess'
    BY <1>28 DEF Reap, Pc
  <2>3. JournalInv'
    BY <1>28 DEF Reap, JournalInv, CoreInv
  <2>4. CoreInv'
    BY <1>28 DEF Reap, JournalInv, CoreInv
  <2>5. StageInv'
    BY <1>28 DEF Reap, CoreInv, StageInv
  <2>6. PathInv'
    BY <1>28 DEF Reap, StageInv, PathInv, Undone, Moved, MustRemove
  <2>7. ReportInv'
    BY <1>28 DEF Reap, ReportInv, ReportedTruly
  <2> QED BY <2>1, <2>2, <2>3, <2>4, <2>5, <2>6, <2>7
<1>29. CASE ReexecOld
  <2>1. TypeDisk'
    BY <1>29 DEF ReexecOld, EnterMain, EnterRecover
  <2>2. TypeProcess'
    <3>1. at' \in 0..(NPaths + 1)
      BY <1>29 DEF ReexecOld, EnterMain, EnterRecover
    <3>2. pc' \in Pc /\ ret' \in {"loop", "launch", "relaunch", "wait"}
      BY <1>29 DEF ReexecOld, EnterMain, EnterRecover, Pc
    <3>3. installing' \in BOOLEAN /\ stopping' \in BOOLEAN /\ core' \in {"none", "up", "exited", "restart"}
      BY <1>29 DEF ReexecOld, EnterMain, EnterRecover
    <3>4. issued' \in 0..MaxPackages /\ crashes' \in 0..MaxCrashes /\ faults' \in 0..MaxFaults
      BY <1>29 DEF ReexecOld, EnterMain, EnterRecover
    <3> QED BY <3>1, <3>2, <3>3, <3>4
  <2>3. JournalInv'
    BY <1>29 DEF ReexecOld, EnterMain, EnterRecover, JournalInv, CoreInv
  <2>4. CoreInv'
    BY <1>29 DEF ReexecOld, EnterMain, EnterRecover, JournalInv, CoreInv
  <2>5. StageInv'
    BY <1>29 DEF ReexecOld, EnterMain, EnterRecover, CoreInv, StageInv
  <2>6. PathInv'
    BY <1>29 DEF ReexecOld, EnterMain, EnterRecover, StageInv, PathInv, Undone, Moved, MustRemove
  <2>7. ReportInv'
    BY <1>29 DEF ReexecOld, EnterMain, EnterRecover, ReportInv, ReportedTruly
  <2> QED BY <2>1, <2>2, <2>3, <2>4, <2>5, <2>6, <2>7
<1>30. CASE Abort
  <2>1. TypeDisk'
    BY <1>30 DEF Abort
  <2>2. TypeProcess'
    <3>1. at' \in 0..(NPaths + 1)
      BY <1>30 DEF Abort
    <3>2. pc' \in Pc /\ ret' \in {"loop", "launch", "relaunch", "wait"}
      BY <1>30 DEF Abort, Pc
    <3>3. installing' \in BOOLEAN /\ stopping' \in BOOLEAN /\ core' \in {"none", "up", "exited", "restart"}
      BY <1>30 DEF Abort
    <3>4. issued' \in 0..MaxPackages /\ crashes' \in 0..MaxCrashes /\ faults' \in 0..MaxFaults
      BY <1>30 DEF Abort
    <3> QED BY <3>1, <3>2, <3>3, <3>4
  <2>3. JournalInv'
    BY <1>30 DEF Abort, JournalInv, CoreInv
  <2>4. CoreInv'
    BY <1>30 DEF Abort, JournalInv, CoreInv
  <2>5. StageInv'
    BY <1>30 DEF Abort, CoreInv, StageInv
  <2>6. PathInv'
    BY <1>30 DEF Abort, StageInv, PathInv, Undone, Moved, MustRemove
  <2>7. ReportInv'
    BY <1>30 DEF Abort, ReportInv, ReportedTruly
  <2> QED BY <2>1, <2>2, <2>3, <2>4, <2>5, <2>6, <2>7
<1>31. CASE Signal
  <2>1. TypeDisk'
    BY <1>31 DEF Signal
  <2>2. TypeProcess'
    BY <1>31 DEF Signal, Pc
  <2>3. JournalInv'
    BY <1>31 DEF Signal, JournalInv, CoreInv
  <2>4. CoreInv'
    BY <1>31 DEF Signal, JournalInv, CoreInv
  <2>5. StageInv'
    BY <1>31 DEF Signal, CoreInv, StageInv
  <2>6. PathInv'
    BY <1>31, PathsSame DEF Signal
  <2>7. ReportInv'
    BY <1>31 DEF Signal, ReportInv, ReportedTruly
  <2> QED BY <2>1, <2>2, <2>3, <2>4, <2>5, <2>6, <2>7
<1>32. CASE Fault
  <2>1. TypeDisk'
    BY <1>32 DEF Fault, EnterRecover
  <2>2. TypeProcess'
    <3>1. at' \in 0..(NPaths + 1)
      BY <1>32 DEF Fault, EnterRecover
    <3>2. pc' \in Pc /\ ret' \in {"loop", "launch", "relaunch", "wait"}
      BY <1>32 DEF Fault, EnterRecover, Pc
    <3>3. installing' \in BOOLEAN /\ stopping' \in BOOLEAN /\ core' \in {"none", "up", "exited", "restart"}
      BY <1>32 DEF Fault, EnterRecover
    <3>4. issued' \in 0..MaxPackages /\ crashes' \in 0..MaxCrashes /\ faults' \in 0..MaxFaults
      BY <1>32 DEF Fault, EnterRecover
    <3> QED BY <3>1, <3>2, <3>3, <3>4
  <2>3. JournalInv'
    BY <1>32 DEF Fault, EnterRecover, JournalInv, CoreInv
  <2>4. CoreInv'
    BY <1>32 DEF Fault, EnterRecover, JournalInv, CoreInv
  <2>5. StageInv'
    BY <1>32 DEF Fault, EnterRecover, JournalInv, CoreInv, StageInv
  <2>6. PathInv'
    <3>1. /\ UNCHANGED <<live, stage, stagePkg, saved, journal>>
          /\ pc' \in {"reject", "undo", "commitResult", "launch", "down", "abort"}
          /\ pc' = "undo" => at' = NPaths
          /\ ~(pc' = "launch" /\ installing')
      BY <1>32 DEF Fault, EnterRecover
    <3>2. \A p \in Path : ~(p > NPaths)
      OBVIOUS
    <3> QED BY <3>1, <3>2 DEF PathInv, Undone, Moved, MustRemove
  <2>7. ReportInv'
    BY <1>32 DEF Fault, EnterRecover, ReportInv, ReportedTruly
  <2> QED BY <2>1, <2>2, <2>3, <2>4, <2>5, <2>6, <2>7
<1>33. CASE Crash
  <2>1. TypeDisk'
    BY <1>33 DEF Crash
  <2>2. TypeProcess'
    <3>1. at' \in 0..(NPaths + 1)
      BY <1>33 DEF Crash
    <3>2. pc' \in Pc /\ ret' \in {"loop", "launch", "relaunch", "wait"}
      BY <1>33 DEF Crash, Pc
    <3>3. installing' \in BOOLEAN /\ stopping' \in BOOLEAN /\ core' \in {"none", "up", "exited", "restart"}
      BY <1>33 DEF Crash
    <3>4. issued' \in 0..MaxPackages /\ crashes' \in 0..MaxCrashes /\ faults' \in 0..MaxFaults
      BY <1>33 DEF Crash
    <3> QED BY <3>1, <3>2, <3>3, <3>4
  <2>3. JournalInv'
    BY <1>33 DEF Crash, JournalInv, CoreInv
  <2>4. CoreInv'
    BY <1>33 DEF Crash, JournalInv, CoreInv
  <2>5. StageInv'
    BY <1>33 DEF Crash, CoreInv, StageInv
  <2>6. PathInv'
    BY <1>33, PathsSame DEF Crash
  <2>7. ReportInv'
    BY <1>33 DEF Crash, ReportInv, ReportedTruly
  <2> QED BY <2>1, <2>2, <2>3, <2>4, <2>5, <2>6, <2>7
<1>34. CASE UNCHANGED vars
  <2>1. TypeDisk' /\ TypeProcess'
    BY <1>34 DEF vars
  <2>2. JournalInv' /\ CoreInv'
    BY <1>34 DEF vars, JournalInv, CoreInv
  <2>3. StageInv'
    BY <1>34 DEF vars, StageInv
  <2>4. PathInv'
    BY <1>34, PathsSame DEF vars
  <2>5. ReportInv'
    BY <1>34 DEF vars, ReportInv, ReportedTruly
  <2> QED BY <2>1, <2>2, <2>3, <2>4, <2>5
<1> QED BY <1>1, <1>2, <1>3, <1>4, <1>5, <1>6, <1>7, <1>8, <1>9, <1>10, <1>11, <1>12, <1>13,
      <1>14, <1>15, <1>16, <1>17, <1>18, <1>19, <1>20, <1>21, <1>22, <1>23, <1>24, <1>25, <1>26,
      <1>27, <1>28, <1>29, <1>30, <1>31, <1>32, <1>33, <1>34 DEF Next, ManagerStep

(* A fresh installation satisfies the invariant.                           *)
LEMMA InitInv == Init => IInv
<1> SUFFICES ASSUME Init PROVE IInv
  OBVIOUS
<1> USE PathAssumption, BoundAssumption, ContentAssumption
<1>1. TypeOK
  <2>1. TypeDisk
    <3>1. live \in [Path -> Content]
      BY DEF Init, Whole, Content
    <3>2. journal \in [active : BOOLEAN, pkg : {0} \cup Package, moves : [Path -> {"no", "old", "new"}],
                       prepared : BOOLEAN, committed : BOOLEAN]
      BY DEF Init, NoJournal, NoMoves
    <3> QED BY <3>1, <3>2 DEF Init, TypeDisk, NoFiles, Whole, Content
  <2>2. TypeProcess
    <3>1. at \in 0..(NPaths + 1) /\ issued \in 0..MaxPackages /\ crashes \in 0..MaxCrashes
          /\ faults \in 0..MaxFaults
      BY DEF Init
    <3> QED BY <3>1 DEF Init, TypeProcess, Pc
  <2> QED BY <2>1, <2>2 DEF TypeOK
<1>2. JournalInv /\ CoreInv
  BY DEF Init, JournalInv, CoreInv, NoFiles, NoMoves, NoJournal, Open, BeginPc, UndoPc, CommitPc
<1>3. StageInv /\ PathInv
  BY DEF Init, StageInv, PathInv, NoFiles, NoMoves, NoJournal, Open, BeginPc, UndoPc, CommitPc,
        Package, Whole, Path
<1>4. ReportInv
  BY DEF Init, ReportInv, ReportedTruly, NoFiles, NoMoves, NoJournal, Open, Package
<1> QED BY <1>1, <1>2, <1>3, <1>4 DEF IInv

(* The invariant holds for every number of paths, packages, kills and      *)
(* failing calls.                                                          *)
THEOREM Invariance == Spec => []IInv
<1> QED BY InitInv, StepInv, PTL DEF Spec

(* Every variable keeps its type.                                          *)
THEOREM TypeCorrect == Spec => []TypeOK
<1>1. IInv => TypeOK
  BY DEF IInv
<1> QED BY <1>1, Invariance, PTL

(* posix_update.h:214-220, 229-233, 253: what the core reads in            *)
(* last-result.json once no transaction is open is what happened.          *)
THEOREM ReportIsTrue == Spec => []ReportedTruly
<1>1. IInv => ReportedTruly
  BY DEF IInv, ReportInv
<1> QED BY <1>1, Invariance, PTL

(* launcher_posix.cpp:152: no step of any manager touches a program file   *)
(* while a core runs.                                                      *)
THEOREM FilesStill == Spec => FilesStillWhileCoreRuns
<1>1. IInv /\ [Next]_vars => [core = "up" => live' = live]_vars
  <2> SUFFICES ASSUME IInv, Next, core = "up" PROVE live' = live
    BY DEF vars
  <2>1. pc \in {"down", "wait", "commit", "abort"} \cup CommitPc
    BY DEF IInv, CoreInv
  <2>2. CASE Replace \/ Backup \/ UndoRemove \/ UndoNext
    BY <2>1, <2>2 DEF Replace, Backup, UndoRemove, UndoNext, CommitPc
  <2>3. CASE ~(Replace \/ Backup \/ UndoRemove \/ UndoNext)
    BY <2>3 DEF Next, ManagerStep, disk, Start, Loop, Validate, Reject, RejectMove,
      BeginJournal, Intent, IntentSkip, Prepared, ReexecNew, Resume, Launch, LaunchFails,
      Commit, CommitResult, CommitStage, CommitJournal, UndoResult, UndoStage,
      UndoJournal, Download, Authorize, CoreExit, Reap, ReexecOld, Abort, Signal, Fault,
      Crash
  <2> QED BY <2>2, <2>3
<1> QED BY <1>1, Invariance, PTL DEF Spec, FilesStillWhileCoreRuns

(* posix_update.h:254: a package is begun at most once.                    *)
THEOREM OneAttempt == Spec => NoSecondAttempt
<1>1. IInv /\ [Next]_vars => [~journal.active /\ journal'.active => fate[journal'.pkg] = "none"]_vars
  <2> SUFFICES ASSUME IInv, Next, ~journal.active, journal'.active
               PROVE fate[journal'.pkg] = "none"
    BY DEF vars
  <2>1. CASE BeginJournal
    BY <2>1 DEF BeginJournal, IInv, StageInv
  <2>2. CASE Intent \/ Prepared \/ Commit
    BY <2>2 DEF Intent, Prepared, Commit, IInv, JournalInv, Open, BeginPc
  <2>3. CASE CommitJournal \/ UndoJournal
    BY <2>3 DEF CommitJournal, UndoJournal, NoJournal
  <2>4. CASE journal' = journal
    BY <2>4
  <2> QED BY <2>1, <2>2, <2>3, <2>4 DEF Next, ManagerStep, disk, Start, Loop, Validate, Reject,
      RejectMove, IntentSkip, Backup, Replace, ReexecNew, Resume, Launch, LaunchFails,
      CommitResult, CommitStage, UndoRemove, UndoNext, UndoResult, UndoStage, Download,
      Authorize, CoreExit, Reap, ReexecOld, Abort, Signal, Fault, Crash
<1> QED BY <1>1, Invariance, PTL DEF Spec, NoSecondAttempt

(* Only Launch brings a core up.                                           *)
LEMMA CoreUp == ASSUME Next, core # "up", core' = "up" PROVE Launch
BY DEF Next, ManagerStep, Start, Loop, Validate, Reject, RejectMove, BeginJournal, Intent,
   IntentSkip, Backup, Replace, Prepared, ReexecNew, Resume, LaunchFails, Commit,
   CommitResult, CommitStage, CommitJournal, UndoRemove, UndoNext, UndoResult, UndoStage,
   UndoJournal, Download, Authorize, CoreExit, Reap, ReexecOld, Abort, Signal, Fault, Crash

(* launcher_posix.cpp:215-228: the directory a core is launched from is    *)
(* one whole release.                                                      *)
THEOREM WholeRelease == Spec => CoreStartsWhole
<1> DEFINE A == core # "up" /\ core' = "up" =>
       /\ live \in {Durable, Overlay(Durable, Offered)}
       /\ \A p \in Path : live[p] # Torn
<1>1. IInv /\ [Next]_vars => [A]_vars
  <2> SUFFICES ASSUME IInv, Next, core # "up", core' = "up" PROVE A
    BY DEF vars
  <2> USE ContentAssumption
  <2>1. Launch
    BY CoreUp
  <2>2. CASE installing
    <3>1. Open /\ (\A p \in Path : Moved(p)) /\ stagePkg = journal.pkg /\ stagePkg # 0
      BY <2>1, <2>2 DEF Launch, IInv, JournalInv, StageInv, PathInv
    <3>2. live \in [Path -> Content] /\ journal.pkg \in Package /\ journal.pkg \notin {Absent, Torn}
      BY <3>1 DEF IInv, TypeOK, TypeDisk, JournalInv, Open, Whole
    <3>3. ASSUME NEW p \in Path
          PROVE live[p] # Torn /\ live[p] = Overlay(Durable, Offered)[p]
      <4>1. Moved(p) /\ saved[p] \in Content
        BY <3>1 DEF IInv, TypeOK, TypeDisk
      <4>2. CASE journal.moves[p] = "no"
        <5>1. live[p] # Torn
          BY <4>2, <3>1 DEF IInv, PathInv
        <5> QED BY <5>1, <4>1, <4>2, <3>1 DEF Moved, Overlay, Durable, Offered, Restored, Open
      <4>3. CASE journal.moves[p] # "no"
        BY <4>1, <4>3, <3>1, <3>2 DEF Moved, Overlay, Durable, Offered, Restored, Open
      <4> QED BY <4>2, <4>3
    <3>4. live = Overlay(Durable, Offered)
      BY <3>2, <3>3 DEF Overlay
    <3> QED BY <3>3, <3>4
  <2>3. CASE ~installing
    <3>1. ~journal.active /\ live \in [Path -> Content]
      BY <2>1, <2>3 DEF Launch, IInv, JournalInv, TypeOK, TypeDisk
    <3> QED BY <3>1 DEF Durable, IInv, PathInv, Open
  <2> QED BY <2>2, <2>3
<1> QED BY <1>1, Invariance, PTL DEF Spec, CoreStartsWhole

-----------------------------------------------------------------------------
(* The refinement of AtomicInstall, one group of actions after the other.  *)

(* A step that leaves the disk alone is a stutter of AtomicInstall.        *)
LEMMA DiskStill ==
  ASSUME UNCHANGED <<live, stage, stagePkg, saved, fate, journal>>
  PROVE UNCHANGED <<Durable, Offered, Verdict>>
BY DEF Durable, Restored, Offered, Verdict

(* So is every step of begin(): recover() would take it back.              *)
LEMMA BeginStill ==
  ASSUME IInv, BeginJournal \/ Intent \/ Backup \/ Replace \/ Prepared
  PROVE UNCHANGED <<Durable, Offered, Verdict>>
<1> USE ContentAssumption
<1>1. CASE BeginJournal
  <2>1. journal = NoJournal /\ saved = NoFiles
    BY <1>1 DEF BeginJournal, IInv, JournalInv
  <2>2. ASSUME NEW p \in Path PROVE Durable'[p] = Durable[p] /\ Offered'[p] = Offered[p]
    BY <1>1, <2>1, <2>2 DEF BeginJournal, Durable, Restored, Offered, NoJournal, NoMoves, NoFiles
  <2>3. Durable' = Durable /\ Offered' = Offered
    BY <1>1, <2>1 DEF BeginJournal, Durable, Restored, Offered, NoJournal, NoMoves, NoFiles
  <2>4. Verdict' = Verdict
    BY <1>1 DEF BeginJournal, Verdict, IInv, StageInv, JournalInv, TypeOK, TypeDisk
  <2> QED BY <2>3, <2>4
<1>2. CASE Intent
  <2>1. at \in Path /\ stage[at] # Absent /\ Open /\ saved[at] = Absent /\ journal.moves[at] = "no"
    BY <1>2 DEF Intent, IInv, JournalInv, PathInv, BeginPc
  <2>2. /\ journal'.active = journal.active /\ journal'.committed = journal.committed
        /\ \A p \in Path : p # at => journal'.moves[p] = journal.moves[p]
        /\ journal'.moves[at] # "no"
    BY <1>2, <2>1 DEF Intent, IInv, TypeOK, TypeDisk
  <2>3. Durable' = Durable
    BY <1>2, <2>1, <2>2 DEF Intent, Durable, Restored, Open
  <2>4. Offered' = Offered
    BY <1>2, <2>1, <2>2 DEF Intent, Offered
  <2> QED BY <1>2, <2>3, <2>4 DEF Intent, Verdict
<1>3. CASE Backup
  <2>1. at \in Path /\ Open /\ saved[at] = Absent /\ journal.moves[at] # "no" /\ stage[at] # Absent
    BY <1>3 DEF Backup, IInv, TypeOK, TypeDisk, JournalInv, StageInv, PathInv, BeginPc, Whole
  <2>2. ASSUME NEW p \in Path PROVE Restored(p)' = Restored(p)
    BY <1>3, <2>1, <2>2 DEF Backup, Restored, IInv, TypeOK, TypeDisk
  <2> QED BY <1>3, <2>1, <2>2 DEF Backup, Durable, Offered, Verdict, Open
<1>4. CASE Replace
  <2>1. at \in Path /\ Open /\ live[at] = Absent /\ journal.moves[at] # "no"
        /\ (journal.moves[at] = "old" <=> saved[at] # Absent)
    BY <1>4 DEF Replace, IInv, JournalInv, PathInv, BeginPc
  <2>2. ASSUME NEW p \in Path PROVE Restored(p)' = Restored(p)
    BY <1>4, <2>1, <2>2 DEF Replace, Restored, IInv, TypeOK, TypeDisk
  <2>3. Offered' = Offered
    BY <1>4, <2>1 DEF Replace, Offered, IInv, TypeOK, TypeDisk
  <2> QED BY <1>4, <2>1, <2>2, <2>3 DEF Replace, Durable, Verdict, Open
<1>5. CASE Prepared
  BY <1>5 DEF Prepared, Durable, Restored, Offered, Verdict, IInv, TypeOK, TypeDisk
<1> QED BY <1>1, <1>2, <1>3, <1>4, <1>5

(* So are the steps of recover() other than the one that discards the      *)
(* failed package.                                                         *)
LEMMA RecoverStill ==
  ASSUME IInv, CommitStage \/ CommitJournal \/ UndoRemove \/ UndoNext \/ UndoJournal
  PROVE UNCHANGED <<Durable, Offered, Verdict>>
<1> USE ContentAssumption
<1>1. CASE CommitStage
  <2>1. journal.committed
    BY <1>1 DEF CommitStage, IInv, JournalInv, CommitPc
  <2> QED BY <1>1, <2>1 DEF CommitStage, Durable, Offered, Verdict
<1>2. CASE CommitJournal
  <2>1. journal.committed /\ stagePkg = 0
    BY <1>2 DEF CommitJournal, IInv, JournalInv, StageInv, CommitPc
  <2> QED BY <1>2, <2>1 DEF CommitJournal, Durable, Offered, Verdict, NoJournal
<1>3. CASE UndoRemove
  <2>1. at \in Path /\ Open /\ MustRemove(at) /\ journal.moves[at] # "no"
    BY <1>3 DEF UndoRemove, IInv, JournalInv, UndoPc
  <2>2. ASSUME NEW p \in Path PROVE Restored(p)' = Restored(p)
    BY <1>3, <2>1, <2>2 DEF UndoRemove, MustRemove, Restored, IInv, TypeOK, TypeDisk
  <2> QED BY <1>3, <2>1, <2>2 DEF UndoRemove, Durable, Offered, Verdict, Open
<1>4. CASE UndoNext
  <2>1. Open /\ \A p \in Path : journal.moves[p] # "old" => saved[p] = Absent
    BY <1>4 DEF UndoNext, IInv, JournalInv, PathInv, UndoPc
  <2>2. ASSUME NEW p \in Path PROVE Restored(p)' = Restored(p)
    BY <1>4, <2>1, <2>2 DEF UndoNext, Restored, IInv, TypeOK, TypeDisk
  <2> QED BY <1>4, <2>1, <2>2 DEF UndoNext, Durable, Offered, Verdict, Open
<1>5. CASE UndoJournal
  <2>1. Open /\ stagePkg = 0 /\ \A p \in Path : Undone(p)
    BY <1>5 DEF UndoJournal, IInv, JournalInv, StageInv, PathInv, UndoPc
  <2>2. ASSUME NEW p \in Path PROVE Restored(p) = live[p]
    BY <2>1, <2>2 DEF Undone, Restored, IInv, TypeOK, TypeDisk
  <2> QED BY <1>5, <2>1, <2>2 DEF UndoJournal, Durable, Offered, Verdict, NoJournal, Open
<1> QED BY <1>1, <1>2, <1>3, <1>4, <1>5

(* Writing `committed` into the journal is the installation.               *)
LEMMA CommitInstalls == ASSUME IInv, Commit PROVE Atomic!Install(journal.pkg)
<1> USE ContentAssumption, PathAssumption
<1>1. Open /\ stagePkg = journal.pkg /\ stagePkg # 0 /\ fate[journal.pkg] = "begun"
      /\ (stage[Manager] # Absent \/ journal.moves[Manager] # "no")
      /\ journal.pkg \in Package /\ \A p \in Path : Moved(p)
  BY DEF Commit, IInv, JournalInv, StageInv, PathInv
<1>2. journal'.committed /\ journal'.active /\ journal'.moves = journal.moves
  BY <1>1 DEF Commit, IInv, TypeOK, TypeDisk, Open
<1>3. Offered[Manager] = journal.pkg
  BY <1>1 DEF Offered, Open
<1>4. Offered' = NoFiles
  BY <1>2 DEF Offered
<1>5. Verdict[journal.pkg] = "none" /\ Verdict' = [Verdict EXCEPT ![journal.pkg] = "installed"]
  BY <1>1 DEF Commit, Verdict, IInv, TypeOK, TypeDisk
<1>6. ASSUME NEW p \in Path
      PROVE live[p] = IF Offered[p] # Absent THEN Offered[p] ELSE Durable[p]
  BY <1>1, <1>6 DEF Moved, Offered, Durable, Restored, Open, Whole
<1>7. Durable' = [p \in Path |-> live[p]]
  BY <1>2 DEF Durable, Commit
<1> QED BY <1>3, <1>4, <1>5, <1>6, <1>7 DEF Atomic!Install, Atomic!Decide, Atomic!None, NoFiles

(* Discarding the failed package refuses it, or it was refused already.    *)
LEMMA UndoRefuses ==
  ASSUME IInv, UndoStage
  PROVE Atomic!Refuse(journal.pkg) \/ UNCHANGED <<Durable, Offered, Verdict>>
<1> USE ContentAssumption, PathAssumption
<1>1. Open /\ journal.pkg \in Package /\ journal' = journal /\ live' = live /\ saved' = saved
      /\ \A p \in Path : Undone(p)
  <2>1. pc = "undoStage" /\ journal' = journal /\ live' = live /\ saved' = saved
    BY DEF UndoStage
  <2>2. Open /\ journal.pkg \in Package
    BY <2>1 DEF IInv, JournalInv, UndoPc, Open
  <2>3. \A p \in Path : Undone(p)
    BY <2>1 DEF IInv, PathInv
  <2> QED BY <2>1, <2>2, <2>3
<1>2. ASSUME NEW p \in Path PROVE Restored(p) = live[p] /\ Restored(p)' = live[p]
  BY <1>1, <1>2 DEF Undone, Restored, UndoStage, IInv, TypeOK, TypeDisk
<1>3. Durable' = Durable
  BY <1>1, <1>2 DEF Durable, Open
<1>4. Offered' = NoFiles
  BY DEF Offered, UndoStage
<1>5. CASE stagePkg = 0
  <2>1. fate' = fate
    BY <1>1, <1>5 DEF UndoStage, IInv, StageInv, TypeOK, TypeDisk
  <2> QED BY <1>3, <1>4, <1>5, <2>1 DEF Offered, Verdict
<1>6. CASE stagePkg # 0
  <2>1. Offered[Manager] = journal.pkg /\ fate[journal.pkg] = "begun"
    BY <1>1, <1>6 DEF Offered, IInv, StageInv, Open
  <2>2. Verdict[journal.pkg] = "none" /\ Verdict' = [Verdict EXCEPT ![journal.pkg] = "rolledback"]
    BY <1>1, <2>1 DEF UndoStage, Verdict, IInv, TypeOK, TypeDisk
  <2> QED BY <1>3, <1>4, <2>1, <2>2 DEF Atomic!Refuse, Atomic!Decide, Atomic!None, NoFiles
<1> QED BY <1>5, <1>6

(* A package whose files do not start is refused without a transaction.    *)
LEMMA RejectRefuses == ASSUME IInv, RejectMove PROVE Atomic!Refuse(stagePkg)
<1> USE ContentAssumption, PathAssumption
<1>1. journal = NoJournal /\ stagePkg \in Package /\ fate[stagePkg] = "none" /\ stage[Manager] # Absent
  BY DEF RejectMove, IInv, JournalInv, StageInv, TypeOK, TypeDisk
<1>2. Offered[Manager] = stagePkg /\ Offered' = NoFiles
  BY <1>1 DEF Offered, RejectMove, NoJournal, Package
<1>3. Durable' = Durable
  BY <1>1 DEF Durable, RejectMove, NoJournal
<1>4. Verdict[stagePkg] = "none" /\ Verdict' = [Verdict EXCEPT ![stagePkg] = "rejected"]
  BY <1>1 DEF RejectMove, Verdict, IInv, TypeOK, TypeDisk
<1> QED BY <1>2, <1>3, <1>4 DEF Atomic!Refuse, Atomic!Decide, Atomic!None, NoFiles

(* Staging a download offers it.                                           *)
LEMMA DownloadOffers == ASSUME IInv, Download PROVE Atomic!Offer(issued + 1)
<1> USE ContentAssumption, PathAssumption, BoundAssumption
<1>1. journal = NoJournal /\ issued + 1 \in Package /\ fate[issued + 1] = "none"
  BY DEF Download, IInv, JournalInv, StageInv, TypeOK, TypeProcess, Package
<1>2. Durable' = Durable /\ Verdict' = Verdict /\ Verdict[issued + 1] = "none"
  BY <1>1 DEF Download, Durable, Verdict, NoJournal
<1>3. stage' \in [Path -> {issued + 1, Absent}] /\ stage'[Manager] # Absent /\ stagePkg' = issued + 1 /\ stagePkg' # 0
  BY <1>1 DEF Download, Whole, Package
<1>4. Offered' = stage'
  BY <1>1, <1>3 DEF Offered, NoJournal, NoMoves, Download
<1> QED BY <1>2, <1>3, <1>4 DEF Atomic!Offer, Atomic!None

(* posix_update.h:181-193, 214-257: the journalled replacement is atomic and *)
(* durable: it implements a one-step installation.                         *)
THEOREM InstallationIsAtomic == Spec => AtomicInstallation
<1>1. Init => Atomic!Init
  BY ContentAssumption DEF Init, Atomic!Init, Durable, Offered, Verdict, NoFiles, NoJournal,
        NoMoves, Atomic!None
<1>2. IInv /\ [Next]_vars => [Atomic!Next]_(Atomic!avars)
  <2> SUFFICES ASSUME IInv, [Next]_vars PROVE Atomic!Next \/ UNCHANGED <<Durable, Offered, Verdict>>
    BY DEF Atomic!avars
  <2>1. CASE Commit
    BY <2>1, CommitInstalls DEF Atomic!Next, Commit, IInv, JournalInv, Open
  <2>2. CASE UndoStage
    BY <2>2, UndoRefuses DEF Atomic!Next, UndoStage, IInv, JournalInv, UndoPc, Open
  <2>3. CASE RejectMove
    BY <2>3, RejectRefuses DEF Atomic!Next, RejectMove, IInv, StageInv, TypeOK, TypeDisk
  <2>4. CASE Download
    <3>1. issued + 1 \in Package
      BY <2>4, BoundAssumption DEF Download, Package, IInv, TypeOK, TypeProcess
    <3> QED BY <2>4, <3>1, DownloadOffers DEF Atomic!Next
  <2>5. CASE BeginJournal \/ Intent \/ Backup \/ Replace \/ Prepared
    BY <2>5, BeginStill
  <2>6. CASE CommitStage \/ CommitJournal \/ UndoRemove \/ UndoNext \/ UndoJournal
    BY <2>6, RecoverStill
  <2>7. CASE UNCHANGED <<live, stage, stagePkg, saved, fate, journal>>
    BY <2>7, DiskStill
  <2> QED BY <2>1, <2>2, <2>3, <2>4, <2>5, <2>6, <2>7 DEF Next, ManagerStep, disk, vars, Start,
      Loop, Validate, Reject, IntentSkip, ReexecNew, Resume, Launch, LaunchFails,
      CommitResult, UndoResult, Authorize, CoreExit, Reap, ReexecOld, Abort, Signal, Fault,
      Crash
<1> QED BY <1>1, <1>2, Invariance, PTL DEF Spec, AtomicInstallation, Atomic!Spec

=============================================================================
