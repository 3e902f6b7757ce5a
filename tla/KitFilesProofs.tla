--------------------------- MODULE KitFilesProofs ---------------------------
(***************************************************************************)
(* What the commands on a kit checkout keep, for any skills, builds,       *)
(* recipes, refs and invocations.  The three parts of KitFiles share a     *)
(* next-state relation only: each lemma of a part is about the steps of    *)
(* that part, and everything else leaves its variables alone.              *)
(***************************************************************************)
EXTENDS KitFiles, SequenceTheorems, TLAPS

(* The steps of each part.                                                 *)
InstallStep(i) ==
  \/ \E force, update \in BOOLEAN : StartInstall(i, force, update)
  \/ Stage(i) \/ MoveAside(i) \/ Place(i) \/ PlaceFails(i) \/ Restore(i)
  \/ RestoreFails(i) \/ CopyFails(i) \/ KillInstall(i)
SkillStep ==
  \/ \E i \in Installer : InstallStep(i)
  \/ \E s \in Skill, f \in Own, link \in BOOLEAN : Edit(s, f, link)
  \/ \E b \in Build : Upgrade(b)

RepinnerStep(p) ==
  \/ \E ref \in Ref, dry, tag \in BOOLEAN : StartRepin(p, ref, dry, tag)
  \/ ReadPyproject(p) \/ ReadWorkflow(p) \/ WritePyproject(p) \/ WriteWorkflow(p)
  \/ Resolve(p) \/ Stops(p) \/ WriteCutShort(p)
EmitStep == EmitPyproject \/ EmitWorkflow
RepinStep ==
  \/ \E p \in Repinner : RepinnerStep(p)
  \/ \E f \in File, r \in Ref, form \in {"std", "odd"} :
       AuthorWrites(f, [pins[f] EXCEPT ![form] = {r}])
  \/ EmitStep

OracleStep(o) ==
  \/ StartFreeze(o) \/ Baseline(o) \/ Second(o) \/ Third(o) \/ Final(o)
  \/ Truncate(o) \/ Bless(o) \/ StartGate(o) \/ GateRun(o) \/ Judge(o) \/ KillOracle(o)
GoldenStep ==
  \/ \E o \in Oracle : OracleStep(o)
  \/ \E r \in Recipes : Recook(r)

NewStep ==
  \/ \E ref \in Ref, force \in BOOLEAN : StartNew(ref, force)
  \/ EmitStep \/ EmitSeed \/ KillNew
  \/ \E o \in Oracle : NewFreezes(o) \/ NewEnds(o)

LEMMA StepParts ==
  ASSUME [Next]_vars
  PROVE  /\ SkillStep \/ UNCHANGED skillVars
         /\ RepinStep \/ UNCHANGED repinVars
         /\ GoldenStep \/ UNCHANGED goldenVars
         /\ NewStep \/ UNCHANGED scaffold
<1> USE DEF SkillStep, InstallStep, RepinStep, RepinnerStep, GoldenStep, OracleStep,
            NewStep, EmitStep
<1>1. CASE Starts /\ UNCHANGED <<occupied, scaffold>>
  BY <1>1 DEF Starts
<1>2. CASE Steps /\ UNCHANGED <<occupied, scaffold>>
  BY <1>2 DEF Steps
<1>3. CASE Trouble /\ UNCHANGED <<occupied, scaffold>>
  BY <1>3 DEF Trouble
<1>4. CASE TheAuthor /\ UNCHANGED <<occupied, scaffold>>
  BY <1>4 DEF TheAuthor
<1>5. CASE \E ref \in Ref, force \in BOOLEAN : StartNew(ref, force)
  BY <1>5 DEF StartNew
<1>6. CASE EmitPyproject \/ EmitWorkflow
  BY <1>6, WritersAssumption DEF EmitPyproject, EmitWorkflow, Emit
<1>7. CASE EmitSeed
  BY <1>7, WritersAssumption DEF EmitSeed
<1>8. CASE KillNew
  BY <1>8 DEF KillNew
<1>9. CASE \E o \in Oracle : NewFreezes(o) \/ NewEnds(o)
  BY <1>9 DEF NewFreezes, NewEnds
<1>10. CASE UNCHANGED vars
  BY <1>10 DEF vars
<1> QED
  BY <1>1, <1>2, <1>3, <1>4, <1>5, <1>6, <1>7, <1>8, <1>9, <1>10 DEF Next


---------------------------------------------------------------------------
(* Skills.                                                                 *)

(* A directory is never the absence of one.                                *)
LEMMA DirectoryPresent == \A d \in Directory : d # Absent /\ d.files \in Files
<1>1. ASSUME NEW d \in Directory PROVE "files" \in DOMAIN d /\ d.files \in Files
  BY DEF Directory
<1>2. "files" \notin DOMAIN Absent
  BY DEF Absent
<1> QED
  BY <1>1, <1>2

LEMMA FreshDirectory ==
  ASSUME SkillTypeOK, NEW s \in Skill
  PROVE  Fresh(s) \in Directory
BY DEF SkillTypeOK, Fresh, Directory, Receipt, Files

LEMMA EndedType ==
  ASSUME NEW how \in Over
  PROVE  Ended(how) \in Invocation
BY NamesAssumption DEF Ended, Idle, Invocation, Over

LEMMA InvocationUpdates ==
  ASSUME NEW j \in Invocation
  PROVE  /\ \A a \in {"next", "staged", "moved", "restoring"} :
              [j EXCEPT !.at = a] \in Invocation
         /\ \A q \in Seq(Skill) : [j EXCEPT !.todo = q] \in Invocation
         /\ \A d \in Directory \cup {Absent} :
              [j EXCEPT !.staged = d] \in Invocation /\ [j EXCEPT !.old = d] \in Invocation
BY DEF Invocation

LEMMA DirectoryUpdate ==
  ASSUME NEW d \in Directory, NEW f \in Files, NEW link \in BOOLEAN
  PROVE  [d EXCEPT !.files = f, !.link = link] \in Directory
<1>1. [d EXCEPT !.files = f] \in Directory
  BY DEF Directory
<1> QED
  BY <1>1 DEF Directory

(* An install between its renames has a skill to put in place.             *)
Halfway(i) == installer[i].at \in {"staged", "moved", "restoring"}
SkillInv ==
  /\ SkillTypeOK
  /\ \A i \in Installer :
       /\ Halfway(i) => installer[i].todo # <<>>
       /\ installer[i].at \in {"staged", "moved"} => installer[i].staged # Absent
       /\ installer[i].at = "restoring" => installer[i].old # Absent

LEMMA TargetType ==
  ASSUME SkillInv, NEW i \in Installer, Halfway(i)
  PROVE  Target(i) \in Skill /\ Tail(installer[i].todo) \in Seq(Skill)
BY HeadTailProperties DEF SkillInv, SkillTypeOK, Target, Invocation

LEMMA SkillTypes ==
  ASSUME SkillInv, SkillStep
  PROVE  SkillTypeOK'
<1> USE DEF SkillInv, SkillTypeOK
<1>1. ASSUME NEW i \in Installer, NEW force \in BOOLEAN, NEW update \in BOOLEAN,
             StartInstall(i, force, update)
      PROVE  SkillTypeOK'
  <2>1. [s \in Skill |-> Status(s)] \in
          [Skill -> {"missing", "unmanaged", "locally-modified", "stale", "current"}]
    BY DEF Status
  <2>2. [Idle EXCEPT !.at = "next", !.force = force, !.update = update,
                     !.seen = [s \in Skill |-> Status(s)]] \in Invocation
    BY <2>1, NamesAssumption DEF Idle, Invocation
  <2> QED
    BY <1>1, <2>2, EndedType DEF StartInstall, Over
<1>2. ASSUME NEW i \in Installer, Stage(i)
      PROVE  SkillTypeOK'
  <2>1. CASE installer[i].todo = <<>>
    BY <1>2, <2>1, EndedType DEF Stage, Over
  <2>2. CASE installer[i].todo # <<>>
    <3>1. Target(i) \in Skill /\ Tail(installer[i].todo) \in Seq(Skill)
      BY <2>2, HeadTailProperties DEF Target, Invocation
    <3>2. Fresh(Target(i)) \in Directory
      BY <3>1, FreshDirectory
    <3>3. CASE Current(i)
      BY <1>2, <2>2, <3>1, <3>3, InvocationUpdates DEF Stage
    <3>4. CASE ~Current(i)
      <4>1. [installer[i] EXCEPT !.at = "staged"] \in Invocation
        BY InvocationUpdates
      <4>2. [installer[i] EXCEPT !.at = "staged", !.staged = Fresh(Target(i))] \in Invocation
        BY <3>2, <4>1, InvocationUpdates
      <4> QED
        BY <1>2, <2>2, <3>4, <4>2 DEF Stage
    <3> QED
      BY <3>3, <3>4
  <2> QED
    BY <2>1, <2>2
<1>3. ASSUME NEW i \in Installer, MoveAside(i)
      PROVE  SkillTypeOK'
  <2>1. Target(i) \in Skill
    BY <1>3, TargetType DEF MoveAside, Halfway
  <2>2. installed[Target(i)] \in Directory \cup {Absent}
    BY <2>1
  <2>3. installer' \in [Installer -> Invocation]
    <3>1. [installer[i] EXCEPT !.at = "moved"] \in Invocation
      BY InvocationUpdates
    <3>2. [installer EXCEPT ![i].at = "moved"] \in [Installer -> Invocation]
      BY <3>1
    <3>3. [[installer[i] EXCEPT !.at = "moved"] EXCEPT !.old = installed[Target(i)]] \in Invocation
      BY <2>2, <3>1, InvocationUpdates
    <3> QED
      BY <1>3, <3>2, <3>3 DEF MoveAside
  <2>4. installed' \in [Skill -> Directory \cup {Absent}]
        /\ backups' \in [Skill -> SUBSET Directory]
    <3>1. CASE installed[Target(i)] = Absent
      BY <1>3, <3>1 DEF MoveAside
    <3>2. CASE installed[Target(i)] # Absent
      <4>1. Backed(Target(i), installed[Target(i)]) \in SUBSET Directory
        BY <2>1, <2>2, <3>2 DEF Backed
      <4> QED
        BY <1>3, <3>2, <4>1 DEF MoveAside
    <3> QED
      BY <3>1, <3>2
  <2> QED
    BY <1>3, <2>3, <2>4 DEF MoveAside
<1>4. ASSUME NEW i \in Installer, Place(i)
      PROVE  SkillTypeOK'
  <2>1. Target(i) \in Skill /\ Tail(installer[i].todo) \in Seq(Skill)
    BY <1>4, TargetType DEF Place, Halfway
  <2>2. installer' \in [Installer -> Invocation]
    BY <1>4, <2>1, InvocationUpdates DEF Place
  <2>3. installer[i].staged \in Directory \cup {Absent}
    BY DEF Invocation
  <2> QED
    BY <1>4, <2>1, <2>2, <2>3 DEF Place
<1>5. ASSUME NEW i \in Installer, PlaceFails(i)
      PROVE  SkillTypeOK'
  <2>1. AfterFailedPlace(i) \in Invocation
    BY EndedType, InvocationUpdates DEF AfterFailedPlace, Over
  <2> QED
    BY <1>5, <2>1 DEF PlaceFails
<1>6. ASSUME NEW i \in Installer, Restore(i)
      PROVE  SkillTypeOK'
  <2>1. installer[i].old \in Directory \cup {Absent}
    BY DEF Invocation
  <2> QED
    BY <1>6, <2>1, EndedType DEF Restore, Over
<1>7. ASSUME NEW i \in Installer, RestoreFails(i) \/ CopyFails(i) \/ KillInstall(i)
      PROVE  SkillTypeOK'
  <2>1. PICK how \in {"raised", "killed"} : Stop(i, how)
    BY <1>7 DEF RestoreFails, CopyFails, KillInstall
  <2>2. Strands(i) => Target(i) \in Skill
    BY TargetType DEF Strands, Halfway
  <2> QED
    BY <2>1, <2>2, EndedType DEF Stop, Over
<1>8. ASSUME NEW s \in Skill, NEW f \in Own, NEW link \in BOOLEAN, Edit(s, f, link)
      PROVE  SkillTypeOK'
  <2>1. CASE installed[s] = Absent
    BY <1>8, <2>1 DEF Edit, Directory, Files
  <2>2. CASE installed[s] # Absent
    <3>1. [installed[s] EXCEPT !.files = f, !.link = link] \in Directory
      <4>1. installed[s] \in Directory /\ f \in Files
        BY <2>2 DEF Files
      <4> QED
        BY <4>1, DirectoryUpdate
    <3>2. installed' \in [Skill -> Directory \cup {Absent}]
      BY <1>8, <2>2, <3>1 DEF Edit
    <3> QED
      BY <1>8, <3>2 DEF Edit
  <2> QED
    BY <2>1, <2>2
<1>9. ASSUME NEW b \in Build, Upgrade(b)
      PROVE  SkillTypeOK'
  BY <1>9 DEF Upgrade
<1> QED
  BY <1>1, <1>2, <1>3, <1>4, <1>5, <1>6, <1>7, <1>8, <1>9 DEF SkillStep, InstallStep

LEMMA SkillInvStep ==
  ASSUME SkillInv, SkillStep
  PROVE  SkillInv'
<1> DEFINE Whole(j) == /\ j.at \in {"staged", "moved", "restoring"} => j.todo # <<>>
                       /\ j.at \in {"staged", "moved"} => j.staged # Absent
                       /\ j.at = "restoring" => j.old # Absent
<1>1. SkillTypeOK /\ SkillTypeOK' /\ \A j \in Installer : Whole(installer[j])
  BY SkillTypes DEF SkillInv, Halfway
<1>2. SUFFICES \A j \in Installer : Whole(installer'[j])
  BY <1>1 DEF SkillInv, Halfway
<1>3. \A how \in Over : Whole(Ended(how))
  BY DEF Ended, Idle, Over
<1>4. ASSUME NEW i \in Installer, NEW new, installer' = [installer EXCEPT ![i] = new],
             Whole(new)
      PROVE  \A j \in Installer : Whole(installer'[j])
  BY <1>1, <1>4 DEF SkillTypeOK
<1>5. ASSUME NEW i \in Installer, NEW force \in BOOLEAN, NEW update \in BOOLEAN,
             StartInstall(i, force, update)
      PROVE  \A j \in Installer : Whole(installer'[j])
  <2>1. Whole([Idle EXCEPT !.at = "next", !.force = force, !.update = update,
                           !.seen = [s \in Skill |-> Status(s)]])
    BY DEF Idle
  <2> QED
    BY <1>3, <1>4, <1>5, <2>1 DEF StartInstall, Over
<1>6. ASSUME NEW i \in Installer, Stage(i)
      PROVE  \A j \in Installer : Whole(installer'[j])
  <2>1. installer[i] \in Invocation /\ installer[i].at = "next"
    BY <1>1, <1>6 DEF Stage, SkillTypeOK
  <2>2. Whole([installer[i] EXCEPT !.todo = Tail(installer[i].todo)])
    BY <2>1 DEF Invocation
  <2>3. CASE installer[i].todo # <<>>
    <3>1. Fresh(Target(i)) # Absent
      <4>1. Target(i) \in Skill
        BY <2>1, <2>3, HeadTailProperties DEF Target, Invocation
      <4> QED
        BY <1>1, <4>1, FreshDirectory, DirectoryPresent
    <3>2. Whole([installer[i] EXCEPT !.at = "staged", !.staged = Fresh(Target(i))])
      BY <2>1, <2>3, <3>1 DEF Invocation
    <3> QED
      BY <1>4, <1>6, <2>2, <2>3, <3>2 DEF Stage
  <2> QED
    BY <1>3, <1>4, <1>6, <2>3 DEF Stage, Over
<1>7. ASSUME NEW i \in Installer, MoveAside(i)
      PROVE  \A j \in Installer : Whole(installer'[j])
  <2>1. installer[i] \in Invocation /\ installer[i].at = "staged"
    BY <1>1, <1>7 DEF MoveAside, SkillTypeOK
  <2>2. Whole([[installer[i] EXCEPT !.at = "moved"] EXCEPT !.old = installed[Target(i)]])
    BY <1>1, <2>1 DEF Invocation
  <2>3. installer' = [installer EXCEPT ![i] =
          [[installer[i] EXCEPT !.at = "moved"] EXCEPT !.old = installed[Target(i)]]]
    BY <1>1, <1>7 DEF MoveAside, SkillTypeOK
  <2> QED
    BY <1>4, <2>2, <2>3
<1>8. ASSUME NEW i \in Installer, Place(i)
      PROVE  \A j \in Installer : Whole(installer'[j])
  <2>1. installer[i] \in Invocation
    BY <1>1 DEF SkillTypeOK
  <2>2. Whole([[installer[i] EXCEPT !.at = "next"] EXCEPT !.todo = Tail(installer[i].todo)])
    BY <2>1 DEF Invocation
  <2>3. installer' = [installer EXCEPT ![i] =
          [[installer[i] EXCEPT !.at = "next"] EXCEPT !.todo = Tail(installer[i].todo)]]
    BY <1>1, <1>8 DEF Place, SkillTypeOK
  <2> QED
    BY <1>4, <2>2, <2>3
<1>9. ASSUME NEW i \in Installer, PlaceFails(i)
      PROVE  \A j \in Installer : Whole(installer'[j])
  <2>1. installer[i] \in Invocation /\ installer[i].at = "moved"
    BY <1>1, <1>9 DEF PlaceFails, SkillTypeOK
  <2>2. Whole(AfterFailedPlace(i))
    BY <1>1, <1>3, <2>1 DEF AfterFailedPlace, Over, Invocation
  <2> QED
    BY <1>4, <1>9, <2>2 DEF PlaceFails
<1>10. ASSUME NEW i \in Installer, Restore(i)
       PROVE  \A j \in Installer : Whole(installer'[j])
  BY <1>3, <1>4, <1>10 DEF Restore, Over
<1>11. ASSUME NEW i \in Installer, RestoreFails(i) \/ CopyFails(i) \/ KillInstall(i)
       PROVE  \A j \in Installer : Whole(installer'[j])
  BY <1>3, <1>4, <1>11 DEF RestoreFails, CopyFails, KillInstall, Stop, Over
<1>12. CASE UNCHANGED installer
  BY <1>1, <1>12
<1> QED
  BY <1>5, <1>6, <1>7, <1>8, <1>9, <1>10, <1>11, <1>12 DEF SkillStep, InstallStep, Edit,
     Upgrade

(* A copy leaves its place for a backup, and a backup for its place.       *)
LEMMA EditsKeptStep ==
  ASSUME SkillInv, EditsKept, SkillStep
  PROVE  EditsKept'
<1> DEFINE Safe(a) == \/ installed[a[1]] # Absent /\ installed[a[1]].files = a[2]
                      \/ \E d \in backups[a[1]] : d.files = a[2]
<1>1. SkillTypeOK /\ \A a \in authored : Safe(a) /\ a[1] \in Skill
  BY DEF SkillInv, SkillTypeOK, EditsKept
<1>2. ASSUME NEW i \in Installer, MoveAside(i)
      PROVE  EditsKept'
  <2>1. Target(i) \in Skill
    BY <1>2, TargetType DEF MoveAside, Halfway
  <2>2. ASSUME NEW a \in authored PROVE Safe(a)'
    BY <1>1, <1>2, <2>1 DEF MoveAside, Backed, SkillTypeOK
  <2> QED
    BY <1>2, <2>2 DEF EditsKept, MoveAside
<1>3. ASSUME NEW i \in Installer, Place(i)
      PROVE  EditsKept'
  <2>1. Target(i) \in Skill
    BY <1>3, TargetType DEF Place, Halfway
  <2>2. ASSUME NEW a \in authored PROVE Safe(a)'
    BY <1>1, <1>3, <2>1 DEF Place, SkillTypeOK
  <2> QED
    BY <1>3, <2>2 DEF EditsKept, Place
<1>4. ASSUME NEW i \in Installer, Restore(i)
      PROVE  EditsKept'
  <2>1. Target(i) \in Skill
    BY <1>4, TargetType DEF Restore, Halfway
  <2>2. installer[i].old # Absent
    BY <1>4 DEF SkillInv, Restore
  <2>3. ASSUME NEW a \in authored PROVE Safe(a)'
    BY <1>1, <1>4, <2>1, <2>2 DEF Restore, SkillTypeOK
  <2> QED
    BY <1>4, <2>3 DEF EditsKept, Restore
<1>5. ASSUME NEW s \in Skill, NEW f \in Own, NEW link \in BOOLEAN, Edit(s, f, link)
      PROVE  EditsKept'
  <2>1. installed'[s] \in Directory /\ installed'[s].files = f
    <3>1. CASE installed[s] = Absent
      BY <1>1, <1>5, <3>1 DEF Edit, SkillTypeOK, Directory, Files
    <3>2. CASE installed[s] # Absent
      <4>1. installed[s] \in Directory /\ f \in Files
        BY <1>1, <3>2 DEF SkillTypeOK, Files
      <4>2. [installed[s] EXCEPT !.files = f, !.link = link].files = f
        BY <4>1 DEF Directory
      <4> QED
        BY <1>1, <1>5, <3>2, <4>1, <4>2, DirectoryUpdate DEF Edit, SkillTypeOK
    <3> QED
      BY <3>1, <3>2
  <2>2. Safe(<<s, f>>)'
    BY <2>1, DirectoryPresent
  <2>3. ASSUME NEW a \in authored,
               a[1] # s \/ installed[s] = Absent \/ a[2] # installed[s].files
        PROVE  Safe(a)'
    BY <1>1, <1>5, <2>3 DEF Edit, SkillTypeOK
  <2> QED
    BY <1>5, <2>2, <2>3 DEF EditsKept, Edit
<1>6. CASE UNCHANGED <<installed, backups, authored>>
  BY <1>6 DEF EditsKept
<1> QED
  BY <1>2, <1>3, <1>4, <1>5, <1>6 DEF SkillStep, InstallStep, StartInstall, Stage,
     PlaceFails, RestoreFails, CopyFails, KillInstall, Stop, Upgrade

(* Only MoveAside empties a place, and the install that did is between its *)
(* renames until it fills it again, or is stopped and leaves it stranded.  *)
LEMMA StillInstalledStep ==
  ASSUME SkillInv, StillInstalled, SkillStep
  PROVE  StillInstalled'
<1> DEFINE Gone(s) == installed[s] = Absent /\ backups[s] # {}
           Known(s) == s \in stranded \/ \E i \in Installer : Strands(i) /\ Target(i) = s
<1>1. SkillTypeOK /\ \A s \in Skill : Gone(s) => Known(s)
  BY DEF SkillInv, StillInstalled
<1>2. SUFFICES ASSUME NEW s \in Skill, Gone(s)' PROVE Known(s)'
  BY DEF StillInstalled
<1>3. ASSUME NEW i \in Installer, ~Strands(i), stranded' = stranded,
             \A j \in Installer \ {i} : installer'[j] = installer[j],
             UNCHANGED <<installed, backups>>
      PROVE  Known(s)'
  BY <1>1, <1>2, <1>3 DEF Strands, Target
<1>4. ASSUME NEW i \in Installer, MoveAside(i)
      PROVE  Known(s)'
  <2>1. Target(i) \in Skill /\ installer[i] \in Invocation /\ ~Strands(i)
    BY <1>1, <1>4, TargetType DEF MoveAside, Halfway, Strands, SkillTypeOK
  <2>2. \A j \in Installer \ {i} : installer'[j] = installer[j]
    BY <1>1, <1>4 DEF MoveAside, SkillTypeOK
  <2>3. CASE installed[Target(i)] = Absent
    BY <1>3, <1>4, <2>1, <2>2, <2>3 DEF MoveAside
  <2>4. CASE installed[Target(i)] # Absent /\ s = Target(i)
    <3>1. installer'[i] = [[installer[i] EXCEPT !.at = "moved"]
                             EXCEPT !.old = installed[Target(i)]]
      BY <1>1, <1>4 DEF MoveAside, SkillTypeOK
    <3>2. installer'[i].at = "moved" /\ installer'[i].old = installed[Target(i)]
          /\ installer'[i].todo = installer[i].todo
      BY <2>1, <3>1 DEF Invocation
    <3> QED
      BY <2>4, <3>2 DEF Strands, Target
  <2>5. CASE installed[Target(i)] # Absent /\ s # Target(i)
    <3>1. Gone(s)
      BY <1>1, <1>2, <1>4, <2>1, <2>5 DEF MoveAside, SkillTypeOK
    <3> QED
      BY <1>1, <1>4, <2>1, <2>2, <3>1 DEF MoveAside, Strands, Target
  <2> QED
    BY <2>3, <2>4, <2>5
<1>5. ASSUME NEW i \in Installer, Place(i) \/ Restore(i)
      PROVE  Known(s)'
  <2>1. Target(i) \in Skill
    BY <1>5, TargetType DEF Place, Restore, Halfway
  <2>2. s # Target(i)
    BY <1>1, <1>2, <1>5, <2>1 DEF Place, Restore, SkillInv, SkillTypeOK
  <2>3. Gone(s)
    BY <1>1, <1>2, <1>5, <2>1, <2>2 DEF Place, Restore, SkillTypeOK
  <2>4. \A j \in Installer \ {i} : installer'[j] = installer[j]
    BY <1>1, <1>5 DEF Place, Restore, SkillTypeOK
  <2> QED
    BY <1>1, <1>5, <2>2, <2>3, <2>4 DEF Place, Restore, Strands, Target
<1>6. ASSUME NEW i \in Installer, PlaceFails(i)
      PROVE  Known(s)'
  <2>1. Gone(s) /\ installer[i] \in Invocation
    BY <1>1, <1>2, <1>6 DEF PlaceFails, SkillTypeOK
  <2>2. installer'[i] = AfterFailedPlace(i)
        /\ \A j \in Installer \ {i} : installer'[j] = installer[j]
    BY <1>1, <1>6 DEF PlaceFails, SkillTypeOK
  <2>3. Strands(i) => Strands(i)' /\ Target(i)' = Target(i)
    BY <2>1, <2>2 DEF Strands, Target, AfterFailedPlace, Invocation
  <2> QED
    BY <1>1, <1>6, <2>1, <2>2, <2>3 DEF PlaceFails, Strands, Target
<1>7. ASSUME NEW i \in Installer, RestoreFails(i) \/ CopyFails(i) \/ KillInstall(i)
      PROVE  Known(s)'
  <2>1. PICK how \in {"raised", "killed"} : Stop(i, how)
    BY <1>7 DEF RestoreFails, CopyFails, KillInstall
  <2>2. Gone(s)
    BY <1>2, <2>1 DEF Stop
  <2>3. \A j \in Installer \ {i} : installer'[j] = installer[j]
    BY <1>1, <2>1 DEF Stop, SkillTypeOK
  <2> QED
    BY <1>1, <2>1, <2>2, <2>3 DEF Stop, Strands, Target
<1>8. ASSUME NEW i \in Installer, NEW force \in BOOLEAN, NEW update \in BOOLEAN,
             StartInstall(i, force, update)
      PROVE  Known(s)'
  BY <1>1, <1>3, <1>8 DEF StartInstall, Over, Strands, SkillTypeOK
<1>9. ASSUME NEW i \in Installer, Stage(i)
      PROVE  Known(s)'
  BY <1>1, <1>3, <1>9 DEF Stage, Strands, SkillTypeOK
<1>10. ASSUME NEW t \in Skill, NEW f \in Own, NEW link \in BOOLEAN, Edit(t, f, link)
       PROVE  Known(s)'
  <2>1. installed'[t] # Absent
    <3>1. CASE installed[t] = Absent
      <4>1. [files |-> f, receipt |-> NoReceipt, link |-> link] \in Directory
        BY DEF Directory, Files
      <4> QED
        BY <1>1, <1>10, <3>1, <4>1, DirectoryPresent DEF Edit, SkillTypeOK
    <3>2. CASE installed[t] # Absent
      <4>1. installed[t] \in Directory /\ f \in Files
        BY <1>1, <3>2 DEF SkillTypeOK, Files
      <4> QED
        BY <1>1, <1>10, <3>2, <4>1, DirectoryUpdate, DirectoryPresent DEF Edit, SkillTypeOK
    <3> QED
      BY <3>1, <3>2
  <2> QED
    BY <1>1, <1>2, <1>10, <2>1 DEF Edit, Strands, Target, SkillTypeOK
<1>11. ASSUME NEW b \in Build, Upgrade(b)
       PROVE  Known(s)'
  BY <1>1, <1>2, <1>11 DEF Upgrade, Strands, Target
<1> QED
  BY <1>4, <1>5, <1>6, <1>7, <1>8, <1>9, <1>10, <1>11 DEF SkillStep, InstallStep

---------------------------------------------------------------------------
(* Pins.                                                                   *)

(* Text that a repin did not refuse names its ref and no other.            *)
LEMMA RewrittenPins ==
  ASSUME NEW f \in Text, NEW ref \in Ref, ~Refuses(f, ref)
  PROVE  Rewritten(f, ref) \in Text /\ Visible(Rewritten(f, ref)) = {ref}
<1>1. f.std # {} /\ Rewritten(f, ref) = [f EXCEPT !.std = {ref}]
  BY DEF Refuses, Rewritten
<1>2. Rewritten(f, ref) \in Text /\ Rewritten(f, ref).std = {ref}
  BY <1>1 DEF Text
<1> QED
  BY <1>2 DEF Refuses, Stale, Visible

(* Where a repin is, what it has written and what it is about to.          *)
Half(p) ==
  /\ repin[p].at \in {"pyproject", "workflow", "write pyproject", "refused"} => wrote[p] = {}
  /\ repin[p].at = "write workflow" => wrote[p] = {"pyproject"}
  /\ repin[p].at \in {"resolve", "returned"} =>
       wrote[p] = (IF repin[p].dry THEN {} ELSE File)
  /\ repin[p].at \in {"write pyproject", "write workflow"} => ~repin[p].dry
  /\ repin[p].at \in {"workflow", "write pyproject", "write workflow"} =>
       Visible(repin[p].text["pyproject"]) = {repin[p].ref}
  /\ repin[p].at \in {"write pyproject", "write workflow"} =>
       Visible(repin[p].text["workflow"]) = {repin[p].ref}
Landed(p) ==
  repin[p].at # "crashed" =>
    \A f \in wrote[p] : writer[f] = p => Visible(pins[f]) = {repin[p].ref}
RepinInv ==
  /\ RepinTypeOK /\ writer \in [File -> Repinner \cup {Author, New}]
  /\ \A p \in Repinner : Half(p) /\ Landed(p)

LEMMA Landing == RepinInv => NeverHalfLands
BY DEF RepinInv, NeverHalfLands, Half, Landed

LEMMA CommandUpdates ==
  ASSUME NEW j \in Command
  PROVE  /\ \A a \in Resting \cup File \cup {"write pyproject", "write workflow", "resolve"} :
              [j EXCEPT !.at = a] \in Command
         /\ \A f \in File, t \in Text : [j EXCEPT !.text[f] = t] \in Command
         /\ \A a \in Answers \cup {"none"} : [j EXCEPT !.image = a] \in Command
BY DEF Command

(* A step of one repin, which leaves the others where they are.            *)
LEMMA OthersLand ==
  ASSUME RepinInv, NEW p \in Repinner, NEW new \in Command,
         repin' = [repin EXCEPT ![p] = new],
         \A q \in Repinner \ {p} : wrote'[q] = wrote[q],
         \A f \in File : writer'[f] # p => writer'[f] = writer[f] /\ pins'[f] = pins[f]
  PROVE  \A q \in Repinner \ {p} : (Half(q) /\ Landed(q))'
<1>1. \A q \in Repinner \ {p} : repin'[q] = repin[q]
  BY DEF RepinInv, RepinTypeOK
<1>2. \A q \in Repinner : wrote[q] \subseteq File
  BY DEF RepinInv, RepinTypeOK
<1>3. SUFFICES ASSUME NEW q \in Repinner \ {p} PROVE Half(q)' /\ Landed(q)'
  OBVIOUS
<1>4. Half(q) /\ Landed(q) /\ repin'[q] = repin[q] /\ wrote'[q] = wrote[q]
  BY <1>1 DEF RepinInv
<1>5. Half(q)'
  BY <1>4 DEF Half
<1>6. Landed(q)'
  BY <1>2, <1>4 DEF Landed
<1> QED
  BY <1>5, <1>6

LEMMA StartRepinStep ==
  ASSUME RepinInv, NEW p \in Repinner, NEW ref \in Ref, NEW dry \in BOOLEAN,
         NEW tag \in BOOLEAN, StartRepin(p, ref, dry, tag)
  PROVE  RepinInv'
<1> DEFINE new == [Fallow EXCEPT !.ref = ref, !.dry = dry, !.tag = tag,
                     !.at = IF ref \in Tag /\ complete THEN "pyproject" ELSE "refused"]
<1>1. new \in Command /\ new.at \in {"pyproject", "refused"}
  BY DEF Fallow, Command, Resting, File, Text, Empty
<1>2. repin' = [repin EXCEPT ![p] = new] /\ wrote' = [wrote EXCEPT ![p] = {}]
  BY DEF StartRepin
<1>3. RepinTypeOK' /\ writer' \in [File -> Repinner \cup {Author, New}]
  BY <1>1, <1>2 DEF StartRepin, RepinInv, RepinTypeOK
<1>4. repin'[p] = new /\ wrote'[p] = {} /\ \A q \in Repinner \ {p} : wrote'[q] = wrote[q]
  BY <1>2 DEF RepinInv, RepinTypeOK
<1>5. (Half(p) /\ Landed(p))'
  BY <1>1, <1>4 DEF Half, Landed
<1>6. \A q \in Repinner \ {p} : (Half(q) /\ Landed(q))'
  BY <1>1, <1>2, <1>4, OthersLand DEF StartRepin
<1> QED
  BY <1>3, <1>5, <1>6 DEF RepinInv

LEMMA ReadFileStep ==
  ASSUME RepinInv, NEW p \in Repinner, ReadPyproject(p) \/ ReadWorkflow(p)
  PROVE  RepinInv'
<1> DEFINE f == IF repin[p].at = "pyproject" THEN "pyproject" ELSE "workflow"
           next == IF f = "pyproject" THEN "workflow" ELSE AfterWorkflow(p)
           at == IF Refuses(pins[f], repin[p].ref) THEN "refused" ELSE next
           text == Rewritten(pins[f], repin[p].ref)
           new == [[repin[p] EXCEPT !.at = at] EXCEPT !.text[f] = text]
<1>1. repin[p].at = f /\ repin[p] \in Command /\ pins[f] \in Text /\ f \in File
  BY DEF ReadPyproject, ReadWorkflow, ReadFile, RepinInv, RepinTypeOK, File
<1>2. repin' = [repin EXCEPT ![p] = new] /\ UNCHANGED <<pins, complete, writer, wrote>>
  <2>1. CASE ReadPyproject(p)
    BY <2>1 DEF ReadPyproject, ReadFile, RepinInv, RepinTypeOK
  <2>2. CASE ReadWorkflow(p)
    BY <2>2 DEF ReadWorkflow, ReadFile, RepinInv, RepinTypeOK
  <2> QED
    BY <2>1, <2>2
<1>3. repin[p].ref \in Ref /\ repin[p].dry \in BOOLEAN
  BY <1>1 DEF Command
<1>4. at \in {"refused", "workflow", "write pyproject", "resolve"}
  BY <1>1 DEF AfterWorkflow
<1>5. text \in Text
  BY <1>1, <1>3 DEF Rewritten, Text
<1>6. new \in Command
  <2>1. [repin[p] EXCEPT !.at = at] \in Command
    BY <1>1, <1>4, CommandUpdates DEF Resting, File
  <2> QED
    BY <1>1, <1>5, <2>1, CommandUpdates
<1>7. /\ new.at = at /\ new.text = [repin[p].text EXCEPT ![f] = text]
      /\ new.ref = repin[p].ref /\ new.dry = repin[p].dry
  BY <1>1 DEF Command
<1>8. repin'[p] = new
  BY <1>2 DEF RepinInv, RepinTypeOK
<1>9. Half(p)'
  <2>1. CASE f = "pyproject"
    <3>1. wrote[p] = {}
      BY <1>1, <2>1 DEF RepinInv, Half
    <3>2. at \in {"refused", "workflow"}
      BY <2>1
    <3>3. at = "workflow" => Visible(new.text["pyproject"]) = {new.ref}
      BY <1>1, <1>3, <1>7, <2>1, RewrittenPins DEF Command
    <3> QED
      BY <1>2, <1>7, <1>8, <3>1, <3>2, <3>3 DEF Half
  <2>2. CASE f = "workflow"
    <3>1. wrote[p] = {} /\ Visible(repin[p].text["pyproject"]) = {repin[p].ref}
      BY <1>1, <2>2 DEF RepinInv, Half
    <3>2. at \in {"refused", "write pyproject", "resolve"}
          /\ (at = "write pyproject" => ~new.dry) /\ (at = "resolve" => new.dry)
      BY <1>7, <2>2 DEF AfterWorkflow
    <3>3. at = "write pyproject" =>
            /\ Visible(new.text["workflow"]) = {new.ref}
            /\ Visible(new.text["pyproject"]) = {new.ref}
      BY <1>1, <1>3, <1>7, <2>2, <3>1, RewrittenPins DEF Command, File
    <3> QED
      BY <1>2, <1>7, <1>8, <3>1, <3>2, <3>3 DEF Half
  <2> QED
    BY <2>1, <2>2
<1>10. Landed(p)'
  BY <1>1, <1>2, <1>7, <1>8 DEF RepinInv, Landed, File
<1>11. \A q \in Repinner \ {p} : (Half(q) /\ Landed(q))'
  BY <1>2, <1>6, OthersLand
<1> QED
  BY <1>2, <1>6, <1>9, <1>10, <1>11 DEF RepinInv, RepinTypeOK

LEMMA WritesStep ==
  ASSUME RepinInv, NEW p \in Repinner, NEW f \in File, NEW text \in Text,
         NEW next \in {"write workflow", "resolve", "crashed"}, Writes(p, f, text, next),
         next # "crashed" => /\ repin[p].at = (IF f = "pyproject" THEN "write pyproject"
                                                ELSE "write workflow")
                             /\ text = repin[p].text[f]
                             /\ next = (IF f = "pyproject" THEN "write workflow"
                                        ELSE "resolve")
  PROVE  RepinInv'
<1> DEFINE new == [repin[p] EXCEPT !.at = next]
<1>1. repin[p] \in Command /\ wrote[p] \subseteq File
  BY DEF RepinInv, RepinTypeOK
<1>2. /\ repin' = [repin EXCEPT ![p] = new] /\ new \in Command
      /\ new.at = next /\ new.text = repin[p].text /\ new.ref = repin[p].ref
      /\ new.dry = repin[p].dry
  BY <1>1, CommandUpdates DEF Writes, Resting, Command
<1>3. /\ RepinTypeOK' /\ writer' \in [File -> Repinner \cup {Author, New}]
  BY <1>2 DEF Writes, RepinInv, RepinTypeOK
<1>4. /\ repin'[p] = new /\ wrote'[p] = wrote[p] \cup {f}
      /\ pins'[f] = text /\ writer'[f] = p
      /\ \A q \in Repinner \ {p} : wrote'[q] = wrote[q]
      /\ \A g \in File \ {f} : pins'[g] = pins[g] /\ writer'[g] = writer[g]
  BY <1>2 DEF Writes, RepinInv, RepinTypeOK
<1>5. CASE next # "crashed"
  <2>1. Half(p) /\ Landed(p)
    BY DEF RepinInv
  <2>2. repin[p].at \in {"write pyproject", "write workflow"} /\ Visible(text) = {repin[p].ref}
    BY <1>5, <2>1 DEF Half, File
  <2>3. Half(p)'
    BY <1>2, <1>4, <1>5, <2>1 DEF Half, File
  <2>4. Landed(p)'
    BY <1>1, <1>2, <1>4, <1>5, <2>1, <2>2 DEF Landed
  <2> QED
    BY <2>3, <2>4, <1>2, <1>3, <1>4, OthersLand DEF RepinInv
<1>6. CASE next = "crashed"
  <2>1. (Half(p) /\ Landed(p))'
    BY <1>2, <1>4, <1>6 DEF Half, Landed
  <2> QED
    BY <2>1, <1>2, <1>3, <1>4, OthersLand DEF RepinInv
<1> QED
  BY <1>5, <1>6

LEMMA RepinInvStep ==
  ASSUME RepinInv, RepinStep, scaffold.ref \in Ref
  PROVE  RepinInv'
<1> USE DEF RepinInv, RepinTypeOK
<1>1. ASSUME NEW p \in Repinner, WritePyproject(p) \/ WriteWorkflow(p) \/ WriteCutShort(p)
      PROVE  RepinInv'
  <2>1. repin[p] \in Command
    OBVIOUS
  <2>2. \A f \in File : repin[p].text[f] \in Text
    BY <2>1 DEF Command
  <2>3. Empty \in Text
    BY DEF Empty, Text
  <2> QED
    BY <1>1, <2>2, <2>3, WritesStep DEF WritePyproject, WriteWorkflow, WriteCutShort, File
<1>2. ASSUME NEW p \in Repinner, Resolve(p)
      PROVE  RepinInv'
  <2>1. PICK a \in Answers \cup {"none"}, at \in {"crashed", "returned"} :
          repin' = [repin EXCEPT ![p] = [[repin[p] EXCEPT !.image = a] EXCEPT !.at = at]]
    BY <1>2 DEF Resolve
  <2> DEFINE new == [[repin[p] EXCEPT !.image = a] EXCEPT !.at = at]
  <2>2. new \in Command
    <3>1. [repin[p] EXCEPT !.image = a] \in Command
      BY CommandUpdates
    <3> QED
      BY <3>1, CommandUpdates DEF Resting
  <2>3. /\ new.at = at /\ new.dry = repin[p].dry /\ new.ref = repin[p].ref
        /\ repin'[p] = new
    BY <2>1 DEF Command
  <2>4. Half(p)'
    BY <1>2, <2>3 DEF Half, Resolve
  <2>5. Landed(p)'
    BY <1>2, <2>3 DEF Landed, Resolve
  <2>6. \A q \in Repinner \ {p} : (Half(q) /\ Landed(q))'
    BY <1>2, <2>1, <2>2, OthersLand DEF Resolve
  <2> QED
    BY <1>2, <2>1, <2>2, <2>4, <2>5, <2>6 DEF Resolve
<1>3. ASSUME NEW p \in Repinner, Stops(p)
      PROVE  RepinInv'
  <2> DEFINE new == [repin[p] EXCEPT !.at = "crashed"]
  <2>1. new \in Command /\ new.at = "crashed" /\ repin' = [repin EXCEPT ![p] = new]
    <3>1. repin[p] \in Command
      OBVIOUS
    <3>2. new \in Command
      BY <3>1, CommandUpdates DEF Resting
    <3> QED
      BY <1>3, <3>1, <3>2 DEF Stops, Command
  <2>2. (Half(p) /\ Landed(p))'
    BY <2>1 DEF Half, Landed
  <2>3. \A q \in Repinner \ {p} : (Half(q) /\ Landed(q))'
    BY <1>3, <2>1, OthersLand DEF Stops
  <2> QED
    BY <1>3, <2>1, <2>2, <2>3 DEF Stops
<1>4. ASSUME NEW f \in File, NEW text \in Text, NEW who \in {Author, New},
             pins' = [pins EXCEPT ![f] = text], writer' = [writer EXCEPT ![f] = who],
             complete' \in BOOLEAN, UNCHANGED <<repin, wrote>>
      PROVE  RepinInv'
  <2>1. \A p \in Repinner : p # who
    BY AuthorAssumption, WritersAssumption
  <2>2. \A p \in Repinner : Half(p)'
    BY <1>4 DEF Half
  <2>3. \A p \in Repinner : Landed(p)'
    BY <1>4, <2>1 DEF Landed
  <2> QED
    BY <1>4, <2>2, <2>3
<1>5. ASSUME NEW f \in File, NEW r \in Ref, NEW form \in {"std", "odd"},
             AuthorWrites(f, [pins[f] EXCEPT ![form] = {r}])
      PROVE  RepinInv'
  <2>1. [pins[f] EXCEPT ![form] = {r}] \in Text
    BY DEF Text
  <2> QED
    BY <1>4, <1>5, <2>1 DEF AuthorWrites
<1>6. CASE EmitStep
  <2>1. [std |-> {scaffold.ref}, odd |-> {}] \in Text
    BY DEF Text
  <2>2. complete' \in BOOLEAN
    BY <1>6 DEF EmitStep, EmitPyproject, EmitWorkflow
  <2> QED
    BY <1>4, <1>6, <2>1, <2>2 DEF EmitStep, EmitPyproject, EmitWorkflow, Emit, File
<1> QED
  BY <1>1, <1>2, <1>3, <1>5, <1>6, StartRepinStep, ReadFileStep DEF RepinStep, RepinnerStep

---------------------------------------------------------------------------
(* Goldens.                                                                *)

(* What an invocation holds came from the recipe it runs under, if that    *)
(* was one recipe, and what it will write from the one it noted.           *)
Sampled(o) ==
  LET r == oracle[o].under IN
  /\ oracle[o].at \notin AtRest /\ r # Mixed => r = recipe
  /\ oracle[o].at \in {"second", "third", "final", "bless", "writing"} =>
       oracle[o].baseline \in Spool
  /\ oracle[o].at \in {"bless", "writing", "compare"} => oracle[o].fresh \in Spool
  /\ oracle[o].at \in {"bless", "writing"} =>
       /\ oracle[o].cooked # Mixed
       /\ oracle[o].fresh \in Outcomes(oracle[o].cooked, 0)
  /\ r # Mixed =>
       /\ oracle[o].at \in {"second", "third", "final", "bless", "writing"} =>
            oracle[o].baseline \in Outcomes(r, 0)
       /\ oracle[o].at \in {"third", "final", "bless", "writing"} =>
            oracle[o].baseline \in Outcomes(r, 1)
       /\ oracle[o].at \in {"final", "bless", "writing"} =>
            oracle[o].baseline \in Outcomes(r, 2)
       /\ oracle[o].at \in {"bless", "writing", "compare"} =>
            oracle[o].fresh \in Outcomes(r, 0)
GoldenInv ==
  /\ GoldenTypeOK /\ OracleHonest /\ (golden \notin Spool => blessed = Mixed)
  /\ \A o \in Oracle : Sampled(o) /\ (oracle[o].at = "blessed" => golden # NoSpool)

(* A run that ends with a Spool of a recipe that repeats itself ends with  *)
(* the only one, and was not stopped by the block.                         *)
LEMMA OnlySpool ==
  ASSUME NEW r, NEW h, Repeats(r, h), NEW s \in Spool, s \in Outcomes(r, h)
  PROVE  r.spool[h] = {s} /\ \A d \in r.dials : Denied(d) => d.caught
<1>1. s # "blocked" /\ s # "failed"
  BY SpoolAssumption
<1>2. s \in r.spool[h] /\ ~\E d \in {d \in r.dials : ~d.caught} : Denied(d)
  BY <1>1, Zenon DEF Outcomes
<1> QED
  BY <1>2, Zenon DEF Repeats

LEMMA OracleMoves ==
  ASSUME GoldenInv, NEW o \in Oracle, NEW new \in Run,
         oracle' = [oracle EXCEPT ![o] = new], UNCHANGED <<recipe, golden, blessed, sampled>>,
         Sampled(o)', new.at # "blessed",
         new.at = "differs" /\ new.under # Mixed /\ Repeats(new.under, 0) =>
           new.baseline = Torn \/ new.cooked # new.under
  PROVE  GoldenInv'
<1>1. oracle'[o] = new /\ \A q \in Oracle \ {o} : oracle'[q] = oracle[q]
  BY DEF GoldenInv, GoldenTypeOK
<1>2. GoldenTypeOK'
  BY DEF GoldenInv, GoldenTypeOK
<1>3. OracleHonest'
  BY <1>1 DEF GoldenInv, OracleHonest, CallsSteadyDifferent
<1>4. \A q \in Oracle : Sampled(q)'
  BY <1>1 DEF GoldenInv, Sampled
<1> QED
  BY <1>1, <1>2, <1>3, <1>4 DEF GoldenInv

LEMMA RunUpdates ==
  ASSUME NEW j \in Run
  PROVE  \A a \in AtRest \cup {"baseline", "second", "third", "final", "bless",
                             "writing", "gate", "compare"} :
           /\ [j EXCEPT !.at = a] \in Run
           /\ [j EXCEPT !.at = a].at = a
           /\ [j EXCEPT !.at = a].baseline = j.baseline
           /\ [j EXCEPT !.at = a].fresh = j.fresh
           /\ [j EXCEPT !.at = a].under = j.under
           /\ [j EXCEPT !.at = a].cooked = j.cooked
BY DEF Run

(* One run of the seed, and the step it is part of: `step` is where the    *)
(* invocation goes on from with a Spool.                                   *)
LEMMA OutcomeTypes ==
  ASSUME NEW r \in Recipes, NEW h \in HashSeed, NEW out \in Outcomes(r, h)
  PROVE  out \in Spool \cup {"blocked", "failed"}
<1>1. r.spool[h] \subseteq Spool
  BY RecipeAssumption DEF Recipe
<1> QED
  BY <1>1 DEF Outcomes

LEMMA Materializes ==
  ASSUME GoldenInv, NEW o \in Oracle, NEW h \in HashSeed, NEW then,
         oracle[o].at \in {"baseline", "second", "third", "final", "gate"},
         Materialize(o, h, then),
         \A out \in Spool \cap Outcomes(recipe, h) :
           /\ then[out] \in Run
           /\ then[out].under = oracle[o].under
           /\ then[out].at \notin {"blessed", "differs"}
           /\ oracle'[o] = then[out] => Sampled(o)'
  PROVE  GoldenInv'
<1>1. PICK out \in Outcomes(recipe, h) : oracle' = [oracle EXCEPT ![o] =
         IF out \in Spool THEN then[out] ELSE [oracle[o] EXCEPT !.at = out]]
  BY DEF Materialize
<1>2. UNCHANGED <<recipe, golden, blessed, sampled>> /\ oracle[o] \in Run
  BY DEF Materialize, GoldenInv, GoldenTypeOK
<1>3. CASE out \in Spool
  <2>1. oracle' = [oracle EXCEPT ![o] = then[out]]
    BY <1>1, <1>3
  <2>2. oracle'[o] = then[out]
    BY <2>1 DEF GoldenInv, GoldenTypeOK
  <2> QED
    BY <1>2, <1>3, <2>1, <2>2, OracleMoves
<1>4. CASE out \notin Spool
  <2>1. out \in {"blocked", "failed"}
    BY <1>4, OutcomeTypes DEF GoldenInv, GoldenTypeOK
  <2> DEFINE new == [oracle[o] EXCEPT !.at = out]
  <2>2. new \in Run /\ new.at = out /\ oracle' = [oracle EXCEPT ![o] = new]
    BY <1>1, <1>2, <1>4, <2>1, RunUpdates DEF AtRest, Verdicts
  <2>3. oracle'[o] = new
    BY <2>2 DEF GoldenInv, GoldenTypeOK
  <2>4. Sampled(o)'
    BY <2>1, <2>2, <2>3 DEF Sampled, AtRest, Verdicts
  <2> QED
    BY <1>2, <2>1, <2>2, <2>4, OracleMoves
<1> QED
  BY <1>3, <1>4

LEMMA StartsOracle ==
  ASSUME GoldenInv, NEW o \in Oracle, StartFreeze(o) \/ StartGate(o)
  PROVE  GoldenInv'
<1>1. PICK at \in {"baseline", "missing", "gate"} : oracle' = [oracle EXCEPT ![o] =
        [Unused EXCEPT !.at = at, !.under = recipe]]
  BY DEF StartFreeze, StartGate
<1> DEFINE new == [Unused EXCEPT !.at = at, !.under = recipe]
<1>2. new \in Run /\ new.at = at /\ new.under = recipe
  BY DEF Unused, Run, AtRest, Verdicts, GoldenInv, GoldenTypeOK
<1>3. oracle'[o] = new /\ oracle' = [oracle EXCEPT ![o] = new]
  BY <1>1 DEF GoldenInv, GoldenTypeOK
<1>4. Sampled(o)'
  BY <1>2, <1>3 DEF Sampled, StartFreeze, StartGate
<1>5. UNCHANGED <<recipe, golden, blessed, sampled>>
  BY DEF StartFreeze, StartGate
<1> HIDE DEF new
<1> QED
  BY <1>2, <1>3, <1>4, <1>5, OracleMoves

LEMMA BaselineStep ==
  ASSUME GoldenInv, NEW o \in Oracle, Baseline(o)
  PROVE  GoldenInv'
<1> DEFINE then == [out \in Spool |-> [oracle[o] EXCEPT !.at = "second", !.baseline = out]]
<1>1. /\ oracle[o] \in Run /\ Sampled(o) /\ oracle[o].at = "baseline"
      /\ Materialize(o, 0, then) /\ UNCHANGED recipe /\ 0 \in HashSeed
  <2>1. oracle[o] \in Run /\ Sampled(o)
    BY DEF GoldenInv, GoldenTypeOK
  <2>2. oracle[o].at = "baseline" /\ Materialize(o, 0, then)
    BY DEF Baseline
  <2> HIDE DEF then
  <2>3. UNCHANGED recipe
    BY <2>2 DEF Materialize
  <2>4. 0 \in HashSeed
    BY DEF HashSeed
  <2> QED
    BY <2>1, <2>2, <2>3, <2>4
<1>2. ASSUME NEW out \in Spool \cap Outcomes(recipe, 0)
      PROVE  /\ then[out] \in Run /\ then[out].under = oracle[o].under
             /\ then[out].at \notin {"blessed", "differs"}
             /\ oracle'[o] = then[out] => Sampled(o)'
  <2>1. /\ then[out].at = "second" /\ then[out].baseline = out
        /\ then[out].under = oracle[o].under /\ then[out] \in Run
    <3>1. then[out] = [oracle[o] EXCEPT !.at = "second", !.baseline = out]
      OBVIOUS
    <3> HIDE DEF then
    <3> QED
      BY <1>1, <3>1 DEF Run
  <2> HIDE DEF then
  <2>3. ASSUME oracle'[o] = then[out] PROVE Sampled(o)'
    BY <1>1, <2>1, <2>3 DEF Sampled, AtRest, Verdicts
  <2> QED
    BY <2>1, <2>3
<1> HIDE DEF then
<1> QED
  BY <1>1, <1>2, Materializes

LEMMA ComparedStep ==
  ASSUME GoldenInv, NEW o \in Oracle, Second(o) \/ Third(o)
  PROVE  GoldenInv'
<1>1. PICK h \in {1, 2}, next \in {"third", "final"} :
        /\ oracle[o].at = (IF h = 1 THEN "second" ELSE "third")
        /\ next = (IF h = 1 THEN "third" ELSE "final")
        /\ Materialize(o, h, [out \in Spool |-> Compared(o, out, next)])
  BY DEF Second, Third
<1> DEFINE then == [out \in Spool |-> Compared(o, out, next)]
<1>2. oracle[o] \in Run /\ Sampled(o) /\ UNCHANGED recipe /\ h \in HashSeed
  BY <1>1 DEF Materialize, GoldenInv, GoldenTypeOK, HashSeed
<1>3. ASSUME NEW out \in Spool \cap Outcomes(recipe, h)
      PROVE  /\ then[out] \in Run /\ then[out].under = oracle[o].under
             /\ then[out].at \notin {"blessed", "differs"}
             /\ oracle'[o] = then[out] => Sampled(o)'
  <2>1. /\ then[out].at = IF out = oracle[o].baseline THEN next ELSE "not repeatable"
        /\ then[out].baseline = oracle[o].baseline
        /\ then[out].under = oracle[o].under /\ then[out] \in Run
    <3>1. then[out] = Compared(o, out, next)
      OBVIOUS
    <3> HIDE DEF then
    <3> QED
      BY <1>2, <3>1 DEF Compared, Run, AtRest, Verdicts
  <2> HIDE DEF then
  <2>3. ASSUME oracle'[o] = then[out], out = oracle[o].baseline PROVE Sampled(o)'
    <3>1. /\ oracle'[o].at = next /\ oracle'[o].baseline = out
          /\ oracle'[o].under = oracle[o].under
      BY <2>1, <2>3
    <3> QED
      BY <1>1, <1>2, <2>3, <3>1 DEF Sampled, AtRest, Verdicts
  <2>4. ASSUME oracle'[o] = then[out], out # oracle[o].baseline PROVE Sampled(o)'
    <3>1. oracle'[o].at = "not repeatable"
      BY <2>1, <2>4
    <3> QED
      BY <3>1 DEF Sampled, AtRest, Verdicts
  <2>5. then[out].at \in {"third", "final", "not repeatable"}
    BY <2>1
  <2> QED
    BY <2>1, <2>3, <2>4, <2>5
<1> HIDE DEF then
<1>4. Materialize(o, h, then)
  BY <1>1 DEF then
<1> QED
  BY <1>1, <1>2, <1>3, <1>4, Materializes

LEMMA FinalStep ==
  ASSUME GoldenInv, NEW o \in Oracle, Final(o)
  PROVE  GoldenInv'
<1> DEFINE then == [out \in Spool |->
             [oracle[o] EXCEPT !.at = "bless", !.fresh = out, !.cooked = recipe]]
<1>1. /\ oracle[o] \in Run /\ Sampled(o) /\ oracle[o].at = "final"
      /\ recipe \in Recipes /\ Mixed \notin Recipes /\ 0 \in HashSeed
  <2>1. oracle[o] \in Run /\ Sampled(o) /\ recipe \in Recipes
    BY DEF GoldenInv, GoldenTypeOK
  <2>2. oracle[o].at = "final"
    BY DEF Final
  <2> QED
    BY <2>1, <2>2, SpoolAssumption DEF HashSeed
<1>2. Materialize(o, 0, then)
  BY DEF Final
<1>3. \A out \in Spool :
        /\ then[out].at = "bless" /\ then[out].baseline = oracle[o].baseline
        /\ then[out].fresh = out /\ then[out].under = oracle[o].under
        /\ then[out] \in Run
        /\ then[out].cooked = recipe
  BY <1>1 DEF Run
<1> HIDE DEF then
<1>4. UNCHANGED recipe
  BY <1>2 DEF Materialize
<1>5. ASSUME NEW out \in Spool \cap Outcomes(recipe, 0), oracle'[o] = then[out]
      PROVE  Sampled(o)'
  <2>1. /\ oracle'[o].at = "bless" /\ oracle'[o].baseline = oracle[o].baseline
        /\ oracle'[o].fresh = out /\ oracle'[o].under = oracle[o].under
        /\ oracle'[o].cooked = recipe
    BY <1>3, <1>5
  <2> QED
    BY <1>1, <1>4, <2>1 DEF Sampled, AtRest, Verdicts
<1> QED
  BY <1>1, <1>2, <1>3, <1>5, Materializes

LEMMA GateRunStep ==
  ASSUME GoldenInv, NEW o \in Oracle, GateRun(o)
  PROVE  GoldenInv'
<1> DEFINE then == [out \in Spool |->
             [oracle[o] EXCEPT !.at = "compare", !.fresh = out]]
<1>1. /\ oracle[o] \in Run /\ Sampled(o) /\ oracle[o].at = "gate"
      /\ recipe \in Recipes /\ Mixed \notin Recipes /\ 0 \in HashSeed
  <2>1. oracle[o] \in Run /\ Sampled(o) /\ recipe \in Recipes
    BY DEF GoldenInv, GoldenTypeOK
  <2>2. oracle[o].at = "gate"
    BY DEF GateRun
  <2> QED
    BY <2>1, <2>2, SpoolAssumption DEF HashSeed
<1>2. Materialize(o, 0, then)
  BY DEF GateRun
<1>3. \A out \in Spool :
        /\ then[out].at = "compare" /\ then[out].baseline = oracle[o].baseline
        /\ then[out].fresh = out /\ then[out].under = oracle[o].under
        /\ then[out] \in Run
  BY <1>1 DEF Run
<1> HIDE DEF then
<1>4. UNCHANGED recipe
  BY <1>2 DEF Materialize
<1>5. ASSUME NEW out \in Spool \cap Outcomes(recipe, 0), oracle'[o] = then[out]
      PROVE  Sampled(o)'
  <2>1. /\ oracle'[o].at = "compare" /\ oracle'[o].baseline = oracle[o].baseline
        /\ oracle'[o].fresh = out /\ oracle'[o].under = oracle[o].under
    BY <1>3, <1>5
  <2> QED
    BY <1>1, <1>4, <2>1 DEF Sampled, AtRest, Verdicts
<1> QED
  BY <1>1, <1>2, <1>3, <1>5, Materializes

(* The steps that may write the golden: a freeze truncates it and writes   *)
(* it, and a kill leaves it as it was then.                                *)
LEMMA WritesGolden ==
  ASSUME GoldenInv, NEW o \in Oracle, Truncate(o) \/ Bless(o) \/ KillOracle(o)
  PROVE  GoldenInv'
<1> DEFINE r == oracle[o].under
<1>1. PICK at \in {"writing", "blessed", "killed"} :
        /\ oracle' = [oracle EXCEPT ![o] = [oracle[o] EXCEPT !.at = at]]
        /\ UNCHANGED recipe
        /\ at = "writing" => oracle[o].at = "bless"
        /\ \/ UNCHANGED <<golden, blessed, sampled>> /\ at = "killed"
           \/ LeftShort
           \/ WrittenWhole(o) /\ oracle[o].at = "writing"
  BY Zenon DEF Truncate, Bless, KillOracle
<1>2. oracle[o] \in Run /\ Sampled(o)
  BY DEF GoldenInv, GoldenTypeOK
<1> DEFINE new == [oracle[o] EXCEPT !.at = at]
<1>3. /\ new \in Run /\ new.at = at /\ new.baseline = oracle[o].baseline
      /\ new.fresh = oracle[o].fresh /\ new.under = r
      /\ new.cooked = oracle[o].cooked
  BY <1>2, RunUpdates DEF AtRest, Verdicts
<1>4. /\ oracle'[o] = new /\ oracle' \in [Oracle -> Run]
      /\ \A q \in Oracle \ {o} : oracle'[q] = oracle[q]
  BY <1>1, <1>3 DEF GoldenInv, GoldenTypeOK
<1>5. Torn # NoSpool /\ Torn \notin Spool /\ NoSpool \notin Spool
  BY SpoolAssumption DEF Torn, NoSpool
<1>6. /\ golden' \in Spool \cup {NoSpool, Torn} /\ blessed' \in Recipes \cup {Mixed}
      /\ sampled' \in Recipes \cup {Mixed} /\ (at = "blessed" => golden' # NoSpool)
      /\ (golden # NoSpool => golden' # NoSpool)
  BY <1>1, <1>2, <1>5 DEF LeftShort, WrittenWhole, Sampled, Run, GoldenInv, GoldenTypeOK
<1>7. GoldenTypeOK'
  BY <1>1, <1>4, <1>6 DEF GoldenInv, GoldenTypeOK
<1>8. ASSUME WrittenWhole(o), oracle[o].at = "writing"
      PROVE  /\ golden' \in Spool /\ blessed' # Mixed /\ golden' \in Outcomes(blessed', 0)
             /\ sampled' # Mixed /\ Settled(sampled') =>
                  /\ \A h \in HashSeed : sampled'.spool[h] = {golden'}
                  /\ \A d \in sampled'.dials : Denied(d) => d.caught
  <2>1. /\ golden' = oracle[o].fresh /\ blessed' = oracle[o].cooked /\ sampled' = r
    BY <1>8 DEF WrittenWhole
  <2>2. ASSUME r # Mixed, Settled(r)
        PROVE  /\ \A h \in HashSeed : r.spool[h] = {oracle[o].fresh}
               /\ \A d \in r.dials : Denied(d) => d.caught
    <3>1. /\ oracle[o].baseline \in Spool /\ oracle[o].fresh \in Spool
          /\ oracle[o].fresh \in Outcomes(r, 0)
          /\ \A h \in HashSeed : oracle[o].baseline \in Outcomes(r, h)
      BY <1>2, <1>8, <2>2 DEF Sampled, HashSeed
    <3>2. \A h \in HashSeed : Repeats(r, h)
      BY <2>2 DEF Settled
    <3>3. \A h \in HashSeed : r.spool[h] = {oracle[o].baseline}
      BY <3>1, <3>2, OnlySpool
    <3>4. 0 \in HashSeed
      BY DEF HashSeed
    <3>5. /\ r.spool[0] = {oracle[o].fresh}
          /\ \A d \in r.dials : Denied(d) => d.caught
      BY <3>1, <3>2, <3>4, OnlySpool
    <3>6. oracle[o].fresh = oracle[o].baseline
      BY <3>3, <3>4, <3>5
    <3> QED
      BY <3>3, <3>5, <3>6
  <2> QED
    BY <1>2, <1>8, <2>1, <2>2 DEF Sampled
<1>9. OracleHonest'
  <2>1. \A q \in Oracle : CallsSteadyDifferent(q)' =>
          oracle'[q] = oracle[q] /\ CallsSteadyDifferent(q)
    BY <1>1, <1>3, <1>4 DEF CallsSteadyDifferent
  <2>2. CASE UNCHANGED <<golden, blessed, sampled>>
    BY <2>1, <2>2 DEF OracleHonest, GoldenInv
  <2>3. CASE LeftShort
    BY <1>5, <2>1, <2>3 DEF LeftShort, OracleHonest, GoldenInv
  <2>4. CASE WrittenWhole(o) /\ oracle[o].at = "writing"
    BY <1>8, <2>1, <2>4, Zenon DEF OracleHonest, GoldenInv
  <2> QED
    BY <1>1, <2>2, <2>3, <2>4
<1> HIDE DEF new
<1>10. Sampled(o)'
  <2>1. oracle'[o].at = at /\ oracle'[o].under = r /\ oracle'[o].cooked = oracle[o].cooked
        /\ oracle'[o].fresh = oracle[o].fresh /\ oracle'[o].baseline = oracle[o].baseline
    BY <1>3, <1>4
  <2>2. CASE at = "writing"
    BY <1>1, <1>2, <2>1, <2>2 DEF Sampled, AtRest, Verdicts
  <2>3. CASE at # "writing"
    BY <1>1, <2>1, <2>3 DEF Sampled, AtRest, Verdicts
  <2> QED
    BY <2>2, <2>3
<1>11. \A q \in Oracle \ {o} : Sampled(q)'
  BY <1>1, <1>4 DEF Sampled, GoldenInv
<1>12. \A q \in Oracle : oracle'[q].at = "blessed" => golden' # NoSpool
  BY <1>3, <1>4, <1>6 DEF GoldenInv
<1>13. golden' \notin Spool => blessed' = Mixed
  BY <1>1, <1>8 DEF LeftShort, GoldenInv
<1> QED
  BY <1>7, <1>9, <1>10, <1>11, <1>12, <1>13 DEF GoldenInv

LEMMA JudgeStep ==
  ASSUME GoldenInv, NEW o \in Oracle, Judge(o)
  PROVE  GoldenInv'
<1> DEFINE at == IF oracle[o].fresh = golden THEN "matches" ELSE "differs"
           under == oracle[o].under
           new == [oracle[o] EXCEPT !.at = at, !.baseline = golden, !.cooked = blessed]
<1>1. /\ oracle[o] \in Run /\ Sampled(o) /\ oracle[o].at = "compare"
      /\ golden \in Spool \cup {NoSpool, Torn} /\ blessed \in Recipes \cup {Mixed}
  BY DEF Judge, GoldenInv, GoldenTypeOK
<1>2. oracle' = [oracle EXCEPT ![o] = new]
  BY DEF Judge
<1>3. at \in {"matches", "differs"} /\ at \in AtRest
  BY DEF AtRest, Verdicts
<1> HIDE DEF at
<1>4. /\ new \in Run /\ new.at = at /\ new.under = under
      /\ new.baseline = golden /\ new.cooked = blessed
  BY <1>1, <1>3 DEF Run
<1> USE DEF at
<1>5. ASSUME at = "differs", under # Mixed, Repeats(under, 0)
      PROVE  golden = Torn \/ blessed # under
  <2> SUFFICES ASSUME golden # Torn, blessed = under PROVE FALSE
    OBVIOUS
  <2>1. golden \in Spool /\ golden \in Outcomes(under, 0)
    <3>1. golden \in Spool
      BY <1>5 DEF GoldenInv
    <3> QED BY <3>1, Zenon DEF GoldenInv, OracleHonest
  <2>2. oracle[o].fresh \in Spool /\ oracle[o].fresh \in Outcomes(under, 0)
    BY <1>1, <1>5 DEF Sampled
  <2>3. under.spool[0] = {golden} /\ under.spool[0] = {oracle[o].fresh}
    BY <1>5, <2>1, <2>2, OnlySpool
  <2> QED
    BY <1>5, <2>3
<1>6. oracle'[o] = new /\ UNCHANGED <<recipe, golden, blessed, sampled>>
  BY <1>2 DEF GoldenInv, GoldenTypeOK, Judge
<1> HIDE DEF new, under, at
<1>7. Sampled(o)'
  BY <1>3, <1>4, <1>6 DEF Sampled, AtRest, Verdicts
<1> QED
  BY <1>2, <1>3, <1>4, <1>5, <1>6, <1>7, OracleMoves

(* A changed recipe takes the one recipe away from the runs under way, and *)
(* a verdict keeps the recipe it was about.                                *)
LEMMA RecookStep ==
  ASSUME GoldenInv, NEW r \in Recipes, Recook(r)
  PROVE  GoldenInv'
<1>1. ASSUME NEW o \in Oracle
      PROVE  /\ oracle'[o] \in Run /\ oracle'[o].at = oracle[o].at
             /\ oracle'[o].baseline = oracle[o].baseline /\ oracle'[o].fresh = oracle[o].fresh
             /\ oracle'[o].cooked = oracle[o].cooked
             /\ \/ oracle'[o] = oracle[o] /\ (oracle[o].at \in AtRest \/ r = recipe)
                \/ oracle'[o].under = Mixed /\ oracle[o].at \notin AtRest
  <2>1. oracle[o] \in Run
    BY DEF GoldenInv, GoldenTypeOK
  <2>2. oracle'[o] = IF oracle[o].at \in AtRest \/ r = recipe THEN oracle[o]
                     ELSE [oracle[o] EXCEPT !.under = Mixed]
    BY DEF Recook
  <2> QED
    BY <2>1, <2>2 DEF Run
<1>2. recipe' = r /\ UNCHANGED <<golden, blessed, sampled>>
  BY DEF Recook
<1>3. GoldenTypeOK'
  <2>1. oracle' \in [Oracle -> Run]
    BY <1>1 DEF Recook
  <2> QED
    BY <1>2, <2>1 DEF GoldenInv, GoldenTypeOK
<1>4. ASSUME NEW o \in Oracle PROVE Sampled(o)'
  <2>1. Sampled(o)
    BY DEF GoldenInv
  <2>2. CASE oracle'[o] = oracle[o] /\ (oracle[o].at \in AtRest \/ r = recipe)
    BY <1>2, <2>1, <2>2 DEF Sampled
  <2>3. CASE oracle'[o].under = Mixed
    BY <1>1, <2>1, <2>3 DEF Sampled
  <2> QED
    BY <1>1, <2>2, <2>3
<1>5. OracleHonest'
  <2>1. \A o \in Oracle : oracle'[o].at = "differs" => oracle'[o] = oracle[o]
    BY <1>1 DEF AtRest, Verdicts
  <2> QED
    BY <1>2, <2>1 DEF OracleHonest, CallsSteadyDifferent, GoldenInv
<1> QED
  BY <1>1, <1>2, <1>3, <1>4, <1>5 DEF GoldenInv

LEMMA GoldenInvStep ==
  ASSUME GoldenInv, GoldenStep
  PROVE  GoldenInv'
BY StartsOracle, BaselineStep, ComparedStep, FinalStep, GateRunStep, WritesGolden,
   JudgeStep, RecookStep DEF GoldenStep, OracleStep

---------------------------------------------------------------------------
(* A new kit.                                                              *)

(* The files `new` has got to: while nobody else writes them they pin its  *)
(* ref, from the moment it wrote them.                                     *)
Past(f) == IF f = "pyproject"
           THEN {"seed", "workflow", "bless", "blessing", "returned"}
           ELSE {"bless", "blessing", "returned"}
ScaffoldType == [at : NewRests \cup {"pyproject", "seed", "workflow", "bless", "blessing"},
                 ref : Ref, by : Oracle \cup {New}]
NewInv ==
  /\ scaffold \in ScaffoldType
  /\ scaffold.at \in {"bless", "blessing", "returned"} => complete
  /\ scaffold.at = "returned" => golden # NoSpool
  /\ \A f \in File : scaffold.at \in Past(f) /\ writer[f] = New =>
       Visible(pins[f]) = {scaffold.ref}

(* What the commands beside `new` leave standing for it.                   *)
LEMMA OthersWrite ==
  ASSUME RepinInv, RepinStep \/ UNCHANGED repinVars
  PROVE  \/ EmitStep
         \/ /\ UNCHANGED complete
            /\ \A f \in File : writer'[f] = New => writer[f] = New /\ pins'[f] = pins[f]
<1> USE WritersAssumption
<1>1. ASSUME NEW p \in Repinner, NEW f \in File, NEW text, NEW next, Writes(p, f, text, next)
      PROVE  /\ UNCHANGED complete
             /\ \A g \in File : writer'[g] = New => writer[g] = New /\ pins'[g] = pins[g]
  BY <1>1 DEF Writes, RepinInv, RepinTypeOK
<1>2. ASSUME NEW p \in Repinner, RepinnerStep(p)
      PROVE  /\ UNCHANGED complete
             /\ \A g \in File : writer'[g] = New => writer[g] = New /\ pins'[g] = pins[g]
  <2>1. CASE WritePyproject(p) \/ WriteWorkflow(p) \/ WriteCutShort(p)
    BY <1>1, <2>1 DEF WritePyproject, WriteWorkflow, WriteCutShort, File
  <2>2. CASE UNCHANGED <<pins, complete, writer>>
    BY <2>2
  <2> QED
    BY <1>2, <2>1, <2>2 DEF RepinnerStep, StartRepin, ReadPyproject, ReadWorkflow, ReadFile,
       Resolve, Stops
<1>3. ASSUME NEW f \in File, NEW text, AuthorWrites(f, text)
      PROVE  /\ UNCHANGED complete
             /\ \A g \in File : writer'[g] = New => writer[g] = New /\ pins'[g] = pins[g]
  BY <1>3 DEF AuthorWrites, RepinInv, RepinTypeOK
<1> QED
  BY <1>2, <1>3 DEF RepinStep, repinVars

LEMMA GoldenStays ==
  ASSUME GoldenInv, GoldenStep \/ UNCHANGED goldenVars, golden # NoSpool
  PROVE  golden' # NoSpool
<1>1. ASSUME NEW o \in Oracle, Truncate(o) \/ Bless(o) \/ KillOracle(o)
      PROVE  golden' # NoSpool
  <2>1. \/ UNCHANGED golden
        \/ LeftShort
        \/ WrittenWhole(o) /\ oracle[o].at = "writing"
    BY <1>1, Zenon DEF Truncate, Bless, KillOracle
  <2>2. oracle[o].at = "writing" => oracle[o].fresh \in Spool
    BY DEF GoldenInv, Sampled
  <2> QED
    BY <2>1, <2>2, SpoolAssumption DEF LeftShort, WrittenWhole, Torn, NoSpool
<1>3. CASE UNCHANGED golden
  BY <1>3
<1> QED
  BY <1>1, <1>3 DEF GoldenStep, OracleStep, StartFreeze, StartGate, Baseline, Second,
     Third, Final, GateRun, Judge, Materialize, Recook, goldenVars

LEMMA ScaffoldUpdate ==
  ASSUME scaffold \in ScaffoldType, NEW a,
         a \in NewRests \cup {"pyproject", "seed", "workflow", "bless", "blessing"}
  PROVE  LET k == [scaffold EXCEPT !.at = a]
         IN  k \in ScaffoldType /\ k.at = a /\ k.ref = scaffold.ref /\ k.by = scaffold.by
BY DEF ScaffoldType

LEMMA EmitKeepsNew ==
  ASSUME NewInv, RepinInv, EmitStep
  PROVE  NewInv'
<1>1. CASE EmitPyproject
  <2>1. scaffold'.at = "seed" /\ scaffold'.ref = scaffold.ref /\ scaffold' \in ScaffoldType
    BY <1>1, ScaffoldUpdate DEF EmitPyproject, Emit, NewInv
  <2>2. pins'["pyproject"] = [std |-> {scaffold.ref}, odd |-> {}]
    BY <1>1 DEF EmitPyproject, Emit, RepinInv, RepinTypeOK, File
  <2>3. Visible(pins'["pyproject"]) = {scaffold'.ref}
    BY <2>1, <2>2 DEF Visible
  <2> QED
    BY <2>1, <2>3 DEF NewInv, Past, File
<1>2. CASE EmitWorkflow
  <2>1. /\ scaffold'.at = "bless" /\ scaffold'.ref = scaffold.ref /\ complete'
        /\ scaffold' \in ScaffoldType /\ scaffold.at = "workflow"
    BY <1>2, ScaffoldUpdate DEF EmitWorkflow, Emit, NewInv
  <2>2. pins'["workflow"] = [std |-> {scaffold.ref}, odd |-> {}]
    BY <1>2 DEF EmitWorkflow, Emit, RepinInv, RepinTypeOK, File
  <2>3. Visible(pins'["workflow"]) = {scaffold'.ref}
    BY <2>1, <2>2 DEF Visible
  <2>4. pins'["pyproject"] = pins["pyproject"] /\ writer'["pyproject"] = writer["pyproject"]
    BY <1>2 DEF EmitWorkflow, Emit, RepinInv, RepinTypeOK, File
  <2>5. writer'["pyproject"] = New => Visible(pins'["pyproject"]) = {scaffold'.ref}
    BY <2>1, <2>4 DEF NewInv, Past, File
  <2> QED
    BY <2>1, <2>3, <2>5 DEF NewInv, Past, File
<1> QED
  BY <1>1, <1>2 DEF EmitStep

(* `new` takes its own steps and is left alone by all others.              *)
LEMMA NewInvStep ==
  ASSUME NewInv, RepinInv, GoldenInv, [Next]_vars
  PROVE  NewInv'
<1> DEFINE Kept == /\ UNCHANGED complete
                   /\ golden # NoSpool => golden' # NoSpool
                   /\ \A f \in File :
                        writer'[f] = New => writer[f] = New /\ pins'[f] = pins[f]
<1>1. EmitStep \/ Kept
  BY StepParts, OthersWrite, GoldenStays
<1>2. ASSUME Kept, UNCHANGED scaffold PROVE NewInv'
  BY <1>2 DEF NewInv, Past
<1>3. ASSUME Kept, NEW ref \in Ref, NEW force \in BOOLEAN, StartNew(ref, force) PROVE NewInv'
  <2>1. scaffold' \in ScaffoldType /\ scaffold'.at \in {"pyproject", "refused"}
    BY <1>3 DEF NewInv, StartNew, ScaffoldType, NewRests
  <2> QED
    BY <2>1 DEF NewInv, Past
<1>4. ASSUME Kept, EmitSeed PROVE NewInv'
  <2>1. /\ scaffold' \in ScaffoldType /\ scaffold'.at = "workflow"
        /\ scaffold'.ref = scaffold.ref /\ scaffold.at = "seed"
    BY <1>4, ScaffoldUpdate DEF NewInv, EmitSeed
  <2> QED
    BY <1>4, <2>1 DEF NewInv, Past
<1>5. ASSUME Kept, KillNew PROVE NewInv'
  <2>1. scaffold' \in ScaffoldType /\ scaffold'.at = "killed"
    BY <1>5, ScaffoldUpdate DEF NewInv, KillNew, NewRests
  <2> QED
    BY <2>1 DEF NewInv, Past
<1>6. ASSUME Kept, NEW o \in Oracle, NewFreezes(o) PROVE NewInv'
  <2>1. /\ scaffold' \in ScaffoldType /\ scaffold'.at = "blessing"
        /\ scaffold'.ref = scaffold.ref /\ scaffold.at = "bless"
    BY <1>6 DEF NewInv, NewFreezes, ScaffoldType
  <2> QED
    BY <1>6, <2>1 DEF NewInv, Past
<1>7. ASSUME Kept, NEW o \in Oracle, NewEnds(o) PROVE NewInv'
  <2>1. PICK a \in {"returned", "raised"} :
          /\ scaffold' = [scaffold EXCEPT !.at = a]
          /\ a = "returned" => oracle[o].at = "blessed"
    BY <1>7 DEF NewEnds, EndOfNew
  <2>2. /\ scaffold' \in ScaffoldType /\ scaffold'.at = a
        /\ scaffold'.ref = scaffold.ref /\ scaffold.at = "blessing"
    <3>1. scaffold \in ScaffoldType /\ scaffold.at = "blessing"
      BY <1>7 DEF NewInv, NewEnds
    <3> QED
      BY <2>1, <3>1 DEF ScaffoldType, NewRests
  <2>3. a = "returned" => golden' # NoSpool
    <3>1. \A q \in Oracle : oracle[q].at = "blessed" => golden # NoSpool
      BY DEF GoldenInv
    <3> QED
      BY <1>7, <2>1, <3>1
  <2> QED
    BY <1>7, <2>2, <2>3 DEF NewInv, Past
<1>8. NewStep \/ UNCHANGED scaffold
  BY StepParts
<1> HIDE DEF Kept
<1> QED
  BY <1>1, <1>2, <1>3, <1>4, <1>5, <1>6, <1>7, <1>8, EmitKeepsNew DEF NewStep

LEMMA PlanStep ==
  ASSUME left \in [Moves -> Nat], occupied \in BOOLEAN, [Next]_vars
  PROVE  left' \in [Moves -> Nat] /\ occupied' \in BOOLEAN
<1>1. ASSUME NEW m \in Moves, Spend(m) PROVE left' \in [Moves -> Nat]
  BY <1>1 DEF Spend
<1>2. (\E m \in Moves : Spend(m)) \/ UNCHANGED left
  BY DEF Next, Starts, Steps, Trouble, TheAuthor, StartNew, EmitPyproject, EmitSeed,
     EmitWorkflow, Emit, KillNew, NewFreezes, NewEnds, vars, Moves
<1>3. occupied' = occupied \/ occupied' = TRUE
  BY DEF Next, StartNew, EmitPyproject, EmitSeed, EmitWorkflow, Emit, KillNew, NewFreezes,
     NewEnds, vars
<1> QED
  BY <1>1, <1>2, <1>3

---------------------------------------------------------------------------
(* The theorems.                                                           *)

KitInv ==
  /\ SkillInv /\ EditsKept /\ StillInstalled
  /\ RepinInv /\ GoldenInv /\ NewInv
  /\ left \in [Moves -> Nat] /\ occupied \in BOOLEAN

LEMMA KitInvInit ==
  ASSUME Init
  PROVE  KitInv
<1>1. SkillInv
  <2>1. Idle \in Invocation
    BY NamesAssumption DEF Idle, Invocation, Over
  <2>2. Idle.at = "idle"
    BY DEF Idle
  <2>3. SkillTypeOK
    BY <2>1 DEF Init, SkillInit, SkillTypeOK
  <2> QED
    BY <2>2, <2>3 DEF Init, SkillInit, SkillInv, Halfway
<1>2. EditsKept /\ StillInstalled
  BY DEF Init, SkillInit, EditsKept, StillInstalled
<1>3. (CHOOSE r \in Ref : TRUE) \in Ref
  BY CheckoutsAssumption
<1>4. RepinInv
  <2>1. Fallow \in Command
    BY <1>3 DEF Fallow, Command, Resting, Empty, Text, Answers
  <2>2. Fallow.at = "idle"
    BY DEF Fallow
  <2>3. RepinTypeOK /\ writer \in [File -> Repinner \cup {Author, New}]
    BY <2>1, CheckoutsAssumption DEF Init, RepinInit, RepinTypeOK
  <2> QED
    BY <2>2, <2>3 DEF Init, RepinInit, RepinInv, Half, Landed
<1>5. GoldenInv
  <2>1. Unused \in Run /\ Unused.at = "idle" /\ Unused.under = Mixed
    BY DEF Unused, Run, AtRest
  <2>2. GoldenTypeOK
    BY <2>1 DEF Init, GoldenInit, GoldenTypeOK
  <2>3. \A o \in Oracle : oracle[o] = Unused
    BY DEF Init, GoldenInit
  <2> QED
    BY <2>1, <2>2, <2>3, SpoolAssumption
    DEF Init, GoldenInit, GoldenInv, OracleHonest, CallsSteadyDifferent, Sampled
<1>6. NewInv
  BY <1>3 DEF Init, NewInv, ScaffoldType, NewRests, Past
<1>7. left \in [Moves -> Nat] /\ occupied \in BOOLEAN
  BY PlansAssumption DEF Init
<1> QED
  BY <1>1, <1>2, <1>4, <1>5, <1>6, <1>7 DEF KitInv

LEMMA KitInvStep ==
  ASSUME KitInv, [Next]_vars
  PROVE  KitInv'
<1>1. (SkillInv /\ EditsKept /\ StillInstalled)'
  <2>1. CASE SkillStep
    BY <2>1, SkillInvStep, EditsKeptStep, StillInstalledStep DEF KitInv
  <2>2. CASE UNCHANGED skillVars
    BY <2>2 DEF KitInv, skillVars, SkillInv, SkillTypeOK, Halfway, EditsKept, StillInstalled,
       Strands, Target
  <2> QED
    BY <2>1, <2>2, StepParts
<1>2. RepinInv'
  <2>1. CASE RepinStep
    BY <2>1, RepinInvStep DEF KitInv, NewInv, ScaffoldType
  <2>2. CASE UNCHANGED repinVars
    BY <2>2 DEF KitInv, repinVars, RepinInv, RepinTypeOK, Half, Landed
  <2> QED
    BY <2>1, <2>2, StepParts
<1>3. GoldenInv'
  <2>1. CASE GoldenStep
    BY <2>1, GoldenInvStep DEF KitInv
  <2>2. CASE UNCHANGED goldenVars
    BY <2>2 DEF KitInv, goldenVars, GoldenInv, GoldenTypeOK, OracleHonest,
       CallsSteadyDifferent, Sampled
  <2> QED
    BY <2>1, <2>2, StepParts
<1>4. NewInv'
  BY NewInvStep DEF KitInv
<1> QED
  BY <1>1, <1>2, <1>3, <1>4, PlanStep DEF KitInv

LEMMA Invariance == Spec => []KitInv
<1>1. Init => KitInv
  BY KitInvInit
<1>2. KitInv /\ [Next]_vars => KitInv'
  BY KitInvStep
<1> QED
  BY <1>1, <1>2, PTL DEF Spec

(* Every command stays within its states and holds what it may hold.       *)
THEOREM KitTypes == Spec => []TypeOK
<1>1. KitInv => TypeOK
  BY DEF KitInv, SkillInv, RepinInv, GoldenInv, NewInv, ScaffoldType, TypeOK
<1> QED
  BY <1>1, Invariance, PTL

(* However installs overlap, fail or are killed, what an author last left  *)
(* in a skill is in place or in a backup.                                  *)
THEOREM AuthorsWorkKept == Spec => []EditsKept
<1>1. KitInv => EditsKept
  BY DEF KitInv
<1> QED
  BY <1>1, Invariance, PTL

(* Only an install stopped between its two renames leaves a skill that had *)
(* a copy without one.                                                     *)
THEOREM ReplacedSkillInPlace == Spec => []StillInstalled
<1>1. KitInv => StillInstalled
  BY DEF KitInv
<1> QED
  BY <1>1, Invariance, PTL

(* A repin that was not stopped has written both files or neither, and     *)
(* what it wrote pins core to its ref alone.                               *)
THEOREM RepinWhole == Spec => []NeverHalfLands
<1>1. KitInv => NeverHalfLands
  BY Landing DEF KitInv
<1> QED
  BY <1>1, Invariance, PTL

(* A golden frozen from one recipe is what that recipe always returns, and *)
(* the gate does not call such a recipe different from it.                 *)
THEOREM GoldenOfItsRecipe == Spec => []OracleHonest
<1>1. KitInv => OracleHonest
  BY DEF KitInv, GoldenInv
<1> QED
  BY <1>1, Invariance, PTL

(* A kit that `new` returned has its manifest, its golden and one ref.     *)
THEOREM NewKitGreen == Spec => []BornGreen
<1>1. KitInv => BornGreen
  BY DEF KitInv, NewInv, BornGreen, Past, File
<1> QED
  BY <1>1, Invariance, PTL
=============================================================================
