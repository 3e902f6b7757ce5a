----------------------------- MODULE SkillPack -----------------------------
(***************************************************************************)
(* The kit-dev skills in an agent's directory (authoring/skills.py): each  *)
(* installed copy carries a receipt, an install replaces copies by two     *)
(* renames, and what it replaces goes to a backup directory.  Installs may *)
(* overlap, be killed between any two steps and meet renames that fail,    *)
(* and the author may edit a copy at any moment.                           *)
(***************************************************************************)
EXTENDS Naturals, Sequences, FiniteSets

CONSTANTS
  Names,      \* list_skills(): the skills of the pack, in order
  Build,      \* the builds of core an author may be running
  Version,    \* the __version__ of a build
  Shipped,    \* the files a build ships for a skill
  Own,        \* what an author may make of the files of a skill
  Installer   \* the invocations of install_skills

VARIABLES
  core,       \* the build that is installed and runs the commands
  installed,  \* the directory of each skill, or Absent
  backups,    \* the directories under .synth-skill-backups, per skill
  installer,  \* each invocation: where it is and what it holds
  authored,   \* history: the skills and files that are the author's last work
  stranded    \* history: the skills an install was stopped in the middle of

skillVars == <<core, installed, backups, installer, authored, stranded>>

Skill == {Names[k] : k \in DOMAIN Names}
ASSUME NamesAssumption == Names \in Seq(Skill)
Files == Own \cup {Shipped[b][s] : b \in Build, s \in Skill}
Absent == [at |-> "absent"]
NoReceipt == [at |-> "no receipt"]
Receipt == [version : {Version[b] : b \in Build}, files : Files]
Directory == [files : Files, receipt : Receipt \cup {NoReceipt}, link : BOOLEAN]

(* skill_status: a copy against its receipt and against the running build. *)
Status(s) ==
  LET d == installed[s] IN
  IF d = Absent THEN "missing"
  ELSE IF d.receipt = NoReceipt THEN "unmanaged"
  ELSE IF d.files # d.receipt.files THEN "locally-modified"
  ELSE IF d.receipt = [version |-> Version[core], files |-> Shipped[core][s]]
  THEN "current" ELSE "stale"

Idle == [at |-> "idle", force |-> FALSE, update |-> FALSE, todo |-> Names,
         seen |-> [s \in Skill |-> "missing"], staged |-> Absent, old |-> Absent]
Over == {"idle", "returned", "refused", "raised", "killed"}
Ended(how) == [Idle EXCEPT !.at = how]
Target(i) == Head(installer[i].todo)

(* What stops an install before anything is written. *)
Conflict(s, force, update) ==
  \/ installed[s] # Absent /\ installed[s].link
  \/ /\ Status(s) # "missing" /\ ~force
     /\ ~update \/ Status(s) \in {"locally-modified", "unmanaged"}

StartInstall(i, force, update) ==
  /\ installer[i].at \in Over
  /\ installer' = [installer EXCEPT ![i] =
       IF \E s \in Skill : Conflict(s, force, update) THEN Ended("refused")
       ELSE [Idle EXCEPT !.at = "next", !.force = force, !.update = update,
                         !.seen = [s \in Skill |-> Status(s)]]]
  /\ UNCHANGED <<core, installed, backups, authored, stranded>>

Current(i) == installer[i].update /\ installer[i].seen[Target(i)] = "current"

Fresh(s) == [files |-> Shipped[core][s], link |-> FALSE,
             receipt |-> [version |-> Version[core], files |-> Shipped[core][s]]]

(* The next skill: skipped, or copied whole beside the installed one. *)
Stage(i) ==
  /\ installer[i].at = "next"
  /\ installer' = [installer EXCEPT ![i] =
       IF @.todo = <<>> THEN Ended("returned")
       ELSE IF Current(i) THEN [@ EXCEPT !.todo = Tail(installer[i].todo)]
       ELSE [@ EXCEPT !.at = "staged", !.staged = Fresh(Target(i))]]
  /\ UNCHANGED <<core, installed, backups, authored, stranded>>

UnstampedBackup(s, d) == {d}   \* one backup directory per skill
Backed(s, d) == backups[s] \cup {d}

MoveAside(i) ==
  LET s == Target(i) IN
  /\ installer[i].at = "staged"
  /\ installer' = [installer EXCEPT ![i].at = "moved", ![i].old = installed[s]]
  /\ IF installed[s] = Absent THEN UNCHANGED <<installed, backups>>
     ELSE /\ installed' = [installed EXCEPT ![s] = Absent]
          /\ backups' = [backups EXCEPT ![s] = Backed(s, installed[s])]
  /\ UNCHANGED <<core, authored, stranded>>

Place(i) ==
  /\ installer[i].at = "moved" /\ installed[Target(i)] = Absent
  /\ installed' = [installed EXCEPT ![Target(i)] = installer[i].staged]
  /\ installer' = [installer EXCEPT ![i].at = "next",
                                       ![i].todo = Tail(installer[i].todo)]
  /\ stranded' = stranded \ {Target(i)}
  /\ UNCHANGED <<core, backups, authored>>

GivesUp(i) == Ended("raised")   \* the copy moved aside is forgotten
AfterFailedPlace(i) ==
  IF installer[i].old = Absent THEN Ended("raised")
  ELSE [installer[i] EXCEPT !.at = "restoring"]

(* staged.rename raises: because another install was faster, or for a      *)
(* reason of the file system.                                              *)
PlaceFails(i) ==
  /\ installer[i].at = "moved"
  /\ installer' = [installer EXCEPT ![i] = AfterFailedPlace(i)]
  /\ UNCHANGED <<core, installed, backups, authored, stranded>>

Restore(i) ==
  LET s == Target(i) IN
  /\ installer[i].at = "restoring" /\ installed[s] = Absent
  /\ installed' = [installed EXCEPT ![s] = installer[i].old]
  /\ backups' = [backups EXCEPT ![s] = @ \ {installer[i].old}]
  /\ installer' = [installer EXCEPT ![i] = Ended("raised")]
  /\ stranded' = stranded \ {s}
  /\ UNCHANGED <<core, authored>>

Strands(i) == installer[i].at \in {"moved", "restoring"} /\ installer[i].old # Absent

Stop(i, how) ==
  /\ installer' = [installer EXCEPT ![i] = Ended(how)]
  /\ stranded' = IF Strands(i) THEN stranded \cup {Target(i)} ELSE stranded
  /\ UNCHANGED <<core, installed, backups, authored>>

RestoreFails(i) == installer[i].at = "restoring" /\ Stop(i, "raised")
CopyFails(i) == installer[i].at \in {"next", "staged"} /\ Stop(i, "raised")
KillInstall(i) == installer[i].at \notin Over /\ Stop(i, "killed")

(* The author edits a copy, or puts a directory or a link of their own.    *)
Edit(s, f, link) ==
  /\ installed' = [installed EXCEPT ![s] =
       IF @ = Absent THEN [files |-> f, receipt |-> NoReceipt, link |-> link]
       ELSE [@ EXCEPT !.files = f, !.link = link]]
  /\ authored' = {a \in authored : a[1] # s \/ installed[s] = Absent
                                     \/ a[2] # installed[s].files} \cup {<<s, f>>}
  /\ stranded' = stranded \ {s}
  /\ UNCHANGED <<core, backups, installer>>

(* Another build of core is installed, while no command of it runs.        *)
Upgrade(b) ==
  /\ \A i \in Installer : installer[i].at \in Over
  /\ core' = b
  /\ UNCHANGED <<installed, backups, installer, authored, stranded>>

SkillInit ==
  /\ core \in Build
  /\ installed = [s \in Skill |-> Absent]
  /\ backups = [s \in Skill |-> {}]
  /\ installer = [i \in Installer |-> Idle]
  /\ authored = {} /\ stranded = {}

Invocation ==
  [at : Over \cup {"next", "staged", "moved", "restoring"},
   force : BOOLEAN, update : BOOLEAN, todo : Seq(Skill),
   seen : [Skill -> {"missing", "unmanaged", "locally-modified", "stale", "current"}],
   staged : Directory \cup {Absent}, old : Directory \cup {Absent}]

SkillTypeOK ==
  /\ core \in Build /\ installed \in [Skill -> Directory \cup {Absent}]
  /\ backups \in [Skill -> SUBSET Directory]
  /\ installer \in [Installer -> Invocation]
  /\ authored \subseteq Skill \X Own /\ stranded \subseteq Skill

(* No work of the author's is lost: "it never discards their files"        *)
(* (skills.py:141).  The files an author last left in a skill are in place *)
(* or in a backup, whatever installs overlapped, failed or were killed.    *)
EditsKept ==
  \A a \in authored :
    \/ installed[a[1]] # Absent /\ installed[a[1]].files = a[2]
    \/ \E d \in backups[a[1]] : d.files = a[2]

(* A replaced skill is not left without a copy (skills.py:159-166): where  *)
(* a copy was moved aside there is one in place again, unless an install   *)
(* is between its two renames, or was stopped there.                       *)
StillInstalled ==
  \A s \in Skill :
    (installed[s] = Absent /\ backups[s] # {}) =>
      \/ s \in stranded
      \/ \E i \in Installer : Strands(i) /\ Target(i) = s
=============================================================================
