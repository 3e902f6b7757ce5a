------------------------------ MODULE KitFiles ------------------------------
(***************************************************************************)
(* The commands of `synth-authoring` that write a kit checkout (cli.py),   *)
(* in one author's hands: `new` (scaffold.py) creates the kit and blesses  *)
(* its golden, `repin` moves its pins, `freeze` and the golden gate guard  *)
(* its seed, `skills` installs the agent pack.  Commands overlap, are      *)
(* killed, and meet an author who edits what they work on.                 *)
(***************************************************************************)
EXTENDS SkillPack, Repin, Golden

CONSTANTS
  Starter,    \* the recipe `new` emits
  New,        \* `new` as the last writer of a file
  Plans       \* how often each move may be made in a history

VARIABLES
  occupied,   \* the kit's directory exists and is not empty
  scaffold,   \* the `new` command: where it is, the ref it pins, its freeze
  left        \* the moves that are left

vars == <<skillVars, repinVars, goldenVars, occupied, scaffold, left>>

Moves == {"install", "repin", "freeze", "gate", "new", "edit", "upgrade",
          "author", "recook", "fault", "kill"}
ASSUME PlansAssumption == Plans \subseteq [Moves -> Nat]
ASSUME WritersAssumption == New \notin Repinner \cup {Author} /\ Starter \in Recipes

Spend(m) == left[m] > 0 /\ left' = [left EXCEPT ![m] = @ - 1]
NewRests == {"idle", "refused", "returned", "raised", "killed"}

(* scaffold_kit, which refuses a directory that is in use.                 *)
MayScaffold(force) == force \/ ~occupied

StartNew(ref, force) ==
  /\ scaffold.at \in NewRests /\ Spend("new")
  /\ scaffold' = [scaffold EXCEPT !.ref = ref,
       !.at = IF MayScaffold(force) THEN "pyproject" ELSE "refused"]
  /\ UNCHANGED <<skillVars, repinVars, goldenVars, occupied>>

Emit(f, next) ==
  /\ pins' = [pins EXCEPT ![f] = [std |-> {scaffold.ref}, odd |-> {}]]
  /\ writer' = [writer EXCEPT ![f] = New]
  /\ occupied' = TRUE
  /\ scaffold' = [scaffold EXCEPT !.at = next]
  /\ UNCHANGED <<skillVars, repin, wrote, left>>

(* The files in BASE_FILES' order: pyproject, the seed, the workflow, and  *)
(* the manifest after them.                                                *)
EmitPyproject ==
  /\ scaffold.at = "pyproject" /\ Emit("pyproject", "seed")
  /\ UNCHANGED <<complete, goldenVars>>
EmitSeed ==
  /\ scaffold.at = "seed" /\ Recook(Starter)
  /\ scaffold' = [scaffold EXCEPT !.at = "workflow"]
  /\ UNCHANGED <<skillVars, repinVars, occupied, left>>
EmitWorkflow ==
  /\ scaffold.at = "workflow" /\ Emit("workflow", "bless")
  /\ complete' = TRUE
  /\ UNCHANGED goldenVars

(* The last step blesses the golden, by a freeze of its own.               *)
NewFreezes(o) ==
  /\ scaffold.at = "bless" /\ StartFreeze(o)
  /\ scaffold' = [scaffold EXCEPT !.at = "blessing", !.by = o]
  /\ UNCHANGED <<skillVars, repinVars, occupied, left>>

AnyEnd(o) == "returned"   \* a freeze that failed is not seen
EndOfNew(o) == IF oracle[o].at = "blessed" THEN "returned" ELSE "raised"

NewEnds(o) ==
  /\ scaffold.at = "blessing" /\ scaffold.by = o /\ oracle[o].at \in AtRest
  /\ scaffold' = [scaffold EXCEPT !.at = EndOfNew(o)]
  /\ UNCHANGED <<skillVars, repinVars, goldenVars, occupied, left>>

KillNew ==
  /\ scaffold.at \notin NewRests \cup {"blessing"} /\ Spend("kill")
  /\ scaffold' = [scaffold EXCEPT !.at = "killed"]
  /\ UNCHANGED <<skillVars, repinVars, goldenVars, occupied>>

(* Who may start what: no more than the plan says.                         *)
Starts ==
  \/ /\ \/ \E i \in Installer, force, update \in BOOLEAN :
             StartInstall(i, force, update)
     /\ Spend("install") /\ UNCHANGED <<repinVars, goldenVars>>
  \/ /\ \E p \in Repinner, ref \in Ref, dry, tag \in BOOLEAN :
             StartRepin(p, ref, dry, tag)
     /\ Spend("repin") /\ UNCHANGED <<skillVars, goldenVars>>
  \/ /\ \/ Spend("freeze") /\ \E o \in Oracle : StartFreeze(o)
        \/ Spend("gate") /\ \E o \in Oracle : StartGate(o)
     /\ scaffold.at # "blessing" /\ UNCHANGED <<skillVars, repinVars>>

Steps ==
  \/ /\ \E i \in Installer :
          Stage(i) \/ MoveAside(i) \/ Place(i) \/ Restore(i)
          \/ /\ installer[i].at \in {"moved", "restoring"}
             /\ installed[Target(i)] # Absent
             /\ PlaceFails(i) \/ RestoreFails(i)
     /\ UNCHANGED <<repinVars, goldenVars>>
  \/ /\ \E p \in Repinner :
          ReadPyproject(p) \/ ReadWorkflow(p) \/ WritePyproject(p)
          \/ WriteWorkflow(p) \/ Resolve(p)
     /\ UNCHANGED <<skillVars, goldenVars>>
  \/ /\ \E o \in Oracle :
          Baseline(o) \/ Second(o) \/ Third(o) \/ Final(o) \/ Truncate(o)
          \/ Bless(o) \/ GateRun(o) \/ Judge(o)
     /\ UNCHANGED <<skillVars, repinVars>>

Trouble ==
  \/ /\ \/ Spend("kill") /\ \E i \in Installer : KillInstall(i)
        \/ Spend("fault") /\ \E i \in Installer :
             CopyFails(i) \/ PlaceFails(i) \/ RestoreFails(i)
     /\ UNCHANGED <<repinVars, goldenVars>>
  \/ /\ Spend("kill") /\ \E p \in Repinner : Stops(p) \/ WriteCutShort(p)
     /\ UNCHANGED <<skillVars, goldenVars>>
  \/ /\ Spend("kill") /\ \E o \in Oracle : KillOracle(o)
     /\ UNCHANGED <<skillVars, repinVars>>

TheAuthor ==
  \/ /\ \/ Spend("edit") /\ \E s \in Skill, f \in Own, link \in BOOLEAN : Edit(s, f, link)
        \/ Spend("upgrade") /\ \E b \in Build : Upgrade(b)
     /\ UNCHANGED <<repinVars, goldenVars>>
  \/ /\ Spend("author") /\ \E f \in File, r \in Ref, form \in {"std", "odd"} :
          AuthorWrites(f, [pins[f] EXCEPT ![form] = {r}])
     /\ UNCHANGED <<skillVars, goldenVars>>
  \/ /\ Spend("recook") /\ \E r \in Recipes : Recook(r)
     /\ UNCHANGED <<skillVars, repinVars>>

Init ==
  /\ SkillInit /\ RepinInit /\ GoldenInit
  /\ left \in Plans
  /\ occupied = (left["new"] = 0)
  /\ scaffold = [at |-> "idle", ref |-> CHOOSE r \in Ref : TRUE,
                 by |-> New]

Next ==
  \/ /\ Starts \/ (Steps /\ UNCHANGED left) \/ Trouble \/ TheAuthor
     /\ UNCHANGED <<occupied, scaffold>>
  \/ \E ref \in Ref, force \in BOOLEAN : StartNew(ref, force)
  \/ EmitPyproject \/ EmitSeed \/ EmitWorkflow \/ KillNew
  \/ \E o \in Oracle : NewFreezes(o) \/ NewEnds(o)

Spec == Init /\ [][Next]_vars

TypeOK ==
  /\ SkillTypeOK /\ RepinTypeOK /\ GoldenTypeOK
  /\ writer \in [File -> Repinner \cup {Author, New}]
  /\ scaffold \in [at : NewRests \cup {"pyproject", "seed", "workflow", "bless", "blessing"},
                   ref : Ref, by : Oracle \cup {New}]
  /\ occupied \in BOOLEAN /\ left \in [Moves -> Nat]

(* A kit that `new` returned is "green from the first commit" (scaffold.py *)
(* :4): while nobody else has written them both files pin the same ref,    *)
(* the manifest is there, and there is a golden to compare with.           *)
BornGreen ==
  scaffold.at = "returned" /\ writer = [f \in File |-> New] =>
    /\ complete /\ golden # NoSpool
    /\ \A f \in File : Visible(pins[f]) = {scaffold.ref}
=============================================================================
