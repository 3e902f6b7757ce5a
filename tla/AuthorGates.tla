---------------------------- MODULE AuthorGates ----------------------------
(***************************************************************************)
(* What tells an author that a kit is ready: `synth-authoring check`       *)
(* (check.py) runs validate, conformance and the kit's tests, each in a    *)
(* process of its own; `synth-authoring conformance` runs the suite in the *)
(* author's environment.  The author may edit the kit while they run.      *)
(***************************************************************************)
EXTENDS Conformance, Runbook

CONSTANTS
  Kits,      \* the checkouts an author may have
  Editions,  \* the checkouts an edit may leave
  Pythons,   \* the interpreters check may be given
  Secrets,   \* what the author's shell exports that the suite scrubs
  Plans      \* how often each move may be made in a history

VARIABLES
  kit,       \* the checkout as it is on the disk
  edited,    \* history: the kit changed since the command started
  shell,     \* the environment the conformance command runs in
  suite,     \* a run of run_conformance
  check,     \* the check command: where it is, its stages' results
  left       \* the moves that are left

vars == <<kit, edited, shell, suite, check, left, runbookVars>>

Moves == {"check", "suite", "edit", "slow", "interrupt", "line"}
Stage == <<"validate", "conformance", "tests">>
ASSUME PlansAssumption == Plans \subseteq [Moves -> Nat]

Spend(m) == left[m] > 0 /\ left' = [left EXCEPT ![m] = @ - 1]
NoReport == [findings |-> {}, migration |-> {}, notes |-> {}, passed |-> {}]
Fresh == [at |-> "idle", then |-> "state", advisory |-> FALSE, absolute |-> TRUE, web |-> TRUE,
          surfaces |-> 0, report |-> NoReport, ran |-> {}]
NoCheck == [at |-> "idle", python |-> "ok", web |-> TRUE, stages |-> <<>>]
Over == {"idle", "ok", "findings", "raised", "lacks-a-package"}

(* The suite runs in the author's process, or in a worker of check, whose  *)
(* environment has no secret to begin with.                                *)
InShell == check.at \in {"idle", "over"}

(* usecase.yaml is a mapping, or "absent", "unparsed", "no-mapping".       *)
IsDoc(k) == k.manifest = "mapping"
HasLive(doc) == doc.live # <<>>

(* The enumerations of usecase.schema.json (373, 402): a manifest that the *)
(* schema lets through names no other provider.                            *)
ASSUME SchemaAssumption ==
  \A k \in Kits \cup Editions : IsDoc(k) /\ k.doc.schema = {} =>
    /\ k.doc.providers \subseteq LlmProvider
    /\ \A r \in DOMAIN k.doc.roles :
         k.doc.roles[r].provider \in LlmProvider \cup {"selected"}

Add(field, s) == [suite.report EXCEPT ![field] = @ \cup s]
Note(s, n) == [s EXCEPT !.report.notes = @ \cup {n}]
Claim(s, c) == [s EXCEPT !.report.passed = @ \cup {c}]
Find(s, fs) == [s EXCEPT !.report.findings = @ \cup fs]

(* run_conformance, one step for each read of the kit: the manifest, the   *)
(* companion's module, the surface, the state module, the sources.         *)
ReadManifest ==
  /\ suite.at = "manifest"
  /\ LET doc == kit.doc
         declared == ManifestFindings(doc) \cup LiveCommandFindings(doc)
         s1 == IF Lint(doc) # {} THEN Find(suite, {"lint"}) ELSE Claim(suite, "lint")
         s2 == IF HasLive(doc) /\ declared = {} THEN Claim(s1, "live-surface-declared")
               ELSE Find(s1, declared)
     IN suite' = IF ~IsDoc(kit) THEN [Find(suite, {"no-manifest"}) EXCEPT !.at = "findings"]
                 ELSE [s2 EXCEPT !.surfaces = Len(doc.live), !.at = IF HasLive(doc) THEN "factory" ELSE "state"]
  /\ UNCHANGED shell

Claimed(s) == Claim(s, "companion-serves")
ImportFactory ==
  /\ suite.at = "factory"
  /\ suite' =
       IF ImportRaises(kit.companion) THEN [suite EXCEPT !.at = "raised"]
       ELSE IF ~Importable(kit.companion)
       THEN [Find(suite, {"factory-not-importable"}) EXCEPT !.at = "state"]
       ELSE IF ~suite.web THEN [Claimed(Note(suite, "not-installed")) EXCEPT !.at = "state"]
       ELSE [(IF suite.surfaces > 1 THEN Note(suite, "only-the-first") ELSE suite)
               EXCEPT !.at = "remove"]
  /\ UNCHANGED shell

(* _scrubbed_secret_env takes the secrets out of the environment name by   *)
(* name before its `try`; its `finally` puts them back, whichever way the  *)
(* surface ended, name by name as well.                                    *)
RemoveSecret ==
  /\ suite.at = "remove"
  /\ IF InShell /\ shell.present # {}
     THEN /\ \E name \in shell.present :
               shell' = [shell EXCEPT !.present = @ \ {name}, !.removed = @ \cup {name}]
          /\ UNCHANGED suite
     ELSE suite' = [suite EXCEPT !.at = "serve"] /\ UNCHANGED shell
ReturnSecret ==
  /\ suite.at = "return"
  /\ IF shell.removed # {}
     THEN /\ \E name \in shell.removed :
               shell' = [shell EXCEPT !.present = @ \cup {name}, !.removed = @ \ {name}]
          /\ UNCHANGED suite
     ELSE suite' = [suite EXCEPT !.at = suite.then] /\ UNCHANGED shell

NoFinally(s, then) ==   \* what the surface raises leaves the secrets out
  [s EXCEPT !.at = IF then = "state" THEN "return" ELSE then, !.then = then]
Ended(s, then) == [s EXCEPT !.at = "return", !.then = then]

Serve ==
  /\ suite.at = "serve"
  /\ LET fs == ServeFindings(kit.companion)
         s == [suite EXCEPT !.ran = IF BuildFinding(kit.companion) = {} THEN @ \cup {"served"} ELSE @]
     IN suite' =
          IF kit.companion.factory = "raises" THEN Ended(suite, "raised")
          ELSE IF kit.companion.factory = "lacks-a-package" THEN Ended(suite, "lacks-a-package")
          ELSE Ended(IF fs = {} THEN Claimed(s) ELSE Find(s, fs), "state")
  /\ UNCHANGED shell

Anchors ==
  /\ suite.at = "state"
  /\ suite' =
       [(IF kit.state = "none" THEN Note(suite, "stateless")
         ELSE IF kit.state = "broken" THEN Find(suite, {"state-module-failed-to-import"})
         ELSE IF kit.payloads = <<>> THEN Find(suite, {"no-anchors-payload"})
         ELSE LET fs == AnchorsFindings(kit.payloads)
                  s == IF Skips(kit.payloads) THEN Note(suite, "round-trip-skipped") ELSE suite
              IN IF fs = {} THEN Claim(s, "anchors-write") ELSE Find(s, fs)) EXCEPT !.at = "sources"]
  /\ UNCHANGED shell

Verdict(report) == IF report.findings \cup report.migration = {} THEN "ok" ELSE "findings"
Scan ==
  /\ suite.at = "sources"
  /\ LET types == TypeFindings(kit, suite.absolute)
         legacy == LegacyFindings(kit, suite.absolute)
         s1 == [suite EXCEPT !.report.migration = @ \cup types \cup legacy]
         s2 == IF AllTypes(kit, suite.absolute) = {} THEN Note(s1, "no-type-named")
               ELSE IF types = {} THEN Claim(s1, "types-known") ELSE s1
         s3 == IF legacy = {} THEN Claim(s2, "no-deprecated-endpoint") ELSE s2
     IN suite' = [s3 EXCEPT !.at = Verdict(s3.report)]
  /\ UNCHANGED shell

SuiteStep == ReadManifest \/ ImportFactory \/ RemoveSecret \/ Serve \/ ReturnSecret \/ Anchors \/ Scan

(* execute of conformance.py, in the environment it is given, and again in *)
(* the one it left.  Its exit code: --advisory covers `findings` only.     *)
StartSuite(advisory, absolute, web) ==
  /\ suite.at \in Over /\ InShell /\ Spend("suite")
  /\ suite' = [Fresh EXCEPT !.at = "manifest", !.advisory = advisory, !.absolute = absolute,
                            !.web = web]
  /\ edited' = FALSE /\ check' = NoCheck
  /\ shell' = [shell EXCEPT !.given = shell.present, !.cut = FALSE]
  /\ UNCHANGED kit
(* Ctrl-C ends it anywhere, and where the secrets are being taken out or   *)
(* put back, what is out stays out: `cut` says so.                         *)
Interrupt ==
  /\ suite.at \notin Over /\ InShell /\ Spend("interrupt")
  /\ IF suite.at = "serve" THEN suite' = Ended(suite, "raised") /\ UNCHANGED shell
     ELSE /\ suite' = [suite EXCEPT !.at = "raised"]
          /\ shell' = [shell EXCEPT !.removed = {}, !.cut = suite.at \in {"remove", "return"}]
  /\ UNCHANGED <<kit, edited, check>>
ExitCode == IF suite.at = "ok" \/ (suite.at = "findings" /\ suite.report.migration = {}
                                     /\ suite.advisory) THEN 0 ELSE 1

(* execute of check.py: the stages in order, conformance only after a      *)
(* manifest that passed.                                                   *)
StartCheck(valid, python, web) ==
  /\ InShell /\ suite.at \in Over /\ Spend("check")
  /\ check' = IF valid THEN [at |-> "validate", python |-> python, web |-> web, stages |-> <<>>]
              ELSE [NoCheck EXCEPT !.at = "over", !.stages = [i \in 1..3 |-> "unavailable"]]
  /\ suite' = Fresh /\ edited' = FALSE
  /\ UNCHANGED <<kit, shell>>

After(stage) == IF stage = "tests" THEN "over" ELSE Stage[CHOOSE i \in 2..3 : Stage[i - 1] = stage]
Result(status) ==
  check' = [check EXCEPT !.stages = Append(@, status), !.at = After(check.at)]
StageRuns == check.python = "ok"

(* A worker that cannot start or has no core reports nothing readable.     *)
NoWorker ==
  /\ check.at \in ToSet(Stage) /\ ~StageRuns
  /\ Result(IF check.at = "conformance" THEN "skipped" ELSE "unavailable")
  /\ UNCHANGED <<kit, edited, shell, suite, left>>

Validate ==
  /\ check.at = "validate" /\ StageRuns
  /\ Result(IF kit.manifest = "absent" THEN "failed"   \* read_text raises
            ELSE IF IsDoc(kit) /\ Lint(kit.doc) = {} THEN "passed" ELSE "failed")
  /\ UNCHANGED <<kit, edited, shell, suite, left>>

SkipConformance ==
  /\ check.at = "conformance" /\ StageRuns /\ check.stages[1] # "passed"
  /\ Result("skipped") /\ UNCHANGED <<kit, edited, shell, suite, left>>
StartConformance ==
  /\ check.at = "conformance" /\ StageRuns /\ check.stages[1] = "passed" /\ suite.at = "idle"
  /\ suite' = [Fresh EXCEPT !.at = "manifest", !.web = check.web]
  /\ UNCHANGED <<kit, edited, shell, check, left>>

(* A suite that skipped what the kit has is not passed: two of its three   *)
(* notes on that are recognised.                                           *)
AnyGreen == IF suite.at = "ok" THEN "passed" ELSE "failed"
SuiteStatus ==
  IF suite.at = "lacks-a-package" THEN "unavailable"
  ELSE IF suite.at # "ok" THEN "failed"
  ELSE IF "not-installed" \in suite.report.notes THEN "unavailable"
  ELSE IF "only-the-first" \in suite.report.notes THEN "skipped" ELSE "passed"
EndConformance ==
  /\ check.at = "conformance" /\ suite.at \in Over \ {"idle"}
  /\ Result(SuiteStatus) /\ UNCHANGED <<kit, edited, shell, suite, left>>

(* pytest.main in the worker: `exit` leaves no output behind it.           *)
TestStatus ==
  IF kit.tests = "pass" THEN "passed"
  ELSE IF kit.tests = "skip" THEN "skipped"
  ELSE IF kit.tests = "no-pytest" THEN "unavailable" ELSE "failed"
Tests ==
  /\ check.at = "tests" /\ StageRuns /\ kit.tests # "hang"
  /\ Result(TestStatus) /\ UNCHANGED <<kit, edited, shell, suite, left>>

(* The stage's time is up: the worker is killed.                           *)
TimesOut ==
  /\ check.at \in ToSet(Stage) /\ StageRuns
  /\ IF check.at = "tests" /\ kit.tests = "hang" THEN UNCHANGED left ELSE Spend("slow")
  /\ check.at # "conformance" \/ suite.at \notin Over
  /\ Result("failed")
  /\ suite' = IF check.at = "conformance" THEN [suite EXCEPT !.at = "raised"] ELSE suite
  /\ UNCHANGED <<kit, edited, shell>>

Ready == check.at = "over" /\ \A i \in DOMAIN check.stages : check.stages[i] = "passed"

EditKit(k) ==
  /\ Spend("edit") /\ k # kit
  /\ kit' = k /\ edited' = TRUE
  /\ UNCHANGED <<shell, suite, check>>

Init ==
  /\ kit \in Kits /\ edited = FALSE
  /\ shell = [given |-> Secrets, present |-> Secrets, removed |-> {}, cut |-> FALSE]
  /\ suite = Fresh
  /\ check = NoCheck
  /\ left \in Plans /\ RunbookInit

Command ==
  \/ \E advisory, absolute, web \in BOOLEAN : StartSuite(advisory, absolute, web)
  \/ \E python \in Pythons, valid, web \in BOOLEAN : StartCheck(valid, python, web)
  \/ Interrupt
  \/ SuiteStep /\ UNCHANGED <<kit, edited, check, left>>
  \/ NoWorker \/ Validate \/ SkipConformance \/ StartConformance \/ EndConformance \/ Tests
  \/ TimesOut
  \/ \E k \in Editions : EditKit(k)

Next ==
  \/ Command /\ UNCHANGED runbookVars
  \/ /\ \E line \in Line : ReadLine(line)
     /\ Spend("line") /\ UNCHANGED <<kit, edited, shell, suite, check>>

Spec == Init /\ [][Next]_vars

(* What no check of this code can see, of the flaws `kit.flaws` counts:    *)
(* the sources of a kit kept under a directory `tests`, and the saving of  *)
(* a payload whose fields have no neutral value.                           *)
SourceFlaw == {"deprecated-endpoint", "trace-envelope", "runtime-envelope", "unknown-type"}
Unseen(k) ==
  (IF k.underTests THEN SourceFlaw ELSE {})
    \cup When(k.state = "module" /\ Skips(k.payloads), "save")

(* `local_ready: true` is what an author ships on (SKILL.md:150; check.py  *)
(* :90): whatever was skipped, masked by an earlier finding, unavailable,  *)
(* timed out or garbled on the way, a kit that nobody edited during the    *)
(* command has none of the flaws, alone or in pairs, but those above.      *)
GreenIsEarned == Ready /\ ~edited => kit.flaws \subseteq Unseen(kit)

(* The suite removes the author's secrets while the surface is built and   *)
(* serves, "restoring the ambient environment afterwards" (conformance.py  *)
(* :277): when it is over, every secret it was given is back, also when    *)
(* the kit raised or the author interrupted, unless that interrupt came    *)
(* while they were being taken out, before the `try`, or put back.         *)
SecretsLentBack ==
  /\ suite.at \in Over => shell.present = shell.given \/ shell.cut
  /\ suite.at = "serve" /\ InShell => shell.present = {}

Switches(doc) == {doc.roles[r].switch : r \in DOMAIN doc.roles} \ {"none"}

(* A role that the lint let through resolves (llm_roles.py:20) for every   *)
(* provider the manifest declares and every setting of its switches, and   *)
(* arrives in the adapter as it was resolved: the two rules are written    *)
(* twice, in modules that different programs import.                       *)
LintedRolesResolve ==
  IsDoc(kit) /\ Lint(kit.doc) = {} =>
    \A c \in ToSet(kit.doc.live), p \in kit.doc.providers :
    \A set \in SUBSET Switches(kit.doc) : \A overrides \in [set -> BOOLEAN] :
      LET bound == ResolveRoles(kit.doc, c.roles, p, overrides) IN
      bound # Refused /\ \A b \in bound : Decoded(Envelope(b)) = bound

(* "`--advisory` does not reach" the migration checks (conformance.py:107), *)
(* so a conformance command that exits 0 on a kit nobody edited has seen   *)
(* no deprecated endpoint and no unknown type in what the kit ships.       *)
MigrationBlocks ==
  suite.at \in {"ok", "findings"} /\ check.at = "idle" /\ ExitCode = 0 /\ ~edited =>
    kit.flaws \cap SourceFlaw = {}
=============================================================================
