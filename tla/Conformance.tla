---------------------------- MODULE Conformance ----------------------------
(***************************************************************************)
(* The checks of authoring/conformance.py on what a kit checkout holds.    *)
(* `live` gives each component its command, health path and port; a        *)
(* companion what its factory and its routes do; a payload of the state    *)
(* module what its mechanism does; a source file what its lines name.      *)
(***************************************************************************)
EXTENDS Manifest, FiniteSets

When(holds, finding) == IF holds THEN {finding} ELSE {}

ManifestFindings(doc) ==
  UNION {When(c.command.text /\ ~c.command.placeholder, "no-placeholder")
           \cup When(c.health = "none", "no-health-path")
           \cup When(c.health = "relative", "health-path-is-no-route")
           \cup When(c.health = "/", "health-path-is-the-index") : c \in ToSet(doc.live)}

(* parse_invocation: exactly --config, --host and --port, of which the     *)
(* host has a default.                                                     *)
Parses(flags) == {"config", "port"} \subseteq flags /\ flags \subseteq {"config", "host", "port"}
BoundHost(command) == IF "host" \in command.flags THEN command.host ELSE "0.0.0.0"
CommandFinding(c) ==
  LET k == c.command IN
  IF ~k.text THEN {}
  ELSE IF ~k.splits THEN {"does-not-shell-parse"}
  ELSE IF ~k.synth THEN {"no-synth"}
  ELSE IF ~k.verb THEN {"no-verb"}
  ELSE IF ~Parses(k.flags) THEN {"not-the-fixed-invocation"}
  ELSE When(BoundHost(k) # "0.0.0.0", "binds-another-host")
         \cup When(k.port # c.port, "another-port")
         \cup When(Parses(k.flags \cup {"set"}), "accepts-an-override")
LiveCommandFindings(doc) == UNION {CommandFinding(c) : c \in ToSet(doc.live)}

(* _resolve_factory imports the kit's module; a module that raises what is *)
(* no import or attribute error ends the suite.                            *)
Importable(companion) == companion.factory # "missing"
ImportRaises(companion) == companion.factory = "raises-at-import"

(* companion_findings, once the web packages are there: the first          *)
(* component, built on an adapter that denies every client.  Any other     *)
(* exception of the factory ends the suite.                                *)
BuildRaises(companion) == companion.factory \in {"raises", "lacks-a-package"}
BuildFinding(companion) ==
  When(companion.factory = "wants-more-arguments", "not-create_app(adapter)")
    \cup When(companion.factory = "asks-for-a-client", "needs-a-client-to-build")
HealthFinding(companion) ==
  When(companion.health = "absent", "health-path-not-served")
    \cup When(companion.health = "other-body", "no-readiness-report")
IndexFinding(companion) == When(companion.index \in {"error", "empty"}, "index-does-not-render")
ServeFindings(companion) ==
  IF BuildFinding(companion) # {} THEN BuildFinding(companion)
  ELSE HealthFinding(companion) \cup IndexFinding(companion)

(* _probe_payload: the state file's name and its directory under two       *)
(* settings of the environment and under none, then a save and a load of a *)
(* payload made from neutral values, where its fields have such values.    *)
(* `dir` is how a payload finds its directory.                             *)
ProbeRaises(p) == p.dir \in {"no-fallback-declared", "needs-the-env"}
RoundTrip(p) ==
  IF ~p.fabricable THEN {}
  ELSE When(p.save = "elsewhere", "not-written-where-the-env-points")
         \cup When(p.save = "unloadable", "does-not-load-back")
         \cup When(p.save = "raises", "raised-while-probed")
ProbeFindings(p) ==
  IF p.dir = "no-fallback-declared" THEN {"raised-while-probed"}
  ELSE When(~p.canonical, "another-file-name")
         \cup When(p.dir \in {"fixed", "env-at-import", "cached"}, "ignores-the-env")
         \cup When(p.dir = "cached", "no-fallback")
         \cup IF ProbeRaises(p) THEN {"raised-while-probed"} ELSE RoundTrip(p)
AnchorsFindings(payloads) == UNION {ProbeFindings(p) : p \in ToSet(payloads)}
Skips(payloads) == \E p \in ToSet(payloads) : ~ProbeRaises(p) /\ ~p.fabricable

(* The sources a deployed container runs: src/ if there is one, the whole  *)
(* checkout if not, without what has `tests` in its path.  That path is    *)
(* the checkout's own when the kit is named by it: a kit that is kept      *)
(* under a directory `tests` (or `.venv`) then has no sources.             *)
Kept(kit) == IF kit.srcDir THEN {f \in ToSet(kit.files) : f.inSrc} ELSE ToSet(kit.files)
InTests(kit, file, absolute) == file.test \/ (absolute /\ kit.underTests)
ShippedSources(kit, absolute) ==
  {f \in Kept(kit) : ~InTests(kit, f, absolute) /\ f.readable}

ObservationType == {"span", "generation", "event", "agent", "tool", "chain", "retriever",
                    "embedding", "evaluator", "guardrail"}
(* A type that is named: the keyword it is under, the name in lower case,  *)
(* and whether it is written in lower case.  A file that does not parse    *)
(* names none.                                                             *)
Written(t) == IF t.keyword = "obs_type" \/ t.lower THEN t.name ELSE "not-lower-case"
NamedTypes(file) == IF file.parses THEN file.types ELSE {}
AllTypes(kit, absolute) == UNION {NamedTypes(f) : f \in ShippedSources(kit, absolute)}
TypeFindings(kit, absolute) ==
  When(\E t \in AllTypes(kit, absolute) : Written(t) \notin ObservationType, "unknown-type")

(* legacy_langfuse_findings: `names` is what the lines that are no comment *)
(* name; score-create counts anywhere in the file.                         *)
LegacyHits(file) ==
  When("deprecated-endpoint" \in file.names, "deprecated-endpoint")
    \cup IF "ingestion" \notin file.names THEN {}
         ELSE IF "trace-envelope" \in file.names THEN {"trace-envelope-posted"}
         ELSE When(~file.scoreCreate, "unreadable-envelope-posted")
LegacyFindings(kit, absolute) ==
  UNION {LegacyHits(f) \cup When(LegacyHits(f) # {} /\ "totals" \in f.names, "counts-by-totalItems") :
           f \in ShippedSources(kit, absolute)}
=============================================================================
