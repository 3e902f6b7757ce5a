--------------------------- MODULE MCAuthorGates ---------------------------
(* A scaffolded kit with a companion, anchors and model roles, with up to   *)
(* two deviations; `flaws` names those that break the Contract.             *)
EXTENDS AuthorGates, TLC

Good == [
  manifest |-> "mapping", schema |-> {}, llm |-> TRUE, providers |-> {"anthropic", "openai"},
  models |-> {}, role |-> [provider |-> "selected", switch |-> "none",
                           models |-> [p \in LlmProvider |-> "m1"]],
  asks |-> {"judge"}, volume |-> "integer", bespoke |-> {}, seed |-> <<"seed">>,
  verify |-> "verify", custom |-> <<"memo">>, more |-> <<>>, secrets |-> <<LlmKey>>,
  liveSecrets |-> {LlmKey, "LANGFUSE_PUBLIC_KEY"}, runbook |-> TRUE,
  zone |-> TRUE, history |-> "generation.days", choices |-> TRUE, preset |-> "generation.seed",
  config |-> TRUE, fits |-> TRUE, field |-> "generation.seed", hosts |-> {"cloud"},
  components |-> 1, placeholder |-> TRUE, splits |-> TRUE, synth |-> TRUE, verb |-> TRUE,
  flags |-> {"config", "host", "port"}, host |-> "0.0.0.0", port |-> 8080, health |-> "/healthz",
  factory |-> "builds", body |-> "report", index |-> "page",
  state |-> "module", canonical |-> TRUE, dir |-> "env", fabricable |-> TRUE, save |-> "loads",
  names |-> {"ingestion"}, score |-> TRUE, types |-> {[keyword |-> "obs_type", lower |-> FALSE, name |-> "agent"]},
  srcDir |-> TRUE, underTests |-> FALSE, testNames |-> {"deprecated-endpoint"}, tests |-> "pass"]

Doc(p) == [
  schema |-> p.schema, llm |-> p.llm, providers |-> IF p.llm THEN p.providers ELSE {},
  models |-> p.models, roles |-> [r \in IF p.llm THEN {"judge"} ELSE {} |-> p.role],
  knobs |-> [k \in {"generation.seed", "generation.days", CanonicalKnob, "deep", "shallow", "token"} \cup p.bespoke |->
    CASE k = CanonicalKnob -> p.volume [] k = "deep" -> "on-by-default"
      [] k = "shallow" -> "off-by-default" [] k = "token" -> "secret" [] OTHER -> "integer"],
  pipeline |-> <<[id |-> "seed", run |-> p.seed, more |-> <<>>, secrets |-> <<>>],
                 [id |-> p.verify, run |-> <<"verify">>, more |-> <<>>, secrets |-> <<>>],
                 [id |-> "memo", run |-> p.custom, more |-> p.more, secrets |-> p.secrets]>>,
  runbook |-> p.runbook, supports |-> {"cloud"},
  setup |-> [declared |-> TRUE, config |-> p.config, fields |-> {p.field}, hosts |-> p.hosts,
    values |-> {[knob |-> p.preset, preset |-> TRUE, fits |-> p.fits]},
    schedule |-> [declared |-> TRUE, zone |-> p.zone, history |-> p.history, choices |-> p.choices]],
  live |-> [i \in 1..p.components |-> [secrets |-> p.liveSecrets, roles |-> p.asks, health |-> p.health,
    port |-> 8080, command |-> [text |-> TRUE, placeholder |-> p.placeholder, splits |-> p.splits,
      synth |-> p.synth, verb |-> p.verb, flags |-> p.flags, host |-> p.host, port |-> p.port]]]]

Kit(p, flaws) == [
  flaws |-> flaws, manifest |-> p.manifest, doc |-> Doc(p),
  companion |-> [factory |-> p.factory, health |-> p.body, index |-> p.index],
  state |-> p.state, payloads |-> IF p.state # "module" THEN <<>>
    ELSE <<[canonical |-> p.canonical, dir |-> p.dir, fabricable |-> p.fabricable, save |-> p.save]>>,
  srcDir |-> p.srcDir, underTests |-> p.underTests, tests |-> p.tests,
  files |-> <<[inSrc |-> TRUE, test |-> FALSE, readable |-> TRUE, parses |-> TRUE, names |-> p.names,
               scoreCreate |-> p.score, types |-> p.types],
              [inSrc |-> FALSE, test |-> TRUE, readable |-> TRUE, parses |-> TRUE, names |-> p.testNames,
               scoreCreate |-> FALSE, types |-> {}]>>]

(* A deviation: a field, another value, and whether it breaks the Contract. *)
Flaw(field, values) == {[field |-> field, value |-> v, flaw |-> field] : v \in values}
Also(field, values) == {[field |-> field, value |-> v, flaw |-> "none"] : v \in values}
Of(flaw, field, values) == {[field |-> field, value |-> v, flaw |-> flaw] : v \in values}
Type(keyword, lower, name) == {[keyword |-> keyword, lower |-> lower, name |-> name]}

Deviations ==
  Flaw("manifest", {"absent", "unparsed", "no-mapping"}) \cup Flaw("schema", {{"schema"}})
    \cup Flaw("llm", {FALSE}) \cup Flaw("role", {[Good.role EXCEPT !.models["openai"] = "blank"],
           [Good.role EXCEPT !.switch = "generation.seed"], [Good.role EXCEPT !.switch = "ghost"]})
    \cup Also("role", {[Good.role EXCEPT !.switch = "deep"], [Good.role EXCEPT !.switch = "shallow"],
           [Good.role EXCEPT !.provider = "openai", !.models["anthropic"] = "none"]})
    \cup Also("providers", {{"openai"}}) \cup Also("models", {{"openai"}}) \cup Flaw("models", {{"mistral"}})
    \cup Flaw("asks", {{"judge", "ghost"}}) \cup Flaw("volume", {"string"})
    \cup Flaw("bespoke", {{"generation.total_traces"}})
    \cup Flaw("seed", {<<"plan">>, <<"unparsed">>}) \cup Flaw("verify", {"check", "seed"})
    \cup Flaw("custom", {<<"seed">>, <<"unparsed">>, <<"memo", "resume">>}) \cup Flaw("more", {<<"import-spool">>})
    \cup Flaw("secrets", {<<LlmKey, LlmKey>>, <<"AWS_KEY">>})
    \cup Flaw("liveSecrets", {{LlmKey, "ANTHROPIC_API_KEY"}}) \cup Flaw("runbook", {FALSE})
    \cup Flaw("zone", {FALSE}) \cup Flaw("history", {"deep", "ghost"}) \cup Flaw("choices", {FALSE})
    \cup Flaw("preset", {"ghost", "token", "generation.days"}) \cup Flaw("fits", {FALSE}) \cup Flaw("config", {FALSE})
    \cup Flaw("field", {"token", "ghost"}) \cup Flaw("hosts", {{"onprem"}})
    \cup Also("components", {0}) \cup Flaw("components", {2})
    \cup Flaw("placeholder", {FALSE}) \cup Flaw("splits", {FALSE}) \cup Flaw("synth", {FALSE})
    \cup Flaw("verb", {FALSE}) \cup Flaw("flags", {{"config", "host", "port", "set"}, {"config"}})
    \cup Also("flags", {{"config", "port"}}) \cup Flaw("host", {"127.0.0.1"}) \cup Flaw("port", {9090})
    \cup Flaw("health", {"none", "relative", "/"})
    \cup Flaw("factory", {"missing", "raises-at-import", "raises", "lacks-a-package",
                          "wants-more-arguments", "asks-for-a-client"})
    \cup Flaw("body", {"absent", "other-body"}) \cup Flaw("index", {"error", "empty"})
    \cup Also("state", {"none"}) \cup Flaw("state", {"broken"})
    \cup Flaw("canonical", {FALSE}) \cup Flaw("dir", {"fixed", "env-at-import", "cached", "needs-the-env",
                                                      "no-fallback-declared"})
    \cup Also("fabricable", {FALSE}) \cup Flaw("save", {"elsewhere", "unloadable", "raises"})
    \cup Of("deprecated-endpoint", "names", {{"deprecated-endpoint"}, {"deprecated-endpoint", "totals"}})
    \cup Of("trace-envelope", "names", {{"ingestion", "trace-envelope"}})
    \cup Of("runtime-envelope", "score", {FALSE}) \cup Also("names", {{"totals"}})
    \cup Of("unknown-type", "types", {Type("as_type", FALSE, "agent"), Type("obs_type", TRUE, "genration")})
    \cup Also("types", {Type("as_type", TRUE, "tool"), {}})
    \cup Also("srcDir", {FALSE}) \cup Also("underTests", {TRUE})
    \cup Flaw("tests", {"fail", "skip", "no-pytest", "hang", "exit"})

(* What a deviation means beside another: without its component, an anchor  *)
(* or a posted envelope, a flaw is none.                                    *)
OnCompanion == {"placeholder", "splits", "synth", "verb", "flags", "host", "port", "health",
                "factory", "body", "index", "asks", "liveSecrets"}
Moot(d, p) ==
  \/ d.field \in OnCompanion /\ p.components = 0
  \/ d.field \in {"canonical", "dir", "save", "fabricable"} /\ p.state # "module"
  \/ d.field = "score" /\ "ingestion" \notin p.names
  \/ d.field = "score" /\ "trace-envelope" \in p.names
  \/ d.field \in {"host", "port"} /\ d.field \notin p.flags
  \/ d.field = "choices" /\ p.history # "generation.days"
Deviated(ds) ==
  LET p == [f \in DOMAIN Good |-> IF \E d \in ds : d.field = f
                                  THEN (CHOOSE d \in ds : d.field = f).value ELSE Good[f]]
  IN Kit(p, {d.flaw : d \in {d \in ds : d.flaw # "none" /\ ~Moot(d, p)}})
Pairs == {ds \in {{d, e} : d, e \in Deviations} : \A d, e \in ds : d.field = e.field => d = e}
Clean == Kit(Good, {})
Singles == {Deviated({d}) : d \in Deviations}
MCKits == {Deviated(ds) : ds \in Pairs} \cup {Clean}

Plan(ns) == [m \in Moves |-> IF m \in DOMAIN ns THEN ns[m] ELSE 0]
MCPlans == {Plan([check |-> 1, slow |-> 1]), Plan([check |-> 1, edit |-> 1]),
            Plan([suite |-> 1]), Plan([suite |-> 2, interrupt |-> 1, edit |-> 1]), Plan([line |-> 5])}

(* What an editor may leave: the clean kit, or one with a flaw in a part    *)
(* that each step reads.                                                    *)
MCEditions == {Clean} \cup {Deviated({d}) : d \in {d \in Deviations :
  d.field \in {"runbook", "index", "canonical", "types"} \/ (d.field = "tests" /\ d.value = "fail")}}

(* A pair of deviations meets one check that nobody disturbs.               *)
MCInit ==
  /\ Init
  /\ left["line"] > 0 => kit = Clean
  /\ left["edit"] > 0 => kit \in Singles \cup {Clean}
MCSpec == MCInit /\ [][Next]_vars
=============================================================================
