------------------------------ MODULE Manifest ------------------------------
(***************************************************************************)
(* The Contract lint of a kit's usecase.yaml (authoring/validate.py and    *)
(* setup*.py) and the resolution of its model roles (llm_roles.py), as     *)
(* operators on what a manifest declares.  A finding is the rule broken.   *)
(***************************************************************************)
EXTENDS Naturals, Sequences, SequencesExt

LlmProvider == {"anthropic", "openai"}
LlmKey == "LLM_API_KEY"
PipelineSecret == {LlmKey, "LANGFUSE_PUBLIC_KEY", "LANGFUSE_SECRET_KEY"}
ReservedVerb == {"probe", "plan", "seed", "verify", "resume", "teardown"}
ForbiddenStep == ReservedVerb \cup {"generate-spool", "import-spool", "import"}

(* A step: its id, the subcommands of synth that its commands (run,        *)
(* resumable, generate) invoke in order, its secrets.  A command that is   *)
(* no shell word list is "unparsed".                                       *)
FirstOf(run) == IF run = <<>> \/ run[1] = "unparsed" THEN "none" ELSE run[1]

SecretErrors(step) ==
  IF ~(ToSet(step.secrets) \subseteq PipelineSecret) THEN {"secret-not-allowed"}
  ELSE {e \in {"secret-twice"} : ~IsInjective(step.secrets)}
KeyedStepErrors(doc, step) ==
  IF LlmKey \notin ToSet(step.secrets) \/ ~(ToSet(step.secrets) \subseteq PipelineSecret)
  THEN {}
  ELSE {e \in {"key-without-providers"} : doc.providers = {}}
         \cup {e \in {"key-in-a-reserved-step"} : step.id \in ForbiddenStep}
         \cup {e \in {"key-beside-a-reserved-command", "unparsed-command"} :
                 (ToSet(step.run) \cup ToSet(step.more)) \cap
                   (IF e = "unparsed-command" THEN {"unparsed"} ELSE ForbiddenStep) # {}}
PipelineSecretErrors(doc) ==
  UNION {SecretErrors(s) \cup KeyedStepErrors(doc, s) : s \in ToSet(doc.pipeline)}

(* role_errors.  A role names a model per provider: "none", "blank" or one.*)
PinnedOnly(doc, role) == {role.provider} \ {"selected"}
PossibleProviders(doc, role) ==
  IF role.provider = "selected" THEN doc.providers ELSE {role.provider}
Named(model) == model \notin {"none", "blank"}
SwitchOk(doc, role) ==
  role.switch # "none" =>
    role.switch \in DOMAIN doc.knobs /\ doc.knobs[role.switch] \in {"on-by-default", "off-by-default"}

RoleErrors(doc) ==
  (UNION {{e \in {"role-without-a-model"} :
             \E p \in PossibleProviders(doc, doc.roles[r]) : ~Named(doc.roles[r].models[p])}
          \cup {e \in {"switch-is-no-boolean-with-a-default"} : ~SwitchOk(doc, doc.roles[r])} :
            r \in DOMAIN doc.roles})
  \cup {e \in {"undefined-role"} :
          \E c \in ToSet(doc.live) : ~(c.roles \subseteq DOMAIN doc.roles)}

DeclaredSecrets(doc) ==
  (UNION {ToSet(s.secrets) : s \in ToSet(doc.pipeline)})
    \cup (UNION {c.secrets : c \in ToSet(doc.live)})

SemanticErrors(doc) ==
  LET secrets == DeclaredSecrets(doc) IN
  PipelineSecretErrors(doc) \cup RoleErrors(doc)
    \cup {e \in {"key-without-an-llm-block"} : LlmKey \in secrets /\ ~doc.llm}
    \cup {e \in {"two-keys"} : {LlmKey, "ANTHROPIC_API_KEY"} \subseteq secrets}
    \cup {e \in {"model-of-no-provider"} : doc.llm /\ ~(doc.models \subseteq doc.providers)}

RequiredSteps(doc) == {e \in {"no-seed", "no-verify"} :
  (IF e = "no-seed" THEN "seed" ELSE "verify") \notin {s.id : s \in ToSet(doc.pipeline)}}
ReservedVerbs(doc) == {e \in {"reserved-verb-runs-something-else"} :
  \E s \in ToSet(doc.pipeline) : s.id \in ReservedVerb /\ FirstOf(s.run) # s.id}
MarkdownArtifact(doc) == {e \in {"no-runbook"} : ~doc.runbook}
CanonicalKnob == "generation.target_traces"
BespokeKnobs == {"generation.total_traces", "generation.volume.scale"}
VolumeKnob(doc) ==
  IF CanonicalKnob \notin DOMAIN doc.knobs THEN {}
  ELSE {e \in {"volume-is-no-integer"} : doc.knobs[CanonicalKnob] # "integer"}
         \cup {e \in {"two-volumes"} : BespokeKnobs \cap DOMAIN doc.knobs # {}}
AuthoringErrors(doc) ==
  RequiredSteps(doc) \cup ReservedVerbs(doc) \cup MarkdownArtifact(doc) \cup VolumeKnob(doc)

(* setup_errors and setup_schedule_errors.  `setup` gives the schedule     *)
(* (its zone is known or not, its history field or "none"), the fields it  *)
(* shows, and the values of each preset and host as knobs with a verdict   *)
(* of the knob's own schema on the value.                                  *)
KnownKnob(doc, k) == k \in DOMAIN doc.knobs
FieldErrors(doc, k) ==
  IF ~KnownKnob(doc, k) THEN {"undeclared-field"}
  ELSE {e \in {"secret-in-setup"} : doc.knobs[k] = "secret"}
ScheduleErrors(doc) ==
  LET s == doc.setup.schedule IN
  IF ~s.declared THEN {}
  ELSE {e \in {"unknown-timezone"} : ~s.zone}
         \cup (IF s.history = "none" THEN {}
               ELSE IF ~KnownKnob(doc, s.history) \/ doc.knobs[s.history] # "integer"
               THEN {"history-is-no-integer"}
               ELSE {e \in {"history-without-choices-or-default"} : ~s.choices})
HistoryField(doc) == IF ~doc.setup.schedule.declared THEN "none" ELSE doc.setup.schedule.history
SetupErrors(doc) ==
  IF ~doc.setup.declared THEN {}
  ELSE IF ~doc.setup.config THEN {"config-schema-is-no-schema"}
  ELSE ScheduleErrors(doc)
         \cup (UNION {FieldErrors(doc, k) : k \in doc.setup.fields})
         \cup (UNION {FieldErrors(doc, v.knob) \cup
                        {e \in {"value-against-its-schema"} : ~v.fits} : v \in doc.setup.values})
         \cup {e \in {"preset-sets-the-history"} :
                 \E v \in doc.setup.values : v.preset /\ v.knob = HistoryField(doc)}
         \cup {e \in {"host-not-supported"} : ~(doc.setup.hosts \subseteq doc.supports)}

(* validate_doc; `schema` holds what only the JSON schema refuses.         *)
Lint(doc) == doc.schema \cup SemanticErrors(doc) \cup AuthoringErrors(doc) \cup SetupErrors(doc)

(* resolve_manifest_roles, for the roles a component asks for, under the   *)
(* selected provider and the switches an operator has set; a refusal is    *)
(* an empty result, what resolves the only member of one.                  *)
Enabled(doc, role, overrides) ==
  role.switch # "none" =>
    IF role.switch \in DOMAIN overrides THEN overrides[role.switch]
    ELSE doc.knobs[role.switch] = "on-by-default"
BoundTo(role, selected) == IF role.provider = "selected" THEN selected ELSE role.provider
Resolvable(doc, r, selected) ==
  /\ r \in DOMAIN doc.roles /\ SwitchOk(doc, doc.roles[r])
  /\ BoundTo(doc.roles[r], selected) \in LlmProvider
  /\ Named(doc.roles[r].models[BoundTo(doc.roles[r], selected)])
On(doc, names, overrides) ==
  {r \in names : r \notin DOMAIN doc.roles \/ ~SwitchOk(doc, doc.roles[r])
                   \/ Enabled(doc, doc.roles[r], overrides)}
Refused == {}
ResolveRoles(doc, names, selected, overrides) ==
  LET on == On(doc, names, overrides) IN
  IF \E r \in on : ~Resolvable(doc, r, selected) THEN Refused
  ELSE {[r \in on |-> [provider |-> BoundTo(doc.roles[r], selected),
                       model |-> doc.roles[r].models[BoundTo(doc.roles[r], selected)]]]}

(* encode_role_bindings and decode_role_bindings: what an envelope keeps.  *)
Envelope(bindings) ==
  [version |-> 1, bindings |-> {[name |-> r, provider |-> bindings[r].provider,
                                 model |-> bindings[r].model] : r \in DOMAIN bindings}]
Decoded(env) ==
  IF env.version # 1 \/ \E b \in env.bindings : b.provider \notin LlmProvider \/ ~Named(b.model)
  THEN Refused
  ELSE {[r \in {b.name : b \in env.bindings} |->
          LET b == CHOOSE b \in env.bindings : b.name = r IN
          [provider |-> b.provider, model |-> b.model]]}
=============================================================================
