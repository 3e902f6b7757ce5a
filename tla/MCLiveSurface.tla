---------------------------- MODULE MCLiveSurface ----------------------------
(* Two requests at a time, two publishers, one list of skills, an answer of *)
(* each kind from the bridge.                                               *)
EXTENDS LiveSurface, TLC

CONSTANTS q1, q2, p1, p2, l1, l2

Apm == [segments |-> <<"apm">>, spelling |-> "plain"]
Admin == [segments |-> <<"apm", "admin">>, spelling |-> "plain"]
MCHealth == <<"healthz">>
MCPolicies == {{}, {[path |-> Apm, access |-> "presenter"], [path |-> Admin, access |-> "manage"]},
  {[path |-> [segments |-> MCHealth, spelling |-> "plain"], access |-> "manage"]},
  {[path |-> [Apm EXCEPT !.spelling = "ambiguous"], access |-> "presenter"]}}

Rq(type, method, path, proofs) ==
  [type |-> type, method |-> method, path |-> path, proofs |-> proofs]
MCArrivals == {
  Rq("http", "POST", Apm, <<"own">>), Rq("http", "POST", Apm, <<>>),
  Rq("websocket", "GET", Admin, <<"own", "own">>),
  Rq("http", "GET", [segments |-> MCHealth, spelling |-> "plain"], <<>>),
  Rq("http", "POST", [Apm EXCEPT !.spelling = "encoded"], <<>>),
  Rq("lifespan", "none", Apm, <<>>)}

Good == Permit("openai", "shared")
MCBridge == {
  Good, Permit("anthropic", "environment"),
  [Good EXCEPT !.size = 2], [Good EXCEPT !.size = 3], [Good EXCEPT !.status = 302],
  [Good EXCEPT !.allowed = FALSE], [Good EXCEPT !.scope = "external-provider"],
  [Good EXCEPT !.zone = FALSE], [Good EXCEPT !.reason = "unauthorized"], [Good EXCEPT !.object = FALSE],
  [Good EXCEPT !.status = 409, !.allowed = FALSE, !.reason = "cap_exhausted"],
  [Good EXCEPT !.status = 403], [Good EXCEPT !.status = 503, !.object = FALSE]}

MCAsks == {<<>>, <<"">>} \cup {<<a, Latest, b>> : a, b \in Label}

Plan(ns) == [m \in Moves |-> IF m \in DOMAIN ns THEN ns[m] ELSE 0]
MCPlans == {
  Plan([permitted |-> 2, trace |-> 2, open |-> 1, score |-> 1, fail |-> 1]),
  Plan([permitted |-> 1, trace |-> 1, open |-> 2, fail |-> 2, worker |-> 1, die |-> 1]),
  Plan([arrive |-> 1, check |-> 2, die |-> 1]),
  Plan([publish |-> 3, fail |-> 1])}

(* What a plan does not touch starts in one way.                            *)
MCInit ==
  /\ Init
  /\ left["arrive"] = 0 => gate = "legacy"
  /\ left["check"] = 0 => gate # "refused"
MCSpec == MCInit /\ [][Next]_vars

Twins == Permutations(Request) \cup Permutations(Publisher) \cup Permutations(SkillList)
=============================================================================
