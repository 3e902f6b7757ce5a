----------------------------- MODULE MCKitFiles -----------------------------
(* Two skills and two builds, two installs; two tags and a branch, two      *)
(* repins; nine recipes, one freeze or gate beside another.                *)
EXTENDS KitFiles, TLC

CONSTANTS shared, f1, f2, mine, ours

MCNames == <<"authoring", "story">>
MCBuild == {1, 2}
MCVersion == [b \in MCBuild |-> b]
MCShipped == [b \in MCBuild |->
  ("authoring" :> (IF b = 1 THEN f1 ELSE f2)) @@ ("story" :> shared)]

MCCheckouts == {[f \in {"pyproject", "workflow"} |-> [std |-> {}, odd |-> {}]]} \cup {[pyproject |-> p, workflow |-> w] :
  p \in {[std |-> {"v1", "main"}, odd |-> {}], [std |-> {"v1"}, odd |-> {"v1"}], Empty},
  w \in {[std |-> {"v1"}, odd |-> {}], [std |-> {"main"}, odd |-> {"v2"}]}}

Plain(out) == [dials |-> {}, returns |-> "bytes", spool |-> [h \in 0..2 |-> {out}]]
Dials(caught) == {[host |-> "remote", via |-> "connect", caught |-> caught]}
MCStarter == Plain("a")
MCRecipes == {
  MCStarter, Plain("b"),
  [Plain("a") EXCEPT !.spool[1] = {"b"}],             \* ordered by hash
  [Plain("a") EXCEPT !.spool[2] = {"b"}],
  [Plain("a") EXCEPT !.spool = [h \in 0..2 |-> {"a", "b"}]],   \* by the clock
  [Plain("a") EXCEPT !.dials = Dials(FALSE)],         \* calls a model
  [Plain("b") EXCEPT !.dials = Dials(TRUE)],          \* and carries on without
  [Plain("a") EXCEPT !.dials =                        \* by a socket of its own
     {[host |-> "remote", via |-> "other", caught |-> FALSE]}],
  [Plain("a") EXCEPT !.returns = "text"]}

Plan(ns) == [m \in Moves |-> IF m \in DOMAIN ns THEN ns[m] ELSE 0]
MCPlans == {
  Plan([install |-> 2, edit |-> 1, upgrade |-> 1, kill |-> 1]),
  Plan([install |-> 2, edit |-> 1, fault |-> 1]),
  Plan([repin |-> 2, author |-> 1, kill |-> 1]),
  Plan([freeze |-> 2, gate |-> 1, recook |-> 1, kill |-> 1]),
  Plan([new |-> 1, repin |-> 1, recook |-> 1, kill |-> 1]),
  Plan([new |-> 2, author |-> 1, gate |-> 1])}

(* What a plan does not touch starts in one way.                            *)
Bare == [f \in File |-> Empty]
MCInit ==
  /\ Init
  /\ left["install"] = 0 => core = 1
  /\ left["new"] > 0 => pins = Bare /\ recipe = MCStarter /\ ~complete
  /\ left["new"] = 0 =>
       /\ pins # Bare /\ left["freeze"] = 0 => recipe = MCStarter
       /\ left["repin"] = 0 =>
            complete /\ pins = CHOOSE c \in MCCheckouts \ {Bare} : TRUE
MCSpec == MCInit /\ [][Next]_vars

Invocations == Permutations(Installer) \cup Permutations(Repinner)
                 \cup Permutations(Oracle)
=============================================================================
