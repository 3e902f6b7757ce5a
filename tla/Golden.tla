------------------------------- MODULE Golden -------------------------------
(***************************************************************************)
(* The determinism oracle (authoring/golden.py): `freeze` runs a kit's     *)
(* seed under three hash seeds and blesses one more run as the golden, the *)
(* gate runs it once and compares.  Every run is a process of its own      *)
(* (_seed_runner.py) behind the egress block (egress.py), and the author   *)
(* may change the recipe between any two of them.  The golden is written   *)
(* in place, so that others find it cut short meanwhile.                   *)
(***************************************************************************)
EXTENDS Naturals

CONSTANTS
  Spool,      \* what a seed may return, byte for byte
  Recipes,    \* the recipes an author may leave in the kit
  Oracle      \* the invocations of freeze and of the gate

VARIABLES
  recipe,     \* the kit's seed
  golden,     \* the snapshot file
  oracle,     \* each invocation: where it is and what it holds
  blessed,    \* history: the recipe whose run the golden holds
  sampled     \* history: that recipe, if it was under the whole freeze

goldenVars == <<recipe, golden, oracle, blessed, sampled>>

(* A recipe: the hosts it dials, and what it returns under a hash seed; it *)
(* may return different bytes from one run to the next.                    *)
HashSeed == 0..2
Dial == [host : {"loopback", "remote"},
         via : {"getaddrinfo", "create_connection", "connect", "other"},
         caught : BOOLEAN]
Recipe == [dials : SUBSET Dial, returns : {"bytes", "text"},
           spool : [HashSeed -> SUBSET Spool]]
ASSUME RecipeAssumption ==
  \A r \in Recipes : r \in Recipe /\ \A h \in HashSeed : r.spool[h] # {}

NoSpool == "none"
Torn == "torn"
Mixed == [returns |-> "several recipes"]
ASSUME SpoolAssumption ==
  {NoSpool, Torn, "blocked", "failed"} \cap Spool = {} /\ Mixed \notin Recipes

(* install_guard patches getaddrinfo, create_connection and connect; what  *)
(* goes around them is steered at a sink by the proxy variables, if it     *)
(* minds them.                                                             *)
Denied(d) == d.host # "loopback" /\ d.via # "other"
Sunk(d) == d.host # "loopback" /\ d.via = "other"

(* What a run of the seed process may end with: exit 42, exit 1, a Spool.  *)
Outcomes(r, h) ==
  LET open == {d \in r.dials : ~d.caught} IN
  (IF \E d \in open : Denied(d) THEN {"blocked"}
   ELSE IF r.returns = "bytes" THEN r.spool[h] ELSE {"failed"})
  \cup {"failed" : d \in {d \in open : Sunk(d)}}

Verdicts == {"blessed", "not repeatable", "missing", "matches", "differs", "blocked", "failed"}
AtRest == Verdicts \cup {"idle", "killed"}
Unused == [at |-> "idle", baseline |-> NoSpool, fresh |-> NoSpool,
           under |-> Mixed, cooked |-> Mixed]

StartFreeze(o) ==
  /\ oracle[o].at \in AtRest
  /\ oracle' = [oracle EXCEPT ![o] = [Unused EXCEPT !.at = "baseline", !.under = recipe]]
  /\ UNCHANGED <<recipe, golden, blessed, sampled>>

(* materialize_spool: exit 42 and every other failure end the command;     *)
(* then[out] is where it goes on from with a Spool.                        *)
Materialize(o, h, then) ==
  /\ \E out \in Outcomes(recipe, h) :
       oracle' = [oracle EXCEPT ![o] =
         IF out \in Spool THEN then[out] ELSE [@ EXCEPT !.at = out]]
  /\ UNCHANGED <<recipe, golden, blessed, sampled>>

PassOn(o, out, next) == [oracle[o] EXCEPT !.at = next]   \* not compared
Compared(o, out, next) ==
  [oracle[o] EXCEPT !.at = IF out = oracle[o].baseline THEN next ELSE "not repeatable"]

(* assert_repeatable: hash seeds 0, 1 and 2.                               *)
Baseline(o) ==
  /\ oracle[o].at = "baseline"
  /\ Materialize(o, 0, [out \in Spool |-> [oracle[o] EXCEPT !.at = "second", !.baseline = out]])
Second(o) ==
  /\ oracle[o].at = "second"
  /\ Materialize(o, 1, [out \in Spool |-> Compared(o, out, "third")])
Third(o) ==
  /\ oracle[o].at = "third"
  /\ Materialize(o, 2, [out \in Spool |-> Compared(o, out, "final")])

(* freeze materialises once more, and writes that.                         *)
Final(o) ==
  /\ oracle[o].at = "final"
  /\ Materialize(o, 0, [out \in Spool |->
       [oracle[o] EXCEPT !.at = "bless", !.fresh = out, !.cooked = recipe]])

(* write_bytes truncates the file, then writes it.  Two freezes that do so *)
(* at once write over each other, and what is left may be of both.         *)
LeftShort == golden' = Torn /\ blessed' = Mixed /\ sampled' = Mixed
WrittenWhole(o) ==
  /\ golden' = oracle[o].fresh
  /\ blessed' = oracle[o].cooked /\ sampled' = oracle[o].under
Overlaid(o) ==
  \/ golden \notin {Torn, oracle[o].fresh}
  \/ \E q \in Oracle \ {o} : oracle[q].at = "writing"

Truncate(o) ==
  /\ oracle[o].at = "bless" /\ LeftShort
  /\ oracle' = [oracle EXCEPT ![o].at = "writing"]
  /\ UNCHANGED recipe
Bless(o) ==
  /\ oracle[o].at = "writing"
  /\ WrittenWhole(o) \/ (Overlaid(o) /\ LeftShort)
  /\ oracle' = [oracle EXCEPT ![o].at = "blessed"]
  /\ UNCHANGED recipe

(* assert_golden.                                                          *)
StartGate(o) ==
  /\ oracle[o].at \in AtRest
  /\ oracle' = [oracle EXCEPT ![o] =
       [Unused EXCEPT !.at = IF golden = NoSpool THEN "missing" ELSE "gate",
                      !.under = recipe]]
  /\ UNCHANGED <<recipe, golden, blessed, sampled>>
GateRun(o) ==
  /\ oracle[o].at = "gate"
  /\ Materialize(o, 0, [out \in Spool |-> [oracle[o] EXCEPT !.at = "compare", !.fresh = out]])
(* What was read is kept as the baseline of the gate, with its recipe.     *)
Judge(o) ==
  /\ oracle[o].at = "compare"
  /\ oracle' = [oracle EXCEPT
       ![o].at = IF oracle[o].fresh = golden THEN "matches" ELSE "differs",
       ![o].baseline = golden, ![o].cooked = blessed]
  /\ UNCHANGED <<recipe, golden, blessed, sampled>>

(* A kill; in the middle of write_bytes it leaves the file as it was then. *)
KillOracle(o) ==
  /\ oracle[o].at \notin AtRest
  /\ oracle' = [oracle EXCEPT ![o].at = "killed"]
  /\ \/ UNCHANGED <<golden, blessed, sampled>>
     \/ oracle[o].at = "writing" /\ (LeftShort \/ WrittenWhole(o))
  /\ UNCHANGED recipe

Recook(r) ==
  /\ recipe' = r
  /\ oracle' = [o \in Oracle |->
       IF oracle[o].at \in AtRest \/ r = recipe THEN oracle[o]
       ELSE [oracle[o] EXCEPT !.under = Mixed]]
  /\ UNCHANGED <<golden, blessed, sampled>>

GoldenInit ==
  /\ recipe \in Recipes /\ golden = NoSpool
  /\ blessed = Mixed /\ sampled = Mixed
  /\ oracle = [o \in Oracle |-> Unused]

Run == [at : AtRest \cup {"baseline", "second", "third", "final", "bless",
                          "writing", "gate", "compare"},
        baseline : Spool \cup {NoSpool, Torn}, fresh : Spool \cup {NoSpool},
        under : Recipes \cup {Mixed}, cooked : Recipes \cup {Mixed}]

GoldenTypeOK ==
  /\ recipe \in Recipes /\ golden \in Spool \cup {NoSpool, Torn}
  /\ blessed \in Recipes \cup {Mixed} /\ sampled \in Recipes \cup {Mixed}
  /\ oracle \in [Oracle -> Run]

(* A recipe whose every run under one hash seed returns the same bytes.    *)
Repeats(r, h) == \E out \in Spool : r.spool[h] = {out}
Settled(r) == \A h \in HashSeed : Repeats(r, h)

(* A gate that found a recipe to differ that nobody edited during its run  *)
(* and that always returns the same.                                       *)
CallsSteadyDifferent(o) ==
  /\ oracle[o].at = "differs" /\ oracle[o].under # Mixed
  /\ Repeats(oracle[o].under, 0)

(* The golden is a Spool of the recipe that was there at the last of the   *)
(* four runs of its freeze.  If that recipe was there at all of them, and  *)
(* returns the same in each, it does so under every sampled hash seed,     *)
(* which is what freeze "cannot bless" otherwise (golden.py:157), and it   *)
(* dials nobody out.  And the gate says that such a recipe differs only    *)
(* from a golden of another one, or from a file that a freeze had not      *)
(* finished writing when it was read (golden.py:173, 194).                 *)
OracleHonest ==
  /\ golden \in Spool => blessed # Mixed /\ golden \in Outcomes(blessed, 0)
  /\ golden \in Spool /\ sampled # Mixed /\ Settled(sampled) =>
       /\ \A h \in HashSeed : sampled.spool[h] = {golden}
       /\ \A d \in sampled.dials : Denied(d) => d.caught
  /\ \A o \in Oracle : CallsSteadyDifferent(o) =>
       oracle[o].baseline = Torn \/ oracle[o].cooked # oracle[o].under
=============================================================================
