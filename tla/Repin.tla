------------------------------- MODULE Repin -------------------------------
(***************************************************************************)
(* `synth-authoring repin` (authoring/repin.py): every pin of core in a    *)
(* kit's pyproject.toml and in its publish workflow moves to one ref.  The *)
(* two files are read, rewritten and scanned first and written one after   *)
(* the other; a write may fail or be cut short, other repins and the       *)
(* author may change the files in between.                                 *)
(*                                                                         *)
(* A file is the refs it pins core to: those in the form the rewrite       *)
(* recognises, and those only the straggler scan recognises.               *)
(***************************************************************************)
EXTENDS Naturals, FiniteSets

CONSTANTS
  Tag,        \* release tags and full SHAs, what validate_core_ref accepts
  Branch,     \* other refs
  Checkouts,  \* what a kit checkout may pin before the first repin
  Repinner,   \* the invocations of repin_kit
  Author      \* who else writes the two files

VARIABLES
  pins,       \* the two files
  complete,   \* the manifest has a slug and the repository's URL is known
  repin,      \* each invocation: where it is and what it holds
  writer,     \* history: who wrote a file last
  wrote       \* history: the files an invocation has written

repinVars == <<pins, complete, repin, writer, wrote>>

Ref == Tag \cup Branch
ASSUME AuthorAssumption == Author \notin Repinner
File == {"pyproject", "workflow"}
Text == [std : SUBSET Ref, odd : SUBSET Ref]
Empty == [std |-> {}, odd |-> {}]
ASSUME CheckoutsAssumption == Checkouts \subseteq [File -> Text] /\ Ref # {}
Visible(f) == f.std \cup f.odd

(* rewrite_core_pins and rewrite_workflow_pin.                             *)
Rewritten(f, ref) == [f EXCEPT !.std = IF @ = {} THEN {} ELSE {ref}]

(* stale_core_refs, of the rewritten text; no pin at all is refused too.   *)
Stale(f, ref) == Visible(f) \ {ref}
NoScan(f, ref) == f.std = {}   \* without the stale refs
Refuses(f, ref) == f.std = {} \/ Stale(Rewritten(f, ref), ref) # {}

Fallow == [at |-> "idle", ref |-> CHOOSE r \in Ref : TRUE, dry |-> FALSE,
           tag |-> FALSE, text |-> [f \in File |-> Empty], image |-> "none"]
Resting == {"idle", "refused", "returned", "crashed"}

StartRepin(p, ref, dry, tag) ==
  /\ repin[p].at \in Resting
  /\ repin' = [repin EXCEPT ![p] =
       [Fallow EXCEPT !.ref = ref, !.dry = dry, !.tag = tag,
          !.at = IF ref \in Tag /\ complete THEN "pyproject" ELSE "refused"]]
  /\ wrote' = [wrote EXCEPT ![p] = {}]
  /\ UNCHANGED <<pins, complete, writer>>

AfterWorkflow(p) == IF repin[p].dry THEN "resolve" ELSE "write pyproject"

(* One file is read, rewritten and scanned: the workflow after pyproject.  *)
ReadFile(p, f, next) ==
  /\ repin[p].at = f
  /\ repin' = [repin EXCEPT
       ![p].at = IF Refuses(pins[f], repin[p].ref) THEN "refused" ELSE next,
       ![p].text[f] = Rewritten(pins[f], repin[p].ref)]
  /\ UNCHANGED <<pins, complete, writer, wrote>>

ReadPyproject(p) == ReadFile(p, "pyproject", "workflow")
ReadWorkflow(p) == ReadFile(p, "workflow", AfterWorkflow(p))

Writes(p, f, text, next) ==
  /\ pins' = [pins EXCEPT ![f] = text]
  /\ writer' = [writer EXCEPT ![f] = p]
  /\ wrote' = [wrote EXCEPT ![p] = @ \cup {f}]
  /\ repin' = [repin EXCEPT ![p].at = next]
  /\ UNCHANGED complete

WritePyproject(p) ==
  /\ repin[p].at = "write pyproject"
  /\ Writes(p, "pyproject", repin[p].text["pyproject"], "write workflow")

WriteWorkflow(p) ==
  /\ repin[p].at = "write workflow"
  /\ Writes(p, "workflow", repin[p].text["workflow"], "resolve")

(* resolve_image_digest: what GHCR answers is reported and never fatal,    *)
(* except an answer to the token request that holds no token.              *)
Answers == {"digest", "unpublished", "unreachable", "no token"}

Resolve(p) ==
  /\ repin[p].at = "resolve"
  /\ \E a \in IF repin[p].tag THEN Answers ELSE {"none"} :
       repin' = [repin EXCEPT ![p].image = a,
                              ![p].at = IF a = "no token" THEN "crashed" ELSE "returned"]
  /\ UNCHANGED <<pins, complete, writer, wrote>>

Stops(p) ==
  /\ repin[p].at \notin Resting
  /\ repin' = [repin EXCEPT ![p].at = "crashed"]
  /\ UNCHANGED <<pins, complete, writer, wrote>>

(* A write that fails or is killed half-way leaves the file cut short.     *)
WriteCutShort(p) ==
  \/ repin[p].at = "write pyproject" /\ Writes(p, "pyproject", Empty, "crashed")
  \/ repin[p].at = "write workflow" /\ Writes(p, "workflow", Empty, "crashed")

AuthorWrites(f, text) ==
  /\ pins' = [pins EXCEPT ![f] = text]
  /\ writer' = [writer EXCEPT ![f] = Author]
  /\ UNCHANGED <<complete, repin, wrote>>

RepinInit ==
  /\ pins \in Checkouts /\ complete \in BOOLEAN
  /\ repin = [p \in Repinner |-> Fallow]
  /\ writer = [f \in File |-> Author]
  /\ wrote = [p \in Repinner |-> {}]

Command ==
  [at : Resting \cup File \cup {"write pyproject", "write workflow", "resolve"},
   ref : Ref, dry : BOOLEAN, tag : BOOLEAN, text : [File -> Text],
   image : Answers \cup {"none"}]

RepinTypeOK ==
  /\ pins \in [File -> Text] /\ complete \in BOOLEAN
  /\ repin \in [Repinner -> Command]
  /\ wrote \in [Repinner -> SUBSET File]

(* A repin "never half-lands" (repin.py:14): one that was not stopped has  *)
(* written both files or, refused or dry, neither; and a file it was the   *)
(* last to write pins core to its ref wherever the scan can see a pin.     *)
NeverHalfLands ==
  \A p \in Repinner :
    /\ repin[p].at = "refused" => wrote[p] = {}
    /\ repin[p].at = "returned" => wrote[p] = (IF repin[p].dry THEN {} ELSE File)
    /\ repin[p].at \in {"refused", "returned"} =>
         \A f \in wrote[p] : writer[f] = p => Visible(pins[f]) = {repin[p].ref}
=============================================================================
