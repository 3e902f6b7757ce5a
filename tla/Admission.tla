----------------------------- MODULE Admission -----------------------------
(***************************************************************************)
(* synth-authoring admit (authoring/admission.py): a command that is run   *)
(* again and again over one progress file until the portal's admission of  *)
(* one released candidate has passed or failed.                            *)
(*                                                                         *)
(* The portal's runs are external.  A run climbs a ladder of rungs; POST   *)
(* returns the in-flight or passed run of the commit the tag resolves to,  *)
(* or starts a new one; GET returns a run.  The evidence a receipt pins,   *)
(* commit and image digest, is one value here: a commit has one image.     *)
(***************************************************************************)
EXTENDS Integers, Sequences

CONSTANTS
  Commit,      \* commits the release tag may resolve to
  NoCommit,    \* the commit of a receipt without a run
  Rungs,       \* rungs of the ladder
  MaxRuns,     \* the portal's capacity: runs it starts for this candidate
  MaxPolls,    \* bound on --timeout, in poll intervals
  Faults       \* subset of Fault

Fault == {"kill", "lost", "garbled", "misrouted", "moved", "disk"}

ASSUME AdmissionAssumption ==
  /\ NoCommit \notin Commit /\ Rungs \in Nat \ {0}
  /\ MaxRuns \in Nat /\ MaxPolls \in Nat /\ Faults \subseteq Fault

VARIABLES
  runs,      \* portal: its runs, in the order they were started
  tag,       \* portal: the commit the release tag resolves to
  file,      \* the progress file
  pc,        \* where the command is
  state,     \* its copy of the progress
  asked,     \* --retry-failed was given to this invocation
  retry,     \* the next request starts over from a failed run
  left,      \* polling time left, in poll intervals
  exit,      \* exit code of the last invocation, Killed without one
  handoffs   \* history: the registry handoffs printed

portal == <<runs, tag>>
vars == <<runs, tag, file, pc, state, asked, retry, left, exit, handoffs>>

StepStatus == {"passed", "failed", "pending"}
Verdict == [steps : [1..Rungs -> StepStatus], passed : BOOLEAN,
            eligible : BOOLEAN, failedStep : 0..Rungs]
Run == [commit : Commit, done : 0..Rungs, failed : BOOLEAN]
Receipt == [run : 0..MaxRuns, commit : Commit \cup {NoCommit},
            status : StepStatus \cup {"none"}]

Killed == -1

(* No file, and a file that only records the intent, read the same. *)
Intent == [run |-> 0, commit |-> NoCommit, status |-> "none"]

Init ==
  /\ runs = << >> /\ tag \in Commit
  /\ file = Intent /\ pc = "idle" /\ state = Intent
  /\ asked = FALSE /\ retry = FALSE /\ left = 0 /\ exit = Killed
  /\ handoffs = {}

-----------------------------------------------------------------------------
(* The portal. *)

Shape(done, failed) ==
  [steps |-> [k \in 1..Rungs |->
                IF k <= done THEN "passed"
                ELSE IF k = done + 1 /\ failed THEN "failed"
                ELSE "pending"],
   passed |-> done = Rungs,
   eligible |-> done = Rungs,
   failedStep |-> IF failed THEN done + 1 ELSE 0]

Genuine ==
  {Shape(d, FALSE) : d \in 0..Rungs} \cup {Shape(d, TRUE) : d \in 0..(Rungs - 1)}

Answer(r) ==
  [id |-> r, commit |-> runs[r].commit, ours |-> TRUE,
   verdict |-> Shape(runs[r].done, runs[r].failed)]

Climbs ==
  \E r \in DOMAIN runs :
    /\ ~runs[r].failed /\ runs[r].done < Rungs
    /\ \/ runs' = [runs EXCEPT ![r].done = @ + 1]
       \/ runs' = [runs EXCEPT ![r].failed = TRUE]
    /\ UNCHANGED <<tag, file, pc, state, asked, retry, left, exit, handoffs>>

(* Against the rules of a release, the tag is moved to another commit. *)
MoveTag ==
  /\ "moved" \in Faults
  /\ tag' \in Commit \ {tag}
  /\ UNCHANGED <<runs, file, pc, state, asked, retry, left, exit, handoffs>>

Reusable == {r \in DOMAIN runs : runs[r].commit = tag /\ ~runs[r].failed}

(* The run a POST is about, and what it does to the portal's runs. *)
Posted(r) ==
  \/ r \in Reusable /\ UNCHANGED runs
  \/ /\ Reusable = {} /\ Len(runs) < MaxRuns
     /\ r = Len(runs) + 1
     /\ runs' = Append(runs, [commit |-> tag, done |-> 0, failed |-> FALSE])

-----------------------------------------------------------------------------
(* The command. *)

Exit(code) ==
  /\ pc' = "idle" /\ exit' = code
  /\ state' = Intent /\ asked' = FALSE /\ retry' = FALSE /\ left' = 0

(* Arguments, token and progress file are in order. *)
Start ==
  /\ pc = "idle"
  /\ pc' = "intent" /\ state' = file
  /\ \E flag \in BOOLEAN :
       /\ asked' = flag
       /\ retry' = (flag /\ file.status = "failed")
  /\ left' \in 0..MaxPolls
  /\ UNCHANGED <<portal, file, exit, handoffs>>

(* Other arguments than the saved ones, no token, unreadable progress. *)
StartRefused ==
  /\ pc = "idle"
  /\ Exit(1)
  /\ UNCHANGED <<portal, file, handoffs>>

(* Forgets to read the file first. *)
SaveIntentAfresh ==
  /\ pc = "intent"
  /\ file' = Intent /\ pc' = "ask"
  /\ UNCHANGED <<portal, state, asked, retry, left, exit, handoffs>>

(* The intent, or what is known already, is saved before any request. *)
SaveIntent ==
  /\ pc = "intent"
  /\ file' = state /\ pc' = "ask"
  /\ UNCHANGED <<portal, state, asked, retry, left, exit, handoffs>>

(* POST until the run has passed. *)
PostsAlways == state.run = 0 \/ retry \/ state.status = "failed"
(* POST without a run, or to start over; GET otherwise. *)
Posts == state.run = 0 \/ retry

(* _checked_run: what it takes to be a verdict of a ladder (the first one  *)
(* trusts the portal's `passed`) ...                                       *)
ConsistentTrusting(v) ==
  LET failed == {k \in 1..Rungs : v.steps[k] = "failed"} IN
  /\ failed = {v.failedStep} \ {0}
  /\ v.eligible = v.passed
Consistent(v) ==
  LET failed == {k \in 1..Rungs : v.steps[k] = "failed"} IN
  /\ failed = {v.failedStep} \ {0}
  /\ v.passed = (\A k \in 1..Rungs : v.steps[k] = "passed")
  /\ v.eligible = v.passed
  /\ \A j, k \in 1..Rungs :
       j < k /\ v.steps[j] # "passed" => v.steps[k] = "pending"

(* ... of this candidate, this run and this evidence (the first one leaves *)
(* the evidence out).                                                      *)
AcceptsAnyEvidence(a) ==
  /\ a.ours /\ Consistent(a.verdict)
  /\ state.run # 0 => a.id = state.run \/ retry
Accepts(a) ==
  /\ a.ours /\ Consistent(a.verdict)
  /\ state.run # 0 => (a.id = state.run \/ retry) /\ a.commit = state.commit

Status(v) ==
  IF v.passed THEN "passed" ELSE IF v.failedStep # 0 THEN "failed" ELSE "pending"

(* The answer is checked; what it says is in memory, not yet in the file.  *)
(* A refused answer ends the command with the file as it is.               *)
Take(a) ==
  IF Accepts(a)
  THEN /\ state' = [run |-> a.id, commit |-> a.commit, status |-> Status(a.verdict)]
       /\ retry' = FALSE /\ pc' = "save"
       /\ UNCHANGED <<asked, left, exit>>
  ELSE Exit(1)

Post ==
  /\ pc = "ask" /\ Posts
  /\ \E r \in 1..MaxRuns : Posted(r) /\ Take(Answer(r)')
  /\ UNCHANGED <<tag, file, handoffs>>

Get ==
  /\ pc = "ask" /\ ~Posts
  /\ Take(Answer(state.run))
  /\ UNCHANGED <<portal, file, handoffs>>

(* The portal answers with a verdict no ladder has, for another candidate, *)
(* or, to a GET, with another run than the one it was asked for.           *)
Misanswered ==
  /\ pc = "ask"
  /\ \E r \in DOMAIN runs :
       \/ /\ "garbled" \in Faults
          /\ \E v \in Verdict \ Genuine : Take([Answer(r) EXCEPT !.verdict = v])
       \/ "misrouted" \in Faults /\ Take([Answer(r) EXCEPT !.ours = FALSE])
       \/ "misrouted" \in Faults /\ ~Posts /\ Take(Answer(r))
  /\ UNCHANGED <<portal, file, handoffs>>

(* The request fails or times out, before the portal acted or after it, or *)
(* is answered with an error status or something that is not JSON.         *)
NoAnswer ==
  /\ pc = "ask" /\ "lost" \in Faults
  /\ \/ UNCHANGED runs
     \/ Posts /\ \E r \in 1..MaxRuns : Posted(r)
  /\ Exit(1)
  /\ UNCHANGED <<tag, file, handoffs>>

(* Reports what it has not saved. *)
SaveNot ==
  /\ pc = "save" /\ pc' = "report"
  /\ UNCHANGED <<portal, file, state, asked, retry, left, exit, handoffs>>
Save ==
  /\ pc = "save"
  /\ file' = state /\ pc' = "report"
  /\ UNCHANGED <<portal, state, asked, retry, left, exit, handoffs>>

(* The directory cannot be written. *)
SaveFails ==
  /\ "disk" \in Faults /\ pc \in {"intent", "save"}
  /\ Exit(1)
  /\ UNCHANGED <<portal, file, handoffs>>

ReportPassed ==
  /\ pc = "report" /\ state.status = "passed"
  /\ handoffs' = handoffs \cup {[run |-> state.run, commit |-> state.commit]}
  /\ Exit(0)
  /\ UNCHANGED <<portal, file>>

ReportFailed ==
  /\ pc = "report" /\ state.status = "failed"
  /\ Exit(1)
  /\ UNCHANGED <<portal, file, handoffs>>

ReportPending ==
  /\ pc = "report" /\ state.status = "pending" /\ left = 0
  /\ Exit(2)
  /\ UNCHANGED <<portal, file, handoffs>>

(* The first sleeps without looking at the clock, the second once too      *)
(* often.                                                                  *)
SleepForEver ==
  /\ pc = "report" /\ state.status = "pending" /\ left > 0
  /\ pc' = "ask"
  /\ UNCHANGED <<portal, file, state, asked, retry, left, exit, handoffs>>

(* Sleep for a poll interval or what is left; requests use up time too. *)
Sleep ==
  /\ pc = "report" /\ state.status = "pending" /\ left > 0
  /\ left' \in 0..(left - 1) /\ pc' = "ask"
  /\ UNCHANGED <<portal, file, state, asked, retry, exit, handoffs>>

(* The command is killed; what it knew and had not saved is gone. *)
Kill ==
  /\ "kill" \in Faults /\ pc # "idle"
  /\ Exit(Killed)
  /\ UNCHANGED <<portal, file, handoffs>>

Command ==
  \/ SaveIntent \/ Post \/ Get \/ NoAnswer \/ Save \/ SaveFails
  \/ ReportPassed \/ ReportFailed \/ ReportPending \/ Sleep

Next == Start \/ StartRefused \/ Command \/ Misanswered \/ Kill \/ Climbs \/ MoveTag

Spec == Init /\ [][Next]_vars

(* A running command is scheduled and each of its requests ends within its *)
(* own timeout; the portal need not get anywhere.                          *)
FairSpec == Spec /\ WF_vars(Command \/ Misanswered)

-----------------------------------------------------------------------------
TypeOK ==
  /\ runs \in Seq(Run) /\ Len(runs) <= MaxRuns /\ tag \in Commit
  /\ file \in Receipt /\ state \in Receipt
  /\ pc \in {"idle", "intent", "ask", "save", "report"}
  /\ asked \in BOOLEAN /\ retry \in BOOLEAN
  /\ left \in 0..MaxPolls /\ exit \in {Killed} \cup 0..2
  /\ handoffs \subseteq [run : 1..MaxRuns, commit : Commit]
  /\ \A s \in {file, state} :
       s.run = 0 <=> s = Intent

(* A registry handoff is printed only for a run that has passed, for the   *)
(* commit that run was about, whatever the portal answered on the way.     *)
HandoffEarned ==
  \A h \in handoffs :
    /\ h.run \in DOMAIN runs /\ runs[h.run].commit = h.commit
    /\ runs[h.run].done = Rungs

(* Once a run is in the progress file, its evidence stays as it is, across *)
(* resumes, kills and moved tags, and the run itself is replaced only by   *)
(* an invocation that was told to retry it, after it had failed.           *)
ReceiptPinned ==
  [][file.run # 0 =>
       /\ file'.commit = file.commit
       /\ file'.run # file.run => asked /\ file.status = "failed"]_vars

(* What an exit code says is in the progress file for the next invocation: *)
(* 0 means passed and handed off, 2 means a run to resume.                 *)
ExitBacked ==
  pc = "idle" =>
    /\ exit = 0 => /\ file.status = "passed"
                   /\ [run |-> file.run, commit |-> file.commit] \in handoffs
    /\ exit = 2 => file.status = "pending"

(* The portal starts no second run for a receipt that holds one, unless it *)
(* was told to retry.                                                      *)
NoUnaskedRun ==
  [][Len(runs') > Len(runs) => file.run = 0 \/ (asked /\ file.status = "failed")]_vars

(* An invocation ends, whether or not the portal gets anywhere. *)
InvocationEnds == pc # "idle" ~> pc = "idle"
=============================================================================
