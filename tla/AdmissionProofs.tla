-------------------------- MODULE AdmissionProofs --------------------------
(***************************************************************************)
(* Theorems about Admission, for any portal capacity, ladder and set of    *)
(* faults: type correctness, and the invariants and action properties the  *)
(* run checks, from one inductive invariant.                               *)
(***************************************************************************)
EXTENDS Admission, SequenceTheorems, TLAPS

(* What a receipt says of its run is true of the portal's run. *)
Known(s) ==
  s.run # 0 => /\ s.run \in DOMAIN runs
               /\ runs[s.run].commit = s.commit
               /\ s.status = "passed" => runs[s.run].done = Rungs

(* How the command's copy of the progress relates to the file. *)
CopyInv ==
  /\ pc = "idle" => state = Intent
  /\ pc \in {"intent", "ask"} => state = file
  /\ pc = "report" => state = file /\ file.run # 0
  /\ pc = "save" =>
       /\ state.run # 0
       /\ file.run # 0 =>
            /\ state.commit = file.commit
            /\ state.run # file.run => asked /\ file.status = "failed"
  /\ retry => pc \in {"intent", "ask"} /\ asked /\ file.status = "failed"

IInv ==
  /\ TypeOK /\ Known(file) /\ Known(state) /\ CopyInv
  /\ HandoffEarned /\ ExitBacked

---------------------------------------------------------------------------
(* The portal's runs: none is lost, none changes its commit, none that     *)
(* passed is undone.                                                       *)

Grown(rs, rs2) ==
  /\ rs2 \in Seq(Run) /\ Len(rs2) <= MaxRuns /\ Len(rs) <= Len(rs2)
  /\ \A r \in 1..Len(rs) : /\ rs2[r].commit = rs[r].commit
                           /\ rs[r].done = Rungs => rs2[r].done = Rungs

LEMMA PostedGrows ==
  ASSUME TypeOK, NEW r \in 1..MaxRuns, Posted(r)
  PROVE  /\ Grown(runs, runs') /\ r \in 1..Len(runs')
<1> USE AdmissionAssumption
<1>1. runs \in Seq(Run) /\ Len(runs) \in Nat /\ Len(runs) <= MaxRuns
  BY LenProperties DEF TypeOK
<1>2. CASE r \in Reusable /\ UNCHANGED runs
  BY <1>1, <1>2, LenProperties DEF Grown, Reusable
<1>3. CASE /\ Len(runs) < MaxRuns /\ r = Len(runs) + 1
           /\ runs' = Append(runs, [commit |-> tag, done |-> 0, failed |-> FALSE])
  <2>1. [commit |-> tag, done |-> 0, failed |-> FALSE] \in Run
    BY DEF TypeOK, Run
  <2>2. /\ runs' \in Seq(Run) /\ Len(runs') = Len(runs) + 1
        /\ \A k \in 1..Len(runs) : runs'[k] = runs[k]
    BY <1>1, <1>3, <2>1, AppendProperties
  <2> QED
    BY <1>1, <1>3, <2>2 DEF Grown
<1> QED
  BY <1>2, <1>3 DEF Posted

LEMMA ClimbGrows ==
  ASSUME TypeOK, Climbs
  PROVE  Grown(runs, runs') /\ Len(runs') = Len(runs)
<1> USE AdmissionAssumption
<1>1. runs \in Seq(Run) /\ Len(runs) \in Nat /\ DOMAIN runs = 1..Len(runs)
      /\ Len(runs) <= MaxRuns
  BY LenProperties DEF TypeOK
<1>2. PICK r \in 1..Len(runs) :
        /\ ~runs[r].failed /\ runs[r].done < Rungs
        /\ \/ runs' = [runs EXCEPT ![r].done = @ + 1]
           \/ runs' = [runs EXCEPT ![r].failed = TRUE]
  BY <1>1 DEF Climbs
<1>3. runs[r] \in Run
  BY <1>1, ElementOfSeq
<1>4. PICK e \in Run : /\ runs' = [runs EXCEPT ![r] = e]
                       /\ e.commit = runs[r].commit
  <2>1. CASE runs' = [runs EXCEPT ![r].done = @ + 1]
    <3>1. [runs[r] EXCEPT !.done = @ + 1] \in Run
      BY <1>2, <1>3 DEF Run
    <3> QED
      BY <2>1, <3>1, <1>3 DEF Run
  <2>2. CASE runs' = [runs EXCEPT ![r].failed = TRUE]
    <3>1. [runs[r] EXCEPT !.failed = TRUE] \in Run
      BY <1>2, <1>3 DEF Run
    <3> QED
      BY <2>2, <3>1, <1>3 DEF Run
  <2> QED
    BY <1>2, <2>1, <2>2
<1>5. /\ runs' \in Seq(Run) /\ Len(runs') = Len(runs)
      /\ \A k \in 1..Len(runs) : runs'[k] = IF k = r THEN e ELSE runs[k]
  BY <1>1, <1>4, ExceptSeq
<1> QED
  BY <1>1, <1>2, <1>3, <1>4, <1>5 DEF Grown, Run

LEMMA SameGrows ==
  ASSUME TypeOK, UNCHANGED runs
  PROVE  Grown(runs, runs')
  BY LenProperties DEF TypeOK, Grown

LEMMA KnownStays ==
  ASSUME TypeOK, NEW s \in Receipt, Known(s), Grown(runs, runs')
  PROVE  s.run # 0 => /\ s.run \in DOMAIN runs'
                      /\ runs'[s.run].commit = s.commit
                      /\ s.status = "passed" => runs'[s.run].done = Rungs
<1>1. Len(runs) \in Nat /\ Len(runs') \in Nat
      /\ DOMAIN runs = 1..Len(runs) /\ DOMAIN runs' = 1..Len(runs')
  BY LenProperties DEF TypeOK, Grown
<1> QED
  BY <1>1 DEF Known, Grown

LEMMA HandoffsStay ==
  ASSUME TypeOK, HandoffEarned, Grown(runs, runs'), handoffs' = handoffs
  PROVE  HandoffEarned'
<1>1. Len(runs) \in Nat /\ Len(runs') \in Nat
      /\ DOMAIN runs = 1..Len(runs) /\ DOMAIN runs' = 1..Len(runs')
  BY LenProperties DEF TypeOK, Grown
<1> QED
  BY <1>1 DEF HandoffEarned, Grown

---------------------------------------------------------------------------
(* The answers. *)

(* What an answer that is accepted says of its run is true. *)
Truthful(a, rs) ==
  /\ a.id \in DOMAIN rs /\ rs[a.id].commit = a.commit
  /\ a.ours /\ Consistent(a.verdict) /\ a.verdict.passed => rs[a.id].done = Rungs

(* A verdict that says "passed", and is consistent, is that of a ladder    *)
(* with every rung passed.                                                 *)
LEMMA PassedIsGenuine ==
  ASSUME NEW v \in Verdict, Consistent(v), v.passed
  PROVE  v \in Genuine
<1> USE AdmissionAssumption
<1>1. \A k \in 1..Rungs : v.steps[k] = "passed"
  BY DEF Consistent
<1>2. v.failedStep = 0
  <2>1. {k \in 1..Rungs : v.steps[k] = "failed"} = {}
    BY <1>1
  <2> QED
    BY <2>1 DEF Consistent, Verdict
<1>3. v.eligible = TRUE /\ v.passed = TRUE
  BY DEF Consistent, Verdict
<1>4. v.steps = [k \in 1..Rungs |-> "passed"]
  BY <1>1 DEF Verdict
<1>5. v = Shape(Rungs, FALSE)
  <2>1. [k \in 1..Rungs |->
           IF k <= Rungs THEN "passed"
           ELSE IF k = Rungs + 1 /\ FALSE THEN "failed" ELSE "pending"]
        = [k \in 1..Rungs |-> "passed"]
    OBVIOUS
  <2> QED
    BY <1>2, <1>3, <1>4, <2>1 DEF Shape, Verdict
<1>6. Rungs \in 0..Rungs
  OBVIOUS
<1> QED
  BY <1>5, <1>6 DEF Genuine

LEMMA IntentIsReceipt == Intent \in Receipt
  BY AdmissionAssumption DEF Intent, Receipt

LEMMA AnswerTruthful ==
  ASSUME NEW rs \in Seq(Run), NEW r \in 1..Len(rs),
         NEW a, a = [id |-> r, commit |-> rs[r].commit, ours |-> TRUE,
                     verdict |-> Shape(rs[r].done, rs[r].failed)]
  PROVE  Truthful(a, rs)
  BY LenProperties DEF Truthful, Shape

(* Once a checked answer is in memory, the invariant holds again. *)
LEMMA TakeKeeps ==
  ASSUME IInv, pc = "ask", NEW a, Truthful(a, runs'), Grown(runs, runs'),
         Take(a), UNCHANGED <<tag, file, handoffs>>
  PROVE  IInv'
<1> USE AdmissionAssumption
<1>1. /\ TypeOK /\ Known(file) /\ Known(state) /\ CopyInv /\ HandoffEarned
      /\ file \in Receipt /\ state \in Receipt /\ file' = file
  BY DEF IInv, TypeOK
<1>2. /\ runs' \in Seq(Run) /\ Len(runs') <= MaxRuns /\ Len(runs') \in Nat
      /\ DOMAIN runs' = 1..Len(runs')
  BY LenProperties DEF Grown
<1>3. Known(file)'
  BY <1>1, KnownStays DEF Known
<1>4. HandoffEarned'
  BY <1>1, HandoffsStay
<1>5. CASE Accepts(a)
  <2>1. /\ state' = [run |-> a.id, commit |-> a.commit, status |-> Status(a.verdict)]
        /\ retry' = FALSE /\ pc' = "save" /\ UNCHANGED <<asked, left, exit>>
    BY <1>5 DEF Take
  <2>2. a.id \in 1..MaxRuns /\ a.commit \in Commit /\ a.id # 0
    <3>1. runs'[a.id] \in Run
      BY <1>2, ElementOfSeq DEF Truthful
    <3> QED
      BY <1>2, <3>1 DEF Truthful, Run
  <2>3. Status(a.verdict) \in StepStatus
    BY DEF Status, StepStatus
  <2>4. state' \in Receipt /\ state' # Intent /\ state'.run # 0
    BY <2>1, <2>2, <2>3 DEF Receipt, Intent
  <2>5. TypeOK'
    BY <1>1, <1>2, <2>1, <2>4 DEF TypeOK
  <2>6. Known(state)'
    <3>1. Status(a.verdict) = "passed" => a.verdict.passed
      BY DEF Status
    <3> QED
      BY <1>5, <2>1, <3>1 DEF Known, Accepts, Truthful
  <2>7. CopyInv'
    <3>1. state = file
      BY <1>1 DEF CopyInv
    <3>2. file.run # 0 => /\ a.commit = file.commit
                          /\ a.id # file.run => retry
      BY <1>5, <3>1 DEF Accepts
    <3> QED
      BY <1>1, <2>1, <2>2, <3>2 DEF CopyInv
  <2>8. ExitBacked'
    BY <2>1 DEF ExitBacked
  <2> QED
    BY <1>3, <1>4, <2>5, <2>6, <2>7, <2>8 DEF IInv
<1>6. CASE ~Accepts(a)
  <2>1. Exit(1)
    BY <1>6 DEF Take
  <2>2. TypeOK'
    <3>1. /\ state' = Intent /\ Intent \in Receipt
          /\ exit' = 1 /\ left' = 0 /\ pc' = "idle"
          /\ asked' = FALSE /\ retry' = FALSE
      BY <2>1, IntentIsReceipt DEF Exit
    <3>2. 0 \in 0..MaxPolls /\ 1 \in {Killed} \cup 0..2
      BY DEF Killed
    <3>3. \A s \in {file', state'} : s.run = 0 <=> s = Intent
      BY <1>1, <3>1 DEF TypeOK, Intent
    <3> QED
      BY <1>1, <1>2, <3>1, <3>2, <3>3 DEF TypeOK
  <2>3. Known(state)' /\ CopyInv' /\ ExitBacked'
    BY <2>1 DEF Exit, Intent, Known, CopyInv, ExitBacked
  <2> QED
    BY <1>3, <1>4, <2>2, <2>3 DEF IInv
<1> QED
  BY <1>5, <1>6

(* An end of the command that leaves the file alone. *)
LEMMA ExitKeeps ==
  ASSUME IInv, NEW code \in {Killed, 1}, Exit(code), Grown(runs, runs'),
         UNCHANGED <<tag, file, handoffs>>
  PROVE  IInv'
<1> USE AdmissionAssumption
<1>1. /\ TypeOK /\ Known(file) /\ HandoffEarned /\ file \in Receipt /\ file' = file
  BY DEF IInv, TypeOK
<1>2. Known(file)'
  BY <1>1, KnownStays DEF Known
<1>3. HandoffEarned'
  BY <1>1, HandoffsStay
<1>4. TypeOK'
  <2>1. /\ state' = Intent /\ Intent \in Receipt
        /\ exit' = code /\ left' = 0 /\ pc' = "idle"
        /\ asked' = FALSE /\ retry' = FALSE
    BY IntentIsReceipt DEF Exit
  <2>2. 0 \in 0..MaxPolls /\ code \in {Killed} \cup 0..2
    BY DEF Killed
  <2>3. \A s \in {file', state'} : s.run = 0 <=> s = Intent
    BY <1>1, <2>1 DEF TypeOK, Intent
  <2> QED
    BY <1>1, <2>1, <2>2, <2>3 DEF TypeOK, Grown
<1>5. Known(state)' /\ CopyInv' /\ ExitBacked'
  BY DEF Exit, Intent, Known, CopyInv, ExitBacked, Killed
<1> QED
  BY <1>2, <1>3, <1>4, <1>5 DEF IInv

---------------------------------------------------------------------------
(* The steps. *)

LEMMA InitInv == Init => IInv
<1> SUFFICES ASSUME Init
             PROVE  IInv
  OBVIOUS
<1> USE AdmissionAssumption
<1>1. runs \in Seq(Run) /\ Len(runs) = 0
  BY EmptySeq DEF Init
<1>2. TypeOK
  <2>1. /\ runs \in Seq(Run) /\ Len(runs) <= MaxRuns /\ tag \in Commit
    BY <1>1 DEF Init
  <2>2. /\ file = Intent /\ state = Intent /\ Intent \in Receipt /\ Intent.run = 0
        /\ pc = "idle" /\ asked = FALSE /\ retry = FALSE /\ handoffs = {}
    BY IntentIsReceipt DEF Init, Intent
  <2>3. left \in 0..MaxPolls /\ exit \in {Killed} \cup 0..2
    BY DEF Init
  <2> QED
    BY <2>1, <2>2, <2>3 DEF TypeOK
<1>3. Known(file) /\ Known(state) /\ CopyInv
  BY DEF Init, Known, CopyInv, Intent
<1>4. HandoffEarned /\ ExitBacked
  BY DEF Init, HandoffEarned, ExitBacked, Killed
<1> QED
  BY <1>2, <1>3, <1>4 DEF IInv

(* The steps that move the command without an answer of the portal. *)
LEMMA QuietKeeps ==
  ASSUME IInv, Start \/ SaveIntent \/ Save \/ ReportPassed \/ Sleep
  PROVE  IInv'
<1> USE AdmissionAssumption DEF portal
<1>1. /\ TypeOK /\ Known(file) /\ Known(state) /\ CopyInv /\ HandoffEarned
      /\ ExitBacked /\ file \in Receipt /\ state \in Receipt
  BY DEF IInv, TypeOK
<1>2. CASE Start
  <2>1. TypeOK'
    BY <1>1, <1>2 DEF Start, TypeOK
  <2>2. Known(file)' /\ Known(state)' /\ HandoffEarned'
    BY <1>1, <1>2 DEF Start, Known, HandoffEarned
  <2>3. CopyInv'
    <3>1. PICK flag \in BOOLEAN : /\ asked' = flag
                                  /\ retry' = (flag /\ file.status = "failed")
      BY <1>2 DEF Start
    <3>2. pc' = "intent" /\ state' = file /\ file' = file
      BY <1>2 DEF Start
    <3>3. retry' => asked' /\ file'.status = "failed"
      BY <3>1, <3>2, Zenon
    <3> QED
      BY <3>2, <3>3 DEF CopyInv
  <2>4. ExitBacked'
    BY <1>2 DEF Start, ExitBacked
  <2> QED
    BY <2>1, <2>2, <2>3, <2>4 DEF IInv
<1>3. CASE SaveIntent
  <2>1. TypeOK'
    BY <1>1, <1>3 DEF SaveIntent, TypeOK
  <2>2. Known(file)' /\ Known(state)' /\ HandoffEarned'
    BY <1>1, <1>3 DEF SaveIntent, Known, HandoffEarned
  <2>3. CopyInv' /\ ExitBacked'
    BY <1>1, <1>3 DEF SaveIntent, CopyInv, ExitBacked
  <2> QED
    BY <2>1, <2>2, <2>3 DEF IInv
<1>4. CASE Save
  <2>1. TypeOK'
    BY <1>1, <1>4 DEF Save, TypeOK
  <2>2. Known(file)' /\ Known(state)' /\ HandoffEarned'
    BY <1>1, <1>4 DEF Save, Known, HandoffEarned
  <2>3. CopyInv' /\ ExitBacked'
    BY <1>1, <1>4 DEF Save, CopyInv, ExitBacked
  <2> QED
    BY <2>1, <2>2, <2>3 DEF IInv
<1>5. CASE ReportPassed
  <2>1. /\ state = file /\ file.run # 0 /\ file.status = "passed"
        /\ file.run \in DOMAIN runs /\ runs[file.run].commit = file.commit
        /\ runs[file.run].done = Rungs
    BY <1>1, <1>5 DEF ReportPassed, CopyInv, Known
  <2>2. /\ UNCHANGED <<runs, tag, file>> /\ state' = Intent /\ pc' = "idle"
        /\ exit' = 0 /\ asked' = FALSE /\ retry' = FALSE /\ left' = 0
        /\ handoffs' = handoffs \cup {[run |-> file.run, commit |-> file.commit]}
    BY <1>5, <2>1 DEF ReportPassed, Exit
  <2>3. HandoffEarned'
    BY <1>1, <2>1, <2>2 DEF HandoffEarned
  <2>4. TypeOK'
    <3>1. file.run \in 1..MaxRuns /\ file.commit \in Commit
      <4>1. runs[file.run] \in Run
        BY <1>1, <2>1, ElementOfSeq, LenProperties DEF TypeOK
      <4> QED
        BY <1>1, <2>1, <4>1, LenProperties DEF TypeOK, Receipt, Run
    <3>2. handoffs' \subseteq [run : 1..MaxRuns, commit : Commit]
      BY <1>1, <2>2, <3>1 DEF TypeOK
    <3>3. \A s \in {file', state'} : s.run = 0 <=> s = Intent
      BY <1>1, <2>2 DEF TypeOK, Intent
    <3>4. exit' \in {Killed} \cup 0..2 /\ left' \in 0..MaxPolls
      BY <2>2
    <3> QED
      BY <1>1, <2>2, <3>2, <3>3, <3>4, IntentIsReceipt DEF TypeOK
  <2>5. Known(file)' /\ Known(state)'
    BY <1>1, <2>2 DEF Known, Intent
  <2>6. CopyInv' /\ ExitBacked'
    BY <1>1, <2>1, <2>2 DEF CopyInv, ExitBacked
  <2> QED
    BY <2>3, <2>4, <2>5, <2>6 DEF IInv
<1>6. CASE Sleep
  <2>1. TypeOK'
    <3>1. left' \in 0..MaxPolls
      BY <1>1, <1>6 DEF Sleep, TypeOK
    <3> QED
      BY <1>1, <1>6, <3>1 DEF Sleep, TypeOK
  <2>2. Known(file)' /\ Known(state)' /\ HandoffEarned'
    BY <1>1, <1>6 DEF Sleep, Known, HandoffEarned
  <2>3. CopyInv' /\ ExitBacked'
    BY <1>1, <1>6 DEF Sleep, CopyInv, ExitBacked
  <2> QED
    BY <2>1, <2>2, <2>3 DEF IInv
<1> QED
  BY <1>2, <1>3, <1>4, <1>5, <1>6

(* ReportPending exits with 2, over a pending receipt. *)
LEMMA PendingKeeps ==
  ASSUME IInv, ReportPending
  PROVE  IInv'
<1> USE AdmissionAssumption DEF portal
<1>1. /\ TypeOK /\ Known(file) /\ CopyInv /\ HandoffEarned
  BY DEF IInv
<1>2. /\ UNCHANGED <<runs, tag, file, handoffs>> /\ state' = Intent /\ pc' = "idle"
      /\ exit' = 2 /\ asked' = FALSE /\ retry' = FALSE /\ left' = 0
      /\ file.status = "pending"
  BY <1>1 DEF ReportPending, Exit, CopyInv
<1>3. TypeOK'
  <2>1. \A s \in {file', state'} : s.run = 0 <=> s = Intent
    BY <1>1, <1>2 DEF TypeOK, Intent
  <2>2. exit' \in {Killed} \cup 0..2 /\ left' \in 0..MaxPolls
    BY <1>2
  <2> QED
    BY <1>1, <1>2, <2>1, <2>2, IntentIsReceipt DEF TypeOK
<1>4. Known(file)' /\ Known(state)' /\ HandoffEarned'
  BY <1>1, <1>2 DEF Known, Intent, HandoffEarned
<1>5. CopyInv' /\ ExitBacked'
  BY <1>1, <1>2 DEF CopyInv, ExitBacked
<1> QED
  BY <1>3, <1>4, <1>5 DEF IInv

(* The portal's own steps. *)
LEMMA PortalKeeps ==
  ASSUME IInv, Climbs \/ MoveTag
  PROVE  IInv'
<1> USE AdmissionAssumption
<1>1. /\ TypeOK /\ Known(file) /\ Known(state) /\ CopyInv /\ HandoffEarned
      /\ ExitBacked /\ file \in Receipt /\ state \in Receipt
  BY DEF IInv, TypeOK
<1>2. /\ Grown(runs, runs') /\ tag' \in Commit
      /\ UNCHANGED <<file, pc, state, asked, retry, left, exit, handoffs>>
  BY <1>1, ClimbGrows, SameGrows DEF Climbs, MoveTag, TypeOK
<1>3. TypeOK'
  BY <1>1, <1>2 DEF TypeOK, Grown
<1>4. Known(file)' /\ Known(state)'
  BY <1>1, <1>2, KnownStays DEF Known
<1>5. HandoffEarned'
  BY <1>1, <1>2, HandoffsStay
<1>6. CopyInv' /\ ExitBacked'
  BY <1>1, <1>2 DEF CopyInv, ExitBacked
<1> QED
  BY <1>3, <1>4, <1>5, <1>6 DEF IInv

(* The requests. *)
LEMMA RequestKeeps ==
  ASSUME IInv, Post \/ Get \/ Misanswered
  PROVE  IInv'
<1> USE AdmissionAssumption DEF portal
<1>1. /\ TypeOK /\ Known(state) /\ runs \in Seq(Run)
      /\ DOMAIN runs = 1..Len(runs)
  BY LenProperties DEF IInv, TypeOK
<1>2. CASE Post
  <2>1. PICK r \in 1..MaxRuns : Posted(r) /\ Take(Answer(r)')
    BY <1>2 DEF Post
  <2>2. Grown(runs, runs') /\ r \in 1..Len(runs')
    BY <1>1, <2>1, PostedGrows
  <2>3. Truthful(Answer(r)', runs')
    BY <2>2, AnswerTruthful DEF Answer, Grown
  <2> QED
    BY <1>2, <2>1, <2>2, <2>3, TakeKeeps DEF Post
<1>3. CASE Get
  <2>1. state.run \in 1..Len(runs) /\ UNCHANGED runs
    BY <1>1, <1>3 DEF Get, Posts, Known
  <2>2. Truthful(Answer(state.run), runs')
    BY <1>1, <2>1, AnswerTruthful DEF Answer
  <2> QED
    BY <1>1, <1>3, <2>1, <2>2, SameGrows, TakeKeeps DEF Get
<1>4. CASE Misanswered
  <2>1. UNCHANGED runs /\ Grown(runs, runs')
    BY <1>1, <1>4, SameGrows DEF Misanswered
  <2>2. PICK r \in DOMAIN runs :
          \/ \E v \in Verdict \ Genuine : Take([Answer(r) EXCEPT !.verdict = v])
          \/ Take([Answer(r) EXCEPT !.ours = FALSE])
          \/ Take(Answer(r))
    BY <1>4 DEF Misanswered
  <2>3. Truthful(Answer(r), runs')
    BY <1>1, <2>1, <2>2, AnswerTruthful DEF Answer
  <2>4. CASE \E v \in Verdict \ Genuine : Take([Answer(r) EXCEPT !.verdict = v])
    <3>1. PICK v \in Verdict \ Genuine : Take([Answer(r) EXCEPT !.verdict = v])
      BY <2>4
    <3>2. ~(Consistent(v) /\ v.passed)
      BY <3>1, PassedIsGenuine
    <3>3. Truthful([Answer(r) EXCEPT !.verdict = v], runs')
      BY <2>3, <3>2 DEF Truthful, Answer
    <3> QED
      BY <1>4, <2>1, <3>1, <3>3, TakeKeeps DEF Misanswered
  <2>5. CASE Take([Answer(r) EXCEPT !.ours = FALSE])
    <3>1. Truthful([Answer(r) EXCEPT !.ours = FALSE], runs')
      BY <2>3 DEF Truthful, Answer
    <3> QED
      BY <1>4, <2>1, <2>5, <3>1, TakeKeeps DEF Misanswered
  <2>6. CASE Take(Answer(r))
    BY <1>4, <2>1, <2>3, <2>6, TakeKeeps DEF Misanswered
  <2> QED
    BY <2>2, <2>4, <2>5, <2>6
<1> QED
  BY <1>2, <1>3, <1>4

(* The ends that leave the file alone, with exit code 1 or killed. *)
LEMMA EndKeeps ==
  ASSUME IInv, StartRefused \/ NoAnswer \/ SaveFails \/ ReportFailed \/ Kill
  PROVE  IInv'
<1> USE DEF portal
<1>1. TypeOK
  BY DEF IInv
<1>2. CASE NoAnswer
  <2>1. Grown(runs, runs')
    BY <1>1, <1>2, SameGrows, PostedGrows DEF NoAnswer
  <2> QED
    BY <1>2, <2>1, ExitKeeps DEF NoAnswer
<1>3. CASE StartRefused
  BY <1>1, <1>3, SameGrows, ExitKeeps DEF StartRefused
<1>4. CASE SaveFails
  BY <1>1, <1>4, SameGrows, ExitKeeps DEF SaveFails
<1>5. CASE ReportFailed
  BY <1>1, <1>5, SameGrows, ExitKeeps DEF ReportFailed
<1>6. CASE Kill
  BY <1>1, <1>6, SameGrows, ExitKeeps DEF Kill
<1> QED
  BY <1>2, <1>3, <1>4, <1>5, <1>6

LEMMA StutterKeeps ==
  ASSUME IInv, UNCHANGED vars
  PROVE  IInv'
  BY DEF IInv, TypeOK, Known, CopyInv, HandoffEarned, ExitBacked, vars, portal

LEMMA StepInv == IInv /\ [Next]_vars => IInv'
<1> SUFFICES ASSUME IInv, [Next]_vars
             PROVE  IInv'
  OBVIOUS
<1>1. CASE Start \/ SaveIntent \/ Save \/ ReportPassed \/ Sleep
  BY <1>1, QuietKeeps
<1>2. CASE ReportPending
  BY <1>2, PendingKeeps
<1>3. CASE Climbs \/ MoveTag
  BY <1>3, PortalKeeps
<1>4. CASE Post \/ Get \/ Misanswered
  BY <1>4, RequestKeeps
<1>5. CASE StartRefused \/ NoAnswer \/ SaveFails \/ ReportFailed \/ Kill
  BY <1>5, EndKeeps
<1>6. CASE UNCHANGED vars
  BY <1>6, StutterKeeps
<1> QED
  BY <1>1, <1>2, <1>3, <1>4, <1>5, <1>6 DEF Next, Command

LEMMA Invariance == Spec => []IInv
  BY InitInv, StepInv, PTL DEF Spec

---------------------------------------------------------------------------
(* The results. *)

(* Every variable keeps its type (Admission's state).                      *)
THEOREM TypeCorrect == Spec => []TypeOK
<1>1. IInv => TypeOK
  BY DEF IInv
<1> QED
  BY <1>1, Invariance, PTL

(* A printed handoff names a run of the portal that passed every rung, and *)
(* the commit that run was about (authoring/admission.py:295-309).         *)
THEOREM HandoffOnlyEarned == Spec => []HandoffEarned
<1>1. IInv => HandoffEarned
  BY DEF IInv
<1> QED
  BY <1>1, Invariance, PTL

(* Exit 0 leaves a passed receipt that was handed off in the file, exit 2  *)
(* a pending one (authoring/admission.py:290-326).                         *)
THEOREM ExitIsBacked == Spec => []ExitBacked
<1>1. IInv => ExitBacked
  BY DEF IInv
<1> QED
  BY <1>1, Invariance, PTL

(* No step replaces the evidence of a saved receipt, nor its run unless an *)
(* invocation was told to retry a failed one (authoring/admission.py:      *)
(* 189-204, 276-290).                                                      *)
THEOREM EvidencePinned == Spec => ReceiptPinned
<1>1. IInv /\ [Next]_vars =>
        [file.run # 0 =>
           /\ file'.commit = file.commit
           /\ file'.run # file.run => asked /\ file.status = "failed"]_vars
  <2> SUFFICES ASSUME IInv, Next, file.run # 0
               PROVE  /\ file'.commit = file.commit
                      /\ file'.run # file.run => asked /\ file.status = "failed"
    OBVIOUS
  <2>1. CASE SaveIntent
    BY <2>1 DEF SaveIntent, IInv, CopyInv
  <2>2. CASE Save
    BY <2>2 DEF Save, IInv, CopyInv
  <2>3. CASE ~SaveIntent /\ ~Save
    BY <2>3 DEF Next, Command, Start, StartRefused, Post, Get, NoAnswer, SaveFails,
                ReportPassed, ReportFailed, ReportPending, Sleep, Misanswered,
                Kill, Climbs, MoveTag
  <2> QED
    BY <2>1, <2>2, <2>3
<1> QED
  BY <1>1, Invariance, PTL DEF Spec, ReceiptPinned

(* Only a POST makes the portal start a run, and the command posts only    *)
(* over a receipt without a run, or to retry (authoring/admission.py:      *)
(* 276-288).                                                               *)
THEOREM NoRunUnasked == Spec => NoUnaskedRun
<1>1. IInv /\ [Next]_vars =>
        [Len(runs') > Len(runs) => file.run = 0 \/ (asked /\ file.status = "failed")]_vars
  <2> SUFFICES ASSUME IInv, Next, Len(runs') > Len(runs)
               PROVE  file.run = 0 \/ (asked /\ file.status = "failed")
    OBVIOUS
  <2>1. TypeOK /\ Len(runs) \in Nat
    BY LenProperties DEF IInv, TypeOK
  <2>2. ~Climbs
    BY <2>1, ClimbGrows
  <2>3. runs' # runs
    BY <2>1
  <2>4. pc = "ask" /\ Posts
    BY <2>2, <2>3 DEF Next, Command, Start, StartRefused, SaveIntent, Post, Get,
         NoAnswer, Save, SaveFails, ReportPassed, ReportFailed, ReportPending,
         Sleep, Misanswered, Kill, MoveTag, portal
  <2> QED
    BY <2>4 DEF IInv, CopyInv, Posts
<1> QED
  BY <1>1, Invariance, PTL DEF Spec, NoUnaskedRun
=============================================================================
