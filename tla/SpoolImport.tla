--------------------------- MODULE SpoolImport ---------------------------
(***************************************************************************)
(* The Spool and its import (seed/ingest.py, class Ingestor).              *)
(*                                                                         *)
(* A generate-spool job writes the wire objects of a run to events.ndjson  *)
(* on the deployment's spool volume; an import-spool job, in another       *)
(* container, posts them to Langfuse in chunks.  Langfuse appends the      *)
(* spans it is sent, also those it already holds, and upserts scores, so   *)
(* the import leaves a record (events.ndjson.imported) on the volume and   *)
(* refuses to run again.  Langfuse, the network and the operator are the   *)
(* environment; the constant Faults says how badly it behaves.             *)
(***************************************************************************)
EXTENDS Integers, Sequences

CONSTANTS
  Span,          \* OTLP spans: appended by Langfuse, never recognised again
  Score,         \* score-create envelopes: upserted by id
  Torn,          \* a line cut short by a crash: json.loads raises on it
  Recipes,       \* the line sequences generate-spool may write
  Importer,      \* the import-spool job containers
  ChunkSize,     \* Ingestor.chunk_size
  MaxRetries,    \* Ingestor.max_retries, attempts per request
  Faults,        \* what the environment does, a subset of FaultKinds
  MaxJobs        \* bound: jobs (generate, import, clear) in one behaviour

FaultKinds == {
  "lost_reply",      \* a body is stored and its reply is lost, or is a 5xx
  "overlap",         \* two imports of the deployment run at the same time
  "crash_generate",  \* generate-spool dies, and an import is run all the same
  "dirty_generate",  \* generate-spool runs while the project holds data
  "dirty_confirm" }  \* an import is confirmed while the project holds data

Line == Span \cup Score \cup {Torn}
LinesOf(q) == {q[k] : k \in DOMAIN q}

ASSUME LineKinds == /\ Span \cap Score = {}
                    /\ Torn \notin Span \cup Score
ASSUME RecipesAssumption ==
  \A q \in Recipes :
    /\ q \in Seq(Span \cup Score)
    /\ \A j, k \in DOMAIN q : q[j] = q[k] => j = k  \* ids are unique in a run
ASSUME NumbersAssumption == /\ ChunkSize \in Nat \ {0}
                            /\ MaxRetries \in Nat \ {0}
                            /\ MaxJobs \in Nat
ASSUME FaultsAssumption == Faults \subseteq FaultKinds

VARIABLES
  exists,     \* events.ndjson is on the volume
  lines,      \* its lines
  marker,     \* events.ndjson.imported is on the volume
  gen,        \* where generate-spool is
  todo,       \* the lines it is going to write
  imp,        \* each import job: position in import_spool and its locals
  obs,        \* Langfuse: copies of each span in the project
  scores,     \* Langfuse: scores in the project
  ledger,     \* history: times each importer's latest run stored each line
  delivered,  \* history: copies of each span stored since the clean slate
  careless,   \* history: a slate was declared clean over a project with data
  jobs        \* number of jobs started, capped by MaxJobs

disk == <<exists, lines, marker>>
langfuse == <<obs, scores>>
history == <<ledger, delivered, careless>>
vars == <<disk, gen, todo, imp, langfuse, history, jobs>>

None == [s \in Span |-> 0]
NoLedger == [i \in Importer |-> [l \in Span \cup Score |-> 0]]
Plus(f, S) == [l \in DOMAIN f |-> IF l \in S THEN f[l] + 1 ELSE f[l]]

Fault(kind) == kind \in Faults
EmptyProject == obs = None

(* An import job: what it is doing and how its latest run ended. *)
Running == {"admitted", "reading", "spans", "scores"}
Posting == {"reading", "spans", "scores"}
Ended == {"idle", "refused", "failed", "returned", "killed"}
Job == [pc : Running \cup Ended, dry : BOOLEAN,
        pos : Nat, attempt : 1..MaxRetries]
NewJob(pc, dry) == [pc |-> pc, dry |-> dry, pos |-> 0, attempt |-> 1]

Move(i, pc, pos, attempt) ==
  imp' = [imp EXCEPT ![i] =
            [pc |-> pc, dry |-> @.dry, pos |-> pos, attempt |-> attempt]]
Goto(i, pc) == Move(i, pc, imp[i].pos, imp[i].attempt)

NoneRunning == \A i \in Importer : imp[i].pc \in Ended
CanStart(i) ==
  /\ jobs < MaxJobs
  /\ gen = "idle" /\ imp[i].pc \in Ended
  /\ Fault("overlap") \/ NoneRunning

Init ==
  /\ exists = FALSE /\ lines = <<>> /\ marker = FALSE
  /\ gen = "idle" /\ todo = <<>>
  /\ imp = [i \in Importer |-> NewJob("idle", FALSE)]
  /\ obs = None /\ scores = {}
  /\ ledger = NoLedger /\ delivered = None /\ careless = FALSE
  /\ jobs = 0

---------------------------------------------------------------------------
(* generate-spool: open_spool, extend, close_spool *)

(* A Spool that carries a span is one whose import is guarded.  Any line   *)
(* counts, not only the first.                                             *)
HasSpanFirstLineOnly(q) == q # <<>> /\ q[1] \in Span
HasSpan(q) == \E l \in LinesOf(q) : l \in Span

(* open_spool first unlinks the record ... *)
OpenSpool ==
  /\ gen = "idle" /\ NoneRunning /\ jobs < MaxJobs
  /\ Fault("dirty_generate") \/ EmptyProject
  /\ \E q \in Recipes : todo' = q
  /\ marker' = FALSE
  /\ gen' = "opening"
  /\ careless' = (careless \/ ~EmptyProject)
  /\ jobs' = jobs + 1
  /\ UNCHANGED <<exists, lines, imp, langfuse, ledger, delivered>>

(* ... and then truncates the file: from here on the old lines are gone. *)
TruncateSpool ==
  /\ gen = "opening"
  /\ exists' = TRUE /\ lines' = <<>>
  /\ gen' = "writing"
  /\ ledger' = NoLedger /\ delivered' = None
  /\ UNCHANGED <<marker, todo, imp, langfuse, careless, jobs>>

(* extend; nobody reads the file meanwhile, so all its lines are one step  *)
(* and a prefix of them is what a crash leaves.                            *)
ExtendSpool ==
  /\ gen = "writing"
  /\ lines' = todo
  /\ gen' = "closing"
  /\ UNCHANGED <<exists, marker, todo, imp, langfuse, history, jobs>>

(* close_spool: the finalised copy replaces the file in one rename; it has *)
(* the same lines, of the same kinds (module OtlpFinalize).                *)
CloseSpool ==
  /\ gen = "closing"
  /\ gen' = "idle"
  /\ UNCHANGED <<disk, todo, imp, langfuse, history, jobs>>

(* The container dies.  Before the file is closed its buffered tail is     *)
(* lost, down to part of a line.                                           *)
CrashGenerate ==
  /\ Fault("crash_generate")
  /\ gen' = "idle"
  /\ \/ gen \in {"opening", "closing"} /\ UNCHANGED lines
     \/ /\ gen = "writing"
        /\ \E n \in 0..Len(todo), cut \in BOOLEAN :
             /\ cut => n < Len(todo)
             /\ lines' = SubSeq(todo, 1, n) \o (IF cut THEN <<Torn>> ELSE <<>>)
  /\ UNCHANGED <<exists, marker, todo, imp, langfuse, history, jobs>>

---------------------------------------------------------------------------
(* import_spool: the guard *)

(* The scan for a span stops at the first one, and raises on a torn line.  *)
ScanRaises == ~HasSpan(lines) /\ Torn \in LinesOf(lines)

(* The refusal: the record is there and nobody confirmed a cleared project.*)
AdmissibleAlways(confirm) == TRUE
Admissible(confirm) == ~marker \/ confirm

Begin(i, pc, dry) ==
  /\ imp' = [imp EXCEPT ![i] = NewJob(pc, dry)]
  /\ ledger' = [ledger EXCEPT ![i] = NoLedger[i]]
  /\ jobs' = jobs + 1
  /\ UNCHANGED <<disk, gen, todo, langfuse>>

ImportRaises(i) ==
  /\ CanStart(i)
  /\ ~exists \/ ScanRaises
  /\ Begin(i, "failed", FALSE)
  /\ UNCHANGED <<delivered, careless>>

ImportRefused(i) ==
  /\ CanStart(i)
  /\ exists /\ HasSpan(lines)
  /\ ~Admissible(FALSE)
  /\ Begin(i, "refused", FALSE)
  /\ UNCHANGED <<delivered, careless>>

(* An operator who keeps to the recovery procedure confirms only after the *)
(* deployment's data are cleared and while nothing is being imported.      *)
MayConfirm == Fault("dirty_confirm") \/ (EmptyProject /\ NoneRunning)

(* The record is absent, or the operator states that the project has been  *)
(* cleared, which starts a clean slate.                                    *)
ImportAdmitted(i, confirm, dry) ==
  /\ CanStart(i)
  /\ exists /\ HasSpan(lines)
  /\ Admissible(confirm)
  /\ confirm => MayConfirm
  /\ Begin(i, "admitted", dry)
  /\ delivered' = IF confirm THEN None ELSE delivered
  /\ careless' = (careless \/ (confirm /\ ~EmptyProject))

(* Scores upsert, so a Spool of nothing but scores is not guarded. *)
ImportExempt(i, dry) ==
  /\ CanStart(i)
  /\ exists /\ ~HasSpan(lines) /\ ~ScanRaises
  /\ Begin(i, "reading", dry)
  /\ UNCHANGED <<delivered, careless>>

(* The record is written before the first POST. *)
PostWithoutRecord(i) ==
  /\ imp[i].pc = "admitted"
  /\ Goto(i, "reading")
  /\ UNCHANGED <<disk, gen, todo, langfuse, history, jobs>>

Record(i) ==
  /\ imp[i].pc = "admitted"
  /\ marker' = TRUE
  /\ Goto(i, "reading")
  /\ UNCHANGED <<exists, lines, gen, todo, langfuse, history, jobs>>

---------------------------------------------------------------------------
(* import_spool: the chunks *)

ChunkEndDropsTail(pos) ==
  IF pos + ChunkSize <= Len(lines) THEN pos + ChunkSize ELSE pos
ChunkEnd(pos) ==
  IF pos + ChunkSize <= Len(lines) THEN pos + ChunkSize ELSE Len(lines)
Chunk(pos) == {lines[k] : k \in (pos + 1)..ChunkEnd(pos)}

(* _post_mixed sends the spans of a chunk first, then its envelopes; a     *)
(* request without a line in it is not sent.                               *)
Body(i) == Chunk(imp[i].pos) \cap (IF imp[i].pc = "spans" THEN Span ELSE Score)

(* Read the next chunk; a torn line raises before any of it is posted. *)
ReadChunk(i) ==
  /\ imp[i].pc = "reading"
  /\ LET chunk == Chunk(imp[i].pos) IN
     \/ chunk = {} /\ Goto(i, "returned")
     \/ Torn \in chunk /\ Goto(i, "failed")
     \/ /\ chunk # {} /\ Torn \notin chunk
        /\ Goto(i, IF chunk \cap Span # {} THEN "spans" ELSE "scores")
  /\ UNCHANGED <<disk, gen, todo, langfuse, history, jobs>>

(* What Langfuse does with the lines it stores. *)
Stores(i, S) ==
  /\ obs' = Plus(obs, S)
  /\ scores' = scores \cup (S \cap Score)
  /\ ledger' = [ledger EXCEPT ![i] = Plus(ledger[i], S)]
  /\ delivered' = Plus(delivered, S)
  /\ UNCHANGED careless

Requesting(i) == imp[i].pc \in {"spans", "scores"}

(* The request returned: on to the chunk's envelopes, or the next chunk. *)
Advance(i) ==
  IF imp[i].pc = "spans" /\ Chunk(imp[i].pos) \cap Score # {}
  THEN Move(i, "scores", imp[i].pos, 1)
  ELSE Move(i, "reading", ChunkEnd(imp[i].pos), 1)

(* dry_run: _post returns at once. *)
PostDry(i) ==
  /\ Requesting(i) /\ imp[i].dry
  /\ Advance(i)
  /\ UNCHANGED <<disk, gen, todo, langfuse, history, jobs>>

(* 200, 201 or 207 with nothing to complain of in the body. *)
PostAccepted(i) ==
  /\ Requesting(i) /\ ~imp[i].dry
  /\ Stores(i, Body(i))
  /\ Advance(i)
  /\ UNCHANGED <<disk, gen, todo, jobs>>

(* _check_rejected_spans and _check_partial raise on what they find. *)
IgnoreRejection(i) == Advance(i)
RaiseRejection(i) == Goto(i, "failed")

(* A success status whose body reports rejected spans or event errors. *)
PostRejected(i) ==
  /\ Requesting(i) /\ ~imp[i].dry
  /\ \E S \in SUBSET Body(i) : S # Body(i) /\ Stores(i, S)
  /\ RaiseRejection(i)
  /\ UNCHANGED <<disk, gen, todo, jobs>>

(* Any other status (400, 401, 413 ...): raised at once. *)
PostRefused(i) ==
  /\ Requesting(i) /\ ~imp[i].dry
  /\ Goto(i, "failed")
  /\ UNCHANGED <<disk, gen, todo, langfuse, history, jobs>>

(* A transport error, 429 or 5xx: the same body again, until the attempts  *)
(* are used up.  The client cannot tell whether the body was stored.       *)
TryAgain(i, attempt) == Move(i, imp[i].pc, imp[i].pos, attempt)
RetryStartsOver(i) ==
  TryAgain(i, IF imp[i].attempt = MaxRetries THEN 1 ELSE imp[i].attempt + 1)
Retry(i) ==
  IF imp[i].attempt = MaxRetries THEN Goto(i, "failed")
  ELSE TryAgain(i, imp[i].attempt + 1)
Unacknowledged(i) == IF Fault("lost_reply") THEN SUBSET Body(i) ELSE {{}}
PostRetryable(i) ==
  /\ Requesting(i) /\ ~imp[i].dry
  /\ \E S \in Unacknowledged(i) : Stores(i, S)
  /\ Retry(i)
  /\ UNCHANGED <<disk, gen, todo, jobs>>

(* The container dies; a request in flight may still be stored. *)
KillImport(i) ==
  /\ imp[i].pc \in Running
  /\ \E S \in IF Requesting(i) /\ ~imp[i].dry THEN SUBSET Body(i) ELSE {{}} :
       Stores(i, S)
  /\ Goto(i, "killed")
  /\ UNCHANGED <<disk, gen, todo, jobs>>

---------------------------------------------------------------------------
(* The operator clears the deployment's Langfuse data. *)
ClearProject ==
  /\ jobs < MaxJobs /\ gen = "idle" /\ NoneRunning
  /\ obs' = None /\ scores' = {}
  /\ careless' = FALSE
  /\ jobs' = jobs + 1
  /\ UNCHANGED <<disk, gen, todo, imp, ledger, delivered>>

Generate == OpenSpool \/ TruncateSpool \/ ExtendSpool \/ CloseSpool
ImportStarts(i) ==
  \/ ImportRaises(i)
  \/ ImportRefused(i)
  \/ \E confirm, dry \in BOOLEAN : ImportAdmitted(i, confirm, dry)
  \/ \E dry \in BOOLEAN : ImportExempt(i, dry)
ImportStep(i) ==
  \/ Record(i)
  \/ ReadChunk(i)
  \/ PostDry(i)
  \/ PostAccepted(i)
  \/ PostRejected(i)
  \/ PostRefused(i)
  \/ PostRetryable(i)

Next ==
  \/ Generate
  \/ CrashGenerate
  \/ \E i \in Importer : ImportStarts(i) \/ ImportStep(i) \/ KillImport(i)
  \/ ClearProject

Spec == Init /\ [][Next]_vars

(* Every request has a timeout and a bounded number of attempts, and the   *)
(* loop reads a local file: a live import job keeps taking steps.  Nobody  *)
(* promises that a job is ever started, cleared or killed.                 *)
FairSpec == Spec /\ \A i \in Importer : WF_vars(ImportStep(i))

---------------------------------------------------------------------------
(* Properties *)

(* The state of the volume, the jobs, the project and the histories keeps  *)
(* its shape; attempts stay within max_retries and positions in the file.  *)
TypeOK ==
  /\ exists \in BOOLEAN /\ marker \in BOOLEAN
  /\ lines \in Seq(Line)
  /\ gen \in {"idle", "opening", "writing", "closing"}
  /\ todo \in Seq(Span \cup Score)
  /\ imp \in [Importer -> Job]
  /\ obs \in [Span -> Nat] /\ scores \in SUBSET Score
  /\ ledger \in [Importer -> [Span \cup Score -> Nat]]
  /\ delivered \in [Span -> Nat] /\ careless \in BOOLEAN
  /\ jobs \in 0..MaxJobs

(* import_spool returning (rather than raising) means that every line of   *)
(* the Spool was stored at least once and that the count it returns is     *)
(* the file's, whatever the network did meanwhile.                         *)
CompleteOnSuccess ==
  [][\A i \in Importer :
       imp[i].pc = "reading" /\ imp'[i].pc = "returned" /\ ~imp[i].dry
         => /\ imp[i].pos = Len(lines)
            /\ \A l \in LinesOf(lines) : ledger[i][l] >= 1]_vars

(* The chunks go out in file order and none is skipped: however an import  *)
(* ended, a line of a chunk is in the project only after every line of     *)
(* the chunks before it.                                                   *)
ChunkOf(k) == (k - 1) \div ChunkSize
ChunkOrder ==
  \A i \in Importer : \A j, k \in DOMAIN lines :
    ChunkOf(j) < ChunkOf(k) /\ lines[k] # Torn /\ ledger[i][lines[k]] > 0
      => ledger[i][lines[j]] > 0

(* Once a span of the Spool on the volume has reached Langfuse the record  *)
(* that locks it is there, also if the import then failed or was killed.   *)
RecordedIfPosted ==
  gen # "opening" /\ (\E s \in Span : delivered[s] > 0) => marker

(* What the record is for: under one clean slate a span is stored at most  *)
(* once, over any number of imports, failures and kills.                   *)
AtMostOncePerSlate == \A s \in Span : delivered[s] <= 1

(* The import as a whole implements the promise of module ImportOnce. *)
Promise == INSTANCE ImportOnce WITH held <- obs
ImplementsImportOnce == Promise!Spec

(* As long as generate-spool is run and an import is confirmed only over a *)
(* cleared project, the project never holds a span twice.                  *)
OneCopy == ~careless => \A s \in Span : obs[s] <= 1

(* An import job that keeps running ends: it returns or raises. *)
ImportEnds ==
  \A i \in Importer : imp[i].pc \in Running ~> imp[i].pc \in Ended
=============================================================================
