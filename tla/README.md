# A verification of langfuse-synth-core in TLA+

langfuse-synth-core generates synthetic Langfuse projects: it writes a *Spool*
of OTLP spans and scores, posts it to Langfuse, serves a demo's *Surface*
through a companion adapter, and gives kit authors the tools that scaffold,
check, pin, admit and release a kit. This directory holds TLA+ models of the
parts of the program where order, failure or concurrency decide whether it is
right, the TLC configurations that check them, and TLAPS proofs.

Paths below are relative to `src/src/langfuse_synth_core/` unless they start
with `src/`. `PROJECT.json` maps every definition to the lines it models.

    tlc -config SpoolImport_slate.cfg MCSpoolImport.tla   # a run
    tlapm SpoolImportProofs.tla                           # a proof

## 1. Inventory

### 1.1 Components, their state and what makes them correct

**Spool and import** (`seed/ingest.py`). *State*: `events.ndjson` and the
import record `events.ndjson.imported` on the deployment's volume; what
Langfuse holds. *Operations*: `open_spool`, `extend`, `close_spool`
(generate-spool), `import_spool` (import-spool), `flush`, `write_ping`,
`assert_demo_project`, `ensure_score_config`. *Interactions*: two jobs in two
containers meet in the volume; the import meets Langfuse in retried POSTs.
*Hard*: the OTLP endpoint appends, so everything the import repeats is doubled;
jobs die between any two steps; a lost reply cannot be told from a lost
request; spans and scores of one chunk go to two endpoints. *Correct when*: a
span is stored at most once per clean slate; what was posted is recorded first;
chunks go out in order, and success means every line was stored; every import
ends.

**Wire form, builders, count and finalisation** (`seed/otlp.py`,
`seed/events.py`, `seed/count.py`, `seed/ingest.py:119-138`). *State*: the file,
a temporary file beside it, and what pass one learns of each trace. *Hard*: lines
come in any order; two roots may disagree; the job dies at any line and leaves
the temporary file; the cap gate counts the volume between the two jobs.
*Correct when*: a reader of the volume sees the draft or the finished Spool and
nothing between; finished spans are complete on the wire; nothing written is
lost, and both files count the same.

**Forwarding OTLP** (`companion/_otel.py`, `adapter.py: forward_otel`).
*State*: the lock, the `expired` flag, connections and sockets of `_Deadline`.
*Interactions*: the calling thread, the timer thread, a target. *Hard*: the
deadline may pass before the connection exists, while it is being made, between
`connect` and `connected()`, while headers or body are read, or as the call
ends. *Correct when*: a cut read is reported as a timeout; every read after the
deadline is cut; the call leaves no thread and no socket behind, and ends.

**Clients and readiness** (`companion/adapter.py`, `companion/llm.py`,
`llm_roles.py`). *State*: the construction lock and the caches of the tracer
and the LLM clients. *Interactions*: threads of the Surface and of the health
probe; a kit's factories, which may raise, return `None` or call back into the
adapter while the lock is held. *Correct when*: there is one client per key;
readiness says only what was shown; no call waits for ever.

**The live surface** (`companion/access.py`, `companion/spending.py`,
`live/emit.py`, `skills.py`). *State*: the open blocks of each request, the
buffer of the SDK, the spending check under way, the versions of a published
skill. *Interactions*: a request passes the access gate, opens a trace, asks the
portal before it pays, and names skills that kits publish. *Hard*: bodies raise
at any depth; two requests share one buffer; the portal answers late, oddly or
not at all; two kits publish at once and answers are lost. *Correct when*: a
trace is delivered before its user is answered; a span carries its own skills;
a publish is what was asked for and not more; nothing is paid for without a
whole, timely permit.

**Admission client** (`authoring/admission.py`, `src/docs/ADMISSION.md`).
*State*: the progress file; the portal's runs. *Hard*: a reply is lost after
the run was started; the command dies between the answer and the save; the
release tag moves; the disk is full. *Correct when*: a handoff is earned, an
exit code is backed by the file, a receipt keeps its evidence, no run is
started unasked, and each invocation ends.

**Read seam and backdate probe** (`read.py`, `http.py`, `probe.py`). *State*:
none on this side; the observations Langfuse holds and shows. *Hard*: rows
become readable late, in parts and between two pages; earlier probes, and the
tombstones of deleted ones, are in the same project; `request_retry` returns
the last error response instead of raising it; two times are compared by their
minute. *Correct when*: a verdict is
about the host and about this run; no error response is taken for an answer.

**Kit files** (`authoring/skills.py`, `repin.py`, `golden.py`, `scaffold.py`,
`egress.py`, `_seed_runner.py`, `cli.py`). *State*: skill directories with
receipts and backups, `pyproject.toml` and the publish workflow, the golden
snapshot. *Hard*: a failing rename, a kill between two writes, an author who
edits between two reads, a recipe that does not repeat itself, a file that is
read while it is written. *Correct when*:
an edited skill is never lost, a refused command changes nothing and the two
pins agree, a golden is what its recipe always returns, a new kit is green.

**Author's gates** (`authoring/check.py`, `conformance.py`, `validate.py`,
`setup.py`, `setup_schedule.py`, `llm_roles.py`). *State*: the checkout as three
processes read it one after the other, the environment the suite lends to a
kit's surface, the report. *Hard*: an early finding, a skip, a timeout or a
missing package hides a check; the kit raises, or the author interrupts, while
the secrets are out of the environment, or being taken out or put back; rules
are written twice. *Correct when*: "ready" is earned, the environment is given
back, what lint admits resolves.

### 1.2 Components without a model

Retarget, knob and derivation arithmetic; time, randomness and prices; the demo
configuration; the kit publish workflow. See section 7.

### 1.3 Hazards

`PROJECT.json` lists what is hard to test, each at its line with the properties
that watch it. The groups: the import repeats what is already stored; a job dies
between a step and its record; a timer races a read; threads share a cache; a
report outlives what it was about; one of several steps fails; an error, or
nothing at all, is taken for an answer; two writers meet in one file or one
skill.

### 1.4 Plan

| Order | Module | About | State |
|---|---|---|---|
| 1 | `SpoolImport`, over `ImportOnce` | the import and its record | checked, proved |
| 2 | `OtlpFinalize`, over `WireFormat`, `EventBuilders`, `AtomicSpool` | builders, finalisation, count | checked, proved |
| 3 | `OtelDeadline` | the deadline of `forward_otel` | checked, proved |
| 4 | `AdapterClients` | caches, lock, readiness | checked, proved |
| 5 | `Admission` | the admission client | checked, proved |
| 6 | `BackdateProbe`, over `ReadSeam` | probe, guardrail, reads | checked, proved |
| 7 | `KitFiles`, composing `SkillPack`, `Repin`, `Golden` | the commands that write a checkout | checked, proved |
| 8 | `LiveSurface`, composing `LiveAccess`, `LiveEmit`, `Spending`, `SkillPublish` | a request on its way through a live component, and the skills it names | checked, proved |
| 9 | `AuthorGates`, over `Manifest`, `Conformance`, and `Runbook` | what tells an author that a kit is ready | checked, proved |

Left, and of little state: the reads that no program here composes (`traces`,
`session`, `scores`, experiments), the normalisation of scores, `ensure_score_config`.

The abstract specifications are `ImportOnce` (what the record is for) and
`AtomicSpool` (what a reader of the volume may see), both implemented by
refinement, and, as a definition rather than a state machine,
`WireFormat!Finalised` (what a finished Spool is).

## 2. Modules and the code

**`ImportOnce`**: two tables, `delivered` (per span, copies stored since the
clean slate) and `held` (copies the project holds). A span that has been
delivered is not delivered again.

**`SpoolImport`**. The volume is `exists`, `lines`, `marker`; generate-spool is
`gen` with one action per step of `open_spool` (the record is unlinked, then the
file truncated), `extend` and `close_spool`; an import job `imp[i]` goes through
the guard (`ImportRaises`, `ImportRefused`, `ImportAdmitted`, `ImportExempt`),
`Record`, `ReadChunk` and the attempts of one request (`PostAccepted`,
`PostRejected`, `PostRefused`, `PostRetryable`, `PostDry`). `KillImport` and
`CrashGenerate` end a job anywhere; `ClearProject` is the operator. `Faults`
says how badly the environment behaves: `lost_reply`, `overlap` (two imports at
once), `crash_generate`, `dirty_generate` and `dirty_confirm` (a clean slate is
declared over a project that holds data). A line is a model value; a mixed chunk
posts its spans, then its envelopes. The refinement maps `held` to `obs`.

**`WireFormat`** defines a span by what finalisation looks at (trace, root or
not, parent context, end time, attributes), `Finalised`, the finished Spool said
of the whole file at once, and `CountSpool`, what the cap gate reads.
**`EventBuilders`** has the builders of `events.py` as operators on such spans,
with their defaults (an end that is the start, a parent that is none); the run's
drafts are made of their output. **`AtomicSpool`** allows two steps: a draft is
written, the file becomes its `Finalised`. **`OtlpFinalize`** is the code:
`ScanLine` learns `state` line by line (pass one), `BeginRewrite` empties `tmp`,
`RewriteLine` writes it line by line (pass two), `ReplaceSpool` renames it;
`Crash` may come between any two lines, and the next job finds `tmp` as it was
left. The refinement maps `spool` to `disk`.

**`OtelDeadline`**: `stage` follows `forward_otel` and `bounded_post`, `timer` the
timer thread. A section under `_Deadline._lock` is one step; `_expire` is two,
because the caller reads `expired` without the lock. The target answers, stops
or drips at each stage; HTTP/1.0 detaches `connection.sock` after the headers.

**`AdapterClients`**: a thread is in a `call`, at a `pc`, perhaps holding the
reentrant lock (`owner`); `cache` holds the adapter's clients, `llm` and `impl`
the two unlocked ones, where two threads may each build one (`adapter.py:366`,
`emit.py:101`; nothing is promised there). Factories build, raise, return `None`
or re-enter. `readiness()` is the sequence of its probes, run through the same
accessors, with its `report`. Clients are numbered per key, so that a second one
is seen.

**`Admission`**: `file` is the progress file, `state` the command's copy,
`runs` and `tag` the portal's side. Intent, request, answer, save, report and
poll are actions of their own. Faults: `kill`, `lost` (reply), `garbled`,
`misrouted` (an answer about another run), `moved` (tag), `disk` (a save fails).

**`ReadSeam`** has the server's order of rows, pages and cursors, and the
timestamp of an assembled trace, the start of the earliest row that was read.
Time is counted in halves of a minute: the child starts 120 ms after the root,
which is in the same minute unless the root is in the last 120 ms of its own, the
second half (`late`). **`BackdateProbe`** has the guardrail, the id
with its nonce, the one POST with its retries, the polls with their pages, and
the verdict. Langfuse is `stored`, `readable` (grows row by row, or never) and
`deleted`. `GetAgain`, `GetRaises` and `ErrorResponse` are the three ways
`request_retry` and its callers treat a request that was not answered well.
The chunking of `flush` is not in it: a probe has two spans and a chunk 100.

**`SkillPack`**: `installed` and `backups` are directories with their receipts;
an install checks every skill first and then, skill by skill, stages a copy,
moves the old one aside and renames the new one in, restoring on failure; a
rename may fail and an install be killed at any of these points. `authored` and
`stranded` remember what an author last wrote and where an install was stopped.
**`Repin`**: the two files are read, rewritten and scanned for pins the rewrite
misses, and only then written, one after the other. A file is the refs it pins
in the recognised and in the other form. **`Golden`**: `freeze` runs the recipe
under three hash seeds and blesses a fourth run; the gate reads the golden and
runs the recipe once more. The golden is truncated and then written, in two steps,
so a reader in between finds it `Torn`. A recipe is what it may return under each
seed, the hosts it dials and how (`egress.py` patches three calls and steers the
rest at a sink by variables that they may not mind). `blessed` and `sampled`
remember whose run the golden holds, and whether that recipe was there throughout
the freeze. **`KitFiles`**
composes them with `new`, which writes the files in order and freezes last, and
with the author: edits, upgrades, kills.

**`LiveEmit`**: `trace[q].blocks` are the `with` blocks a request is in, `spans`
what it opened, in which state: open, ended (in the SDK's buffer), sent, lost.
An opener makes the calls of the SDK that the code makes, in its order (`todo`:
`TraceCalls`, `ChildCalls`), each of which may raise; `given` is the list that was
asked for and `skills` the one that the span has. A body raises and is caught at any
level; `Finally` flushes. The SDK is external and modelled from its use: `Start`
makes a span current with the list in force, `Propagate` writes its list on the
current span and on those that start below it, and ended spans are drained by a
flush or a worker.
**`LiveAccess`** is the decision of the middleware on a path, a method and proof
headers. **`Spending`** reads an answer part by part with two clocks, the
deadline of the check and the read timeout of the request, and decides. The code
looks at the deadline when a part of the body comes; the end of the body may come
any time after the last part (a chunk's end that drips brings no data), and is then
not looked at (`EndOfBody`). **`SkillPublish`**: look, create, label, any of which
may fail or lose its answer, by two publishers; a label is on one version at a time,
so that giving it to one version takes it off the others. Langfuse's version list
is external. **`LiveSurface`** composes them: who may arrive, emit,
ask and pay.

**`Manifest`** has the rules of `validate.py` and `setup*.py` as sets of
findings on a document, and role resolution (`llm_roles.py`) with its envelope.
**`Conformance`** has every check of the suite as an operator on a kit.
**`AuthorGates`** runs them: one step per read of the kit (`ReadManifest`,
`ImportFactory`, `Serve`, `Anchors`, `Scan`) with the early returns between
them; the secrets are taken out of the author's environment one by one before
`Serve` (`RemoveSecret`) and put back one by one after it (`ReturnSecret`), and
an interrupt in one of the two loops leaves what is out where it is. And `check`
is three stages, each unavailable, skipped, failed, timed out or passed.
**`Runbook`** reads a runbook line by line, with the headings that are open (the
code's stack, kept as a set: one per level) and the fenced block.

The `MC*` modules give instances; `*Proofs` modules hold the theorems
(`CompanionProofs` those of `AdapterClients` and of `OtelDeadline`).

## 3. Runs

| Run | Properties | Shows |
|---|---|---|
| `spool_faults` | `ChunkOrder`, `CompleteOnSuccess` | whatever the environment does, overlapping jobs included: chunks in order, success only when everything was stored |
| `spool_slate` | `RecordedIfPosted`, `AtMostOncePerSlate`, `OneCopy`, `ImplementsImportOnce`, `ImportEnds` | one import at a time, refused, rejected, retried or killed, with a careless operator: one copy per clean slate, one copy in a project that was cleared, and every live import ends |
| `otlp_finalize` | `WireComplete`, `NothingLost`, `ImplementsAtomicSpool` | every small Spool in every order, killed at any line, finalised twice: atomic, complete on the wire, nothing lost, the same count |
| `companion_forward` | `StableOutcome`, `NothingAfterReturn`, `DeadlineReaches`, `ForwardEnds` | all interleavings of one forwarding call with its timer |
| `companion_clients` | `OneClientPerKey`, `ReadinessHonest`, `CallsEnd` | two threads, factories that fail or re-enter |
| `admission` | `HandoffEarned`, `ExitBacked`, `ReceiptPinned`, `NoUnaskedRun`, `InvocationEnds` | any number of invocations with all six faults |
| `backdate_probe` | `VerdictAboutHost`, `VerdictEarned`, `ReadComplete`, `ProbeEnds` | two probes of a host that keeps or drops backdates, one perhaps dated into the end of a minute, over what an earlier probe left or had deleted |
| `kit_files` | `EditsKept`, `StillInstalled`, `NeverHalfLands`, `OracleHonest`, `BornGreen` | overlapping installs, repins, freezes, gates that read while a freeze writes, and `new`, killed and edited around |
| `live_surface` | `DeliveredOnReturn`, `SkillsOnOwnSpan`, `PublishedAsAsked`, `NoNeedlessVersion`, `FailClosed` | two requests and two publishers, bodies that raise, a portal that answers anything at any pace |
| `author_gates` | `GreenIsEarned`, `SecretsLentBack`, `LintedRolesResolve`, `AdvisesExactly` | a scaffolded kit with any two of a hundred deviations, edits, timeouts and interrupts, one of them between two secrets; the runbook scan over every text of five lines |

Two runs find what a line of the documentation denies (section 6):
`spool_lost_reply` and `author_migration`.

**Bounds, and why they are enough.**
*Spool*: Spools of one to four lines with chunks of two: a full chunk and a
partial last one, a mixed chunk, a score before the first span and one after the
last, a Spool without spans. `MaxRetries = 2` has a first, a last and therefore
both kinds of attempt. `MaxJobs` is 3 with overlap (generate and two imports at
once), 4 in `spool_lost_reply` and 6 in `spool_slate` (generate, import, clear
and a second round, with one spare). The import jobs of `spool_faults` are
symmetric; that run checks no liveness.
*Finalisation*: all orders of up to two of six lines and of three of those that
interact: disagreeing roots, an orphan that ends after its root, a trace without
a root, keys a span sets itself. Lines relate through their trace only, and what
pass one keeps is an end, a root flag and the attributes of a root: three lines
have every pair that matters in every order.
*Forwarding*: no bound; the state space is finite as it is.
*Clients*: two threads with two calls and one, for a race; two requests that
resolve to one model; one role with and without a factory.
*Admission*: two commits for a moved tag, two rungs for a ladder that passed in
part, two runs for a second one, two polls; the number of invocations is not
bounded.
*Probe*: two runs, one after the other (`Overlap = FALSE`; the theorems cover
overlapping ones), pages of one row, two attempts, two polls, a cap of three
pages. A trace is two rows, four when a reply was lost, so that readings end by
an empty page, for want of a cursor, and at the cap. The first run may be late
in its minute (`LateRun`); the theorems have any. `Ago = 1` makes an earlier
run's arrival time equal a later one's backdate, the coincidence that would hide
a dropped backdate.
*Kit files, live surface, author's gates*: `Plans` says how often each move may
be made in a history, and each run has several: histories that overlap what can
meet, and leave out what shares no state (an install and a repin write different
files). *Kit files*: two skills of which one changes between two builds, two
installs, a failing rename or a kill; two tags and a branch, pins the rewrite
misses, two repins and an author's write; nine recipes: repeating, ordered by
hash seed, following the clock, dialling out caught or not, or by a socket of
its own. *Live surface*: two lists of skills, so that a child's is not its
parent's; three observations of two requests have a parent, a child and a
stranger; two labels, so that a publish can take one and leave the other; three
publishes and three versions have a race, its loser and a repair; `Parts = 2`,
`Deadline = 5` and `Timeout = 2` let an answer end before, at and after the
deadline (each wait is none, one timeout, two, or longer than the deadline),
within and above the size limit; the bridge answers with every kind of permit
that is wrong in one field. *Author's gates*: the deviations are one per rule,
and pairs of them show what one finding hides of another; two secrets can be out
one without the other; an edit leaves a kit with a flaw in a part that each step
reads; the five lines of a runbook, with headings of two levels (`Level`; the
proof has any), hold two headings, a fence, a command and its end. Requests,
publishers and invocations are symmetric in the two runs that have no liveness.

`CHECK_DEADLOCK FALSE` stands in the spool runs, in `backdate_probe`,
`kit_files`, `live_surface` and in the two runs of the gates, where everything
stops when the jobs or the plan are used up. The other runs check for deadlock.

**Fairness, and why the code justifies it.** `ImportEnds`: weak fairness of each
import job's own steps; a request has a timeout, so an attempt is answered or
fails (kills are not fair, the operator neither). `ForwardEnds`: weak fairness
of the calling thread and of the timer thread, never of the target: that the
call ends although the target drips for ever is the point. The connection
attempt and the answer to CONNECT through a proxy are steps of the calling
thread, so they are taken to end; nothing cuts the second one, and a proxy that
drips it could hold the call (a hazard noted in `PROJECT.json`). `CallsEnd`: weak
fairness per thread; factories return. `InvocationEnds`: weak fairness of the
command with the portal's answers, which the client's timeouts give.
`ProbeEnds`: weak fairness of each run. No strong fairness is assumed anywhere,
and none of Langfuse making rows readable. `kit_files`, `live_surface` and
`author_gates` assume none.

## 4. Proofs

All for arbitrary constants satisfying the named assumptions, no bounds.

| Module | Theorems | Argument |
|---|---|---|
| `SpoolImportProofs` | `TypeCorrect`, `RecordedBeforePosted`, `ChunksInOrder`, `SuccessIsComplete`, `StoredOnce`, `HeldOnce`, `Implements` | `RecordInv`: a job that posts has left the record, and without the record nothing was stored under this slate. `SlateInv`: jobs are serial, lines distinct, and what lies beyond the position of a running job has not been delivered; at most once is not inductive without it, since it must be known where in the file the job is. `Covered`: over a project that was cleared, what it holds was delivered under this slate. `OrderInv`: an import stands at the edge of a chunk, has stored every line before it and none behind the chunk there; order and completeness are two sides of it, and neither is inductive alone. |
| `OtlpFinalizeProofs` | `TypeCorrect`, `Implements`, `ClosedIsComplete`, `ClosedKeepsDraft` | `PassInv`: after m lines, what pass one has learnt is a function of the set of lines read, and `tmp` is the declarative wire form of the lines written. `FileInv`: the file is the draft or its finished form, and finishing is idempotent. `Bounded`: every trace of a file that was read has a last moment and a last root. `FinalisedCount`: a finished file has the spans, traces and scores of its draft. |
| `CompanionProofs` | of the clients: `TypeCorrect`, `OneClient`, `HonestReport`; of forwarding: `DeadlineTypes`, `OutcomeStable`, `QuietAfterReturn`, `DeadlineIsFelt` | `LockInv`: the lock is held by the thread inside an accessor. `MissInv`: who is building found the key empty, and nobody else can fill it meanwhile. `RoomInv` counts: the clients of a request and the threads about to make one are together no more than the threads. `ProbeInv`: each part of a report stems from a call that has returned a client. `FlagInv`: the flag is set before the first socket is cut. `StageInv`: what the caller has registered at each stage. |
| `AdmissionProofs` | `TypeCorrect`, `HandoffOnlyEarned`, `ExitIsBacked`, `EvidencePinned`, `NoRunUnasked` | `Known`: a receipt is true of the portal's run. `CopyInv`: where the command's copy differs from the file, it agrees in the commit, or a failed run is being replaced on request. |
| `BackdateProbeProofs` | `TypeCorrect`, `RightAboutHost`, `EarnedVerdict`, `ReadsAreComplete`, `Guarded` | `Mine` and `Distinct`: rows under a probe's id are its own, since nonces differ; so whatever part of them it reads, the start is its own root's or its own child's, and the second is of another minute only when the run is late and the root was not read (`rootless`). `PollsAcked`, `Drawn`: who polls has written and passed the guardrail. `ReadInv`: what was readable when a reading began is on the pages already read or behind the cursor; it stays there when rows appear, because the cursor is a row and not a count of rows (`Ordered`: any readable rows of a trace have a first and a last). |
| `KitFilesProofs` | `KitTypes`, `AuthorsWorkKept`, `ReplacedSkillInPlace`, `RepinWhole`, `GoldenOfItsRecipe`, `NewKitGreen` | `SkillInv`: an install between its renames knows what to put in place. `Half`, `Landed`: what a repin has written at each place, and that text which was not refused names its ref alone. `Sampled`: the baseline is an outcome of the recipe under every seed passed so far, as long as it stayed one recipe; what a gate holds it read from a golden of a known recipe, or from a torn one. `NewInv`: what `new` has emitted so far still stands unless another wrote it. |
| `LiveSurfaceProofs` | `DeliveredInTime`, `SkillsStayPut`, `PublishedRight`, `NoVersionUnneeded`, `PaidOnlyPermitted` | `Nested`: every open observation of a request is in one of its blocks, so leaving the last one has ended them all. `Opening`: which calls of the SDK are left at each point, and that the one that writes a child's list finds a `Bare` span current, which is that child and has nothing below it yet. `Follows`: a publish that is about to create has seen other files on the last version it saw, and knows the labels of the version it will label, or another has changed them since (`abreast`). `Sound`: what a check that goes on has read, and that the last byte came by the deadline. `GateInv`: who is inside passed the gate and sees no proof. |
| `AuthorGatesProofs` | `AdvisoriesAreExact`, `LintedRolesAreResolved`, `SecretsComeBack`, `GreenSawEverything`, `MigrationReached` | `ScanInv`: the open headings, the fence and the first command are those of the text so far, and the blocks that are closed have been reported. `LintIsEnough`: each reason for which resolution refuses a role is a finding of the lint, and the envelope loses nothing. `ShellInv`: from the first secret taken out to the last put back, what is missing is in the suite's hands; elsewhere nothing is, and the shell has all it was given, unless an interrupt cut a suite off in between. `WhoseSuite`: a suite under way is the author's or that of the conformance stage, after a manifest that passed. `Seen`: each place of the suite knows the parts of the kit whose reads lie behind it, unless something was found or a note says that the surface was not looked at; so a stage that passed knows them all. |

*Assumptions.* Constants: numbers are positive, kinds of lines and keys are
disjoint, lines of a Spool are distinct, a probe finds an unused nonce, names of
outcomes are no data, an author is no command, a recipe returns something, a
manifest without a schema error names providers of the schema's enumeration
(`usecase.schema.json`; `SchemaAssumption`); they are named in the modules and
evaluated in every run. `StoredOnce`, `HeldOnce` and
`Implements` of the import assume `OrderlyImports`: no overlapping imports, no
lost replies and no killed generate-spool. Without the second the statement is
false (finding 1); the third removes the record before the file it was about; the
first is the check-then-write of the record. `RecordedBeforePosted` needs only
the third; `ChunksInOrder` and `SuccessIsComplete` need none.

`GreenSawEverything` assumes nothing: a green means that every check, taken
alone, finds nothing in the kit (`Whole`). Whether a kit that every check finds
whole has a flaw is a question about the checks one by one and the kits an author
may have, and is not proved: `GreenIsEarned` is model-checked, for every kit of one
or two deviations.

*Only model-checked*: `GreenIsEarned`, and what is under fairness (`ImportEnds`,
`ForwardEnds`, `CallsEnd`, `InvocationEnds`, `ProbeEnds`), since liveness and
ENABLED are out of this prover's reach. Every other property of a passing run is a
theorem. No module
uses a RECURSIVE operator; what is recursive (`Runbook!OpenAfter`) is a function
on the lines of a text. That such a function exists and is the only one would be
an induction over data, which is out of reach too: `ScanInv` carries it along
(`Determined`), from the empty text, line after line as the scan reads.

## 5. Reading the models against the code

Names follow the source. A guard is a condition or an early return; an action is
a whole handler, or the piece of it between two points where another process,
thread or a crash can come between. History variables (marked so where they are
declared) are never read by a guard. Operators that stand before a definition
and change it in one respect (`PostWithoutRecord` before `Record`) are the
mistakes each property is shown to catch; nothing in a specification uses them.

## 6. Findings

1. `spool_lost_reply`: inside one import the body is posted again after a
   transport error or a 5xx, although the first may have been stored
   (`ingest.py:294`). `src/docs/WRITE_PATHS.md:124-126` describes exactly this
   duplicate as what the record prevents; it prevents it between imports only,
   and `src/CONTRACT.md:269-271` promises no silent doubling.
2. `author_migration`: `run_conformance` returns early over a manifest that is
   missing, does not parse or is no mapping (`conformance.py:891`), before the
   migration checks run, and `--advisory` then exits 0; lines 107 and 995-998 say
   that it never covers those checks. A second way to the same exit code: a
   checkout below a directory named `tests` has no sources to scan
   (`conformance.py:635`). Otherwise the lines hold: with a manifest that is a
   mapping, exit code 0 means that nothing to migrate was found in the sources the
   suite looked at (`MigrationReached`).

Seen while modelling, without a line that denies it: regenerating over a project
that was not cleared removes the record (`ingest.py:97`), so the next import
doubles everything; a draft left by a killed generate-spool imports like a
finished Spool (`ingest.py:183`); the conformance report claims "companion
serves" when the web packages are missing (`conformance.py:928-932`), which
`check` recognises by the wording of a note, while it does not recognise the note
on a payload that could not be fabricated (519).

And what the properties name as their exceptions, because the code does it:
- *The end of a minute.* The probe compares the minute of the backdate to that of
  the earliest row it read (`probe.py:112-114`), and its child starts 120 ms after
  the root (77). With a backdate in the last 120 ms of a minute and the child
  readable before the root, it reports a host that keeps backdates as one where
  "backdating is dropped or normalised" (120-121). `VerdictAboutHost` allows this
  case and no other.
- *A golden cut short.* `freeze` writes in place (`golden.py:194`). A gate beside it
  may read the golden empty or short and call a recipe that nobody changed
  different; so it does after a kill there. `OracleHonest` allows the gate that
  answer over such a file.
- *A Ctrl-C beside the `try`.* `_scrubbed_secret_env` (`conformance.py:274-286`)
  takes the secrets out one by one before its `try` and puts them back one by one in
  its `finally`; an interrupt in either loop leaves the rest out of the environment
  of a process that goes on. `SecretsLentBack` leaves these interrupts out
  (`shell.cut`), and no others.
- *A late end of the answer.* `spending.py:99-103` looks at the deadline when data
  comes. After the last byte of an answer the check may wait for the end of the body
  as long as the target drips what is no data, and a permit is returned then:
  `FailClosed` says that its bytes came by the deadline, not that the check
  returned by it.
- *A label that moved.* A publish that returned a version may lose the labels it
  asked for to a later publish, since a label is on one version at a time:
  `PublishedAsAsked` speaks of the versions nobody labelled or unlabelled since.
- *A skill between two renames, a cap of pages*: see the notes of the hazards in
  `PROJECT.json`.

## 7. Not modelled, and why

Encodings (ids, timestamps, attribute values, JSON), prices, distributions and
generated times: TLC has neither reals nor hashes, and no property here is about
them. Waiting times: backoff, Retry-After, throttle and the sleeps between polls
are left out; what matters is how many attempts there are and what may happen
between them. The network inside one attempt is an outcome. Wording of findings
and the text of templates. Retarget, knob and derivation (`retarget.py`,
`knob.py`, `derivation.py`, `target.py`), the configuration of a demo
(`config.py`) and the normalisation of rows (`read.py`): one comparison, one
product, one field at a time, with nothing kept between calls. `benchmark.py`
times a recipe. Anchors (`anchors.py`) are one file written and read whole by a
kit. Library glue (uvicorn, routes, the SDK, theme and paths of a page) is
external. The kit publish workflow runs on a service outside this repository.
