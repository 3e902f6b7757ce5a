------------------------ MODULE SpoolImportProofs ------------------------
(***************************************************************************)
(* Theorems about SpoolImport, for every set of spans, scores, Spools and  *)
(* import jobs and every chunk size and number of attempts.                *)
(***************************************************************************)
EXTENDS SpoolImport, SequenceTheorems, TLAPS

---------------------------------------------------------------------------
(* Lemmas about the operators *)

(* Counting one more copy of some lines keeps a table of counts one. *)
LEMMA PlusType ==
  ASSUME NEW D, NEW f \in [D -> Nat], NEW S
  PROVE  /\ Plus(f, S) \in [D -> Nat]
         /\ \A l \in D : Plus(f, S)[l] = IF l \in S THEN f[l] + 1 ELSE f[l]
BY DEF Plus

(* What Langfuse is sent are lines of the file. *)
LEMMA ChunkEndBound ==
  ASSUME TypeOK, NEW pos \in Nat
  PROVE  /\ ChunkEnd(pos) \in Nat
         /\ ChunkEnd(pos) <= Len(lines)
         /\ pos <= Len(lines) => pos <= ChunkEnd(pos)
BY NumbersAssumption DEF TypeOK, ChunkEnd

(* The tables and the project keep their types when lines are stored. *)
LEMMA StoresType ==
  ASSUME TypeOK, NEW i \in Importer, NEW S, Stores(i, S)
  PROVE  /\ obs' \in [Span -> Nat]
         /\ scores' \in SUBSET Score
         /\ ledger' \in [Importer -> [Span \cup Score -> Nat]]
         /\ delivered' \in [Span -> Nat]
         /\ careless' \in BOOLEAN
<1>1. ledger[i] \in [Span \cup Score -> Nat]
  BY DEF TypeOK
<1>2. Plus(ledger[i], S) \in [Span \cup Score -> Nat]
  BY <1>1, PlusType
<1>3. Plus(obs, S) \in [Span -> Nat] /\ Plus(delivered, S) \in [Span -> Nat]
  BY PlusType DEF TypeOK
<1> QED
  BY <1>2, <1>3 DEF Stores, TypeOK

(* A crash leaves a prefix of the Spool, the last line of it torn or not. *)
LEMMA CrashedFileType ==
  ASSUME NEW q \in Seq(Span \cup Score), NEW n \in 0..Len(q), NEW cut \in BOOLEAN
  PROVE  SubSeq(q, 1, n) \o (IF cut THEN <<Torn>> ELSE <<>>) \in Seq(Line)
<1>1. SubSeq(q, 1, n) \in Seq(Line)
  BY SubSeqProperties DEF Line
<1>2. <<Torn>> \in Seq(Line) /\ <<>> \in Seq(Line)
  BY DEF Line
<1>3. CASE cut
  BY <1>1, <1>2, <1>3, ConcatProperties
<1>4. CASE ~cut
  BY <1>1, <1>2, <1>4, ConcatProperties
<1> QED
  BY <1>3, <1>4

---------------------------------------------------------------------------
(* Type correctness *)

LEMMA InitType == Init => TypeOK
<1> SUFFICES ASSUME Init PROVE TypeOK
  OBVIOUS
<1>1. NewJob("idle", FALSE) \in Job
  BY NumbersAssumption DEF NewJob, Job, Ended
<1>2. imp \in [Importer -> Job]
  BY <1>1 DEF Init
<1>3. jobs \in 0..MaxJobs
  BY NumbersAssumption DEF Init
<1>4. obs \in [Span -> Nat] /\ delivered \in [Span -> Nat]
  BY DEF Init, None
<1>5. ledger \in [Importer -> [Span \cup Score -> Nat]]
  BY DEF Init, NoLedger
<1>6. lines \in Seq(Line) /\ todo \in Seq(Span \cup Score)
  BY DEF Init
<1> QED
  BY <1>2, <1>3, <1>4, <1>5, <1>6 DEF Init, TypeOK

LEMMA GenerateType ==
  ASSUME TypeOK, Generate \/ CrashGenerate
  PROVE  TypeOK'
<1> USE DEF TypeOK, langfuse, history, disk
<1>1. CASE OpenSpool
  <2>1. todo' \in Seq(Span \cup Score)
    BY <1>1, RecipesAssumption DEF OpenSpool
  <2>2. jobs' \in 0..MaxJobs
    BY <1>1, NumbersAssumption DEF OpenSpool
  <2> QED
    BY <1>1, <2>1, <2>2 DEF OpenSpool
<1>2. CASE TruncateSpool
  <2>1. delivered' \in [Span -> Nat]
    BY <1>2 DEF TruncateSpool, None
  <2>2. ledger' \in [Importer -> [Span \cup Score -> Nat]]
    BY <1>2 DEF TruncateSpool, NoLedger
  <2>3. lines' \in Seq(Line)
    BY <1>2 DEF TruncateSpool
  <2> QED
    BY <1>2, <2>1, <2>2, <2>3 DEF TruncateSpool
<1>3. CASE ExtendSpool
  <2>1. lines' \in Seq(Line)
    BY <1>3 DEF ExtendSpool, Line
  <2> QED
    BY <1>3, <2>1 DEF ExtendSpool
<1>4. CASE CloseSpool
  BY <1>4 DEF CloseSpool, disk
<1>5. CASE CrashGenerate
  <2>1. lines' \in Seq(Line)
    BY <1>5, CrashedFileType DEF CrashGenerate
  <2> QED
    BY <1>5, <2>1 DEF CrashGenerate
<1> QED
  BY <1>1, <1>2, <1>3, <1>4, <1>5 DEF Generate

LEMMA BeginType ==
  ASSUME TypeOK, NEW i \in Importer, NEW pc \in Running \cup Ended,
         NEW dry \in BOOLEAN, Begin(i, pc, dry), jobs < MaxJobs,
         delivered' \in [Span -> Nat], careless' \in BOOLEAN
  PROVE  TypeOK'
<1>1. NewJob(pc, dry) \in Job
  BY NumbersAssumption DEF NewJob, Job
<1>2. imp' \in [Importer -> Job]
  BY <1>1 DEF Begin, TypeOK
<1>3. ledger' \in [Importer -> [Span \cup Score -> Nat]]
  BY DEF Begin, TypeOK, NoLedger
<1>4. jobs' \in 0..MaxJobs
  BY NumbersAssumption DEF Begin, TypeOK
<1> QED
  BY <1>2, <1>3, <1>4 DEF Begin, TypeOK, disk, langfuse

LEMMA ImportStartsType ==
  ASSUME TypeOK, NEW i \in Importer, ImportStarts(i)
  PROVE  TypeOK'
<1> USE DEF CanStart, Running, Ended
<1>1. CASE ImportRaises(i)
  BY <1>1, BeginType DEF ImportRaises, TypeOK
<1>2. CASE ImportRefused(i)
  BY <1>2, BeginType DEF ImportRefused, TypeOK
<1>3. ASSUME NEW confirm \in BOOLEAN, NEW dry \in BOOLEAN,
             ImportAdmitted(i, confirm, dry)
      PROVE  TypeOK'
  <2>1. delivered' \in [Span -> Nat]
    BY <1>3 DEF ImportAdmitted, TypeOK, None
  <2> QED
    BY <1>3, <2>1, BeginType DEF ImportAdmitted
<1>4. ASSUME NEW dry \in BOOLEAN, ImportExempt(i, dry)
      PROVE  TypeOK'
  BY <1>4, BeginType DEF ImportExempt, TypeOK
<1> QED
  BY <1>1, <1>2, <1>3, <1>4 DEF ImportStarts

(* A job that moves on stays a job. *)
LEMMA MoveType ==
  ASSUME TypeOK, NEW i \in Importer, NEW pc \in Running \cup Ended,
         NEW pos \in Nat, NEW attempt \in 1..MaxRetries,
         Move(i, pc, pos, attempt)
  PROVE  imp' \in [Importer -> Job]
BY DEF Move, TypeOK, Job

LEMMA GotoType ==
  ASSUME TypeOK, NEW i \in Importer, NEW pc \in Running \cup Ended, Goto(i, pc)
  PROVE  imp' \in [Importer -> Job]
<1>1. imp[i].pos \in Nat /\ imp[i].attempt \in 1..MaxRetries
  BY DEF TypeOK, Job
<1> QED
  BY <1>1, MoveType DEF Goto

LEMMA AdvanceType ==
  ASSUME TypeOK, NEW i \in Importer, Advance(i)
  PROVE  imp' \in [Importer -> Job]
<1>1. imp[i].pos \in Nat /\ 1 \in 1..MaxRetries
  BY NumbersAssumption DEF TypeOK, Job
<1>2. ChunkEnd(imp[i].pos) \in Nat
  BY <1>1, ChunkEndBound
<1> QED
  BY <1>1, <1>2, MoveType DEF Advance, Running

LEMMA RetryType ==
  ASSUME TypeOK, NEW i \in Importer, Requesting(i), Retry(i)
  PROVE  imp' \in [Importer -> Job]
<1>1. CASE imp[i].attempt = MaxRetries
  BY <1>1, GotoType DEF Retry, Ended
<1>2. CASE imp[i].attempt # MaxRetries
  <2>1. imp[i].pos \in Nat /\ imp[i].attempt + 1 \in 1..MaxRetries
    BY <1>2, NumbersAssumption DEF TypeOK, Job
  <2> QED
    BY <1>2, <2>1, MoveType DEF Retry, TryAgain, Requesting, Running
<1> QED
  BY <1>1, <1>2

LEMMA ImportStepType ==
  ASSUME TypeOK, NEW i \in Importer, ImportStep(i) \/ KillImport(i)
  PROVE  TypeOK'
<1> USE DEF disk, langfuse, history
<1>1. CASE Record(i)
  BY <1>1, GotoType DEF Record, TypeOK, Running
<1>2. CASE ReadChunk(i)
  BY <1>2, GotoType DEF ReadChunk, TypeOK, Running, Ended
<1>3. CASE PostDry(i)
  BY <1>3, AdvanceType DEF PostDry, TypeOK
<1>4. CASE PostAccepted(i)
  BY <1>4, AdvanceType, StoresType DEF PostAccepted, TypeOK
<1>5. CASE PostRejected(i)
  BY <1>5, GotoType, StoresType DEF PostRejected, RaiseRejection, TypeOK, Ended
<1>6. CASE PostRefused(i)
  BY <1>6, GotoType DEF PostRefused, TypeOK, Ended
<1>7. CASE PostRetryable(i)
  BY <1>7, RetryType, StoresType DEF PostRetryable, TypeOK
<1>8. CASE KillImport(i)
  BY <1>8, GotoType, StoresType DEF KillImport, TypeOK, Ended
<1> QED
  BY <1>1, <1>2, <1>3, <1>4, <1>5, <1>6, <1>7, <1>8 DEF ImportStep

LEMMA ClearType ==
  ASSUME TypeOK, ClearProject
  PROVE  TypeOK'
<1>1. jobs' \in 0..MaxJobs
  BY NumbersAssumption DEF ClearProject, TypeOK
<1>2. obs' \in [Span -> Nat]
  BY DEF ClearProject, None
<1> QED
  BY <1>1, <1>2 DEF ClearProject, TypeOK, disk, history

LEMMA NextType ==
  ASSUME TypeOK, [Next]_vars
  PROVE  TypeOK'
<1>1. CASE UNCHANGED vars
  BY <1>1 DEF vars, disk, langfuse, history, TypeOK
<1> QED
  BY <1>1, GenerateType, ImportStartsType, ImportStepType, ClearType DEF Next

(* The state of the volume, of the jobs, of the project and of the         *)
(* histories keeps its shape in every behaviour, whatever the faults.      *)
THEOREM TypeCorrect == Spec => []TypeOK
<1>1. Init => TypeOK
  BY InitType
<1>2. TypeOK /\ [Next]_vars => TypeOK'
  BY NextType
<1> QED
  BY <1>1, <1>2, PTL DEF Spec

---------------------------------------------------------------------------
(* The record is there as soon as a span is in the project                 *)

(* Nothing is imported while a Spool is being written. *)
Exclusive == gen # "idle" => NoneRunning

(* Whoever posts a Spool with spans in it has left the record. *)
Guarded ==
  \A i \in Importer : imp[i].pc \in Posting /\ HasSpan(lines) => marker

(* Without the record nothing was stored under this clean slate. *)
Fresh == gen # "opening" /\ ~marker => delivered = None

RecordInv == Exclusive /\ Guarded /\ Fresh

(* Storing lines that are not spans leaves the count of spans alone. *)
LEMMA PlusNothing ==
  ASSUME NEW f \in [Span -> Nat], NEW S, S \cap Span = {}
  PROVE  Plus(f, S) = f
BY DEF Plus

(* A span in a chunk is a span in the file. *)
LEMMA ChunkSpan ==
  ASSUME TypeOK, NEW pos \in Nat, NEW S, S \subseteq Chunk(pos),
         S \cap Span # {}
  PROVE  HasSpan(lines)
<1>1. PICK s \in S : s \in Span
  OBVIOUS
<1>2. PICK k \in (pos + 1)..ChunkEnd(pos) : s = lines[k]
  BY <1>1 DEF Chunk
<1>3. k \in DOMAIN lines
  <2>1. ChunkEnd(pos) \in Nat /\ ChunkEnd(pos) <= Len(lines)
    BY ChunkEndBound
  <2>2. DOMAIN lines = 1..Len(lines) /\ Len(lines) \in Nat
    BY DEF TypeOK
  <2> QED
    BY <1>2, <2>1, <2>2
<1> QED
  BY <1>1, <1>2, <1>3 DEF HasSpan, LinesOf

(* The step of an import job that stores lines finds the record. *)
LEMMA StoresRecord ==
  ASSUME TypeOK, RecordInv, NEW i \in Importer, NEW S, Stores(i, S),
         S # {} => Requesting(i) /\ S \subseteq Body(i),
         UNCHANGED <<gen, marker>>
  PROVE  Fresh'
<1>1. CASE S \cap Span = {}
  <2>1. delivered' = delivered
    BY <1>1, PlusNothing DEF Stores, TypeOK
  <2> QED
    BY <2>1 DEF RecordInv, Fresh, None
<1>2. CASE S \cap Span # {}
  <2>1. imp[i].pos \in Nat /\ S \subseteq Chunk(imp[i].pos)
    BY <1>2 DEF Body, TypeOK, Job
  <2>2. HasSpan(lines)
    BY <1>2, <2>1, ChunkSpan
  <2>3. marker
    BY <1>2, <2>2 DEF RecordInv, Guarded, Requesting, Posting
  <2> QED
    BY <2>3 DEF Fresh
<1> QED
  BY <1>1, <1>2

(* A job that takes a step stays the only kind of job there is, and the    *)
(* others stay as they were.                                               *)
LEMMA MoveFrame ==
  ASSUME TypeOK, NEW i \in Importer, NEW pc, NEW pos, NEW attempt,
         Move(i, pc, pos, attempt)
  PROVE  /\ imp'[i] = [pc |-> pc, dry |-> imp[i].dry, pos |-> pos,
                       attempt |-> attempt]
         /\ \A j \in Importer \ {i} : imp'[j] = imp[j]
BY DEF Move, TypeOK

LEMMA AdvanceFrame ==
  ASSUME TypeOK, NEW i \in Importer, Advance(i)
  PROVE  /\ imp'[i].pc \in {"reading", "scores"}
         /\ imp'[i].pc = "scores" => imp'[i].pos = imp[i].pos
         /\ imp'[i].pc = "reading" => imp'[i].pos = ChunkEnd(imp[i].pos)
         /\ imp'[i].attempt = 1
         /\ \A j \in Importer \ {i} : imp'[j] = imp[j]
<1>1. CASE Move(i, "scores", imp[i].pos, 1)
  <2>1. imp'[i] = [pc |-> "scores", dry |-> imp[i].dry, pos |-> imp[i].pos,
                   attempt |-> 1]
    BY <1>1, MoveFrame
  <2>2. \A j \in Importer \ {i} : imp'[j] = imp[j]
    BY <1>1, MoveFrame
  <2> QED
    BY <2>1, <2>2
<1>2. CASE Move(i, "reading", ChunkEnd(imp[i].pos), 1)
  <2>1. imp'[i] = [pc |-> "reading", dry |-> imp[i].dry,
                   pos |-> ChunkEnd(imp[i].pos), attempt |-> 1]
    BY <1>2, MoveFrame
  <2>2. \A j \in Importer \ {i} : imp'[j] = imp[j]
    BY <1>2, MoveFrame
  <2> QED
    BY <2>1, <2>2
<1> QED
  BY <1>1, <1>2 DEF Advance

(* How an import job moves inside one step, for the proofs below: what is  *)
(* left unchanged and which state it can reach.                            *)
LEMMA ImportStepFrame ==
  ASSUME TypeOK, NEW i \in Importer, ImportStep(i) \/ KillImport(i)
  PROVE  /\ imp[i].pc \in Running
         /\ \A j \in Importer \ {i} : imp'[j] = imp[j]
         /\ UNCHANGED <<exists, lines, gen, todo, jobs>>
         /\ marker' = (IF Record(i) THEN TRUE ELSE marker)
         /\ \/ Record(i)
            \/ imp[i].pc \in Posting
            \/ imp'[i].pc = "killed"
<1> USE DEF disk, langfuse, history, Running, Posting, Goto, Requesting
<1>1. CASE Record(i)
  BY <1>1, MoveFrame DEF Record
<1>2. CASE ReadChunk(i)
  BY <1>2, MoveFrame DEF ReadChunk, Record
<1>3. CASE PostDry(i)
  BY <1>3, AdvanceFrame DEF PostDry, Record
<1>4. CASE PostAccepted(i)
  BY <1>4, AdvanceFrame DEF PostAccepted, Record
<1>5. CASE PostRejected(i)
  BY <1>5, MoveFrame DEF PostRejected, RaiseRejection, Record
<1>6. CASE PostRefused(i)
  BY <1>6, MoveFrame DEF PostRefused, Record
<1>7. CASE PostRetryable(i)
  BY <1>7, MoveFrame DEF PostRetryable, Retry, TryAgain, Record
<1>8. CASE KillImport(i)
  <2>1. Move(i, "killed", imp[i].pos, imp[i].attempt)
    BY <1>8 DEF KillImport
  <2>2. /\ imp'[i] = [pc |-> "killed", dry |-> imp[i].dry, pos |-> imp[i].pos,
                      attempt |-> imp[i].attempt]
        /\ \A j \in Importer \ {i} : imp'[j] = imp[j]
    BY <2>1, MoveFrame
  <2>3. imp'[i].pc = "killed"
    BY <2>2
  <2>4. marker' = marker /\ (Record(i) => marker')
    BY <1>8 DEF KillImport, Record
  <2> QED
    BY <1>8, <2>2, <2>3, <2>4 DEF KillImport
<1> QED
  BY <1>1, <1>2, <1>3, <1>4, <1>5, <1>6, <1>7, <1>8 DEF ImportStep

(* An import step stores some lines of the body it is requesting, or       *)
(* leaves the project and the histories alone.                             *)
LEMMA ImportStepStores ==
  ASSUME TypeOK, NEW i \in Importer, ImportStep(i) \/ KillImport(i)
  PROVE  \/ UNCHANGED <<langfuse, history>>
         \/ \E S : /\ Stores(i, S)
                   /\ S # {} => Requesting(i) /\ S \subseteq Body(i)
<1>1. CASE PostAccepted(i)
  BY <1>1 DEF PostAccepted
<1>2. CASE PostRejected(i)
  BY <1>2 DEF PostRejected
<1>3. CASE PostRetryable(i)
  BY <1>3 DEF PostRetryable, Unacknowledged
<1>4. CASE KillImport(i)
  BY <1>4 DEF KillImport
<1>5. CASE Record(i) \/ ReadChunk(i) \/ PostDry(i) \/ PostRefused(i)
  BY <1>5 DEF Record, ReadChunk, PostDry, PostRefused, langfuse, history
<1> QED
  BY <1>1, <1>2, <1>3, <1>4, <1>5 DEF ImportStep

LEMMA RecordInit == Init => RecordInv
BY DEF Init, RecordInv, Exclusive, Guarded, Fresh, NoneRunning, NewJob, Ended,
       Posting, None

LEMMA RecordGenerate ==
  ASSUME TypeOK, RecordInv, Generate
  PROVE  RecordInv'
<1>1. UNCHANGED imp /\ NoneRunning
  BY DEF RecordInv, Exclusive, Generate, OpenSpool, TruncateSpool, ExtendSpool,
         CloseSpool
<1>2. Exclusive' /\ Guarded'
  BY <1>1 DEF Exclusive, Guarded, NoneRunning, Posting, Ended
<1>3. Fresh'
  BY DEF RecordInv, Fresh, Generate, OpenSpool, TruncateSpool, ExtendSpool,
         CloseSpool, history, None, disk
<1> QED
  BY <1>2, <1>3 DEF RecordInv

LEMMA BeginFrame ==
  ASSUME TypeOK, NEW i \in Importer, NEW pc, NEW dry, Begin(i, pc, dry)
  PROVE  /\ imp'[i].pc = pc /\ imp'[i].pos = 0 /\ imp'[i].attempt = 1
         /\ \A j \in Importer \ {i} : imp'[j] = imp[j]
         /\ UNCHANGED <<disk, gen, todo, obs>>
BY DEF Begin, NewJob, TypeOK, langfuse

LEMMA RecordStarts ==
  ASSUME TypeOK, RecordInv, NEW i \in Importer, ImportStarts(i)
  PROVE  RecordInv'
<1>1. gen = "idle"
  BY DEF ImportStarts, ImportRaises, ImportRefused, ImportAdmitted,
         ImportExempt, CanStart
<1>2. PICK pc, dry :
        /\ Begin(i, pc, dry)
        /\ pc \in Posting => ~HasSpan(lines)
        /\ delivered' = None \/ delivered' = delivered
  BY DEF ImportStarts, ImportRaises, ImportRefused, ImportAdmitted,
         ImportExempt, Posting
<1>3. /\ imp'[i].pc = pc
      /\ \A j \in Importer \ {i} : imp'[j] = imp[j]
      /\ UNCHANGED <<disk, gen>>
  BY <1>2, BeginFrame
<1>4. Exclusive'
  BY <1>1, <1>3 DEF Exclusive
<1>5. Guarded'
  BY <1>2, <1>3 DEF RecordInv, Guarded, disk, HasSpan, LinesOf
<1>6. Fresh'
  BY <1>2, <1>3 DEF RecordInv, Fresh, disk, None
<1> QED
  BY <1>4, <1>5, <1>6 DEF RecordInv

LEMMA RecordStep ==
  ASSUME TypeOK, RecordInv, NEW i \in Importer, ImportStep(i) \/ KillImport(i)
  PROVE  RecordInv'
<1>1. /\ imp[i].pc \in Running
      /\ \A j \in Importer \ {i} : imp'[j] = imp[j]
      /\ UNCHANGED <<lines, gen>>
      /\ marker' = (IF Record(i) THEN TRUE ELSE marker)
      /\ Record(i) \/ imp[i].pc \in Posting \/ imp'[i].pc = "killed"
  BY ImportStepFrame
<1>2. gen = "idle"
  BY <1>1 DEF RecordInv, Exclusive, NoneRunning, Running, Ended
<1>3. Exclusive'
  BY <1>1, <1>2 DEF Exclusive
<1>4. Guarded'
  BY <1>1 DEF RecordInv, Guarded, HasSpan, LinesOf, Posting
<1>5. Fresh'
  <2>1. CASE Record(i)
    BY <1>1, <2>1 DEF Fresh
  <2>2. CASE UNCHANGED <<langfuse, history>> /\ ~Record(i)
    <3>1. delivered' = delivered
      BY <2>2 DEF history
    <3> QED
      BY <1>1, <2>2, <3>1 DEF RecordInv, Fresh, None
  <2>3. CASE /\ ~Record(i)
             /\ \E S : /\ Stores(i, S)
                       /\ S # {} => Requesting(i) /\ S \subseteq Body(i)
    <3>1. PICK S : /\ Stores(i, S)
                   /\ S # {} => Requesting(i) /\ S \subseteq Body(i)
      BY <2>3
    <3>2. UNCHANGED <<gen, marker>>
      BY <1>1, <2>3
    <3> QED
      BY <3>1, <3>2, StoresRecord
  <2> QED
    BY <2>1, <2>2, <2>3, ImportStepStores
<1> QED
  BY <1>3, <1>4, <1>5 DEF RecordInv

LEMMA RecordNext ==
  ASSUME TypeOK, RecordInv, [Next]_vars, "crash_generate" \notin Faults
  PROVE  RecordInv'
<1>1. CASE UNCHANGED vars
  BY <1>1 DEF vars, disk, history, RecordInv, Exclusive, Guarded, Fresh,
              NoneRunning, HasSpan, LinesOf, None
<1>2. CASE ClearProject
  BY <1>2 DEF ClearProject, disk, history, RecordInv, Exclusive, Guarded, Fresh,
              NoneRunning, HasSpan, LinesOf, None
<1>3. ~CrashGenerate
  BY DEF CrashGenerate, Fault
<1> QED
  BY <1>1, <1>2, <1>3, RecordGenerate, RecordStarts, RecordStep DEF Next

(* If generate-spool is not killed, then whenever some span of the Spool   *)
(* was stored since the last clean slate its record is on the volume: no   *)
(* order of failures, retries, kills and overlapping imports loses it.     *)
THEOREM RecordedBeforePosted ==
  ASSUME "crash_generate" \notin Faults
  PROVE  Spec => []RecordedIfPosted
<1>1. TypeOK /\ Fresh => RecordedIfPosted
  BY DEF TypeOK, Fresh, RecordedIfPosted, None
<1>2. RecordInv => Fresh
  BY DEF RecordInv
<1>3. TypeOK /\ RecordInv /\ [Next]_vars => RecordInv'
  BY RecordNext
<1> QED
  BY <1>1, <1>2, <1>3, RecordInit, TypeCorrect, PTL DEF Spec

---------------------------------------------------------------------------
(* At most once under one clean slate                                      *)

(* Import jobs do not run at the same time. *)
Serial ==
  \A i, j \in Importer :
    imp[i].pc \in Running /\ imp[j].pc \in Running => i = j

Distinct(q) == \A j, k \in DOMAIN q : q[j] = q[k] => j = k

(* The position in the file up to which an import has posted every span. *)
Sent(i) == IF imp[i].pc = "scores" THEN ChunkEnd(imp[i].pos) ELSE imp[i].pos

(* What an import has not posted yet was not posted before it. *)
Unsent(n) ==
  \A k \in DOMAIN lines : lines[k] \in Span /\ k > n => delivered[lines[k]] = 0

SlateInv ==
  /\ Serial
  /\ Distinct(lines) /\ Distinct(todo)
  /\ AtMostOncePerSlate
  /\ \A i \in Importer : imp[i].pc \in Running => Unsent(Sent(i))

(* What the record cannot help with: a generate-spool killed half-way, two *)
(* imports at once, and a reply lost after its body was stored.            *)
OrderlyImports ==
  /\ "crash_generate" \notin Faults
  /\ "overlap" \notin Faults
  /\ "lost_reply" \notin Faults

(* A line of the file beyond the current chunk is beyond its start. *)
LEMMA BeyondChunk ==
  ASSUME TypeOK, NEW pos \in Nat, NEW k \in DOMAIN lines, k > ChunkEnd(pos)
  PROVE  k > pos
<1>1. DOMAIN lines = 1..Len(lines) /\ Len(lines) \in Nat
  BY DEF TypeOK
<1> QED
  BY <1>1, NumbersAssumption DEF ChunkEnd

(* The spans in a body were never stored under this clean slate, and are   *)
(* none of those beyond the chunk.                                         *)
LEMMA BodySpan ==
  ASSUME TypeOK, SlateInv, NEW i \in Importer, Requesting(i),
         NEW s \in Body(i), s \in Span
  PROVE  /\ delivered[s] = 0
         /\ \A k \in DOMAIN lines : k > ChunkEnd(imp[i].pos) => lines[k] # s
<1>1. imp[i].pc = "spans"
  BY LineKinds DEF Body, Requesting
<1>2. imp[i].pos \in Nat
  BY DEF TypeOK, Job
<1>3. PICK n \in (imp[i].pos + 1)..ChunkEnd(imp[i].pos) : s = lines[n]
  BY DEF Body, Chunk
<1>4. /\ ChunkEnd(imp[i].pos) \in Nat /\ ChunkEnd(imp[i].pos) <= Len(lines)
      /\ DOMAIN lines = 1..Len(lines) /\ Len(lines) \in Nat
  <2>1. ChunkEnd(imp[i].pos) \in Nat /\ ChunkEnd(imp[i].pos) <= Len(lines)
    BY <1>2, ChunkEndBound
  <2>2. DOMAIN lines = 1..Len(lines) /\ Len(lines) \in Nat
    BY DEF TypeOK
  <2> QED
    BY <2>1, <2>2
<1>5. n \in DOMAIN lines /\ n > imp[i].pos /\ n <= ChunkEnd(imp[i].pos)
  BY <1>2, <1>3, <1>4
<1>6. Unsent(imp[i].pos)
  BY <1>1 DEF SlateInv, Sent, Running
<1>7. delivered[s] = 0
  BY <1>3, <1>5, <1>6 DEF Unsent
<1>8. ASSUME NEW k \in DOMAIN lines, k > ChunkEnd(imp[i].pos)
      PROVE  lines[k] # s
  BY <1>3, <1>4, <1>5, <1>8 DEF SlateInv, Distinct
<1> QED
  BY <1>7, <1>8

(* Storing part of a body keeps every span at one copy and those beyond    *)
(* the chunk at none.                                                      *)
LEMMA StoresOnce ==
  ASSUME TypeOK, SlateInv, NEW i \in Importer, NEW S, Stores(i, S),
         S # {} => Requesting(i) /\ S \subseteq Body(i)
  PROVE  /\ AtMostOncePerSlate'
         /\ \A s \in S \cap Span : delivered[s] = 0
         /\ \A k \in DOMAIN lines :
              /\ imp[i].pc \in Running
              /\ lines[k] \in Span /\ k > ChunkEnd(imp[i].pos)
              => delivered'[lines[k]] = 0
<1>1. \A s \in Span : delivered'[s] = IF s \in S THEN delivered[s] + 1
                                                 ELSE delivered[s]
  <2>1. delivered \in [Span -> Nat] /\ delivered' = Plus(delivered, S)
    BY DEF Stores, TypeOK
  <2> QED
    BY <2>1, PlusType
<1>2. \A s \in S \cap Span :
        /\ delivered[s] = 0
        /\ \A k \in DOMAIN lines : k > ChunkEnd(imp[i].pos) => lines[k] # s
  BY BodySpan
<1>3. AtMostOncePerSlate'
  <2> SUFFICES ASSUME NEW s \in Span PROVE delivered'[s] <= 1
    BY DEF AtMostOncePerSlate
  <2>1. CASE s \in S
    BY <1>1, <1>2, <2>1
  <2>2. CASE s \notin S
    BY <1>1, <2>2 DEF SlateInv, AtMostOncePerSlate
  <2> QED
    BY <2>1, <2>2
<1>4. ASSUME imp[i].pc \in Running,
             NEW k \in DOMAIN lines, lines[k] \in Span,
             k > ChunkEnd(imp[i].pos)
      PROVE  delivered'[lines[k]] = 0
  <2>1. imp[i].pos \in Nat
    BY DEF TypeOK, Job
  <2>2. k > Sent(i)
    BY <1>4, <2>1, BeyondChunk DEF Sent
  <2>3. delivered[lines[k]] = 0
    BY <1>4, <2>2 DEF SlateInv, Unsent
  <2>4. lines[k] \notin S
    BY <1>2, <1>4
  <2> QED
    BY <1>1, <1>4, <2>3, <2>4
<1> QED
  BY <1>2, <1>3, <1>4

(* An import job goes on from where it was, or from the end of the chunk   *)
(* it has posted. *)
LEMMA SentGrows ==
  ASSUME TypeOK, NEW i \in Importer, ImportStep(i) \/ KillImport(i),
         imp'[i].pc \in Running, NEW k \in DOMAIN lines, k > Sent(i)'
  PROVE  k > Sent(i)
<1>1. imp[i].pos \in Nat
  BY DEF TypeOK, Job
<1>2. lines' = lines
  BY ImportStepFrame
<1>3. CASE Requesting(i) /\ Advance(i)
  <2>1. k > ChunkEnd(imp[i].pos)
    <3>1. /\ imp'[i].pc \in {"reading", "scores"}
          /\ imp'[i].pc = "scores" => imp'[i].pos = imp[i].pos
          /\ imp'[i].pc = "reading" => imp'[i].pos = ChunkEnd(imp[i].pos)
      BY <1>3, AdvanceFrame
    <3> QED
      BY <1>2, <3>1 DEF Sent, ChunkEnd
  <2> QED
    BY <1>1, <2>1, BeyondChunk DEF Sent
<1>4. CASE imp'[i].pos = imp[i].pos /\ imp'[i].pc = imp[i].pc
  BY <1>2, <1>4 DEF Sent, ChunkEnd
<1>5. CASE imp'[i].pos = imp[i].pos /\ imp[i].pc \in {"admitted", "reading"}
  BY <1>1, <1>2, <1>5, BeyondChunk DEF Sent, ChunkEnd
<1>6. ASSUME NEW pc, Goto(i, pc)
      PROVE  imp'[i].pos = imp[i].pos /\ imp'[i].pc = pc
  <2>1. imp'[i] = [pc |-> pc, dry |-> imp[i].dry, pos |-> imp[i].pos,
                   attempt |-> imp[i].attempt]
    BY <1>6, MoveFrame DEF Goto
  <2> QED
    BY <2>1
<1>7. CASE Record(i) \/ ReadChunk(i)
  BY <1>5, <1>6, <1>7 DEF Record, ReadChunk
<1>8. CASE PostRejected(i) \/ PostRefused(i) \/ KillImport(i)
  BY <1>6, <1>8 DEF PostRejected, RaiseRejection, PostRefused, KillImport, Running
<1>9. CASE PostRetryable(i)
  <2>1. CASE Goto(i, "failed")
    BY <1>6, <2>1 DEF Running
  <2>2. CASE Move(i, imp[i].pc, imp[i].pos, imp[i].attempt + 1)
    <3>1. imp'[i] = [pc |-> imp[i].pc, dry |-> imp[i].dry,
                     pos |-> imp[i].pos, attempt |-> imp[i].attempt + 1]
      BY <2>2, MoveFrame
    <3> QED
      BY <1>4, <3>1
  <2> QED
    BY <1>9, <2>1, <2>2 DEF PostRetryable, Retry, TryAgain
<1> QED
  BY <1>3, <1>7, <1>8, <1>9 DEF ImportStep, PostDry, PostAccepted

(* When no reply is lost, the job that goes on after its body was stored   *)
(* goes on from the end of the chunk. *)
LEMMA SentAfterStore ==
  ASSUME TypeOK, OrderlyImports, NEW i \in Importer,
         ImportStep(i) \/ KillImport(i), imp'[i].pc \in Running
  PROVE  \/ delivered' = delivered
         \/ /\ Requesting(i)
            /\ \A k \in DOMAIN lines : k > Sent(i)' => k > ChunkEnd(imp[i].pos)
<1>1. CASE Record(i) \/ ReadChunk(i) \/ PostDry(i) \/ PostRefused(i)
  BY <1>1 DEF Record, ReadChunk, PostDry, PostRefused, history
<1>2. CASE PostAccepted(i)
  <2>1. lines' = lines /\ Requesting(i)
    BY <1>2, ImportStepFrame DEF PostAccepted
  <2>2. /\ imp'[i].pc \in {"reading", "scores"}
        /\ imp'[i].pc = "scores" => imp'[i].pos = imp[i].pos
        /\ imp'[i].pc = "reading" => imp'[i].pos = ChunkEnd(imp[i].pos)
    BY <1>2, AdvanceFrame DEF PostAccepted
  <2> QED
    BY <2>1, <2>2 DEF Sent, ChunkEnd
<1>3. CASE PostRetryable(i)
  <2>1. Stores(i, {})
    BY <1>3 DEF PostRetryable, Unacknowledged, OrderlyImports, Fault
  <2> QED
    BY <2>1, PlusNothing DEF Stores, TypeOK
<1>4. ASSUME NEW pc \in {"failed", "killed"}, Goto(i, pc)
      PROVE  FALSE
  <2>1. imp'[i] = [pc |-> pc, dry |-> imp[i].dry, pos |-> imp[i].pos,
                   attempt |-> imp[i].attempt]
    BY <1>4, MoveFrame DEF Goto
  <2> QED
    BY <2>1 DEF Running
<1>5. CASE PostRejected(i) \/ KillImport(i)
  BY <1>4, <1>5 DEF PostRejected, RaiseRejection, KillImport
<1> QED
  BY <1>1, <1>2, <1>3, <1>5 DEF ImportStep

LEMMA SlateInit == Init => SlateInv
BY DEF Init, SlateInv, Serial, Distinct, AtMostOncePerSlate, None, NewJob,
       Running

LEMMA SlateGenerate ==
  ASSUME TypeOK, RecordInv, SlateInv, Generate
  PROVE  SlateInv'
<1>1. UNCHANGED imp /\ \A i \in Importer : imp[i].pc \notin Running
  BY DEF RecordInv, Exclusive, NoneRunning, Running, Ended, Generate, OpenSpool,
         TruncateSpool, ExtendSpool, CloseSpool
<1>2. Distinct(lines)' /\ Distinct(todo)'
  <2>1. CASE OpenSpool
    BY <2>1, RecipesAssumption DEF OpenSpool, SlateInv, Distinct
  <2>2. CASE TruncateSpool
    BY <2>2 DEF TruncateSpool, SlateInv, Distinct
  <2>3. CASE ExtendSpool \/ CloseSpool
    BY <2>3 DEF ExtendSpool, CloseSpool, disk, SlateInv, Distinct
  <2> QED
    BY <2>1, <2>2, <2>3 DEF Generate
<1>3. AtMostOncePerSlate'
  BY DEF Generate, OpenSpool, TruncateSpool, ExtendSpool, CloseSpool, history,
         None, SlateInv, AtMostOncePerSlate
<1> QED
  BY <1>1, <1>2, <1>3 DEF SlateInv, Serial

LEMMA SlateStarts ==
  ASSUME TypeOK, RecordInv, SlateInv, OrderlyImports,
         NEW i \in Importer, ImportStarts(i)
  PROVE  SlateInv'
<1>1. gen = "idle" /\ NoneRunning
  BY DEF ImportStarts, ImportRaises, ImportRefused, ImportAdmitted,
         ImportExempt, CanStart, OrderlyImports, Fault
<1>2. PICK pc, dry :
        /\ Begin(i, pc, dry)
        /\ \/ delivered' = None
           \/ delivered' = delivered /\ (pc \in Running => ~marker)
           \/ delivered' = delivered /\ ~HasSpan(lines)
  <2>1. CASE ImportRaises(i) \/ ImportRefused(i)
    <3>1. PICK pc \in {"failed", "refused"} :
            Begin(i, pc, FALSE) /\ delivered' = delivered
      BY <2>1 DEF ImportRaises, ImportRefused
    <3> QED
      BY <3>1 DEF Running
  <2>2. ASSUME NEW confirm \in BOOLEAN, NEW dry \in BOOLEAN,
               ImportAdmitted(i, confirm, dry)
        PROVE  /\ Begin(i, "admitted", dry)
               /\ \/ delivered' = None
                  \/ delivered' = delivered /\ ~marker
    BY <2>2 DEF ImportAdmitted, Admissible
  <2>3. ASSUME NEW dry \in BOOLEAN, ImportExempt(i, dry)
        PROVE  /\ Begin(i, "reading", dry)
               /\ delivered' = delivered /\ ~HasSpan(lines)
    BY <2>3 DEF ImportExempt
  <2> QED
    BY <2>1, <2>2, <2>3 DEF ImportStarts
<1>3. /\ imp'[i].pc = pc /\ imp'[i].pos = 0
      /\ \A j \in Importer \ {i} : imp'[j] = imp[j]
      /\ UNCHANGED <<lines, todo>>
  BY <1>2, BeginFrame DEF disk
<1>4. \A j \in Importer : imp'[j].pc \in Running => j = i
  BY <1>1, <1>3 DEF NoneRunning, Running, Ended
<1>5. AtMostOncePerSlate'
  BY <1>2 DEF SlateInv, AtMostOncePerSlate, None
<1>6. ASSUME imp'[i].pc \in Running, NEW k \in DOMAIN lines, lines[k] \in Span
      PROVE  delivered'[lines[k]] = 0
  <2>1. CASE delivered' = None
    BY <1>6, <2>1 DEF None
  <2>2. CASE delivered' = delivered /\ (pc \in Running => ~marker)
    BY <1>1, <1>3, <1>6, <2>2 DEF RecordInv, Fresh, None
  <2>3. CASE ~HasSpan(lines)
    BY <1>6, <2>3 DEF HasSpan, LinesOf
  <2> QED
    BY <1>2, <2>1, <2>2, <2>3
<1>7. imp'[i].pc \in Running => Unsent(Sent(i))'
  BY <1>3, <1>6 DEF Unsent
<1> QED
  BY <1>3, <1>4, <1>5, <1>7 DEF SlateInv, Serial, Distinct

LEMMA SlateStep ==
  ASSUME TypeOK, SlateInv, OrderlyImports,
         NEW i \in Importer, ImportStep(i) \/ KillImport(i)
  PROVE  SlateInv'
<1>1. /\ imp[i].pc \in Running
      /\ \A j \in Importer \ {i} : imp'[j] = imp[j]
      /\ UNCHANGED <<lines, todo>>
  BY ImportStepFrame
<1>2. \A j \in Importer : imp'[j].pc \in Running => j = i
  BY <1>1 DEF SlateInv, Serial
<1>3. CASE delivered' = delivered
  <2>1. AtMostOncePerSlate'
    BY <1>3 DEF SlateInv, AtMostOncePerSlate
  <2>2. ASSUME imp'[i].pc \in Running, NEW k \in DOMAIN lines,
               lines[k] \in Span, k > Sent(i)'
        PROVE  delivered'[lines[k]] = 0
    <3>1. k > Sent(i)
      BY <2>2, SentGrows
    <3> QED
      BY <1>1, <1>3, <2>2, <3>1 DEF SlateInv, Unsent
  <2>3. imp'[i].pc \in Running => Unsent(Sent(i))'
    BY <1>1, <2>2 DEF Unsent
  <2> QED
    BY <1>1, <1>2, <2>1, <2>3 DEF SlateInv, Serial, Distinct
<1>4. CASE delivered' # delivered
  <2>1. PICK S : /\ Stores(i, S)
                 /\ S # {} => Requesting(i) /\ S \subseteq Body(i)
    BY <1>4, ImportStepStores DEF history
  <2>2. /\ AtMostOncePerSlate'
        /\ \A k \in DOMAIN lines :
             /\ imp[i].pc \in Running
             /\ lines[k] \in Span /\ k > ChunkEnd(imp[i].pos)
             => delivered'[lines[k]] = 0
    BY <2>1, StoresOnce
  <2>3. imp'[i].pc \in Running =>
          \A k \in DOMAIN lines : k > Sent(i)' => k > ChunkEnd(imp[i].pos)
    BY <1>4, SentAfterStore
  <2>4. imp'[i].pc \in Running => Unsent(Sent(i))'
    BY <1>1, <2>2, <2>3 DEF Unsent
  <2> QED
    BY <1>1, <1>2, <2>2, <2>4 DEF SlateInv, Serial, Distinct
<1> QED
  BY <1>3, <1>4

LEMMA SlateNext ==
  ASSUME TypeOK, RecordInv, SlateInv, OrderlyImports, [Next]_vars
  PROVE  SlateInv'
<1>1. CASE UNCHANGED vars \/ ClearProject
  <2>1. UNCHANGED <<imp, lines, todo, delivered>>
    BY <1>1 DEF vars, disk, history, ClearProject
  <2> QED
    BY <2>1 DEF SlateInv, Serial, Distinct, AtMostOncePerSlate, Unsent, Sent,
                ChunkEnd
<1>2. ~CrashGenerate
  BY DEF CrashGenerate, Fault, OrderlyImports
<1> QED
  BY <1>1, <1>2, SlateGenerate, SlateStarts, SlateStep DEF Next

(* Under OrderlyImports, whatever else goes wrong (rejections, refusals,   *)
(* retries, kills with a request in flight, a project that is not empty),  *)
(* no span is stored twice under one clean slate.                          *)
THEOREM StoredOnce ==
  ASSUME OrderlyImports
  PROVE  Spec => []AtMostOncePerSlate
<1>1. "crash_generate" \notin Faults
  BY DEF OrderlyImports
<1>2. TypeOK /\ RecordInv /\ [Next]_vars => RecordInv'
  BY <1>1, RecordNext
<1>3. TypeOK /\ RecordInv /\ SlateInv /\ [Next]_vars => SlateInv'
  BY SlateNext
<1>4. SlateInv => AtMostOncePerSlate
  BY DEF SlateInv
<1> QED
  BY <1>2, <1>3, <1>4, RecordInit, SlateInit, TypeCorrect, PTL DEF Spec

---------------------------------------------------------------------------
(* One copy in the project                                                 *)

(* Over a project that was cleared for it, what the project holds was      *)
(* delivered under the current slate; and a Spool is then written while    *)
(* the project is empty.                                                   *)
Covered ==
  ~careless => /\ gen # "idle" => EmptyProject
               /\ \A s \in Span : obs[s] <= delivered[s]

LEMMA CoveredInit == Init => Covered
BY DEF Init, Covered, EmptyProject, None

LEMMA CoveredEmpty ==
  ASSUME TypeOK', EmptyProject'
  PROVE  Covered'
BY DEF TypeOK, Covered, EmptyProject, None

LEMMA CoveredGenerate ==
  ASSUME TypeOK', Covered, Generate
  PROVE  Covered'
<1>1. CASE OpenSpool
  <2>1. CASE careless'
    BY <2>1 DEF Covered
  <2>2. CASE ~careless'
    BY <1>1, <2>2, CoveredEmpty DEF OpenSpool, EmptyProject, langfuse
  <2> QED
    BY <2>1, <2>2
<1>2. CASE TruncateSpool
  <2>1. CASE careless
    BY <1>2, <2>1 DEF TruncateSpool, Covered
  <2>2. CASE ~careless
    BY <1>2, <2>2, CoveredEmpty DEF TruncateSpool, Covered, EmptyProject, langfuse
  <2> QED
    BY <2>1, <2>2
<1>3. CASE ExtendSpool
  BY <1>3 DEF ExtendSpool, Covered, EmptyProject, langfuse, history
<1>4. CASE CloseSpool
  BY <1>4 DEF CloseSpool, Covered, EmptyProject, langfuse, history
<1> QED
  BY <1>1, <1>2, <1>3, <1>4 DEF Generate

LEMMA CoveredStarts ==
  ASSUME TypeOK', Covered, NEW i \in Importer, ImportStarts(i)
  PROVE  Covered'
<1>1. UNCHANGED obs /\ gen' = "idle"
  BY DEF ImportStarts, ImportRaises, ImportRefused, ImportAdmitted,
         ImportExempt, CanStart, Begin, langfuse
<1>2. CASE UNCHANGED <<delivered, careless>>
  BY <1>1, <1>2 DEF Covered
<1>3. ASSUME NEW confirm \in BOOLEAN, NEW dry \in BOOLEAN,
             ImportAdmitted(i, confirm, dry)
      PROVE  Covered'
  <2>1. CASE ~confirm /\ ~careless'
    <3>1. ~careless /\ delivered' = delivered
      BY <1>3, <2>1 DEF ImportAdmitted
    <3> QED
      BY <1>1, <2>1, <3>1 DEF Covered
  <2>2. CASE confirm /\ ~careless'
    BY <1>1, <1>3, <2>2, CoveredEmpty DEF ImportAdmitted, EmptyProject
  <2>3. CASE careless'
    BY <2>3 DEF Covered
  <2> QED
    BY <2>1, <2>2, <2>3
<1> QED
  BY <1>2, <1>3 DEF ImportStarts, ImportRaises, ImportRefused, ImportExempt

LEMMA CoveredStep ==
  ASSUME TypeOK, RecordInv, Covered, NEW i \in Importer,
         ImportStep(i) \/ KillImport(i)
  PROVE  Covered'
<1>1. gen = "idle" /\ gen' = "idle"
  <2>1. imp[i].pc \in Running /\ gen' = gen
    BY ImportStepFrame
  <2> QED
    BY <2>1 DEF RecordInv, Exclusive, NoneRunning, Running, Ended
<1>2. CASE UNCHANGED <<langfuse, history>>
  BY <1>1, <1>2 DEF Covered, langfuse, history
<1>3. ASSUME NEW S, Stores(i, S)
      PROVE  Covered'
  <2>1. obs \in [Span -> Nat] /\ delivered \in [Span -> Nat]
    BY DEF TypeOK
  <2>2. \A s \in Span :
          /\ obs'[s] = IF s \in S THEN obs[s] + 1 ELSE obs[s]
          /\ delivered'[s] = IF s \in S THEN delivered[s] + 1 ELSE delivered[s]
    BY <1>3, <2>1, PlusType DEF Stores
  <2> QED
    BY <1>1, <1>3, <2>1, <2>2 DEF Covered, Stores
<1> QED
  BY <1>2, <1>3, ImportStepStores

LEMMA CoveredNext ==
  ASSUME TypeOK, TypeOK', RecordInv, Covered, OrderlyImports, [Next]_vars
  PROVE  Covered'
<1>1. CASE UNCHANGED vars
  BY <1>1 DEF vars, langfuse, history, Covered, EmptyProject
<1>2. CASE ClearProject
  BY <1>2, CoveredEmpty DEF ClearProject, EmptyProject
<1>3. ~CrashGenerate
  BY DEF CrashGenerate, Fault, OrderlyImports
<1> QED
  BY <1>1, <1>2, <1>3, CoveredGenerate, CoveredStarts, CoveredStep DEF Next

(* Under OrderlyImports an operator who clears the project before each     *)
(* generate-spool and each confirmed import never finds a span twice in it.*)
THEOREM HeldOnce ==
  ASSUME OrderlyImports
  PROVE  Spec => []OneCopy
<1>1. "crash_generate" \notin Faults
  BY DEF OrderlyImports
<1>2. TypeOK /\ RecordInv /\ [Next]_vars => RecordInv'
  BY <1>1, RecordNext
<1>3. TypeOK /\ RecordInv /\ SlateInv /\ [Next]_vars => SlateInv'
  BY SlateNext
<1>4. TypeOK /\ TypeOK' /\ RecordInv /\ Covered /\ [Next]_vars => Covered'
  BY CoveredNext
<1>5. TypeOK /\ SlateInv /\ Covered => OneCopy
  <2> SUFFICES ASSUME TypeOK, SlateInv, Covered, ~careless, NEW s \in Span
               PROVE  obs[s] <= 1
    BY DEF OneCopy
  <2>1. obs[s] \in Nat /\ delivered[s] \in Nat
    BY DEF TypeOK
  <2> QED
    BY <2>1 DEF SlateInv, AtMostOncePerSlate, Covered
<1> QED
  BY <1>2, <1>3, <1>4, <1>5, RecordInit, SlateInit, CoveredInit, TypeCorrect,
     PTL DEF Spec

---------------------------------------------------------------------------
(* The import implements ImportOnce *)

(* What is stored is delivered in the sense of ImportOnce. *)
LEMMA StoresDeliver ==
  ASSUME TypeOK, SlateInv, NEW i \in Importer, NEW S, Stores(i, S),
         S # {} => Requesting(i) /\ S \subseteq Body(i)
  PROVE  Promise!Deliver
<1> DEFINE T == S \cap Span
<1>1. T \in SUBSET Span /\ \A s \in T : delivered[s] = 0
  BY StoresOnce
<1>2. ASSUME NEW f \in [Span -> Nat]
      PROVE  Plus(f, S) = Promise!Plus(f, T)
  BY DEF Plus, Promise!Plus
<1>3. obs' = Promise!Plus(obs, T) /\ delivered' = Promise!Plus(delivered, T)
  <2>1. obs \in [Span -> Nat] /\ delivered \in [Span -> Nat]
    BY DEF TypeOK
  <2> QED
    BY <1>2, <2>1 DEF Stores
<1> HIDE DEF T
<1> QED
  BY <1>1, <1>3 DEF Promise!Deliver

(* Every step of the import is a step of ImportOnce or does not concern it.*)
LEMMA StepImplements ==
  ASSUME TypeOK, SlateInv, OrderlyImports, [Next]_vars
  PROVE  [Promise!Next]_<<delivered, obs>>
<1> USE DEF Promise!Next, Promise!CleanSlate, Promise!Clear, Promise!None, None
<1>1. CASE UNCHANGED vars
  BY <1>1 DEF vars, langfuse, history
<1>2. CASE Generate
  BY <1>2 DEF Generate, OpenSpool, TruncateSpool, ExtendSpool, CloseSpool,
              langfuse, history
<1>3. CASE CrashGenerate
  BY <1>3 DEF CrashGenerate, langfuse, history
<1>4. ASSUME NEW i \in Importer, ImportStarts(i)
      PROVE  UNCHANGED <<delivered, obs>> \/ Promise!CleanSlate
  BY <1>4 DEF ImportStarts, ImportRaises, ImportRefused, ImportAdmitted,
              ImportExempt, Begin, langfuse
<1>5. ASSUME NEW i \in Importer, ImportStep(i) \/ KillImport(i)
      PROVE  UNCHANGED <<delivered, obs>> \/ Promise!Deliver
  <2>1. CASE UNCHANGED <<langfuse, history>>
    BY <2>1 DEF langfuse, history
  <2>2. CASE \E S : /\ Stores(i, S)
                    /\ S # {} => Requesting(i) /\ S \subseteq Body(i)
    BY <2>2, StoresDeliver
  <2> QED
    BY <1>5, <2>1, <2>2, ImportStepStores
<1>6. CASE ClearProject
  BY <1>6 DEF ClearProject, history
<1> QED
  BY <1>1, <1>2, <1>3, <1>4, <1>5, <1>6 DEF Next

(* Under OrderlyImports the Spool, its record and the import job together  *)
(* implement the promise of ImportOnce: a span is delivered only if it was *)
(* not delivered since the last clean slate.                               *)
THEOREM Implements ==
  ASSUME OrderlyImports
  PROVE  Spec => ImplementsImportOnce
<1>1. "crash_generate" \notin Faults
  BY DEF OrderlyImports
<1>2. TypeOK /\ RecordInv /\ [Next]_vars => RecordInv'
  BY <1>1, RecordNext
<1>3. TypeOK /\ RecordInv /\ SlateInv /\ [Next]_vars => SlateInv'
  BY SlateNext
<1>4. TypeOK /\ SlateInv /\ [Next]_vars => [Promise!Next]_<<delivered, obs>>
  BY StepImplements
<1>5. Init => Promise!Init
  BY DEF Init, Promise!Init, None, Promise!None
<1> QED
  BY <1>2, <1>3, <1>4, <1>5, RecordInit, SlateInit, TypeCorrect, PTL
     DEF Spec, ImplementsImportOnce, Promise!Spec
---------------------------------------------------------------------------
(* Chunks in file order, and success only when all of them are stored      *)

(* A run of an import counts once it has posted something or may still do so. *)
Active(i) == imp[i].pc \in Running \/ ledger[i] # NoLedger[i]

(* An import stands at a chunk's boundary or at the end of the file. *)
Placed(i) ==
  /\ imp[i].pos <= Len(lines)
  /\ imp[i].pos = Len(lines) \/ \E m \in 0..imp[i].pos : imp[i].pos = m * ChunkSize

(* What it stored is in the chunks before its position or in the one there. *)
Front(i) ==
  \A k \in DOMAIN lines :
    lines[k] # Torn /\ ledger[i][lines[k]] > 0 => k <= ChunkEnd(imp[i].pos)

(* Every line before its position is stored. *)
Behind(i) ==
  \A k \in 1..imp[i].pos : lines[k] # Torn /\ ledger[i][lines[k]] > 0

(* The chunk it is posting is whole, and its spans come first. *)
Whole(i) ==
  /\ Requesting(i) => Torn \notin Chunk(imp[i].pos)
  /\ imp[i].pc = "scores" /\ ~imp[i].dry =>
       \A s \in Chunk(imp[i].pos) \cap Span : ledger[i][s] > 0

OrderOf(i) ==
  /\ Active(i) => Placed(i) /\ Front(i)
  /\ imp[i].pc \in Running /\ imp[i].dry => ledger[i] = NoLedger[i]
  /\ (imp[i].pc \in Running /\ ~imp[i].dry) \/ ledger[i] # NoLedger[i] => Behind(i)
  /\ imp[i].pc \in Running => Whole(i)

OrderInv ==
  /\ Exclusive
  /\ Distinct(lines) /\ Distinct(todo)
  /\ gen = "writing" => ledger = NoLedger
  /\ \A i \in Importer : OrderOf(i)

(* A line up to the end of the chunk at a boundary, in a later chunk than  *)
(* another line, has that line before the boundary.                        *)
LEMMA ChunkBounds ==
  ASSUME NEW k \in Nat \ {0}
  PROVE  /\ ChunkOf(k) \in Nat
         /\ ChunkSize * ChunkOf(k) <= k - 1
         /\ k - 1 < ChunkSize * ChunkOf(k) + ChunkSize
BY NumbersAssumption DEF ChunkOf

LEMMA ChunksApart ==
  ASSUME NEW a \in Nat, NEW b \in Nat, a < b
  PROVE  ChunkSize * a + ChunkSize <= ChunkSize * b
<1>1. PICK d \in Nat : b = a + 1 + d
  <2>1. b - a - 1 \in Nat /\ b = a + 1 + (b - a - 1)
    OBVIOUS
  <2> QED
    BY <2>1
<1>2. ChunkSize * b = ChunkSize * a + ChunkSize + ChunkSize * d
  BY NumbersAssumption, <1>1
<1>3. ChunkSize * d \in Nat /\ ChunkSize * a \in Nat
  BY NumbersAssumption
<1> QED
  BY NumbersAssumption, <1>2, <1>3

LEMMA BeforeBoundary ==
  ASSUME NEW m \in Nat, NEW j \in Nat \ {0}, NEW k \in Nat \ {0},
         k <= m * ChunkSize + ChunkSize, ChunkOf(j) < ChunkOf(k)
  PROVE  j <= m * ChunkSize
<1>1. /\ ChunkOf(j) \in Nat /\ ChunkOf(k) \in Nat
      /\ ChunkSize * ChunkOf(k) <= k - 1
      /\ j - 1 < ChunkSize * ChunkOf(j) + ChunkSize
  BY ChunkBounds
<1>2. /\ m * ChunkSize = ChunkSize * m /\ ChunkSize * m \in Nat
      /\ ChunkSize * ChunkOf(k) \in Nat /\ ChunkSize * ChunkOf(j) \in Nat
  BY NumbersAssumption, <1>1
<1>3. ChunkOf(k) <= m
  <2>1. m < ChunkOf(k) => ChunkSize * m + ChunkSize <= ChunkSize * ChunkOf(k)
    BY <1>1, ChunksApart
  <2> QED
    BY <1>1, <1>2, <2>1, NumbersAssumption
<1>4. ChunkSize * ChunkOf(j) + ChunkSize <= ChunkSize * m
  BY <1>1, <1>3, ChunksApart
<1> QED
  BY <1>1, <1>2, <1>4, NumbersAssumption

(* The end of a chunk is the next boundary, or the end of the file. *)
LEMMA NextBoundary ==
  ASSUME TypeOK, NEW i \in Importer, Placed(i)
  PROVE  LET end == ChunkEnd(imp[i].pos) IN
         /\ imp[i].pos <= end /\ end <= Len(lines) /\ end \in Nat
         /\ end = Len(lines) \/ \E m \in 0..end : end = m * ChunkSize
         /\ end <= ChunkEnd(end)
<1>1. imp[i].pos \in Nat /\ Len(lines) \in Nat
  BY DEF TypeOK, Job
<1>2. CASE imp[i].pos + ChunkSize <= Len(lines)
  <2>1. PICK m \in 0..imp[i].pos : imp[i].pos = m * ChunkSize
    BY <1>1, <1>2, NumbersAssumption DEF Placed
  <2>2. imp[i].pos + ChunkSize = (m + 1) * ChunkSize
    BY <1>1, <2>1, NumbersAssumption
  <2>3. m + 1 \in 0..imp[i].pos + ChunkSize
    BY <1>1, NumbersAssumption
  <2>4. ChunkEnd(imp[i].pos) = imp[i].pos + ChunkSize
    BY <1>2 DEF ChunkEnd
  <2>5. \E n \in 0..imp[i].pos + ChunkSize :
          imp[i].pos + ChunkSize = n * ChunkSize
    BY <2>2, <2>3
  <2>6. imp[i].pos + ChunkSize <= ChunkEnd(imp[i].pos + ChunkSize)
    BY <1>1, <1>2, NumbersAssumption DEF ChunkEnd
  <2> QED
    BY <1>1, <1>2, <2>4, <2>5, <2>6, NumbersAssumption
<1>3. CASE ~(imp[i].pos + ChunkSize <= Len(lines))
  BY <1>1, <1>3, NumbersAssumption DEF ChunkEnd, Placed
<1> QED
  BY <1>2, <1>3

(* An import that a step leaves alone, and one that has posted nothing. *)
LEMMA OrderFrame ==
  ASSUME NEW i \in Importer, OrderOf(i), lines' = lines, imp'[i] = imp[i],
         ledger'[i] = ledger[i]
  PROVE  OrderOf(i)'
BY DEF OrderOf, Active, Placed, Front, Behind, Whole, Requesting, Chunk,
       ChunkEnd, NoLedger

LEMMA OrderIdle ==
  ASSUME NEW i \in Importer, imp'[i].pc \notin Running,
         ledger'[i] = NoLedger[i]
  PROVE  OrderOf(i)'
BY DEF OrderOf, Active, Running, Requesting, NoLedger

LEMMA OrderInit == Init => OrderInv
<1> SUFFICES ASSUME Init PROVE OrderInv
  OBVIOUS
<1>1. \A i \in Importer : imp[i].pc = "idle" /\ ledger[i] = NoLedger[i]
  BY DEF Init, NewJob
<1>2. \A i \in Importer : OrderOf(i)
  BY <1>1 DEF OrderOf, Active, Running, Requesting
<1> QED
  BY <1>2 DEF Init, OrderInv, Exclusive, Distinct

(* The lines of a crashed file are distinct: a prefix, and the torn line.  *)
LEMMA CrashedFileDistinct ==
  ASSUME NEW q \in Seq(Span \cup Score), Distinct(q), NEW n \in 0..Len(q),
         NEW cut \in BOOLEAN
  PROVE  Distinct(SubSeq(q, 1, n) \o (IF cut THEN <<Torn>> ELSE <<>>))
<1> DEFINE p == SubSeq(q, 1, n)
<1>1. /\ p \in Seq(Span \cup Score) /\ Len(p) = n /\ DOMAIN p = 1..n
      /\ \A k \in 1..n : p[k] = q[k]
  BY SubSeqProperties
<1>2. Distinct(p)
  <2>1. 1..n \subseteq DOMAIN q
    BY DEF Distinct
  <2> QED
    BY <1>1, <2>1 DEF Distinct
<1>3. CASE cut
  <2>1. /\ DOMAIN (p \o <<Torn>>) = 1..(n + 1)
        /\ \A k \in 1..n : (p \o <<Torn>>)[k] = p[k]
        /\ (p \o <<Torn>>)[n + 1] = Torn
    BY <1>1
  <2>2. \A k \in 1..n : p[k] \in Span \cup Score
    BY <1>1
  <2>3. \A j, k \in DOMAIN p : p[j] = p[k] => j = k
    BY <1>2 DEF Distinct
  <2> HIDE DEF p
  <2>4. Distinct(p \o <<Torn>>)
    BY <1>1, <2>1, <2>2, <2>3, LineKinds DEF Distinct
  <2> QED
    BY <1>3, <2>4 DEF p
<1>4. CASE ~cut
  <2>1. p \o <<>> = p
    BY <1>1
  <2> QED
    BY <1>2, <1>4, <2>1
<1> QED
  BY <1>3, <1>4

LEMMA OrderGenerate ==
  ASSUME TypeOK, OrderInv, Generate \/ CrashGenerate
  PROVE  OrderInv'
<1>1. UNCHANGED imp /\ NoneRunning
  BY DEF OrderInv, Exclusive, Generate, OpenSpool, TruncateSpool, ExtendSpool,
         CloseSpool, CrashGenerate
<1>2. Exclusive'
  BY <1>1 DEF Exclusive, NoneRunning
<1>3. \A i \in Importer : imp'[i].pc \notin Running
  BY <1>1 DEF NoneRunning, Running, Ended
<1>4. CASE lines' = lines /\ ledger' = ledger /\ gen' # "writing"
  <2>1. \A i \in Importer : OrderOf(i)'
    BY <1>1, <1>4, OrderFrame DEF OrderInv
  <2>2. Distinct(lines') /\ Distinct(todo')
    BY <1>4, RecipesAssumption
    DEF OrderInv, Generate, OpenSpool, TruncateSpool, ExtendSpool, CloseSpool,
        CrashGenerate, Distinct, disk
  <2> QED
    BY <1>2, <1>4, <2>1, <2>2 DEF OrderInv, Distinct
<1>5. CASE ledger' = NoLedger /\ Distinct(lines') /\ Distinct(todo')
  <2>1. \A i \in Importer : OrderOf(i)'
    BY <1>3, <1>5, OrderIdle
  <2> QED
    BY <1>2, <1>5, <2>1 DEF OrderInv, Distinct, NoLedger
<1>6. CASE OpenSpool \/ CloseSpool
  BY <1>4, <1>6 DEF OpenSpool, CloseSpool, disk, history
<1>7. CASE TruncateSpool
  BY <1>5, <1>7 DEF TruncateSpool, OrderInv, Distinct
<1>8. CASE ExtendSpool
  BY <1>5, <1>8 DEF ExtendSpool, OrderInv, history
<1>9. CASE CrashGenerate
  <2>1. CASE gen \in {"opening", "closing"} /\ UNCHANGED lines
    BY <1>4, <1>9, <2>1 DEF CrashGenerate, history
  <2>2. CASE /\ gen = "writing"
             /\ \E n \in 0..Len(todo), cut \in BOOLEAN :
                  lines' = SubSeq(todo, 1, n) \o (IF cut THEN <<Torn>> ELSE <<>>)
    <3>1. Distinct(lines')
      BY <2>2, CrashedFileDistinct DEF TypeOK, OrderInv
    <3> QED
      BY <1>5, <1>9, <2>2, <3>1 DEF CrashGenerate, OrderInv, history
  <2> QED
    BY <1>9, <2>1, <2>2 DEF CrashGenerate
<1> QED
  BY <1>6, <1>7, <1>8, <1>9 DEF Generate

(* An import that begins is at the start of the file with nothing posted.  *)
LEMMA OrderStarts ==
  ASSUME TypeOK, OrderInv, NEW i \in Importer, ImportStarts(i)
  PROVE  OrderInv'
<1>1. gen = "idle"
  BY DEF ImportStarts, ImportRaises, ImportRefused, ImportAdmitted,
         ImportExempt, CanStart
<1>2. PICK pc \in {"failed", "refused", "admitted", "reading"}, dry \in BOOLEAN :
        Begin(i, pc, dry)
  BY DEF ImportStarts, ImportRaises, ImportRefused, ImportAdmitted,
         ImportExempt
<1>3. /\ imp'[i].pc = pc /\ imp'[i].pos = 0
      /\ \A j \in Importer \ {i} : imp'[j] = imp[j]
      /\ lines' = lines /\ gen' = gen /\ todo' = todo
  BY <1>2, BeginFrame DEF disk
<1>4. /\ ledger'[i] = NoLedger[i]
      /\ \A j \in Importer \ {i} : ledger'[j] = ledger[j]
  BY <1>2 DEF Begin, TypeOK
<1>5. \A j \in Importer \ {i} : OrderOf(j)'
  BY <1>3, <1>4, OrderFrame DEF OrderInv
<1>6. OrderOf(i)'
  <2>1. \A l \in Span \cup Score : ledger'[i][l] = 0
    BY <1>4 DEF NoLedger
  <2>2. \A k \in DOMAIN lines : lines[k] # Torn => lines[k] \in Span \cup Score
    BY DEF TypeOK, Line
  <2>3. Front(i)'
    BY <1>3, <2>1, <2>2 DEF Front
  <2>4. Placed(i)'
    <3>1. Len(lines) \in Nat
      BY DEF TypeOK
    <3>2. 0 \in 0..0 /\ 0 = 0 * ChunkSize
      BY NumbersAssumption
    <3>3. \E m \in 0..imp'[i].pos : imp'[i].pos = m * ChunkSize
      BY <1>3, <3>2
    <3> QED
      BY <1>3, <3>1, <3>3 DEF Placed
  <2>5. Behind(i)'
    BY <1>3 DEF Behind
  <2>6. Whole(i)'
    BY <1>3 DEF Whole, Requesting
  <2>7. ledger'[i] = NoLedger'[i]
    BY <1>4 DEF NoLedger
  <2> QED
    BY <2>3, <2>4, <2>5, <2>6, <2>7 DEF OrderOf
<1>7. Exclusive'
  BY <1>1, <1>3 DEF Exclusive
<1>8. gen' # "writing"
  BY <1>1, <1>3
<1> QED
  BY <1>3, <1>5, <1>6, <1>7, <1>8 DEF OrderInv, Distinct

(* Counts only grow, and what was stored of the chunk is in the chunk.     *)
LEMMA StoresOrder ==
  ASSUME TypeOK, OrderInv, NEW i \in Importer, imp[i].pc \in Running,
         NEW S \in SUBSET Body(i), ledger' = [ledger EXCEPT ![i] = Plus(ledger[i], S)]
  PROVE  /\ \A l \in Span \cup Score : ledger[i][l] > 0 \/ l \in S => ledger'[i][l] > 0
         /\ \A k \in DOMAIN lines : lines[k] # Torn /\ ledger'[i][lines[k]] > 0
              => k <= ChunkEnd(imp[i].pos)
         /\ \A j \in Importer \ {i} : ledger'[j] = ledger[j]
         /\ S = {} => ledger'[i] = ledger[i]
<1>1. ledger[i] \in [Span \cup Score -> Nat]
  BY DEF TypeOK
<1>2. ledger'[i] = Plus(ledger[i], S)
  BY DEF TypeOK
<1>3. \A l \in Span \cup Score :
        ledger'[i][l] = IF l \in S THEN ledger[i][l] + 1 ELSE ledger[i][l]
  BY <1>1, <1>2, PlusType
<1>4. \A l \in Span \cup Score : ledger[i][l] > 0 \/ l \in S => ledger'[i][l] > 0
  BY <1>1, <1>3
<1>5. ASSUME NEW k \in DOMAIN lines, lines[k] # Torn, ledger'[i][lines[k]] > 0
      PROVE  k <= ChunkEnd(imp[i].pos)
  <2>1. lines[k] \in Span \cup Score
    BY <1>5 DEF TypeOK, Line
  <2>2. CASE lines[k] \in S
    <3>1. PICK n \in (imp[i].pos + 1)..ChunkEnd(imp[i].pos) : lines[k] = lines[n]
      BY <2>2 DEF Body, Chunk
    <3>2. /\ imp[i].pos \in Nat /\ ChunkEnd(imp[i].pos) \in Nat
          /\ ChunkEnd(imp[i].pos) <= Len(lines)
      BY ChunkEndBound DEF TypeOK, Job
    <3>3. DOMAIN lines = 1..Len(lines) /\ Len(lines) \in Nat
      BY DEF TypeOK
    <3>4. n \in DOMAIN lines
      BY <3>2, <3>3
    <3>5. n = k
      BY <3>1, <3>4 DEF OrderInv, Distinct
    <3> QED
      BY <3>2, <3>5
  <2>3. CASE lines[k] \notin S
    <3>1. ledger[i][lines[k]] > 0
      BY <1>3, <1>5, <2>1, <2>3
    <3> QED
      BY <1>5, <3>1 DEF OrderInv, OrderOf, Active, Front
  <2> QED
    BY <2>2, <2>3
<1>6. \A j \in Importer \ {i} : ledger'[j] = ledger[j]
  BY DEF TypeOK
<1>7. S = {} => ledger'[i] = ledger[i]
  BY <1>1, <1>2 DEF Plus
<1> QED
  BY <1>4, <1>5, <1>6, <1>7

(* A step that stays at its chunk, whatever it stored of it. *)
LEMMA OrderStays ==
  ASSUME TypeOK, OrderInv, NEW i \in Importer, imp[i].pc \in Running,
         NEW S \in SUBSET Body(i), ledger' = [ledger EXCEPT ![i] = Plus(ledger[i], S)],
         lines' = lines, imp'[i].dry = imp[i].dry, imp'[i].pos = imp[i].pos,
         imp'[i].pc \in Running \cup Ended, Whole(i)',
         S # {} => ~imp[i].dry
  PROVE  OrderOf(i)'
<1>2. /\ \A l \in Span \cup Score : ledger[i][l] > 0 \/ l \in S => ledger'[i][l] > 0
      /\ \A k \in DOMAIN lines : lines[k] # Torn /\ ledger'[i][lines[k]] > 0
           => k <= ChunkEnd(imp[i].pos)
      /\ S = {} => ledger'[i] = ledger[i]
  BY StoresOrder
<1>3. OrderOf(i) /\ Active(i)
  BY DEF OrderInv, Active
<1>4. Placed(i)'
  BY <1>3 DEF OrderOf, Placed
<1>5. Front(i)'
  BY <1>2 DEF Front, ChunkEnd
<1>6. Behind(i) => Behind(i)'
  <2>1. \A k \in 1..imp[i].pos : k \in DOMAIN lines
    <3>1. imp[i].pos \in Nat /\ Len(lines) \in Nat /\ DOMAIN lines = 1..Len(lines)
      BY DEF TypeOK, Job
    <3> QED
      BY <1>3, <3>1 DEF OrderOf, Placed
  <2>2. \A k \in DOMAIN lines : lines[k] # Torn => lines[k] \in Span \cup Score
    BY DEF TypeOK, Line
  <2> QED
    BY <1>2, <2>1, <2>2 DEF Behind
<1>8. CASE S = {}
  <2>1. ledger'[i] = ledger[i] /\ NoLedger'[i] = NoLedger[i]
    BY <1>2, <1>8 DEF NoLedger
  <2> QED
    BY <1>3, <1>4, <1>5, <1>6, <2>1 DEF OrderOf
<1>9. CASE S # {}
  <2>1. Behind(i)
    BY <1>3, <1>9 DEF OrderOf
  <2> QED
    BY <1>4, <1>5, <1>6, <1>9, <2>1 DEF OrderOf
<1> QED
  BY <1>8, <1>9

(* A step that moves on has the whole of what it moves past. *)
LEMMA OrderAdvances ==
  ASSUME TypeOK, OrderInv, NEW i \in Importer, Requesting(i), Advance(i),
         ledger' = IF imp[i].dry THEN ledger
                   ELSE [ledger EXCEPT ![i] = Plus(ledger[i], Body(i))],
         lines' = lines
  PROVE  OrderOf(i)'
<1> DEFINE pos == imp[i].pos
<1>1. /\ OrderOf(i) /\ Active(i) /\ Placed(i) /\ Whole(i)
      /\ Torn \notin Chunk(pos)
      /\ imp[i].pc \in Running
  BY DEF OrderInv, OrderOf, Active, Requesting, Running, Whole
<1>2. /\ pos <= ChunkEnd(pos) /\ ChunkEnd(pos) <= Len(lines) /\ ChunkEnd(pos) \in Nat
      /\ ChunkEnd(pos) = Len(lines) \/ \E m \in 0..ChunkEnd(pos) : ChunkEnd(pos) = m * ChunkSize
      /\ ChunkEnd(pos) <= ChunkEnd(ChunkEnd(pos))
      /\ pos \in Nat /\ Len(lines) \in Nat /\ DOMAIN lines = 1..Len(lines)
      /\ ChunkEnd(ChunkEnd(pos)) \in Nat
  <2>1. pos \in Nat /\ Len(lines) \in Nat /\ DOMAIN lines = 1..Len(lines)
    BY DEF TypeOK, Job
  <2>2. /\ pos <= ChunkEnd(pos) /\ ChunkEnd(pos) <= Len(lines) /\ ChunkEnd(pos) \in Nat
        /\ ChunkEnd(pos) = Len(lines) \/ \E m \in 0..ChunkEnd(pos) : ChunkEnd(pos) = m * ChunkSize
        /\ ChunkEnd(pos) <= ChunkEnd(ChunkEnd(pos))
    BY <1>1, NextBoundary
  <2>3. ChunkEnd(ChunkEnd(pos)) \in Nat
    BY <2>2, ChunkEndBound
  <2> QED
    BY <2>1, <2>2, <2>3
<1>3. \A k \in DOMAIN lines : lines[k] # Torn => lines[k] \in Span \cup Score
  BY DEF TypeOK, Line
<1>4. \/ /\ imp'[i].pc = "scores" /\ imp'[i].pos = pos
         /\ imp[i].pc = "spans"
      \/ /\ imp'[i].pc = "reading" /\ imp'[i].pos = ChunkEnd(pos)
         /\ imp[i].pc = "scores" \/ Chunk(pos) \cap Score = {}
  <2>1. CASE imp[i].pc = "spans" /\ Chunk(pos) \cap Score # {}
    <3>1. Move(i, "scores", pos, 1)
      BY <2>1 DEF Advance
    <3>2. imp'[i] = [pc |-> "scores", dry |-> imp[i].dry, pos |-> pos, attempt |-> 1]
      BY <3>1, MoveFrame
    <3> QED
      BY <2>1, <3>2
  <2>2. CASE ~(imp[i].pc = "spans" /\ Chunk(pos) \cap Score # {})
    <3>1. Move(i, "reading", ChunkEnd(pos), 1)
      BY <2>2 DEF Advance
    <3>2. imp'[i] = [pc |-> "reading", dry |-> imp[i].dry,
                     pos |-> ChunkEnd(pos), attempt |-> 1]
      BY <3>1, MoveFrame
    <3> QED
      BY <2>2, <3>2 DEF Requesting
  <2> QED
    BY <2>1, <2>2
<1>5. imp'[i].dry = imp[i].dry
  BY MoveFrame DEF Advance, Move, TypeOK, Job
<1>6. Placed(i)'
  BY <1>1, <1>2, <1>4 DEF Placed
<1>7. CASE imp[i].dry
  <2>1. ledger'[i] = ledger[i] /\ ledger[i] = NoLedger[i] /\ NoLedger'[i] = NoLedger[i]
    BY <1>1, <1>7 DEF OrderOf, NoLedger
  <2>2. Front(i)'
    <3>1. \A k \in DOMAIN lines : lines[k] # Torn => ledger'[i][lines[k]] = 0
      BY <1>3, <2>1 DEF NoLedger
    <3> QED
      BY <3>1 DEF Front
  <2>3. Whole(i)'
    BY <1>1, <1>4, <1>5, <1>7 DEF Whole, Requesting, Chunk, ChunkEnd
  <2> QED
    BY <1>5, <1>6, <1>7, <2>1, <2>2, <2>3 DEF OrderOf
<1>8. CASE ~imp[i].dry
  <2>1. /\ \A l \in Span \cup Score : ledger[i][l] > 0 \/ l \in Body(i) => ledger'[i][l] > 0
        /\ \A k \in DOMAIN lines : lines[k] # Torn /\ ledger'[i][lines[k]] > 0
             => k <= ChunkEnd(pos)
    BY <1>1, <1>8, StoresOrder
  <2>2. Front(i)'
    <3> SUFFICES ASSUME NEW k \in DOMAIN lines, lines[k] # Torn, ledger'[i][lines[k]] > 0
                 PROVE  k <= ChunkEnd(imp[i].pos)'
      BY DEF Front
    <3>1. k <= ChunkEnd(pos) /\ k \in Nat
      BY <1>2, <2>1
    <3>2. ChunkEnd(imp[i].pos)' \in {ChunkEnd(pos), ChunkEnd(ChunkEnd(pos))}
      BY <1>4 DEF ChunkEnd
    <3> QED
      BY <1>2, <3>1, <3>2
  <2>3. ASSUME NEW k \in 1..pos
        PROVE  lines[k] # Torn /\ ledger'[i][lines[k]] > 0
    <3>1. lines[k] # Torn /\ ledger[i][lines[k]] > 0
      BY <1>1, <1>8 DEF OrderOf, Behind
    <3>2. k \in DOMAIN lines
      BY <1>2
    <3> QED
      BY <1>3, <2>1, <3>1, <3>2
  <2>4. ASSUME NEW k \in (pos + 1)..ChunkEnd(pos), imp'[i].pc = "reading"
        PROVE  lines[k] # Torn /\ ledger'[i][lines[k]] > 0
    <3>1. lines[k] \in Chunk(pos) /\ lines[k] # Torn
      BY <1>1 DEF Chunk
    <3>2. k \in DOMAIN lines
      BY <1>2
    <3>3. lines[k] \in Span \cup Score
      BY <1>3, <3>1, <3>2
    <3>4. CASE imp[i].pc = "scores"
      BY <1>1, <1>8, <2>1, <3>1, <3>3, <3>4 DEF Whole, Body
    <3>5. CASE imp[i].pc = "spans"
      BY <1>4, <2>1, <2>4, <3>1, <3>3, <3>5 DEF Body
    <3> QED
      BY <3>4, <3>5 DEF Requesting
  <2>5. Behind(i)'
    <3>1. CASE imp'[i].pc = "scores"
      BY <1>4, <2>3, <3>1 DEF Behind
    <3>2. CASE imp'[i].pc = "reading"
      <4> SUFFICES ASSUME NEW k \in 1..ChunkEnd(pos)
                   PROVE  lines[k] # Torn /\ ledger'[i][lines[k]] > 0
        BY <1>4, <3>2 DEF Behind
      <4>1. k \in 1..pos \/ k \in (pos + 1)..ChunkEnd(pos)
        BY <1>2
      <4> QED
        BY <2>3, <2>4, <3>2, <4>1
    <3> QED
      BY <1>4, <3>1, <3>2
  <2>6. Whole(i)'
    <3>1. CASE imp'[i].pc = "scores"
      <4>1. imp'[i].pos = pos /\ imp[i].pc = "spans" /\ Chunk(pos)' = Chunk(pos)
        BY <1>4, <3>1 DEF Chunk, ChunkEnd
      <4>2. Body(i) = Chunk(pos) \cap Span
        BY <4>1 DEF Body
      <4> QED
        BY <1>1, <2>1, <4>1, <4>2 DEF Whole, Chunk, ChunkEnd
    <3>2. CASE imp'[i].pc = "reading"
      BY <3>2 DEF Whole, Requesting
    <3> QED
      BY <1>4, <3>1, <3>2
  <2> QED
    BY <1>5, <1>6, <1>8, <2>2, <2>5, <2>6 DEF OrderOf
<1> QED
  BY <1>7, <1>8

LEMMA OrderStep ==
  ASSUME TypeOK, OrderInv, NEW i \in Importer, ImportStep(i) \/ KillImport(i)
  PROVE  OrderInv'
<1> USE DEF history
<1>1. /\ imp[i].pc \in Running
      /\ \A j \in Importer \ {i} : imp'[j] = imp[j]
      /\ UNCHANGED <<lines, gen, todo>>
  BY ImportStepFrame
<1>2. gen = "idle"
  BY <1>1 DEF OrderInv, Exclusive, NoneRunning, Running, Ended
<1>3. \A j \in Importer \ {i} : ledger'[j] = ledger[j]
  BY ImportStepStores DEF Stores, TypeOK
<1>4. \A j \in Importer \ {i} : OrderOf(j)'
  BY <1>1, <1>3, OrderFrame DEF OrderInv
<1>5. ASSUME NEW pc, Goto(i, pc)
      PROVE  imp'[i].pc = pc /\ imp'[i].pos = imp[i].pos /\ imp'[i].dry = imp[i].dry
  <2>1. imp'[i] = [pc |-> pc, dry |-> imp[i].dry, pos |-> imp[i].pos,
                   attempt |-> imp[i].attempt]
    BY <1>5, MoveFrame DEF Goto
  <2> QED
    BY <2>1
<1>6. ASSUME UNCHANGED ledger, imp'[i].pos = imp[i].pos, imp'[i].dry = imp[i].dry,
             imp'[i].pc \in Running \cup Ended, Whole(i)'
      PROVE  OrderOf(i)'
  <2>1. ledger' = [ledger EXCEPT ![i] = Plus(ledger[i], {})]
    <3>1. Plus(ledger[i], {}) = ledger[i]
      BY DEF Plus, TypeOK
    <3> QED
      BY <1>6, <3>1 DEF TypeOK
  <2>2. {} \in SUBSET Body(i)
    OBVIOUS
  <2> DEFINE S == {}
  <2>3. S \in SUBSET Body(i) /\ ledger' = [ledger EXCEPT ![i] = Plus(ledger[i], S)]
    BY <2>1, <2>2
  <2>4. S # {} => ~imp[i].dry
    OBVIOUS
  <2> HIDE DEF S
  <2> QED
    BY <1>1, <1>6, <2>3, <2>4, OrderStays
<1>7. ASSUME imp'[i].pc \in {"reading", "returned", "failed", "killed"}
      PROVE  Whole(i)'
  BY <1>7 DEF Whole, Requesting
<1>8. OrderOf(i)'
  <2>1. CASE Record(i)
    BY <1>5, <1>6, <1>7, <2>1 DEF Record, Running
  <2>2. CASE ReadChunk(i)
    <3>1. CASE Goto(i, "returned") \/ Goto(i, "failed")
      BY <1>5, <1>6, <1>7, <2>2, <3>1 DEF ReadChunk, Ended
    <3>2. CASE /\ Torn \notin Chunk(imp[i].pos)
               /\ Goto(i, IF Chunk(imp[i].pos) \cap Span # {} THEN "spans" ELSE "scores")
      <4>1. /\ imp'[i].pos = imp[i].pos /\ imp'[i].dry = imp[i].dry
            /\ imp'[i].pc = IF Chunk(imp[i].pos) \cap Span # {} THEN "spans" ELSE "scores"
        BY <1>5, <3>2
      <4>2. Whole(i)'
        BY <1>1, <3>2, <4>1 DEF Whole, Chunk, ChunkEnd
      <4> QED
        BY <1>6, <2>2, <4>1, <4>2 DEF ReadChunk, Running
    <3> QED
      BY <2>2, <3>1, <3>2 DEF ReadChunk
  <2>3. CASE PostDry(i)
    BY <1>1, <2>3, OrderAdvances DEF PostDry
  <2>4. CASE PostAccepted(i)
    BY <1>1, <2>4, OrderAdvances DEF PostAccepted, Stores
  <2>5. CASE PostRejected(i)
    <3>1. PICK S \in SUBSET Body(i) : Stores(i, S)
      BY <2>5 DEF PostRejected
    <3> QED
      BY <1>1, <1>5, <1>7, <2>5, <3>1, OrderStays
      DEF PostRejected, RaiseRejection, Stores, Ended
  <2>6. CASE PostRefused(i)
    BY <1>5, <1>6, <1>7, <2>6 DEF PostRefused, Ended
  <2>7. CASE PostRetryable(i)
    <3>1. PICK S \in SUBSET Body(i) : Stores(i, S)
      BY <2>7 DEF PostRetryable, Unacknowledged
    <3>2. CASE Goto(i, "failed")
      BY <1>1, <1>5, <1>7, <2>7, <3>1, <3>2, OrderStays
      DEF PostRetryable, Stores, Ended
    <3>3. CASE Move(i, imp[i].pc, imp[i].pos, imp[i].attempt + 1)
      <4>1. imp'[i].pc = imp[i].pc /\ imp'[i].pos = imp[i].pos /\ imp'[i].dry = imp[i].dry
        <5>1. imp'[i] = [pc |-> imp[i].pc, dry |-> imp[i].dry, pos |-> imp[i].pos,
                         attempt |-> imp[i].attempt + 1]
          BY <3>3, MoveFrame
        <5> QED
          BY <5>1
      <4>2. Whole(i)'
        <5>1. \A l \in Span \cup Score : ledger[i][l] > 0 => ledger'[i][l] > 0
          BY <1>1, <3>1, StoresOrder DEF Stores
        <5>2. Whole(i)
          BY <1>1 DEF OrderInv, OrderOf
        <5> QED
          BY <1>1, <4>1, <5>1, <5>2 DEF Whole, Requesting, Chunk, ChunkEnd
      <4> QED
        BY <1>1, <2>7, <3>1, <4>1, <4>2, OrderStays DEF PostRetryable, Stores
    <3> QED
      BY <2>7, <3>2, <3>3 DEF PostRetryable, Retry, TryAgain
  <2>8. CASE KillImport(i)
    <3>1. PICK S \in SUBSET Body(i) : Stores(i, S) /\ (S # {} => ~imp[i].dry)
      BY <2>8 DEF KillImport
    <3> QED
      BY <1>1, <1>5, <1>7, <2>8, <3>1, OrderStays DEF KillImport, Stores, Ended
  <2> QED
    BY <2>1, <2>2, <2>3, <2>4, <2>5, <2>6, <2>7, <2>8 DEF ImportStep
<1>9. Exclusive' /\ gen' # "writing"
  BY <1>1, <1>2 DEF Exclusive
<1> QED
  BY <1>1, <1>4, <1>8, <1>9 DEF OrderInv, Distinct

LEMMA OrderNext ==
  ASSUME TypeOK, OrderInv, [Next]_vars
  PROVE  OrderInv'
<1>1. CASE UNCHANGED <<lines, todo, gen, imp, ledger>>
  <2>1. \A i \in Importer : OrderOf(i)'
    BY <1>1, OrderFrame DEF OrderInv
  <2> QED
    BY <1>1, <2>1 DEF OrderInv, Exclusive, NoneRunning, Distinct, NoLedger
<1>2. CASE UNCHANGED vars
  BY <1>1, <1>2 DEF vars, disk, history
<1>3. CASE ClearProject
  BY <1>1, <1>3 DEF ClearProject, disk
<1> QED
  BY <1>2, <1>3, OrderGenerate, OrderStarts, OrderStep DEF Next

LEMMA OrderInvariance == Spec => []OrderInv
<1>1. TypeOK /\ OrderInv /\ [Next]_vars => OrderInv'
  BY OrderNext
<1> QED
  BY <1>1, OrderInit, TypeCorrect, PTL DEF Spec

(* The chunks of a Spool go out in file order, whatever the network, the   *)
(* operator and the other import jobs do: what an import stored is in the  *)
(* chunk it stands at or before it, and before it nothing is missing.      *)
THEOREM ChunksInOrder == Spec => []ChunkOrder
<1>1. TypeOK /\ OrderInv => ChunkOrder
  <2> SUFFICES ASSUME TypeOK, OrderInv, NEW i \in Importer,
                      NEW j \in DOMAIN lines, NEW k \in DOMAIN lines,
                      ChunkOf(j) < ChunkOf(k), lines[k] # Torn,
                      ledger[i][lines[k]] > 0
               PROVE  ledger[i][lines[j]] > 0
    BY DEF ChunkOrder
  <2>1. /\ DOMAIN lines = 1..Len(lines) /\ Len(lines) \in Nat
        /\ imp[i].pos \in Nat /\ lines[k] \in Span \cup Score
    BY DEF TypeOK, Job, Line
  <2>2. ledger[i] # NoLedger[i]
    BY <2>1 DEF NoLedger
  <2>3. Placed(i) /\ Front(i) /\ Behind(i)
    BY <2>2 DEF OrderInv, OrderOf, Active
  <2>4. k <= ChunkEnd(imp[i].pos)
    BY <2>3 DEF Front
  <2>5. j <= imp[i].pos
    <3>1. CASE imp[i].pos = Len(lines)
      BY <2>1, <3>1
    <3>2. CASE imp[i].pos # Len(lines)
      <4>1. PICK m \in 0..imp[i].pos : imp[i].pos = m * ChunkSize
        BY <2>3, <3>2 DEF Placed
      <4>2. ChunkEnd(imp[i].pos) <= m * ChunkSize + ChunkSize
        BY <2>1, <4>1, NumbersAssumption DEF ChunkEnd
      <4>3. k <= m * ChunkSize + ChunkSize
        <5>1. m * ChunkSize + ChunkSize \in Nat /\ ChunkEnd(imp[i].pos) \in Nat
          BY <2>1, <4>1, NumbersAssumption, ChunkEndBound
        <5> QED
          BY <2>1, <2>4, <4>2, <5>1
      <4> QED
        BY <2>1, <4>1, <4>3, BeforeBoundary
    <3> QED
      BY <3>1, <3>2
  <2> QED
    BY <2>1, <2>3, <2>5 DEF Behind
<1> QED
  BY <1>1, OrderInvariance, TypeCorrect, PTL

(* import_spool returns only when it stands at the end of the file, and    *)
(* then every line of it was stored by this very run.                      *)
THEOREM SuccessIsComplete == Spec => CompleteOnSuccess
<1>1. TypeOK /\ OrderInv /\ [Next]_vars =>
        [\A i \in Importer :
           imp[i].pc = "reading" /\ imp'[i].pc = "returned" /\ ~imp[i].dry
             => /\ imp[i].pos = Len(lines)
                /\ \A l \in LinesOf(lines) : ledger[i][l] >= 1]_vars
  <2> SUFFICES ASSUME TypeOK, OrderInv, Next, NEW i \in Importer,
                      imp[i].pc = "reading", imp'[i].pc = "returned", ~imp[i].dry
               PROVE  /\ imp[i].pos = Len(lines)
                      /\ \A l \in LinesOf(lines) : ledger[i][l] >= 1
    BY DEF vars
  <2>1. Chunk(imp[i].pos) = {}
    <3>1. imp' # imp
      OBVIOUS
    <3>2. PICK q \in Importer : ImportStarts(q) \/ ImportStep(q) \/ KillImport(q)
      BY <3>1 DEF Next, Generate, OpenSpool, TruncateSpool, ExtendSpool, CloseSpool,
                  CrashGenerate, ClearProject
    <3>3. q = i
      <4>1. CASE ImportStarts(q)
        <5>1. \E pc, dry : Begin(q, pc, dry)
          BY <4>1 DEF ImportStarts, ImportRaises, ImportRefused, ImportAdmitted,
                      ImportExempt
        <5> QED
          BY <5>1, BeginFrame
      <4>2. CASE ImportStep(q) \/ KillImport(q)
        BY <4>2, ImportStepFrame
      <4> QED
        BY <3>2, <4>1, <4>2
    <3>4. ~ImportStarts(i)
      BY DEF ImportStarts, ImportRaises, ImportRefused, ImportAdmitted,
             ImportExempt, CanStart, Ended
    <3>5. ~KillImport(i)
      <4>1. ASSUME KillImport(i) PROVE imp'[i].pc = "killed"
        <5>1. imp'[i] = [pc |-> "killed", dry |-> imp[i].dry, pos |-> imp[i].pos,
                         attempt |-> imp[i].attempt]
          BY <4>1, MoveFrame DEF KillImport, Goto
        <5> QED
          BY <5>1
      <4> QED
        BY <4>1
    <3>6. ReadChunk(i)
      BY <3>2, <3>3, <3>4, <3>5
      DEF ImportStep, Record, PostDry, PostAccepted, PostRejected, PostRefused,
          PostRetryable, Requesting
    <3>7. ASSUME NEW pc, Goto(i, pc) PROVE imp'[i].pc = pc
      <4>1. imp'[i] = [pc |-> pc, dry |-> imp[i].dry, pos |-> imp[i].pos,
                       attempt |-> imp[i].attempt]
        BY <3>7, MoveFrame DEF Goto
      <4> QED
        BY <4>1
    <3> QED
      BY <3>6, <3>7 DEF ReadChunk
  <2>2. Placed(i) /\ Behind(i)
    BY DEF OrderInv, OrderOf, Active, Running
  <2>3. imp[i].pos \in Nat /\ Len(lines) \in Nat /\ DOMAIN lines = 1..Len(lines)
    BY DEF TypeOK, Job
  <2>4. imp[i].pos = Len(lines)
    <3> SUFFICES ASSUME imp[i].pos < Len(lines) PROVE FALSE
      BY <2>2, <2>3 DEF Placed
    <3>1. imp[i].pos + 1 \in (imp[i].pos + 1)..ChunkEnd(imp[i].pos)
      BY <2>3, NumbersAssumption DEF ChunkEnd
    <3>2. lines[imp[i].pos + 1] \in Chunk(imp[i].pos)
      BY <3>1 DEF Chunk
    <3> QED
      BY <2>1, <3>2
  <2>5. ASSUME NEW l \in LinesOf(lines) PROVE ledger[i][l] >= 1
    <3>1. PICK k \in 1..Len(lines) : l = lines[k]
      BY <2>3 DEF LinesOf
    <3>2. l # Torn /\ ledger[i][l] > 0
      BY <2>2, <2>4, <3>1 DEF Behind
    <3>3. ledger[i][l] \in Nat
      BY <2>3, <3>1, <3>2 DEF TypeOK, Line
    <3> QED
      BY <3>2, <3>3
  <2> QED
    BY <2>4, <2>5
<1> QED
  BY <1>1, OrderInvariance, TypeCorrect, PTL DEF Spec, CompleteOnSuccess

=============================================================================
