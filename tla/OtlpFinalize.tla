--------------------------- MODULE OtlpFinalize ---------------------------
(***************************************************************************)
(* Finalisation of a Spool: close_spool and _finalize_spool of             *)
(* seed/ingest.py with the two passes of seed/otlp.py.                     *)
(*                                                                         *)
(* The closed file is read once to learn each trace's shell attributes and *)
(* last end time, and a second time to write every line as it goes on the  *)
(* wire into a temporary file, which then replaces the Spool.  The job may *)
(* be killed between any two lines; what it leaves on the volume is what   *)
(* the next job finds.                                                     *)
(***************************************************************************)
EXTENDS WireFormat

CONSTANT Drafts         \* the line sequences a run may write

ASSUME DraftsAssumption == Drafts \subseteq Seq(Line)

VARIABLES
  disk,     \* events.ndjson
  tmp,      \* events.ndjson.finalizing, whoever left it
  pc,       \* where the generate-spool job is
  read,     \* lines read in the current pass
  state,    \* what pass one has learnt of each trace it has met
  draft     \* history: the lines as the job wrote them

vars == <<disk, tmp, pc, read, state, draft>>

Blank == [attrs |-> {}, end |-> 0, root |-> FALSE]
Entry == [attrs : SUBSET Attr, end : Nat, root : BOOLEAN]
NoState == [t \in {} |-> Blank]

(* scan_trace: the entry of a trace once one more of its spans is read. *)
SetDefault(t) == IF t \in DOMAIN state THEN state[t] ELSE Blank
LearnEnd(e, line) == IF line.end > e.end THEN [e EXCEPT !.end = line.end] ELSE e
LearnRootOnly(e, line) == IF line.root THEN [e EXCEPT !.root = TRUE] ELSE e
LearnRoot(e, line) ==
  IF line.root
  THEN [e EXCEPT !.root = TRUE, !.attrs = Shell(line.attrs)]
  ELSE e
ScanTrace(line) ==
  IF ~IsSpan(line) THEN state
  ELSE [t \in DOMAIN state \cup {line.trace} |->
          IF t = line.trace
          THEN LearnRoot(LearnEnd(SetDefault(t), line), line)
          ELSE state[t]]

(* finalize_span: the line as it goes on the wire. *)
CopiedOverwrites(line) == state[line.trace].attrs
Copied(line) ==
  {a \in state[line.trace].attrs : a[1] \notin KeysOf(line.attrs)}
Reparent(line) ==
  IF state[line.trace].root /\ line.parent = "none" THEN "root" ELSE line.parent
FinalizeSpan(line) ==
  IF ~IsSpan(line) \/ line.trace \notin DOMAIN state THEN line
  ELSE IF IsTraceRoot(line) THEN [line EXCEPT !.end = state[line.trace].end]
  ELSE [line EXCEPT !.attrs = Copied(line) \cup @, !.parent = Reparent(line)]

HasSpan(q) == \E k \in DOMAIN q : IsSpan(q[k])

Init ==
  /\ disk = <<>> /\ tmp = <<>> /\ draft = <<>>
  /\ pc = "idle" /\ read = 0 /\ state = NoState

(* open_spool and extend: a new run, in a new job or by a rerun. *)
WriteSpool ==
  /\ pc \in {"idle", "closed"}
  /\ draft' \in Drafts
  /\ disk' = draft'
  /\ pc' = "open"
  /\ read' = 0 /\ state' = NoState
  /\ UNCHANGED tmp

(* close_spool: a Spool of nothing but scores is left as it is; calling it *)
(* a second time finalises the finished file.                              *)
CloseSpool ==
  /\ pc \in {"open", "closed"}
  /\ pc' = IF HasSpan(draft) THEN "scan" ELSE "closed"
  /\ read' = 0 /\ state' = NoState
  /\ UNCHANGED <<disk, tmp, draft>>

ScanLine ==
  /\ pc = "scan" /\ read < Len(disk)
  /\ state' = ScanTrace(disk[read + 1])
  /\ read' = read + 1
  /\ UNCHANGED <<disk, tmp, pc, draft>>

(* The temporary file is opened for writing, which empties it. *)
TruncateTmp == tmp' = <<>>

BeginRewrite ==
  /\ pc = "scan" /\ read = Len(disk)
  /\ TruncateTmp
  /\ pc' = "rewrite" /\ read' = 0
  /\ UNCHANGED <<disk, state, draft>>

RewriteLine ==
  /\ pc = "rewrite" /\ read < Len(disk)
  /\ tmp' = Append(tmp, FinalizeSpan(disk[read + 1]))
  /\ read' = read + 1
  /\ UNCHANGED <<disk, pc, state, draft>>

RewrittenPartly == TRUE
Rewritten == read = Len(disk)

ReplaceSpool ==
  /\ pc = "rewrite" /\ Rewritten
  /\ disk' = tmp /\ tmp' = <<>>
  /\ pc' = "closed"
  /\ UNCHANGED <<read, state, draft>>

(* The job is killed: its memory is gone, the volume stays. *)
Crash ==
  /\ pc # "idle"
  /\ pc' = "idle" /\ read' = 0 /\ state' = NoState /\ draft' = <<>>
  /\ UNCHANGED <<disk, tmp>>

Next ==
  \/ WriteSpool
  \/ CloseSpool
  \/ ScanLine
  \/ BeginRewrite
  \/ RewriteLine
  \/ ReplaceSpool
  \/ Crash

Spec == Init /\ [][Next]_vars

---------------------------------------------------------------------------
(* Properties *)

(* The files hold lines, pass one learns shell entries of traces, and pass *)
(* two has written one line for every line it has read.                    *)
TypeOK ==
  /\ disk \in Seq(Line) /\ tmp \in Seq(Line) /\ draft \in Seq(Line)
  /\ pc \in {"idle", "open", "scan", "rewrite", "closed"}
  /\ read \in 0..Len(disk)
  /\ DOMAIN state \subseteq Trace
  /\ \A t \in DOMAIN state : state[t] \in Entry
  /\ pc = "rewrite" => Len(tmp) = read

(* Whenever the reader comes, the file is a draft or a finished Spool as   *)
(* module WireFormat defines it, also after a crash in either pass.        *)
Promise == INSTANCE AtomicSpool WITH spool <- disk
ImplementsAtomicSpool == Promise!Spec

(* Every query v4 makes on a span finds what it needs: below a root there  *)
(* is no orphan, every span carries every trace-level key of the root (the *)
(* last one, if a kit mints two), and the root ends no earlier than any    *)
(* span of its trace.                                                      *)
Complete(q) ==
  \A t \in Trace : RootsOf(q, t) # {} =>
    LET root == q[Latest(RootsOf(q, t))] IN
    \A k \in SpansOf(q, t) :
      /\ q[k].end <= root.end
      /\ ~q[k].root => /\ q[k].parent # "none"
                       /\ KeysOf(Shell(root.attrs)) \subseteq KeysOf(q[k].attrs)
WireComplete == pc = "closed" => Complete(disk)

(* Finalisation adds and never changes what a builder said: a span keeps   *)
(* its attributes and its parent, what it gains is a root attribute of its *)
(* own trace, and only the end time of a root moves.  So what the cap gate *)
(* counts on the volume is what the builders wrote, whenever it counts.    *)
Gained(k) == IF IsSpan(draft[k]) THEN disk[k].attrs \ draft[k].attrs ELSE {}
NothingLost ==
  /\ pc # "idle" => CountSpool(disk) = CountSpool(draft)
  /\ pc = "closed" =>
       /\ Len(disk) = Len(draft)
       /\ \A k \in DOMAIN draft :
            IF ~IsSpan(draft[k]) THEN disk[k] = draft[k]
            ELSE /\ draft[k].attrs \subseteq disk[k].attrs
                 /\ draft[k].parent \in {"none", disk[k].parent}
                 /\ draft[k].end <= disk[k].end
                 /\ ~draft[k].root => disk[k].end = draft[k].end
                 /\ \A a \in Gained(k) :
                      /\ a[1] \in TraceKey
                      /\ a[1] \notin KeysOf(draft[k].attrs)
                      /\ \E j \in RootsOf(draft, draft[k].trace) : a \in draft[j].attrs
=============================================================================
