---------------------------- MODULE WireFormat ----------------------------
(***************************************************************************)
(* The lines of a Spool (seed/otlp.py, seed/events.py) and what a finished *)
(* Spool looks like, said of the whole file at once: no passes, no state   *)
(* carried from line to line.  Module OtlpFinalize computes it.            *)
(***************************************************************************)
EXTENDS Integers, Sequences, FiniteSets

CONSTANTS
  Trace,      \* trace ids
  Score,      \* score-create envelopes
  TraceKey,   \* TRACE_LEVEL_KEYS and the trace metadata keys
  OwnKey,     \* every other attribute key
  Value       \* attribute values

ASSUME KeysAssumption == TraceKey \cap OwnKey = {}

Attr == (TraceKey \cup OwnKey) \X Value
KeysOf(attrs) == {a[1] : a \in attrs}
Shell(attrs) == {a \in attrs : a[1] \in TraceKey}

(* A span: the trace it belongs to, whether it is that trace's minted root *)
(* (its id is trace_root_span_id of the trace id), the parent context it   *)
(* carries, its end time and its attributes.                               *)
Span == [trace : Trace, root : BOOLEAN, parent : {"none", "root", "other"},
         end : Nat, attrs : SUBSET Attr]

ASSUME ScoresAssumption == Score \cap Span = {}

Line == Span \cup Score
IsSpan(line) == line \in Span
IsTraceRoot(line) == IsSpan(line) /\ line.root

SpansOf(q, t) == {k \in DOMAIN q : IsSpan(q[k]) /\ q[k].trace = t}
RootsOf(q, t) == {k \in SpansOf(q, t) : q[k].root}
Latest(S) == CHOOSE m \in S : \A n \in S : n <= m

(* The last moment of a trace, and the shell of its last root. *)
EndOf(q, t) == Latest({0} \cup {q[k].end : k \in SpansOf(q, t)})
ShellOf(q, t) ==
  IF RootsOf(q, t) = {} THEN {} ELSE Shell(q[Latest(RootsOf(q, t))].attrs)

(* A root covers its trace; any other span carries the shell, except what  *)
(* it says itself, and hangs below the root if it has no parent.           *)
OnTheWire(q, line) ==
  IF ~IsSpan(line) THEN line
  ELSE IF line.root THEN [line EXCEPT !.end = EndOf(q, line.trace)]
  ELSE [line EXCEPT
          !.attrs = @ \cup {a \in ShellOf(q, line.trace) : a[1] \notin KeysOf(@)},
          !.parent = IF RootsOf(q, line.trace) # {} /\ @ = "none"
                     THEN "root" ELSE @]

Finalised(q) == [k \in DOMAIN q |-> OnTheWire(q, q[k])]

(* count_spool, what the cap gate reads off the volume: a trace is a view  *)
(* on its spans, so it is counted but not added to the total.              *)
CountSpool(q) ==
  LET spans == {k \in DOMAIN q : IsSpan(q[k])}
      scores == {k \in DOMAIN q : q[k] \in Score}
  IN [traces |-> Cardinality({q[k].trace : k \in spans}),
      observations |-> Cardinality(spans),
      scores |-> Cardinality(scores),
      total |-> Cardinality(spans) + Cardinality(scores)]
=============================================================================
