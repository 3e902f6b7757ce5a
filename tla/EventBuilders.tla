-------------------------- MODULE EventBuilders --------------------------
(***************************************************************************)
(* The event builders (seed/events.py over seed/otlp.py): the lines a      *)
(* recipe can write.  A builder says what it is told of one span and       *)
(* cannot know the rest of its trace; what that leaves open is for         *)
(* finalisation.  A malformed id, an unknown observation type and a skill  *)
(* that is no reference raise and write no line.                           *)
(*                                                                         *)
(* An argument left at None is the empty set, any other the set of its     *)
(* value; a parent is "other" unless it is the root's own id.              *)
(***************************************************************************)
EXTENDS WireFormat

Given(arg, default) == IF arg = {} THEN default ELSE CHOOSE v \in arg : TRUE

(* observation_span: `end` defaults to the start; a missing or an empty    *)
(* parent id leaves the span without a parent context.                     *)
ObservationSpan(trace, start, end, parent, attrs) ==
  [trace |-> trace, root |-> FALSE, parent |-> Given(parent, "none"),
   end |-> Given(end, start), attrs |-> attrs]

(* span_event, observation_event, generation_event: their attributes are   *)
(* never trace-level; a kit reaches those through `extra` of               *)
(* observation_span only.                                                  *)
SpanEvent(trace, start, end, parent, own) ==
  ObservationSpan(trace, start, end, parent, {a \in own : a[1] \in OwnKey})

(* event_event: a marker without duration. *)
EventEvent(trace, start, parent, own) == SpanEvent(trace, start, {}, parent, own)

(* trace_event: the shell is the trace's minted root, whose end is a       *)
(* placeholder equal to its start.                                         *)
TraceEvent(trace, timestamp, shell, own) ==
  [ObservationSpan(trace, timestamp, {timestamp}, {}, Shell(shell) \cup own) EXCEPT !.root = TRUE]
=============================================================================
