------------------------------ MODULE LiveEmit ------------------------------
(***************************************************************************)
(* Live emission (live/emit.py): requests of one process write traces      *)
(* through one emitter.  Observations nest in `with` blocks, a body may    *)
(* raise at any level and be caught at any level, and the SDK (external)   *)
(* keeps what has ended until its worker or a flush sends it.              *)
(***************************************************************************)
EXTENDS Naturals, Sequences, SequencesExt

CONSTANTS
  Request,    \* the requests in flight
  SkillList   \* lists of skills an observation may be given

VARIABLES
  spans,      \* the observations, in the order they were opened
  scores,     \* the scores handed to the SDK
  trace       \* the trace block of each request

emitVars == <<spans, scores, trace>>

NoList == "none"
BadList == "malformed"
ASSUME ListAssumption == {NoList, BadList} \cap SkillList = {}

(* An observation: `given` is the list that its opener asked for, `skills` *)
(* the one that it has.  History: the observation that was current when it *)
(* was started, and whether its body was entered.                          *)
Span == [of : Request, parent : Nat, given : SkillList \cup {NoList}, inside : Nat,
         skills : SkillList \cup {NoList}, entered : BOOLEAN,
         at : {"open", "ended", "sent", "lost"}]

(* A request's trace block: the list propagated before there was a span,   *)
(* the observations that are current in its nested blocks, each with the   *)
(* list in force there, and the calls of the SDK that are left to make of  *)
(* an observation (under `parent`, with `list`) that is being opened.      *)
Outside == [at |-> "none", ambient |-> NoList, blocks |-> <<>>, todo |-> <<>>,
            parent |-> 0, list |-> NoList, raising |-> FALSE, flushes |-> TRUE]
Done == {"none", "refused", "answered", "raised", "flush failed"}

Inside(q) == trace[q].at = "body" /\ trace[q].todo = <<>> /\ trace[q].blocks # <<>>
Top(q) == Last(trace[q].blocks)
Context(q) == IF trace[q].blocks = <<>> THEN [span |-> 0, list |-> trace[q].ambient]
              ELSE Top(q)
Calls(q, what) == trace[q].todo # <<>> /\ Head(trace[q].todo) = what

(* start_as_current_observation: what is started has the list in force and *)
(* is the current span from then on.                                       *)
Start(q) ==
  /\ Calls(q, "start")
  /\ spans' = Append(spans, [of |-> q, parent |-> trace[q].parent, given |-> trace[q].list,
       inside |-> Context(q).span, skills |-> Context(q).list,
       entered |-> Len(trace[q].todo) = 1, at |-> "open"])
  /\ trace' = [trace EXCEPT ![q].at = "body", ![q].todo = Tail(@), ![q].blocks =
       Append(@, [span |-> Len(spans) + 1, list |-> Context(q).list])]
  /\ UNCHANGED scores

(* propagate_attributes: writes on the current span, if there is one, and  *)
(* is in force from then on.                                               *)
Propagate(q) ==
  LET s == Context(q).span  list == trace[q].list IN
  /\ Calls(q, "propagate")
  /\ IF s = 0
     THEN /\ trace' = [trace EXCEPT ![q].ambient = list, ![q].todo = Tail(@)]
          /\ UNCHANGED spans
     ELSE /\ spans' = [spans EXCEPT ![s].skills = list, ![s].entered = TRUE]
          /\ trace' = [trace EXCEPT ![q].todo = Tail(@),
                          ![q].blocks[Len(trace[q].blocks)].list = list]
  /\ UNCHANGED scores

(* trace(): a malformed list raises before the block and its `finally`;    *)
(* the attributes are propagated around the root (emit.py:145).            *)
TraceCalls == <<"propagate", "start">>
StartTrace(q, list, flushes) ==
  /\ trace[q].at \in Done
  /\ trace' = [trace EXCEPT ![q] =
       IF list = BadList THEN [Outside EXCEPT !.at = "refused"]
       ELSE [Outside EXCEPT !.at = "entering", !.flushes = flushes,
                            !.todo = TraceCalls, !.list = list]]
  /\ UNCHANGED <<spans, scores>>

Raises(q) == trace' = [trace EXCEPT ![q].raising = TRUE] /\ UNCHANGED <<spans, scores>>

(* A child's list is propagated once the child is the current span         *)
(* (emit.py:274-281).                                                      *)
PropagateFirst(list) == IF list = NoList THEN <<"start">> ELSE <<"propagate", "start">>
ChildCalls(list) == IF list = NoList THEN <<"start">> ELSE <<"start", "propagate">>

(* observation, generation, tool: on any observation of the request that   *)
(* is open; an unknown type or a malformed list raises before it exists.   *)
Open(q, parent, list) ==
  /\ Inside(q) /\ ~trace[q].raising
  /\ parent \in {b.span : b \in ToSet(trace[q].blocks)}
  /\ IF list = BadList THEN Raises(q)
     ELSE /\ trace' = [trace EXCEPT ![q].todo = ChildCalls(list),
                          ![q].parent = parent, ![q].list = list]
          /\ UNCHANGED <<spans, scores>>

BodyRaises(q) == Inside(q) /\ ~trace[q].raising /\ Raises(q)
BodyCatches(q) ==
  /\ Inside(q) /\ trace[q].raising
  /\ trace' = [trace EXCEPT ![q].raising = FALSE]
  /\ UNCHANGED <<spans, scores>>

End(s) == [spans EXCEPT ![s].at = "ended"]

(* A call of the SDK raises, an old one over an argument it does not know: *)
(* with no root the `finally` still flushes; without a child its parent's  *)
(* body has the exception, and a child that has no list by then ends.      *)
OpeningFails(q) ==
  /\ trace[q].todo # <<>>
  /\ IF Calls(q, "propagate") /\ trace[q].at = "body"
     THEN /\ spans' = End(Top(q).span)
          /\ trace' = [trace EXCEPT ![q].raising = TRUE, ![q].todo = <<>>,
                                    ![q].blocks = Front(@)]
     ELSE /\ trace' = [trace EXCEPT ![q].raising = TRUE, ![q].todo = <<>>,
               ![q].at = IF @ = "entering" THEN "leaving" ELSE @]
          /\ UNCHANGED spans
  /\ UNCHANGED scores

(* The innermost block is left, by its end or by the exception.            *)
LeaveBlock(q) ==
  /\ Inside(q) /\ Len(trace[q].blocks) > 1
  /\ spans' = End(Top(q).span)
  /\ trace' = [trace EXCEPT ![q].blocks = Front(@)]
  /\ UNCHANGED scores

LeaveTrace(q) ==
  /\ Inside(q) /\ Len(trace[q].blocks) = 1
  /\ spans' = End(Top(q).span)
  /\ trace' = [trace EXCEPT ![q].at = "leaving", ![q].blocks = <<>>]
  /\ UNCHANGED scores

(* flush(): the SDK sends everything that has ended, and the scores.       *)
Flushed(ss) == [k \in DOMAIN ss |->
  IF ss[k].at = "ended" THEN [ss[k] EXCEPT !.at = "sent"] ELSE ss[k]]
FlushedScores == {[s EXCEPT !.at = "sent"] : s \in scores}

FlushesUnlessRaised(q) == trace[q].flushes /\ ~trace[q].raising   \* no `finally`
Flushes(q) == trace[q].flushes
After(q) == IF trace[q].raising THEN "raised" ELSE "answered"

Finally(q) ==
  /\ trace[q].at = "leaving"
  /\ IF Flushes(q) THEN spans' = Flushed(spans) /\ scores' = FlushedScores
     ELSE UNCHANGED <<spans, scores>>
  /\ trace' = [trace EXCEPT ![q].at = After(q)]

(* A flush that raises replaces what the body raised or returned.          *)
FlushFails(q) ==
  /\ trace[q].at = "leaving" /\ trace[q].flushes
  /\ trace' = [trace EXCEPT ![q].at = "flush failed"]
  /\ UNCHANGED <<spans, scores>>

(* A score of the trace or of an observation, while it is open or later.   *)
Score(q, s) ==
  /\ s \in DOMAIN spans /\ spans[s].of = q
  /\ scores' = scores \cup {[of |-> q, on |-> s, late |-> trace[q].at \in Done, at |-> "held"]}
  /\ UNCHANGED <<spans, trace>>

(* flush or shutdown called by the kit itself.                             *)
ExplicitFlush ==
  /\ spans' = Flushed(spans) /\ scores' = FlushedScores
  /\ UNCHANGED trace

(* The SDK's worker sends what it holds when it likes.                     *)
Worker(s) ==
  /\ s \in DOMAIN spans /\ spans[s].at = "ended"
  /\ spans' = [spans EXCEPT ![s].at = "sent"]
  /\ UNCHANGED <<scores, trace>>

(* The process dies: what the SDK held is gone.                            *)
ProcessDies ==
  /\ spans' = [k \in DOMAIN spans |->
       IF spans[k].at = "sent" THEN spans[k] ELSE [spans[k] EXCEPT !.at = "lost"]]
  /\ scores' = {s \in scores : s.at = "sent"}
  /\ trace' = [q \in Request |-> Outside]

EmitInit ==
  spans = <<>> /\ scores = {} /\ trace = [q \in Request |-> Outside]

(* "The whole trace is delivered before the surface answers its user -     *)
(* including when the body raised" (emit.py:128): once the trace block of  *)
(* a request is over, unless the flush itself failed, every observation it *)
(* opened has ended and left the buffer, the root included, and so has     *)
(* every score made inside it, however the requests interleaved and        *)
(* whatever was raised and caught on the way.                              *)
DeliveredOnReturn ==
  \A q \in Request : trace[q].at \in {"answered", "raised"} /\ trace[q].flushes =>
    /\ \A k \in DOMAIN spans : spans[k].of = q => spans[k].at \in {"sent", "lost"}
    /\ \A s \in scores : s.of = q /\ ~s.late => s.at = "sent"

(* "Attach skills to *this* span rather than its parent" (emit.py:267): an *)
(* observation whose body was entered has the list that was asked for it,  *)
(* and without one the list of the observation that was around it when it  *)
(* was started, which it had then and has still, whatever was opened,      *)
(* failed or ended in it, beside it or in other requests since.            *)
SkillsOnOwnSpan ==
  \A k \in DOMAIN spans : spans[k].entered =>
    spans[k].skills = IF spans[k].given # NoList THEN spans[k].given
                      ELSE IF spans[k].inside = 0 THEN NoList
                      ELSE spans[spans[k].inside].skills
=============================================================================
