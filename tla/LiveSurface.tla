---------------------------- MODULE LiveSurface ----------------------------
(***************************************************************************)
(* A live component at work: requests arrive through the access gate       *)
(* (companion/access.py), emit traces as they are served (live/emit.py)    *)
(* and ask before each paid operation (companion/spending.py), while kits  *)
(* publish the skills those traces name (skills.py).                       *)
(***************************************************************************)
EXTENDS LiveEmit, LiveAccess, Spending, SkillPublish

CONSTANTS
  Policies,   \* the policies a worker may be configured with
  Arrivals,   \* the requests that may arrive
  Bridge,     \* the answers the bridge may give
  Plans       \* how often each move may be made in a history

VARIABLES
  gate,       \* what make_server put before the component
  visit,      \* the request each slot is serving
  paid,       \* history: the paid operations that were dispatched
  left        \* the moves that are left

vars == <<emitVars, check, publishVars, gate, visit, paid, left>>

Moves == {"arrive", "permitted", "trace", "open", "score", "worker", "die", "check", "publish", "fail"}
ASSUME PlansAssumption == Plans \subseteq [Moves -> Nat]
ASSUME BridgeAssumption == Bridge \subseteq Answer /\ Caller = Request

Spend(m) == left[m] > 0 /\ left' = [left EXCEPT ![m] = @ - 1]
Empty == [at |-> "free", rq |-> "none", sees |-> <<>>]

Arrive(q) ==
  /\ visit[q].at = "free" /\ gate # "refused"
  /\ \E rq \in Arrivals :
       /\ Spend("arrive") \/ (Permitted(rq) /\ Passes(gate, rq) /\ Spend("permitted"))
       /\ visit' = [visit EXCEPT ![q] = [rq |-> rq, sees |-> SeenProofs(gate, rq),
                   at |-> IF Passes(gate, rq) THEN "inside" ELSE "turned away"]]
  /\ UNCHANGED <<emitVars, check, publishVars, gate, paid>>

Serves(q) == visit[q].at = "inside" /\ visit[q].rq.type # "lifespan"

(* The component's own code, between a request and its answer.             *)
Emits(q) ==
  /\ Serves(q)
  /\ \/ /\ \E list \in SkillList \cup {NoList, BadList}, flushes \in BOOLEAN :
             StartTrace(q, list, flushes)
        /\ Spend("trace")
     \/ (Start(q) \/ Propagate(q)) /\ UNCHANGED left
     \/ OpeningFails(q) /\ Spend("fail")
     \/ /\ \E k \in DOMAIN spans, list \in SkillList \cup {NoList, BadList} : Open(q, k, list)
        /\ Spend("open")
     \/ BodyRaises(q) /\ Spend("fail")
     \/ FlushFails(q) /\ Spend("fail")
     \/ \E s \in DOMAIN spans : Score(q, s) /\ Spend("score")
     \/ BodyCatches(q) /\ UNCHANGED left
     \/ (LeaveBlock(q) \/ LeaveTrace(q) \/ Finally(q)) /\ UNCHANGED left
  /\ UNCHANGED <<check, publishVars, gate, visit, paid>>

Flusher ==
  /\ ExplicitFlush \/ \E s \in DOMAIN spans : Worker(s)
  /\ Spend("worker") /\ UNCHANGED <<check, publishVars, gate, visit, paid>>

Checks(q) ==
  /\ Serves(q)
  /\ \/ /\ \E p \in Provider \cup {"other"}, configured \in BOOLEAN : Ask(q, p, configured)
        /\ Spend("check")
     \/ /\ \/ \E a \in Bridge, wait \in Waits : Headers(q, a, wait)
           \/ \E wait \in Waits : ReadPart(q, wait) \/ EndOfBody(q, wait)
           \/ TransportFails(q)
        /\ UNCHANGED left
  /\ UNCHANGED <<emitVars, publishVars, gate, visit, paid>>

(* The kit dispatches a paid operation, on the word of one check.          *)
Dispatch(q) ==
  /\ Serves(q) /\ ~IsHealth(visit[q].rq) /\ check[q].at = "allowed"
  /\ paid' = paid \cup {[by |-> visit[q], check |-> check[q]]}
  /\ check' = [check EXCEPT ![q] = Unasked]
  /\ UNCHANGED <<emitVars, publishVars, gate, visit, left>>

AnswerRequest(q) ==
  /\ visit[q].at = "turned away" \/ (visit[q].at = "inside" /\ trace[q].at \in Done)
  /\ check[q].at \in Checked
  /\ visit' = [visit EXCEPT ![q] = Empty]
  /\ check' = [check EXCEPT ![q] = Unasked]
  /\ UNCHANGED <<emitVars, publishVars, gate, paid, left>>

Dies ==
  /\ ProcessDies /\ Spend("die")
  /\ visit' = [q \in Request |-> Empty] /\ check' = [q \in Caller |-> Unasked]
  /\ UNCHANGED <<publishVars, gate, paid>>

Publishes(p) ==
  /\ \/ /\ \E files \in Bundle \cup {NotABundle}, v5 \in BOOLEAN, labels \in Asks :
             StartPublish(p, files, labels, v5)
        /\ Spend("publish")
     \/ CallFails(p) /\ Spend("fail")
     \/ (Look(p) \/ Create(p) \/ SkipLabels(p) \/ SetLabels(p)) /\ UNCHANGED left
  /\ UNCHANGED <<emitVars, check, gate, visit, paid>>

Init ==
  /\ EmitInit /\ SpendingInit /\ PublishInit
  /\ gate \in {GuardedApp(policy, proof) : policy \in Policies, proof \in {"own", "malformed"}}
  /\ visit = [q \in Request |-> Empty] /\ paid = {}
  /\ left \in Plans

Next ==
  \/ \E q \in Request : Arrive(q) \/ Emits(q) \/ Checks(q) \/ Dispatch(q) \/ AnswerRequest(q)
  \/ Flusher \/ Dies
  \/ \E p \in Publisher : Publishes(p)

Spec == Init /\ [][Next]_vars

(* The spending check fails closed (spending.py:49), behind a gate that    *)
(* does (access.py:25): a paid operation was dispatched by a request that  *)
(* carried the portal's proof where one is required, and on a whole permit *)
(* for its very provider, of which every byte had come by the deadline; no *)
(* answer, late answer or odd answer permits anything.                     *)
FailClosed ==
  \A x \in paid :
    /\ x.check.answer \in {[Permit(x.check.provider, s) EXCEPT !.size = n] :
                             s \in Source, n \in 1..Parts}
    /\ x.check.heard <= Deadline
    /\ gate = "guarded" => Permitted(x.by.rq) /\ x.by.sees = <<>>
=============================================================================
