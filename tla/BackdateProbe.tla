--------------------------- MODULE BackdateProbe ---------------------------
(***************************************************************************)
(* The backdate probe (probe.py): write one trace with a start in the      *)
(* past, read it back, and say whether this host kept the start.           *)
(*                                                                         *)
(* Several probes are run against one project, one after the other or at   *)
(* the same time.  What they wrote stays there, or is deleted by someone;  *)
(* Langfuse stores what it accepted at once and makes it readable later;   *)
(* every request may fail.  request_retry (http.py) repeats the GETs, the  *)
(* loop inside Ingestor._post the one POST.                                *)
(***************************************************************************)
EXTENDS ReadSeam

CONSTANTS
  Run,        \* the probe runs; run r is started in minute r + Ago
  LateRun,    \* those that may date their trace into the end of a minute
  Ago,        \* how far back a probe dates its trace, in minutes
  Nonce,      \* the random part of a trace id, drawn by each run
  Attempts,   \* attempts per request, of request_retry and of _post
  MaxPolls,   \* polls before the probe gives up (10 in the code)
  MaxPages,   \* _MAX_PAGES, the pages of one reading
  Overlap     \* whether two probes may be under way at the same time

ASSUME RunAssumption == Run \subseteq Nat /\ LateRun \subseteq Run
ASSUME BoundsAssumption == /\ Ago \in Nat \ {0}
                           /\ Attempts \in Nat \ {0}
                           /\ MaxPolls \in Nat \ {0}
                           /\ MaxPages \in Nat \ {0}
                           /\ Overlap \in BOOLEAN

NoId == "none"
ASSUME NonceAssumption ==
  /\ NoId \notin Nonce
  /\ \A f \in [Run -> Nonce \cup {NoId}] : \A r \in Run :
       \E n \in Nonce : \A q \in Run \ {r} : f[q] # n  \* no run runs out

VARIABLES
  host,      \* what the host does with a start in the past
  demo,      \* the keys are those of a project that project_hint names
  late,      \* the runs that date their trace into the end of a minute
  probe,     \* each run: where it is in run_backdate_probe
  id,        \* each run: the id of its trace
  attempt,   \* each run: the attempt of the request it is making
  poll,      \* each run: how often it has asked for its trace
  reading,   \* each run: the cursor, the pages and the rows of this reading
  stored,    \* Langfuse: the rows it has accepted
  readable,  \* Langfuse: those a reader can see
  deleted,   \* Langfuse: the traces somebody has deleted
  owed,      \* history: the rows that were readable when the reading began
  missed,    \* history: the runs a reading of which left out a row it owed
  rootless,  \* history: the runs that concluded without the root's row
  acked,     \* history: the runs whose POST was acknowledged
  erred      \* history: the runs a reading of which met an error response

langfuse == <<stored, readable, deleted>>
history == <<owed, missed, rootless, acked, erred>>
vars == <<host, demo, late, probe, id, attempt, poll, reading, langfuse,
          history>>

Verdicts == {"passed", "dropped", "unreadable"}
Over == Verdicts \cup {"raised"}
Getting == {"guardrail", "polling"}
Busy == Getting \cup {"posting"}

(* The minutes of the backdate and of the arrival.  The child starts 120   *)
(* ms after the root, so that it starts in the next minute when the root   *)
(* starts in the last 120 ms of its own: the second of the two halves a    *)
(* minute has here.                                                        *)
Backdate(r) == r
Arrival(r) == r + Ago
Half(r) == IF r \in late THEN 1 ELSE 0
Start(r, kind) ==
  2 * (IF host = "keeps" THEN Backdate(r) ELSE Arrival(r))
    + Half(r) + (IF kind = "child" THEN 1 ELSE 0)

Row == [trace : Nonce, run : Run, kind : {"root", "child"},
        try : 1..Attempts, start : Nat]

(* The root and its one child, as the POST of this attempt carries them. *)
Body(r) == {[trace |-> id[r], run |-> r, kind |-> k, try |-> attempt[r],
             start |-> Start(r, k)] : k \in {"root", "child"}}

Nothing == [cursor |-> NoCursor, pages |-> 0, rows |-> {}]

Init ==
  /\ host \in {"keeps", "drops"} /\ demo \in BOOLEAN /\ late \in SUBSET LateRun
  /\ probe = [r \in Run |-> "idle"] /\ id = [r \in Run |-> NoId]
  /\ attempt = [r \in Run |-> 1] /\ poll = [r \in Run |-> 1]
  /\ reading = [r \in Run |-> Nothing]
  /\ stored = {} /\ readable = {} /\ deleted = {}
  /\ owed = [r \in Run |-> {}]
  /\ missed = {} /\ rootless = {} /\ acked = {} /\ erred = {}

Goto(r, pc) == /\ probe' = [probe EXCEPT ![r] = pc]
               /\ attempt' = [attempt EXCEPT ![r] = 1]

Begin(r) ==
  /\ probe[r] = "idle"
  /\ Overlap \/ \A q \in Run : probe[q] \notin Busy
  /\ Goto(r, "guardrail")
  /\ UNCHANGED <<host, demo, late, id, poll, reading, langfuse, history>>

---------------------------------------------------------------------------
(* request_retry: a transport error, 429 or 5xx is tried again.  The last  *)
(* attempt raises the transport error and returns the response; so does    *)
(* any attempt with any other status.                                      *)

GetAgain(r) ==
  /\ probe[r] \in Getting /\ attempt[r] < Attempts
  /\ attempt' = [attempt EXCEPT ![r] = @ + 1]
  /\ UNCHANGED <<host, demo, late, probe, id, poll, reading, langfuse,
                 history>>

GetRaises(r) ==
  /\ probe[r] \in Getting /\ attempt[r] = Attempts
  /\ Goto(r, "raised")
  /\ reading' = [reading EXCEPT ![r] = Nothing]
  /\ owed' = [owed EXCEPT ![r] = {}]
  /\ UNCHANGED <<host, demo, late, id, poll, langfuse, missed, rootless,
                 acked, erred>>

---------------------------------------------------------------------------
(* assert_demo_project, then the ids of the run and its one POST *)

GuardrailPasses == demo

(* A nonce no other run has drawn; which one makes no difference. *)
SameNonce(r) == CHOOSE n \in Nonce : TRUE
FreshNonce(r) == CHOOSE n \in Nonce : \A q \in Run \ {r} : id[q] # n

Guardrail(r) ==
  /\ probe[r] = "guardrail"
  /\ \/ /\ GuardrailPasses
        /\ Goto(r, "posting")
        /\ id' = [id EXCEPT ![r] = FreshNonce(r)]
     \/ /\ ~GuardrailPasses
        /\ Goto(r, "raised")
        /\ UNCHANGED id
  /\ UNCHANGED <<host, demo, late, poll, reading, langfuse, history>>

Stores(S) == /\ stored' = stored \cup S
             /\ UNCHANGED <<readable, deleted>>

(* flush(): one chunk, one POST, acknowledged in full. *)
PostAccepted(r) ==
  /\ probe[r] = "posting"
  /\ Stores(Body(r))
  /\ Goto(r, "polling")
  /\ acked' = acked \cup {r}
  /\ UNCHANGED <<host, demo, late, id, poll, reading, owed, missed, rootless,
                 erred>>

(* Rejected spans in a 200, a refusal, or the last attempt: IngestError.   *)
(* What was stored of the body is not known to the client.                 *)
AfterFailedPost(r) == Goto(r, "raised")
PostFails(r) ==
  /\ probe[r] = "posting"
  /\ \E S \in SUBSET Body(r) : Stores(S)
  /\ AfterFailedPost(r)
  /\ UNCHANGED <<host, demo, late, id, poll, reading, history>>

PostAgain(r) ==
  /\ probe[r] = "posting" /\ attempt[r] < Attempts
  /\ \E S \in {{}, Body(r)} : Stores(S)
  /\ attempt' = [attempt EXCEPT ![r] = @ + 1]
  /\ UNCHANGED <<host, demo, late, probe, id, poll, reading, history>>

---------------------------------------------------------------------------
(* The polls: LangfuseReader.trace, page after page *)

Visible(r) == {x \in readable : x.trace = id[r]}

(* What the probe makes of a reading that has come to its end. *)
Verdict(r, R) ==
  IF Minute(Timestamp(R)) = Backdate(r) THEN "passed" ELSE "dropped"

LastPoll(r) == poll[r] = MaxPolls
NextPollStuck(r) == poll[r]
NextPoll(r) == poll[r] + 1
Conclude(r, R) ==
  /\ reading' = [reading EXCEPT ![r] = Nothing]
  /\ \/ R # {} /\ Goto(r, Verdict(r, R)) /\ UNCHANGED poll
     \/ R = {} /\ LastPoll(r) /\ Goto(r, "unreadable") /\ UNCHANGED poll
     \/ /\ R = {} /\ ~LastPoll(r)
        /\ Goto(r, "polling") /\ poll' = [poll EXCEPT ![r] = NextPoll(r)]

Owed(r) == IF reading[r].pages = 0 THEN Visible(r) ELSE owed[r]

(* One page of _cursor_pages: its rows are kept, and the reading ends on   *)
(* an empty page, without a cursor, or at the cap.                         *)
EndsAfterOnePage(page, cursor, pages) == TRUE
Ends(page, cursor, pages) ==
  page = {} \/ cursor = NoCursor \/ pages = MaxPages

Take(r, page, cursor) ==
  LET R == reading[r].rows \cup page
      pages == reading[r].pages + 1
  IN \/ /\ Ends(page, cursor, pages)
        /\ Conclude(r, R)
        /\ owed' = [owed EXCEPT ![r] = {}]
        /\ missed' = IF pages < MaxPages /\ ~(Owed(r) \subseteq R)
                     THEN missed \cup {r} ELSE missed
        /\ rootless' = IF \A x \in R : x.kind # "root"
                       THEN rootless \cup {r} ELSE rootless \ {r}
     \/ /\ ~Ends(page, cursor, pages)
        /\ reading' = [reading EXCEPT ![r] =
                         [cursor |-> cursor, pages |-> pages, rows |-> R]]
        /\ owed' = [owed EXCEPT ![r] = Owed(r)]
        /\ Goto(r, "polling") /\ UNCHANGED <<poll, missed, rootless>>

PageRead(r) ==
  /\ probe[r] = "polling"
  /\ \E c \in Cursors(Visible(r), reading[r].cursor) :
       Take(r, Page(Visible(r), reading[r].cursor), c)
  /\ UNCHANGED <<host, demo, late, id, langfuse, acked, erred>>

(* raise_for_status in the guardrail, ReadError in _get: an error response *)
(* is never taken for an answer.  A body that is not JSON raises as well.  *)
TakeErrorForEmpty(r) ==
  IF probe[r] = "polling" THEN Take(r, {}, NoCursor)
  ELSE /\ Goto(r, "raised")
       /\ UNCHANGED <<poll, reading, owed, missed, rootless>>
OnErrorResponse(r) ==
  /\ Goto(r, "raised")
  /\ reading' = [reading EXCEPT ![r] = Nothing]
  /\ owed' = [owed EXCEPT ![r] = {}]
  /\ UNCHANGED <<poll, missed, rootless>>

ErrorResponse(r) ==
  /\ probe[r] \in Getting
  /\ OnErrorResponse(r)
  /\ erred' = IF probe[r] = "polling" THEN erred \cup {r} ELSE erred
  /\ UNCHANGED <<host, demo, late, id, langfuse, acked>>

---------------------------------------------------------------------------
(* Langfuse: what it accepted becomes readable some time, or never; rows   *)
(* under the id of a deleted trace do not, for longer than a probe polls.  *)
(* (Rows of a probe that is over are looked for by nobody.)                *)
Settle ==
  /\ \E x \in stored \ readable :
       /\ probe[x.run] \in Busy /\ x.trace \notin deleted
       /\ readable' = readable \cup {x}
  /\ UNCHANGED <<host, demo, late, probe, id, attempt, poll, reading, stored,
                 deleted, history>>

(* Somebody deletes the trace of a probe that is over. *)
DeleteTrace(r) ==
  /\ probe[r] \in Over /\ id[r] # NoId /\ id[r] \notin deleted
  /\ stored' = {x \in stored : x.trace # id[r]}
  /\ readable' = {x \in readable : x.trace # id[r]}
  /\ deleted' = deleted \cup {id[r]}
  /\ UNCHANGED <<host, demo, late, probe, id, attempt, poll, reading, history>>

Step(r) ==
  \/ Begin(r) \/ GetAgain(r) \/ GetRaises(r) \/ Guardrail(r)
  \/ PostAccepted(r) \/ PostFails(r) \/ PostAgain(r)
  \/ PageRead(r) \/ ErrorResponse(r)

Next == Settle \/ \E r \in Run : Step(r) \/ DeleteTrace(r)

(* A process that has been started is run; nothing is asked of Langfuse    *)
(* but that each request has an end, which the timeouts of requests give.  *)
Spec == Init /\ [][Next]_vars /\ \A r \in Run : WF_vars(Step(r))

---------------------------------------------------------------------------
TypeOK ==
  /\ host \in {"keeps", "drops"} /\ demo \in BOOLEAN /\ late \subseteq LateRun
  /\ probe \in [Run -> {"idle"} \cup Busy \cup Over]
  /\ id \in [Run -> Nonce \cup {NoId}]
  /\ attempt \in [Run -> 1..Attempts] /\ poll \in [Run -> 1..MaxPolls]
  /\ reading \in [Run -> [cursor : SUBSET Row, pages : Nat,
                          rows : SUBSET Row]]
  /\ stored \subseteq Row /\ readable \subseteq stored
  /\ deleted \subseteq Nonce
  /\ owed \in [Run -> SUBSET Row]
  /\ missed \subseteq Run /\ rootless \subseteq Run
  /\ acked \subseteq Run /\ erred \subseteq Run

(* A verdict on the host is about this host, whatever earlier and          *)
(* simultaneous probes left in the project (probe.py:36-48, 110-122): a    *)
(* run passes only where a start in the past is kept, and reports a        *)
(* dropped one only where it is not, but for one case.  The start that is  *)
(* compared to the minute of the backdate is that of the earliest row that *)
(* was read.  When the trace was dated into the last 120 ms of a minute    *)
(* and the child alone was readable, that row starts in the next minute.   *)
VerdictAboutHost ==
  \A r \in Run :
    /\ probe[r] = "passed" => host = "keeps"
    /\ probe[r] = "dropped" => host = "drops" \/ r \in late \cap rootless

(* Every verdict rests on a write Langfuse acknowledged and on readings    *)
(* none of which met an error response: request_retry returns the last     *)
(* error response, so each of its callers has to look at the status.       *)
VerdictEarned ==
  \A r \in Run : probe[r] \in Verdicts => r \in acked \ erred

(* A reading that ended before the cap holds every row that was readable   *)
(* when it began, although rows appear between its pages (read.py:545).    *)
ReadComplete == missed = {}

(* No probe writes to a project the hint does not name (ingest.py:387). *)
GuardrailHolds == stored # {} => demo

(* A probe that was started returns or raises. *)
ProbeEnds == \A r \in Run : (probe[r] \in Busy) ~> (probe[r] \in Over)
=============================================================================
