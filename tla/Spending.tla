------------------------------ MODULE Spending ------------------------------
(***************************************************************************)
(* The spending check before a paid operation (companion/spending.py and   *)
(* CompanionAdapter.check_spending): one request over the private bridge,  *)
(* read byte by byte against a size limit and a deadline.  What the bridge *)
(* does is not known: it may answer anything, slowly, or not at all.       *)
(***************************************************************************)
EXTENDS Naturals

CONSTANTS
  Caller,     \* who calls check_spending
  Deadline,   \* the five seconds of a check
  Timeout,    \* the two seconds requests waits for the next bytes
  Parts       \* what of an answer's body the size limit is measured in

VARIABLES check    \* the check of each caller

ASSUME SpendingAssumption == Deadline \in Nat /\ Timeout \in Nat /\ Parts \in Nat

Provider == {"anthropic", "openai"}
Source == {"shared", "environment"}
ScopeOf(source) == IF source = "shared" THEN "shared-company" ELSE "external-provider"
Denials == {"cap_exhausted", "instance_inactive", "provider_unbound", "unauthorized"}

(* Answers: a status and a body, which is an object or something else.  A  *)
(* body's zone says whether its time stamp has one.                        *)
Permit(p, s) == [status |-> 200, size |-> 1, object |-> TRUE, reason |-> "none",
                 allowed |-> TRUE, provider |-> p, source |-> s,
                 scope |-> ScopeOf(s), zone |-> TRUE]
Answer == [status : {200, 302, 401, 403, 409, 503}, size : 1..Parts + 1,
           object : BOOLEAN, reason : Denials \cup {"none"}, allowed : BOOLEAN,
           provider : Provider, source : Source, scope : {ScopeOf(x) : x \in Source},
           zone : BOOLEAN]

NoAnswer == [status |-> 0]
(* A check: `heard` is when the last byte of the body had come.            *)
Unasked == [at |-> "none", provider |-> "none", answer |-> NoAnswer,
            read |-> 0, elapsed |-> 0, heard |-> 0, reason |-> "none"]
Checked == {"none", "allowed", "denied", "unavailable"}

Ends(q, how) == check' = [check EXCEPT ![q].at = how]

(* The provider asked about, or the selected one; what the worker injected *)
(* has to name this instance's own permit route.                           *)
Ask(q, provider, configured) ==
  /\ check[q].at \in Checked
  /\ check' = [check EXCEPT ![q] = [Unasked EXCEPT !.provider = provider,
       !.at = IF configured /\ provider \in Provider THEN "sent" ELSE "unavailable"]]

(* Connecting takes a timeout at most.  Headers that drip take any time,   *)
(* because each byte of theirs starts the read timeout anew, and so does   *)
(* what frames the body: a chunk's length before a byte of it, and the     *)
(* terminator and trailers after the last one, where nobody looks at the   *)
(* deadline any more.                                                      *)
Waits == {0, Timeout, 2 * Timeout, Deadline + 1}
Headers(q, answer, wait) ==
  /\ check[q].at = "sent"
  /\ check' = [check EXCEPT ![q].at = "body", ![q].answer = answer, ![q].elapsed = wait]

Late(q, wait) == check[q].elapsed + wait > Deadline
TooLong(q) == check[q].read + 1 > Parts

ReadPart(q, wait) ==
  /\ check[q].at = "body" /\ check[q].read < check[q].answer.size
  /\ check' = [check EXCEPT ![q].read = @ + 1, ![q].elapsed = @ + wait,
       ![q].heard = check[q].elapsed + wait,
       ![q].at = IF TooLong(q) \/ Late(q, wait) THEN "unavailable" ELSE @]

(* What is refused of a 200: a field too many, such as a reason, as well.  *)
AnyProvider(a, provider) ==   \* a permit for another provider will do
  \/ a.status # 200 \/ ~a.object \/ ~a.allowed \/ a.scope # ScopeOf(a.source)
  \/ a.reason # "none" \/ ~a.zone
Unverifiable(a, provider) ==
  \/ a.status # 200 \/ ~a.object \/ ~a.allowed \/ a.provider # provider
  \/ a.scope # ScopeOf(a.source) \/ a.reason # "none" \/ ~a.zone
Denies(a) == a.status \in {401, 403, 409} /\ a.object
DenialReason(a) == IF a.reason \in Denials THEN a.reason ELSE "unauthorized"

Verdict(a, provider) ==
  IF Denies(a) THEN "denied"
  ELSE IF Unverifiable(a, provider) THEN "unavailable" ELSE "allowed"

EndOfBody(q, wait) ==
  LET c == check[q] IN
  /\ c.at = "body" /\ c.read = c.answer.size
  /\ check' = [check EXCEPT ![q].elapsed = @ + wait,
       ![q].at = Verdict(c.answer, c.provider),
       ![q].reason = IF Denies(c.answer) THEN DenialReason(c.answer) ELSE "none"]

(* A timeout, a broken connection, a body that is no JSON.                 *)
TransportFails(q) == check[q].at \in {"sent", "body"} /\ Ends(q, "unavailable")

SpendingInit == check = [q \in Caller |-> Unasked]
=============================================================================
