-------------------------- MODULE AdapterClients --------------------------
(***************************************************************************)
(* The clients a CompanionAdapter hands out to the threads of a Surface:   *)
(* langfuse(), native_llm(), llm_for(), native_llm_for() under one         *)
(* reentrant construction lock, llm() and LLMClient._client() without one, *)
(* and readiness(), which goes through them.                               *)
(*                                                                         *)
(* A call is a tuple: <<"langfuse">> (langfuse() or emitter()),            *)
(* <<"native", m>>, <<"bind", m>> (llm(m), whose client is then used),     *)
(* <<"role", r>> (native_llm_for(r)), <<"rolebind", r>> (llm_for(r),       *)
(* likewise), <<"ping">> (write_ping), <<"identity", m>> (llm(m), for the  *)
(* detail of a readiness report), or << >> outside of any call.            *)
(* Clients are numbered as they are built for a key; 0 is None.            *)
(***************************************************************************)
EXTENDS Integers, Sequences, FiniteSets

CONSTANTS
  Thread,        \* the Surface's threads, a health probe among them
  Request,       \* models a caller may ask for
  Default,       \* the request that names none
  Resolve,       \* the (provider, model) a request resolves to
  Role,          \* the deployment's LLM roles, in the order they are probed
  NativeRole,    \* those with a factory of their own
  Unkeyed,       \* keys whose provider credential is missing
  NativePrimary, \* a native_llm_factory is configured
  CustomTracer,  \* a langfuse_factory is configured
  PrimaryRequired, \* readiness has to bind the primary model
  Offered,       \* bound: the calls the Surface's threads make
  MaxCalls,      \* bound: calls per thread
  Nobody         \* the owner of a free lock

Roles == {Role[k] : k \in DOMAIN Role}

ASSUME ClientsAssumption ==
  /\ Default \in Request /\ DOMAIN Resolve = Request
  /\ Role \in Seq(Roles) /\ NativeRole \subseteq Roles /\ Nobody \notin Thread
  /\ IsFiniteSet(Thread) /\ MaxCalls \in [Thread -> Nat]
  /\ {NativePrimary, CustomTracer, PrimaryRequired} \subseteq BOOLEAN

ASSUME OfferedAssumption ==
  Offered \subseteq {<<"langfuse">>} \cup ({"native", "bind"} \X Request)
                      \cup ({"role"} \X NativeRole) \cup ({"rolebind"} \X Roles)

VARIABLES
  owner,    \* _construction_lock
  cache,    \* _langfuse, _native_llm, _role_native, _role_llm
  llm,      \* _llm: the LLMClient of each request
  impl,     \* LLMClient._impl of each LLMClient
  pc, call, hand,   \* per thread: where, in which call, the LLMClient in hand
  todo, report,     \* per thread: the rest of readiness(), and its verdict
  count     \* bound: calls begun per thread

inCall == <<call, hand, report>>
vars == <<owner, cache, llm, impl, pc, inCall, todo, count>>

Key ==
  {<<"langfuse">>} \cup {<<"native", Resolve[m]>> : m \in Request}
    \cup {<<"role", r>> : r \in NativeRole} \cup {<<"rolellm", r>> : r \in Roles}

(* LLMClient objects: one per thread that may construct for a request, and *)
(* the one of each role.                                                   *)
Obj == (Request \X (1..Cardinality(Thread))) \cup {<<r>> : r \in Roles}

KeyOf(c) ==
  CASE c[1] = "native" -> <<"native", Resolve[c[2]]>>
    [] c[1] = "rolebind" -> <<"rolellm", c[2]>>
    [] OTHER -> c

(* The probes of readiness(), in its order. *)
Probes ==
  (IF CustomTracer THEN << <<"langfuse">> >> ELSE << >>)
    \o << <<"ping">> >>
    \o (IF ~PrimaryRequired THEN << >>
        ELSE IF NativePrimary THEN << <<"native", Default>> >>
        ELSE << <<"bind", Default>> >>)
    \o (IF PrimaryRequired THEN << <<"identity", Default>> >> ELSE << >>)
    \o [k \in DOMAIN Role |-> <<IF Role[k] \in NativeRole THEN "role" ELSE "rolebind",
                                Role[k]>>]

Side(c) == IF c[1] \in {"langfuse", "ping"} THEN "write" ELSE "bound"

NoReport == [write |-> FALSE, bound |-> FALSE, probing |-> FALSE]

Init ==
  /\ owner = Nobody
  /\ cache = [k \in Key |-> 0]
  /\ llm = [m \in Request |-> 0]
  /\ impl = [o \in Obj |-> 0]
  /\ pc = [t \in Thread |-> "idle"]
  /\ call = [t \in Thread |-> << >>]
  /\ hand = [t \in Thread |-> << >>]
  /\ todo = [t \in Thread |-> << >>]
  /\ report = [t \in Thread |-> NoReport]
  /\ count = [t \in Thread |-> 0]

-----------------------------------------------------------------------------
Move(t, label) == pc' = [pc EXCEPT ![t] = label]
Go(t, label) == Move(t, label) /\ UNCHANGED inCall

(* A call returns or raises; readiness keeps the conjunction of its probes. *)
VerdictOfLast(t, ok) ==
  IF report[t].probing THEN [report EXCEPT ![t][Side(call[t])] = ok] ELSE report
Verdict(t, ok) ==
  IF report[t].probing THEN [report EXCEPT ![t][Side(call[t])] = @ /\ ok] ELSE report
Finish(t, ok) ==
  /\ Move(t, IF report[t].probing THEN "probe" ELSE "idle")
  /\ report' = Verdict(t, ok)
  /\ call' = [call EXCEPT ![t] = << >>]
  /\ hand' = [hand EXCEPT ![t] = << >>]

Entry(c) ==
  CASE c[1] \in {"bind", "identity"} -> "check"
    [] c[1] = "ping" -> "ping"
    [] OTHER -> "lock"

Begin(t, c) ==
  /\ pc[t] = "idle" /\ count[t] < MaxCalls[t]
  /\ count' = [count EXCEPT ![t] = @ + 1]
  /\ call' = [call EXCEPT ![t] = c]
  /\ Move(t, Entry(c))
  /\ UNCHANGED <<owner, cache, llm, impl, hand, report, todo>>

-----------------------------------------------------------------------------
(* llm(model): the membership test, the construction and the assignment,   *)
(* and the read that is returned are separate steps; no lock is held,      *)
(* unless native_llm is the caller.                                        *)

CheckLlm(t) ==
  /\ pc[t] = "check"
  /\ Go(t, IF llm[call[t][2]] # 0 THEN "read" ELSE "make")
  /\ UNCHANGED <<owner, cache, llm, impl, todo, count>>

MakeLlm(t) ==
  LET m == call[t][2] IN
  /\ pc[t] = "make"
  /\ llm' = [llm EXCEPT ![m] = @ + 1]
  /\ Go(t, "read")
  /\ UNCHANGED <<owner, cache, impl, todo, count>>

(* get_llm raises: LLM_PROVIDER is read at each call and may name none.    *)
(* native_llm then leaves the lock; _llm_identity swallows the error.      *)
LlmRaises(t) ==
  /\ pc[t] = "make"
  /\ owner' = IF call[t][1] = "native" THEN Nobody ELSE owner
  /\ Finish(t, call[t][1] = "identity")
  /\ UNCHANGED <<cache, llm, impl, todo, count>>

ReadLlm(t) ==
  LET m == call[t][2] IN
  /\ pc[t] = "read"
  /\ IF call[t][1] = "identity"
     THEN Finish(t, TRUE)
     ELSE /\ hand' = [hand EXCEPT ![t] = <<m, llm[m]>>]
          /\ Move(t, IF call[t][1] = "bind" THEN "impl" ELSE "lookup")
          /\ UNCHANGED <<call, report>>
  /\ UNCHANGED <<owner, cache, llm, impl, todo, count>>

(* LLMClient._client: the test, then the construction and the assignment. *)
CheckImpl(t) ==
  /\ pc[t] = "impl"
  /\ IF impl[hand[t]] # 0 THEN Finish(t, TRUE) ELSE Go(t, "sdk")
  /\ UNCHANGED <<owner, cache, llm, impl, todo, count>>

MakeImpl(t) ==
  /\ pc[t] = "sdk"
  /\ impl' = [impl EXCEPT ![hand[t]] = @ + 1]
  /\ Finish(t, TRUE)
  /\ UNCHANGED <<owner, cache, llm, todo, count>>

(* The SDK's constructor raises, for want of a credential. *)
ImplRaises(t) ==
  /\ pc[t] = "sdk"
  /\ Finish(t, FALSE)
  /\ UNCHANGED <<owner, cache, llm, impl, todo, count>>

-----------------------------------------------------------------------------
(* The accessors under the construction lock.                              *)

(* An RLock: its owner may take it again.  With a Lock it could not; with  *)
(* no lock at all anybody could.                                           *)
AcquirableOnce(t) == owner = Nobody
AcquirableAlways(t) == t = t
Acquirable(t) == owner \in {Nobody, t}

Enter(t) ==
  /\ pc[t] = "lock" /\ Acquirable(t)
  /\ owner' = t
  /\ Go(t, IF call[t][1] = "native" THEN "check" ELSE "lookup")
  /\ UNCHANGED <<cache, llm, impl, todo, count>>

(* The cached client is returned; a role's LLMClient is then bound. *)
Leave(t) ==
  /\ owner' = Nobody
  /\ IF call[t][1] = "rolebind"
     THEN /\ Move(t, "impl") /\ hand' = [hand EXCEPT ![t] = <<call[t][2]>>]
          /\ UNCHANGED <<call, report>>
     ELSE Finish(t, TRUE)

LookupHit(t) ==
  /\ pc[t] = "lookup" /\ cache[KeyOf(call[t])] # 0
  /\ Leave(t)
  /\ UNCHANGED <<cache, llm, impl, todo, count>>

LookupMissAlways(t) ==
  /\ pc[t] = "lookup"
  /\ Go(t, "build")
  /\ UNCHANGED <<owner, cache, llm, impl, todo, count>>
LookupMiss(t) ==
  /\ pc[t] = "lookup" /\ cache[KeyOf(call[t])] = 0
  /\ Go(t, "build")
  /\ UNCHANGED <<owner, cache, llm, impl, todo, count>>

Cached(k) == cache' = [cache EXCEPT ![k] = @ + 1]

(* The factory builds a client, which is cached and returned. *)
Build(t) ==
  LET k == KeyOf(call[t]) IN
  /\ \/ pc[t] = "build" /\ k \notin Unkeyed
     \/ pc[t] = "built"
  /\ Cached(k) /\ Leave(t)
  /\ UNCHANGED <<llm, impl, todo, count>>

(* Before it builds, a kit's factory may ask the adapter for its tracer:   *)
(* langfuse() again, by the thread that holds the lock.  No other thread   *)
(* can step in between, so the inner call is one step.                     *)
AskTracer(t) ==
  /\ pc[t] = "build" /\ call[t][1] \in {"native", "role"}
  /\ KeyOf(call[t]) \notin Unkeyed /\ <<"langfuse">> \notin Unkeyed
  /\ Go(t, "tracer")
  /\ UNCHANGED <<owner, cache, llm, impl, todo, count>>

Tracer(t) ==
  /\ pc[t] = "tracer" /\ Acquirable(t)
  /\ Go(t, "built")
  /\ IF cache[<<"langfuse">>] = 0 THEN Cached(<<"langfuse">>) ELSE UNCHANGED cache
  /\ UNCHANGED <<owner, llm, impl, todo, count>>

(* The credential is missing, the factory raises (its own error, or the     *)
(* one of its langfuse() call), or it returns None.                        *)
BuildRaises(t) ==
  /\ pc[t] \in {"build", "built"} /\ call[t][1] # "rolebind"
  /\ owner' = Nobody
  /\ Finish(t, FALSE)
  /\ UNCHANGED <<cache, llm, impl, todo, count>>

-----------------------------------------------------------------------------
(* readiness(), called by the health route. *)

BeginReadiness(t) ==
  /\ pc[t] = "idle" /\ count[t] < MaxCalls[t]
  /\ count' = [count EXCEPT ![t] = @ + 1]
  /\ todo' = [todo EXCEPT ![t] = Probes]
  /\ report' = [report EXCEPT ![t] = [write |-> TRUE, bound |-> TRUE, probing |-> TRUE]]
  /\ Move(t, "probe")
  /\ UNCHANGED <<owner, cache, llm, impl, call, hand>>

NextProbe(t) ==
  /\ pc[t] = "probe" /\ todo[t] # << >>
  /\ call' = [call EXCEPT ![t] = Head(todo[t])]
  /\ todo' = [todo EXCEPT ![t] = Tail(@)]
  /\ Move(t, Entry(Head(todo[t])))
  /\ UNCHANGED <<owner, cache, llm, impl, report, hand, count>>

Ping(t) ==
  /\ pc[t] = "ping"
  /\ Finish(t, TRUE) \/ Finish(t, FALSE)
  /\ UNCHANGED <<owner, cache, llm, impl, todo, count>>

EndReadiness(t) ==
  /\ pc[t] = "probe" /\ todo[t] = << >>
  /\ report' = [report EXCEPT ![t] = NoReport]
  /\ Move(t, "idle")
  /\ UNCHANGED <<owner, cache, llm, impl, call, hand, todo, count>>

Step(t) ==
  \/ CheckLlm(t) \/ MakeLlm(t) \/ LlmRaises(t) \/ ReadLlm(t) \/ CheckImpl(t) \/ MakeImpl(t)
  \/ ImplRaises(t) \/ Enter(t) \/ LookupHit(t) \/ LookupMiss(t) \/ Build(t)
  \/ AskTracer(t) \/ Tracer(t) \/ BuildRaises(t)
  \/ NextProbe(t) \/ Ping(t) \/ EndReadiness(t)

Quiet == \A t \in Thread : pc[t] = "idle" /\ count[t] = MaxCalls[t]

Next ==
  \/ \E t \in Thread : BeginReadiness(t) \/ Step(t) \/ \E c \in Offered : Begin(t, c)
  \/ Quiet /\ UNCHANGED vars

Spec == Init /\ [][Next]_vars

(* Every thread that is in a call is scheduled; factories and SDK          *)
(* constructors return or raise.                                           *)
FairSpec == Spec /\ \A t \in Thread : WF_vars(Step(t))

-----------------------------------------------------------------------------
TypeOK ==
  /\ owner \in Thread \cup {Nobody}
  /\ cache \in [Key -> Nat] /\ llm \in [Request -> 0..Cardinality(Thread)] /\ impl \in [Obj -> Nat]
  /\ pc \in [Thread -> {"idle", "check", "make", "read", "impl", "sdk", "lock",
                        "lookup", "build", "tracer", "built", "probe", "ping"}]
  /\ \A t \in Thread :
       call[t] \in Offered \cup {Probes[k] : k \in DOMAIN Probes} \cup {<< >>}
  /\ \A t \in Thread : hand[t] \in Obj \cup {<< >>}
  /\ report \in [Thread -> [write : BOOLEAN, bound : BOOLEAN, probing : BOOLEAN]]
  /\ \A t \in Thread : count[t] \in 0..MaxCalls[t]
  /\ owner # Nobody <=>
       \E t \in Thread : pc[t] \in {"lookup", "build", "tracer", "built"}
                         \/ /\ pc[t] \in {"check", "make", "read"}
                            /\ call[t][1] = "native"

(* Whatever the threads' timing and whichever factories failed before, one *)
(* client is built for a key; a caller of a locked accessor holds it.      *)
OneClientPerKey == \A k \in Key : cache[k] <= 1

(* A readiness report that says "bound" or "write path ok" was earned: the *)
(* clients it speaks of are constructed, every role's among them.          *)
PrimaryBound ==
  IF NativePrimary THEN cache[<<"native", Resolve[Default]>>] # 0
  ELSE \E n \in 1..Cardinality(Thread) : impl[<<Default, n>>] # 0
RoleBound(r) ==
  IF r \in NativeRole THEN cache[<<"role", r>>] # 0 ELSE impl[<<r>>] # 0
ReadinessHonest ==
  \A t \in Thread : pc[t] = "probe" /\ todo[t] = << >> =>
    /\ report[t].bound =>
         (PrimaryRequired => PrimaryBound) /\ \A r \in Roles : RoleBound(r)
    /\ report[t].write /\ CustomTracer => cache[<<"langfuse">>] # 0

(* Every call, readiness() included, returns or raises. *)
CallsEnd == \A t \in Thread : pc[t] # "idle" ~> pc[t] = "idle"
=============================================================================
