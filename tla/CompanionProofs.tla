-------------------------- MODULE CompanionProofs --------------------------
(***************************************************************************)
(* One client per key and an honest readiness report, for any number of    *)
(* threads, models and roles, whatever the factories do; and what the      *)
(* deadline of forward_otel promises its caller.                           *)
(***************************************************************************)
EXTENDS AdapterClients, OtelDeadline, SequenceTheorems, FiniteSetTheorems, TLAPS

N == Cardinality(Thread)
Ran(s) == {s[i] : i \in DOMAIN s}
ProbeSet == {Probes[k] : k \in DOMAIN Probes}
Kind == {"langfuse", "ping", "native", "bind", "identity", "role", "rolebind"}
Calls ==
  {<<"langfuse">>, <<"ping">>} \cup ({"native", "bind", "identity"} \X Request)
    \cup ({"role"} \X NativeRole) \cup ({"rolebind"} \X Roles)
Place == {"idle", "check", "make", "read", "impl", "sdk", "lock",
          "lookup", "build", "tracer", "built", "probe", "ping"}
Report == [write : BOOLEAN, bound : BOOLEAN, probing : BOOLEAN]

Typed ==
  /\ owner \in Thread \cup {Nobody}
  /\ cache \in [Key -> Nat] /\ llm \in [Request -> Nat] /\ impl \in [Obj -> Nat]
  /\ pc \in [Thread -> Place]
  /\ call \in [Thread -> Offered \cup ProbeSet \cup {<< >>}]
  /\ hand \in [Thread -> Obj \cup {<< >>}]
  /\ todo \in [Thread -> Seq(ProbeSet)]
  /\ report \in [Thread -> Report]
  /\ count \in [Thread -> Nat] /\ \A t \in Thread : count[t] <= MaxCalls[t]

(* Who holds the lock is inside an accessor, and the other way round.      *)
Holding(t) ==
  \/ pc[t] \in {"lookup", "build", "tracer", "built"}
  \/ pc[t] \in {"check", "make", "read"} /\ call[t][1] = "native"
LockInv == \A t \in Thread : Holding(t) <=> owner = t

(* The call a thread is in at each place, and what it has in hand.         *)
CallInv(t) ==
  /\ pc[t] \notin {"idle", "probe"} => call[t] \in Calls
  /\ pc[t] \in {"lock", "lookup", "build"} =>
       call[t][1] \in {"langfuse", "native", "role", "rolebind"}
  /\ pc[t] \in {"tracer", "built"} => call[t][1] \in {"native", "role"}
  /\ pc[t] \in {"check", "make", "read"} => call[t][1] \in {"bind", "identity", "native"}
  /\ pc[t] \in {"impl", "sdk"} =>
       \/ call[t][1] = "bind" /\ hand[t] \in {call[t][2]} \X (1..N)
       \/ call[t][1] = "rolebind" /\ hand[t] = <<call[t][2]>>
  /\ pc[t] = "ping" => call[t][1] = "ping"
  /\ pc[t] = "read" => llm[call[t][2]] # 0

(* A factory runs for a key that has no client.                            *)
MissInv(t) == pc[t] \in {"build", "tracer", "built"} => cache[KeyOf(call[t])] = 0

(* What a probe that ended well has shown.                                 *)
Earned(c) ==
  /\ c[1] \in {"langfuse", "native", "role"} => cache[KeyOf(c)] # 0
  /\ c[1] = "bind" => \E n \in 1..N : impl[<<c[2], n>>] # 0
  /\ c[1] = "rolebind" => impl[<<c[2]>>] # 0

(* A report speaks of the probes that are over.                            *)
ProbeInv(t) ==
  /\ pc[t] = "probe" => report[t].probing
  /\ pc[t] = "idle" => ~report[t].probing
  /\ report[t].probing =>
       \A c \in ProbeSet : \/ c \in Ran(todo[t])
                           \/ pc[t] # "probe" /\ call[t] = c
                           \/ report[t][Side(c)] => Earned(c)

(* The threads that found no LLMClient for a request can still make one    *)
(* each, so an object of the model is left for each of them.               *)
Making(m) == {t \in Thread : pc[t] = "make" /\ call[t][2] = m}
RoomInv == \A m \in Request : llm[m] + Cardinality(Making(m)) <= N

Inv ==
  /\ Typed /\ LockInv /\ RoomInv /\ OneClientPerKey
  /\ \A t \in Thread : CallInv(t) /\ MissInv(t) /\ ProbeInv(t)

-----------------------------------------------------------------------------
(* Sequences and what they hold.                                           *)
LEMMA RanConcat ==
  ASSUME NEW S, NEW a \in Seq(S), NEW b \in Seq(S)
  PROVE  a \o b \in Seq(S) /\ Ran(a \o b) = Ran(a) \cup Ran(b)
<1> DEFINE c == a \o b
<1>1. /\ c \in Seq(S) /\ Len(c) = Len(a) + Len(b)
      /\ \A i \in 1..Len(a) + Len(b) : c[i] = IF i <= Len(a) THEN a[i] ELSE b[i - Len(a)]
      /\ Len(a) \in Nat /\ Len(b) \in Nat /\ DOMAIN a = 1..Len(a) /\ DOMAIN b = 1..Len(b)
  BY ConcatProperties, LenProperties
<1>2. DOMAIN c = 1..Len(c)
  BY <1>1, LenProperties
<1> HIDE DEF c
<1>3. ASSUME NEW i \in 1..Len(a) PROVE a[i] \in Ran(c)
  <2>1. i \in DOMAIN c /\ c[i] = a[i]
    BY <1>1, <1>2
  <2> QED
    BY <2>1 DEF Ran
<1>4. ASSUME NEW i \in 1..Len(b) PROVE b[i] \in Ran(c)
  <2>1. Len(a) + i \in DOMAIN c /\ c[Len(a) + i] = b[i]
    BY <1>1, <1>2
  <2> QED
    BY <2>1 DEF Ran
<1>5. ASSUME NEW i \in DOMAIN c PROVE c[i] \in Ran(a) \cup Ran(b)
  <2>1. i \in 1..Len(a) + Len(b)
    BY <1>1, <1>2
  <2>2. CASE i <= Len(a)
    BY <1>1, <2>1, <2>2 DEF Ran
  <2>3. CASE ~(i <= Len(a))
    <3>1. c[i] = b[i - Len(a)] /\ i - Len(a) \in 1..Len(b)
      BY <1>1, <2>1, <2>3
    <3> QED
      BY <1>1, <3>1 DEF Ran
  <2> QED
    BY <2>2, <2>3
<1> QED
  BY <1>1, <1>3, <1>4, <1>5 DEF Ran, c

LEMMA RanSingle ==
  ASSUME NEW a
  PROVE  Ran(<<a>>) = {a} /\ Ran(<< >>) = {}
BY DEF Ran

LEMMA RanTail ==
  ASSUME NEW S, NEW s \in Seq(S), s # << >>
  PROVE  /\ Head(s) \in S /\ Tail(s) \in Seq(S)
         /\ Ran(s) \subseteq {Head(s)} \cup Ran(Tail(s))
<1>1. /\ Head(s) \in S /\ Tail(s) \in Seq(S) /\ Len(Tail(s)) = Len(s) - 1
      /\ \A i \in 1..Len(Tail(s)) : Tail(s)[i] = s[i + 1]
      /\ Len(s) \in Nat /\ DOMAIN s = 1..Len(s) /\ DOMAIN Tail(s) = 1..Len(Tail(s))
  BY HeadTailProperties, LenProperties
<1>2. ASSUME NEW i \in 1..Len(s), i # 1 PROVE s[i] \in Ran(Tail(s))
  <2>1. i - 1 \in DOMAIN Tail(s) /\ Tail(s)[i - 1] = s[i]
    BY <1>1, <1>2
  <2> QED
    BY <2>1 DEF Ran
<1>3. Head(s) = s[1]
  OBVIOUS
<1> QED
  BY <1>1, <1>2, <1>3 DEF Ran

-----------------------------------------------------------------------------
(* What readiness() probes.                                                *)
RoleProbes == [k \in DOMAIN Role |-> <<IF Role[k] \in NativeRole THEN "role" ELSE "rolebind", Role[k]>>]
RoleCall(r) == <<IF r \in NativeRole THEN "role" ELSE "rolebind", r>>

LEMMA RoleProbesRan ==
  /\ RoleProbes \in Seq(Calls) /\ Ran(RoleProbes) = {RoleCall(r) : r \in Roles}
<1>1. Role \in Seq(Roles) /\ Len(Role) \in Nat /\ DOMAIN Role = 1..Len(Role)
  BY ClientsAssumption, LenProperties
<1>2. ASSUME NEW k \in 1..Len(Role)
      PROVE  Role[k] \in Roles /\ RoleProbes[k] = RoleCall(Role[k])
  BY <1>1 DEF Roles, RoleProbes, RoleCall
<1>3. ASSUME NEW r \in Roles PROVE RoleCall(r) \in Calls
  BY DEF RoleCall, Calls
<1>4. RoleProbes = [k \in 1..Len(Role) |-> RoleProbes[k]]
  BY <1>1 DEF RoleProbes
<1>5. RoleProbes \in [1..Len(Role) -> Calls]
  BY <1>2, <1>3, <1>4
<1>6. RoleProbes \in Seq(Calls)
  BY <1>1, <1>5, SeqDef
<1>7. DOMAIN RoleProbes = 1..Len(Role)
  BY <1>5
<1> QED
  BY <1>1, <1>2, <1>6, <1>7 DEF Ran, Roles

LEMMA WhatIsProbed ==
  /\ Probes \in Seq(ProbeSet) /\ Ran(Probes) = ProbeSet /\ ProbeSet \subseteq Calls
  /\ CustomTracer => <<"langfuse">> \in ProbeSet
  /\ PrimaryRequired => (IF NativePrimary THEN <<"native", Default>> ELSE <<"bind", Default>>)
                          \in ProbeSet
  /\ \A r \in Roles : RoleCall(r) \in ProbeSet
<1> DEFINE a == IF CustomTracer THEN << <<"langfuse">> >> ELSE << >>
           b == << <<"ping">> >>
           c == IF ~PrimaryRequired THEN << >>
                ELSE IF NativePrimary THEN << <<"native", Default>> >>
                ELSE << <<"bind", Default>> >>
           d == IF PrimaryRequired THEN << <<"identity", Default>> >> ELSE << >>
           e == RoleProbes
<1>1. Default \in Request
  BY ClientsAssumption
<1>2. a \in Seq(Calls) /\ (CustomTracer => <<"langfuse">> \in Ran(a))
  <2>1. << <<"langfuse">> >> \in Seq(Calls) /\ << >> \in Seq(Calls)
    BY EmptySeq DEF Calls
  <2> QED
    BY <2>1, RanSingle
<1>3. b \in Seq(Calls)
  BY DEF Calls
<1>4. /\ c \in Seq(Calls)
      /\ PrimaryRequired => (IF NativePrimary THEN <<"native", Default>> ELSE <<"bind", Default>>)
                              \in Ran(c)
  <2>1. <<"native", Default>> \in Calls /\ <<"bind", Default>> \in Calls
    BY <1>1 DEF Calls
  <2> QED
    BY <2>1, EmptySeq, RanSingle
<1>5. d \in Seq(Calls)
  <2>1. <<"identity", Default>> \in Calls
    BY <1>1 DEF Calls
  <2>2. << <<"identity", Default>> >> \in Seq(Calls) /\ << >> \in Seq(Calls)
    BY <2>1, EmptySeq
  <2> QED
    BY <2>2
<1>6. e \in Seq(Calls) /\ Ran(e) = {RoleCall(r) : r \in Roles}
  BY RoleProbesRan
<1>7. Probes = a \o b \o c \o d \o e
  BY DEF Probes, RoleProbes
<1> HIDE DEF a, b, c, d, e
<1> DEFINE ab == a \o b
           abc == ab \o c
           abcd == abc \o d
<1>8. ab \in Seq(Calls) /\ Ran(ab) = Ran(a) \cup Ran(b)
  BY <1>2, <1>3, RanConcat
<1> HIDE DEF ab
<1>9. abc \in Seq(Calls) /\ Ran(abc) = Ran(ab) \cup Ran(c)
  BY <1>4, <1>8, RanConcat
<1> HIDE DEF abc
<1>10. abcd \in Seq(Calls) /\ Ran(abcd) = Ran(abc) \cup Ran(d)
  BY <1>5, <1>9, RanConcat
<1> HIDE DEF abcd
<1>11. /\ Probes \in Seq(Calls)
       /\ Ran(Probes) = Ran(a) \cup Ran(b) \cup Ran(c) \cup Ran(d) \cup Ran(e)
  <2>1. Probes = abcd \o e
    BY <1>7 DEF ab, abc, abcd
  <2>2. Probes \in Seq(Calls) /\ Ran(Probes) = Ran(abcd) \cup Ran(e)
    BY <1>6, <1>10, <2>1, RanConcat
  <2> QED
    BY <1>8, <1>9, <1>10, <2>2
<1>12. ProbeSet = Ran(Probes)
  BY DEF ProbeSet, Ran
<1>13. DOMAIN Probes = 1..Len(Probes) /\ Len(Probes) \in Nat
       /\ \A k \in 1..Len(Probes) : Probes[k] \in Calls
  BY <1>11, LenProperties, ElementOfSeq
<1>14. Probes \in Seq(ProbeSet)
  <2>1. Probes = [k \in 1..Len(Probes) |-> Probes[k]]
    BY <1>11, LenProperties
  <2>2. Probes \in [1..Len(Probes) -> ProbeSet]
    BY <1>13, <2>1 DEF ProbeSet
  <2> QED
    BY <1>13, <2>2, SeqDef
<1>15. ProbeSet \subseteq Calls
  BY <1>13 DEF ProbeSet
<1> QED
  BY <1>2, <1>4, <1>6, <1>11, <1>12, <1>14, <1>15

(* Calls, the places they begin at and the keys they are about.            *)
LEMMA CallTypes ==
  /\ Offered \cup ProbeSet \subseteq Calls
  /\ \A c \in Calls :
       /\ c[1] \in Kind
       /\ c[1] = "langfuse" => c = <<"langfuse">>
       /\ c[1] \in {"native", "bind", "identity"} => c = <<c[1], c[2]>> /\ c[2] \in Request
       /\ c[1] = "role" => c = <<c[1], c[2]>> /\ c[2] \in NativeRole
       /\ c[1] = "rolebind" => c = <<c[1], c[2]>> /\ c[2] \in Roles
<1>1. Offered \subseteq Calls
  BY OfferedAssumption DEF Calls
<1>2. ASSUME NEW c \in Calls
      PROVE  /\ c[1] \in Kind
             /\ c[1] = "langfuse" => c = <<"langfuse">>
             /\ c[1] \in {"native", "bind", "identity"} => c = <<c[1], c[2]>> /\ c[2] \in Request
             /\ c[1] = "role" => c = <<c[1], c[2]>> /\ c[2] \in NativeRole
             /\ c[1] = "rolebind" => c = <<c[1], c[2]>> /\ c[2] \in Roles
  <2>1. CASE c \in {<<"langfuse">>, <<"ping">>}
    BY <2>1 DEF Kind
  <2>2. CASE c \in {"native", "bind", "identity"} \X Request
    BY <2>2 DEF Kind
  <2>3. CASE c \in {"role"} \X NativeRole
    BY <2>3 DEF Kind
  <2>4. CASE c \in {"rolebind"} \X Roles
    BY <2>4 DEF Kind
  <2> QED
    BY <2>1, <2>2, <2>3, <2>4 DEF Calls
<1> QED
  BY <1>1, <1>2, WhatIsProbed

LEMMA KeyTypes ==
  ASSUME NEW c \in Calls, c[1] \in {"langfuse", "native", "role", "rolebind"}
  PROVE  /\ KeyOf(c) \in Key
         /\ c[1] \in {"native", "role"} => KeyOf(c) # <<"langfuse">>
<1>1. CASE c[1] = "langfuse"
  BY <1>1, CallTypes DEF KeyOf, Key
<1>2. CASE c[1] = "native"
  BY <1>2, CallTypes DEF KeyOf, Key
<1>3. CASE c[1] = "role"
  <2>1. KeyOf(c) = <<"role", c[2]>> /\ c[2] \in NativeRole
    BY <1>3, CallTypes DEF KeyOf
  <2> QED
    BY <2>1 DEF Key
<1>4. CASE c[1] = "rolebind"
  BY <1>4, CallTypes DEF KeyOf, Key
<1> QED
  BY <1>1, <1>2, <1>3, <1>4

-----------------------------------------------------------------------------
(* A step of one thread: the others keep what is theirs, and nothing that  *)
(* was constructed goes away.                                              *)
Apart(t) ==
  \A u \in Thread \ {t} :
    /\ pc'[u] = pc[u] /\ call'[u] = call[u] /\ hand'[u] = hand[u]
    /\ todo'[u] = todo[u] /\ report'[u] = report[u]
Grown ==
  /\ \A k \in Key : cache[k] # 0 => cache'[k] # 0
  /\ \A m \in Request : llm[m] # 0 => llm'[m] # 0
  /\ \A o \in Obj : impl[o] # 0 => impl'[o] # 0

LEMMA Numbers == N \in Nat /\ Nobody \notin Thread
BY ClientsAssumption, FS_CardinalityType DEF N

LEMMA EarnedStays ==
  ASSUME Grown, NEW c \in Calls, Earned(c)
  PROVE  Earned(c)'
<1>1. c[1] \in {"langfuse", "native", "role"} => KeyOf(c) \in Key /\ cache[KeyOf(c)] # 0
  BY KeyTypes DEF Earned
<1>2. c[1] \in {"langfuse", "native", "role"} => cache'[KeyOf(c)] # 0
  BY <1>1 DEF Grown
<1>3. ASSUME c[1] = "bind" PROVE \E n \in 1..N : impl'[<<c[2], n>>] # 0
  <2>1. PICK n \in 1..N : impl[<<c[2], n>>] # 0
    BY <1>3 DEF Earned
  <2>2. <<c[2], n>> \in Obj
    BY <1>3, CallTypes DEF Obj, N
  <2> QED
    BY <2>1, <2>2 DEF Grown
<1>4. ASSUME c[1] = "rolebind" PROVE impl'[<<c[2]>>] # 0
  <2>1. <<c[2]>> \in Obj /\ impl[<<c[2]>>] # 0
    BY <1>4, CallTypes DEF Obj, Earned
  <2> QED
    BY <2>1 DEF Grown
<1> QED
  BY <1>2, <1>3, <1>4 DEF Earned, KeyOf

LEMMA OthersKeep ==
  ASSUME Inv, NEW t \in Thread, Apart(t), Grown, UNCHANGED cache \/ Holding(t),
         NEW u \in Thread, u # t
  PROVE  CallInv(u)' /\ MissInv(u)' /\ ProbeInv(u)'
<1>1. /\ pc'[u] = pc[u] /\ call'[u] = call[u] /\ hand'[u] = hand[u]
      /\ todo'[u] = todo[u] /\ report'[u] = report[u]
  BY DEF Apart
<1>2. CallInv(u) /\ MissInv(u) /\ ProbeInv(u)
  BY DEF Inv
<1>3. CallInv(u)'
  <2>1. pc[u] = "read" => call[u][2] \in Request
    BY <1>2, CallTypes DEF CallInv
  <2>2. pc[u] = "read" => llm'[call[u][2]] # 0
    BY <1>2, <2>1 DEF CallInv, Grown
  <2> QED
    BY <1>1, <1>2, <2>2 DEF CallInv
<1>4. MissInv(u)'
  <2>1. CASE UNCHANGED cache
    BY <1>1, <1>2, <2>1 DEF MissInv, KeyOf
  <2>2. CASE Holding(t)
    <3>1. ~Holding(u)
      BY <2>2 DEF Inv, LockInv
    <3> QED
      BY <1>1, <3>1 DEF MissInv, Holding
  <2> QED
    BY <2>1, <2>2
<1>5. ProbeInv(u)'
  <2>1. ASSUME NEW c \in ProbeSet, report[u][Side(c)] => Earned(c)
        PROVE  report[u][Side(c)] => Earned(c)'
    BY <2>1, EarnedStays, WhatIsProbed
  <2> QED
    BY <1>1, <1>2, <2>1 DEF ProbeInv, Ran, Side
<1> QED
  BY <1>3, <1>4, <1>5

LEMMA Together ==
  ASSUME Inv, NEW t \in Thread, Apart(t), Grown, UNCHANGED cache \/ Holding(t),
         Typed', LockInv', RoomInv', OneClientPerKey',
         CallInv(t)', MissInv(t)', ProbeInv(t)'
  PROVE  Inv'
<1>1. \A u \in Thread : CallInv(u)' /\ MissInv(u)' /\ ProbeInv(u)'
  BY OthersKeep
<1> QED
  BY <1>1 DEF Inv

(* The lock: kept, taken when it is free, or given back.                   *)
LEMMA LockMoves ==
  ASSUME Inv, NEW t \in Thread, Apart(t),
         \/ UNCHANGED owner /\ (Holding(t)' <=> Holding(t))
         \/ Acquirable(t) /\ owner' = t /\ Holding(t)'
         \/ Holding(t) /\ owner' = Nobody /\ ~Holding(t)'
  PROVE  LockInv'
<1>1. \A u \in Thread \ {t} : Holding(u)' <=> Holding(u)
  BY DEF Apart, Holding
<1>2. \A u \in Thread : Holding(u) <=> owner = u
  BY DEF Inv, LockInv
<1>3. CASE UNCHANGED owner /\ (Holding(t)' <=> Holding(t))
  BY <1>1, <1>2, <1>3 DEF LockInv
<1>4. CASE Acquirable(t) /\ owner' = t /\ Holding(t)'
  BY <1>1, <1>2, <1>4, Numbers DEF LockInv, Acquirable
<1>5. CASE Holding(t) /\ owner' = Nobody /\ ~Holding(t)'
  BY <1>1, <1>2, <1>5, Numbers DEF LockInv
<1> QED
  BY <1>3, <1>4, <1>5

(* No thread joins those that are making an LLMClient.                     *)
LEMMA RoomStays ==
  ASSUME Inv, NEW t \in Thread, Apart(t), UNCHANGED llm, pc'[t] # "make"
  PROVE  RoomInv'
<1> SUFFICES ASSUME NEW m \in Request
             PROVE  llm[m] + Cardinality(Making(m)') <= N
  BY DEF RoomInv, N
<1>1. Making(m) \in SUBSET Thread /\ Making(m)' \in SUBSET Making(m)
  BY DEF Making, Apart
<1>2. IsFiniteSet(Making(m))
  BY <1>1, ClientsAssumption, FS_Subset
<1>3. /\ Cardinality(Making(m)') <= Cardinality(Making(m))
      /\ IsFiniteSet(Making(m)')
  BY <1>1, <1>2, FS_Subset
<1>4. Cardinality(Making(m)') \in Nat /\ Cardinality(Making(m)) \in Nat
  BY <1>2, <1>3, FS_CardinalityType
<1>5. llm[m] \in Nat /\ llm[m] + Cardinality(Making(m)) <= N
  BY DEF Inv, Typed, RoomInv
<1> QED
  BY <1>3, <1>4, <1>5, Numbers

(* A thread goes on within its call.                                       *)
LEMMA GoesOn ==
  ASSUME Inv, NEW t \in Thread, NEW label \in Place \ {"idle", "probe"},
         pc[t] \notin {"idle", "probe"}, Move(t, label), UNCHANGED <<call, report, todo>>,
         \A u \in Thread \ {t} : hand'[u] = hand[u], Grown
  PROVE  /\ Apart(t) /\ pc'[t] = label /\ pc' \in [Thread -> Place] /\ ProbeInv(t)'
         /\ call' \in [Thread -> Offered \cup ProbeSet \cup {<< >>}]
         /\ todo' \in [Thread -> Seq(ProbeSet)] /\ report' \in [Thread -> Report]
<1>1. pc \in [Thread -> Place] /\ pc' = [pc EXCEPT ![t] = label]
  BY DEF Inv, Typed, Move
<1>2. ASSUME NEW c \in ProbeSet, report[t][Side(c)] => Earned(c)
      PROVE  report[t][Side(c)] => Earned(c)'
  BY <1>2, EarnedStays, WhatIsProbed
<1>3. ProbeInv(t)
  BY DEF Inv
<1>4. pc'[t] = label /\ label \notin {"idle", "probe"} /\ pc' \in [Thread -> Place]
      /\ \A u \in Thread \ {t} : pc'[u] = pc[u]
  BY <1>1
<1>5. ProbeInv(t)'
  BY <1>2, <1>3, <1>4 DEF ProbeInv, Ran, Side
<1> QED
  BY <1>4, <1>5 DEF Apart, Inv, Typed

(* A call is over: what its probe reports is earned.                       *)
LEMMA ReportOf ==
  ASSUME Inv, NEW t \in Thread, NEW ok \in BOOLEAN, report' = Verdict(t, ok)
  PROVE  /\ report' \in [Thread -> Report]
         /\ \A u \in Thread \ {t} : report'[u] = report[u]
         /\ report'[t].probing = report[t].probing
         /\ \A s \in {"write", "bound"} : report'[t][s] => report[t][s]
         /\ report[t].probing /\ report'[t][Side(call[t])] => ok
<1>1. report \in [Thread -> Report] /\ report[t] \in Report
  BY DEF Inv, Typed
<1>2. CASE ~report[t].probing
  <2>1. report' = report
    BY <1>2 DEF Verdict
  <2> QED
    BY <1>1, <1>2, <2>1
<1>3. CASE report[t].probing /\ Side(call[t]) = "write"
  <2> DEFINE r == [report[t] EXCEPT !.write = @ /\ ok]
  <2>1. report' = [report EXCEPT ![t] = r]
    BY <1>1, <1>3 DEF Verdict
  <2>2. /\ r \in Report /\ r.probing = report[t].probing /\ r.bound = report[t].bound
        /\ r.write = (report[t].write /\ ok)
    BY <1>1 DEF Report
  <2> HIDE DEF r
  <2>3. report' \in [Thread -> Report] /\ report'[t] = r
        /\ \A u \in Thread \ {t} : report'[u] = report[u]
    BY <1>1, <2>1, <2>2
  <2> QED
    BY <1>3, <2>2, <2>3
<1>4. CASE report[t].probing /\ Side(call[t]) = "bound"
  <2> DEFINE r == [report[t] EXCEPT !.bound = @ /\ ok]
  <2>1. report' = [report EXCEPT ![t] = r]
    BY <1>1, <1>4 DEF Verdict
  <2>2. /\ r \in Report /\ r.probing = report[t].probing /\ r.write = report[t].write
        /\ r.bound = (report[t].bound /\ ok)
    BY <1>1 DEF Report
  <2> HIDE DEF r
  <2>3. report' \in [Thread -> Report] /\ report'[t] = r
        /\ \A u \in Thread \ {t} : report'[u] = report[u]
    BY <1>1, <2>1, <2>2
  <2> QED
    BY <1>4, <2>2, <2>3
<1> QED
  BY <1>2, <1>3, <1>4 DEF Side

LEMMA CallOver ==
  ASSUME Inv, NEW t \in Thread, NEW ok \in BOOLEAN, Finish(t, ok), UNCHANGED todo, Grown,
         pc[t] \notin {"idle", "probe"}, NEW over, over = call[t], ok => Earned(over)'
  PROVE  /\ Apart(t) /\ pc'[t] \in {"idle", "probe"} /\ pc' \in [Thread -> Place]
         /\ call' \in [Thread -> Offered \cup ProbeSet \cup {<< >>}]
         /\ hand' \in [Thread -> Obj \cup {<< >>}]
         /\ todo' \in [Thread -> Seq(ProbeSet)] /\ report' \in [Thread -> Report]
         /\ CallInv(t)' /\ MissInv(t)' /\ ProbeInv(t)' /\ ~Holding(t)'
<1>1. /\ pc \in [Thread -> Place] /\ call \in [Thread -> Offered \cup ProbeSet \cup {<< >>}]
      /\ hand \in [Thread -> Obj \cup {<< >>}] /\ todo \in [Thread -> Seq(ProbeSet)]
      /\ ProbeInv(t)
  BY DEF Inv, Typed
<1>2. /\ pc' = [pc EXCEPT ![t] = IF report[t].probing THEN "probe" ELSE "idle"]
      /\ call' = [call EXCEPT ![t] = << >>] /\ hand' = [hand EXCEPT ![t] = << >>]
      /\ report' = Verdict(t, ok)
  BY DEF Finish, Move
<1>3. /\ pc'[t] = IF report[t].probing THEN "probe" ELSE "idle"
      /\ pc' \in [Thread -> Place]
      /\ call' \in [Thread -> Offered \cup ProbeSet \cup {<< >>}]
      /\ hand' \in [Thread -> Obj \cup {<< >>}]
      /\ \A u \in Thread \ {t} : pc'[u] = pc[u] /\ call'[u] = call[u] /\ hand'[u] = hand[u]
  BY <1>1, <1>2 DEF Place
<1>4. /\ report' \in [Thread -> Report]
      /\ \A u \in Thread \ {t} : report'[u] = report[u]
      /\ report'[t].probing = report[t].probing
      /\ \A s \in {"write", "bound"} : report'[t][s] => report[t][s]
      /\ report[t].probing /\ report'[t][Side(call[t])] => ok
  BY <1>2, ReportOf
<1>5. Apart(t)
  BY <1>3, <1>4 DEF Apart
<1>6. CallInv(t)' /\ MissInv(t)' /\ ~Holding(t)'
  BY <1>3 DEF CallInv, MissInv, Holding
<1>7. ASSUME report[t].probing, NEW c \in ProbeSet, c \notin Ran(todo[t]), report'[t][Side(c)]
      PROVE  Earned(c)'
  <2>1. report[t][Side(c)]
    BY <1>4, <1>7 DEF Side
  <2>2. CASE call[t] = c
    BY <1>4, <1>7, <2>2
  <2>3. CASE Earned(c)
    BY <2>3, EarnedStays, WhatIsProbed
  <2> QED
    BY <1>1, <1>7, <2>1, <2>2, <2>3 DEF ProbeInv
<1>8. ProbeInv(t)'
  BY <1>3, <1>4, <1>7 DEF ProbeInv, Ran, Side
<1> QED
  BY <1>1, <1>3, <1>4, <1>5, <1>6, <1>8

-----------------------------------------------------------------------------
(* The steps without the lock: llm() and the SDK client of an LLMClient.   *)
LEMMA SameIsGrown == ASSUME UNCHANGED <<cache, llm, impl>> PROVE Grown
BY DEF Grown

LEMMA CheckLlmStep ==
  ASSUME Inv, NEW t \in Thread, CheckLlm(t)
  PROVE  Inv'
<1> DEFINE m == call[t][2]
           label == IF llm[m] # 0 THEN "read" ELSE "make"
<1>1. /\ pc[t] = "check" /\ Move(t, label) /\ UNCHANGED <<call, hand, report>>
      /\ UNCHANGED <<owner, cache, llm, impl, todo, count>>
  BY DEF CheckLlm, Go, inCall
<1>2. Grown /\ label \in Place \ {"idle", "probe"}
  BY <1>1, SameIsGrown DEF Place
<1>3. Typed /\ CallInv(t) /\ m \in Request /\ call[t][1] \in {"bind", "identity", "native"}
  BY <1>1, CallTypes DEF Inv, CallInv
<1> HIDE DEF label
<1>4. /\ Apart(t) /\ pc'[t] = label /\ pc' \in [Thread -> Place] /\ ProbeInv(t)'
      /\ call' \in [Thread -> Offered \cup ProbeSet \cup {<< >>}]
      /\ todo' \in [Thread -> Seq(ProbeSet)] /\ report' \in [Thread -> Report]
  BY <1>1, <1>2, GoesOn
<1>5. Typed'
  BY <1>1, <1>3, <1>4 DEF Typed
<1>6. LockInv'
  <2>1. Holding(t)' <=> Holding(t)
    BY <1>1, <1>4 DEF Holding, label
  <2> QED
    BY <1>1, <1>4, <2>1, LockMoves
<1>7. RoomInv'
  <2>1. CASE llm[m] # 0
    <3>1. pc'[t] # "make"
      BY <1>4, <2>1 DEF label
    <3> QED
      BY <1>1, <1>4, <3>1, RoomStays
  <2>2. CASE llm[m] = 0
    <3> SUFFICES ASSUME NEW k \in Request
                 PROVE  llm[k] + Cardinality(Making(k)') <= N
      BY <1>1 DEF RoomInv, N
    <3>1. CASE k = m
      <4>1. Making(k)' \in SUBSET Thread
        BY DEF Making
      <4>2. Cardinality(Making(k)') <= N /\ IsFiniteSet(Making(k)')
        BY <4>1, ClientsAssumption, FS_Subset DEF N
      <4>3. Cardinality(Making(k)') \in Nat
        BY <4>2, FS_CardinalityType
      <4> QED
        BY <2>2, <3>1, <4>2, <4>3, Numbers
    <3>2. CASE k # m
      <4>1. Making(k)' = Making(k)
        BY <1>1, <1>4, <3>2 DEF Making, Apart
      <4> QED
        BY <4>1 DEF Inv, RoomInv
    <3> QED
      BY <3>1, <3>2
  <2> QED
    BY <2>1, <2>2
<1>8. CallInv(t)' /\ MissInv(t)'
  BY <1>1, <1>3, <1>4 DEF CallInv, MissInv, label
<1>9. OneClientPerKey'
  BY <1>1 DEF Inv, OneClientPerKey
<1> QED
  BY <1>1, <1>2, <1>4, <1>5, <1>6, <1>7, <1>8, <1>9, Together

LEMMA MakeLlmStep ==
  ASSUME Inv, NEW t \in Thread, MakeLlm(t)
  PROVE  Inv'
<1> DEFINE m == call[t][2]
<1>1. /\ pc[t] = "make" /\ Move(t, "read") /\ UNCHANGED <<call, hand, report>>
      /\ UNCHANGED <<owner, cache, impl, todo, count>>
      /\ llm' = [llm EXCEPT ![m] = @ + 1]
  BY DEF MakeLlm, Go, inCall
<1>2. Typed /\ CallInv(t) /\ m \in Request /\ call[t][1] \in {"bind", "identity", "native"}
  BY <1>1, CallTypes DEF Inv, CallInv
<1>3. /\ llm' \in [Request -> Nat] /\ llm'[m] = llm[m] + 1 /\ llm[m] \in Nat
      /\ \A k \in Request : k # m => llm'[k] = llm[k]
  BY <1>1, <1>2 DEF Typed
<1>4. Grown /\ "read" \in Place \ {"idle", "probe"}
  BY <1>1, <1>3 DEF Grown, Place
<1>5. /\ Apart(t) /\ pc'[t] = "read" /\ pc' \in [Thread -> Place] /\ ProbeInv(t)'
      /\ call' \in [Thread -> Offered \cup ProbeSet \cup {<< >>}]
      /\ todo' \in [Thread -> Seq(ProbeSet)] /\ report' \in [Thread -> Report]
  BY <1>1, <1>4, GoesOn
<1>6. Typed'
  BY <1>1, <1>2, <1>3, <1>5 DEF Typed
<1>7. LockInv'
  <2>1. Holding(t)' <=> Holding(t)
    BY <1>1, <1>5 DEF Holding
  <2> QED
    BY <1>1, <1>5, <2>1, LockMoves
<1>8. RoomInv'
  <2> SUFFICES ASSUME NEW k \in Request
               PROVE  llm'[k] + Cardinality(Making(k)') <= N
    BY DEF RoomInv, N
  <2>1. Making(k) \in SUBSET Thread
    BY DEF Making
  <2>2. IsFiniteSet(Making(k)) /\ llm[k] \in Nat /\ llm[k] + Cardinality(Making(k)) <= N
    BY <1>2, <2>1, ClientsAssumption, FS_Subset DEF Inv, RoomInv, Typed
  <2>3. Cardinality(Making(k)) \in Nat
    BY <2>2, FS_CardinalityType
  <2>4. CASE k = m
    <3>1. t \in Making(k) /\ Making(k)' = Making(k) \ {t}
      BY <1>1, <1>5, <2>4 DEF Making, Apart
    <3>2. Cardinality(Making(k)') = Cardinality(Making(k)) - 1
      BY <2>2, <3>1, FS_RemoveElement
    <3> QED
      BY <1>3, <2>2, <2>3, <2>4, <3>2, Numbers
  <2>5. CASE k # m
    <3>1. Making(k)' = Making(k)
      BY <1>1, <1>5, <2>5 DEF Making, Apart
    <3> QED
      BY <1>3, <2>2, <2>5, <3>1
  <2> QED
    BY <2>4, <2>5
<1>9. CallInv(t)' /\ MissInv(t)'
  BY <1>1, <1>2, <1>3, <1>5 DEF CallInv, MissInv
<1>10. OneClientPerKey'
  BY <1>1 DEF Inv, OneClientPerKey
<1> QED
  BY <1>1, <1>4, <1>5, <1>6, <1>7, <1>8, <1>9, <1>10, Together

(* A call that ends without a new client, with or without the lock.        *)
LEMMA EndsWith ==
  ASSUME Inv, NEW t \in Thread, NEW ok \in BOOLEAN, Finish(t, ok),
         UNCHANGED <<cache, llm, todo, count>>, impl' \in [Obj -> Nat], Grown,
         pc[t] \notin {"idle", "probe"}, NEW over, over = call[t], ok => Earned(over)',
         IF Holding(t) THEN owner' = Nobody ELSE UNCHANGED owner
  PROVE  Inv'
<1>1. /\ Apart(t) /\ pc'[t] \in {"idle", "probe"} /\ pc' \in [Thread -> Place]
      /\ call' \in [Thread -> Offered \cup ProbeSet \cup {<< >>}]
      /\ hand' \in [Thread -> Obj \cup {<< >>}]
      /\ todo' \in [Thread -> Seq(ProbeSet)] /\ report' \in [Thread -> Report]
      /\ CallInv(t)' /\ MissInv(t)' /\ ProbeInv(t)' /\ ~Holding(t)'
  BY CallOver
<1>2. Typed'
  BY <1>1, Numbers DEF Inv, Typed
<1>3. LockInv'
  BY <1>1, LockMoves
<1>4. RoomInv'
  BY <1>1, RoomStays
<1>5. OneClientPerKey'
  BY DEF Inv, OneClientPerKey
<1> QED
  BY <1>1, <1>2, <1>3, <1>4, <1>5, Together

LEMMA LlmRaisesStep ==
  ASSUME Inv, NEW t \in Thread, LlmRaises(t)
  PROVE  Inv'
<1> DEFINE ok == call[t][1] = "identity"
<1>1. /\ pc[t] = "make" /\ Finish(t, ok) /\ UNCHANGED <<cache, llm, impl, todo, count>>
      /\ owner' = IF call[t][1] = "native" THEN Nobody ELSE owner
  BY DEF LlmRaises
<1>2. ok \in BOOLEAN
  OBVIOUS
<1>3. PICK over : over = call[t]
  OBVIOUS
<1>4. ok => Earned(over)'
  BY <1>3 DEF Earned
<1>5. IF Holding(t) THEN owner' = Nobody ELSE UNCHANGED owner
  BY <1>1 DEF Holding
<1>6. impl' \in [Obj -> Nat] /\ Grown
  BY <1>1, SameIsGrown DEF Inv, Typed
<1> HIDE DEF ok
<1> QED
  BY <1>1, <1>2, <1>3, <1>4, <1>5, <1>6, EndsWith

LEMMA ReadLlmStep ==
  ASSUME Inv, NEW t \in Thread, ReadLlm(t)
  PROVE  Inv'
<1> DEFINE m == call[t][2]
<1>1. pc[t] = "read" /\ UNCHANGED <<owner, cache, llm, impl, todo, count>>
  BY DEF ReadLlm
<1>2. /\ Typed /\ CallInv(t) /\ m \in Request /\ llm[m] # 0
      /\ call[t][1] \in {"bind", "identity", "native"}
  BY <1>1, CallTypes DEF Inv, CallInv
<1>3. Grown /\ impl' \in [Obj -> Nat]
  BY <1>1, <1>2, SameIsGrown DEF Typed
<1>4. CASE call[t][1] = "identity"
  <2>1. Finish(t, TRUE) /\ ~Holding(t)
    BY <1>1, <1>4 DEF ReadLlm, Holding
  <2>2. PICK over : over = call[t]
    OBVIOUS
  <2>3. Earned(over)'
    BY <1>4, <2>2 DEF Earned
  <2> QED
    BY <1>1, <1>3, <2>1, <2>2, <2>3, EndsWith
<1>5. CASE call[t][1] # "identity"
  <2> DEFINE label == IF call[t][1] = "bind" THEN "impl" ELSE "lookup"
  <2>1. /\ hand' = [hand EXCEPT ![t] = <<m, llm[m]>>] /\ Move(t, label)
        /\ UNCHANGED <<call, report>>
    BY <1>5 DEF ReadLlm
  <2>2. label \in Place \ {"idle", "probe"}
    BY DEF Place
  <2>3. llm[m] \in 1..N
    <3>1. llm[m] \in Nat /\ llm[m] + Cardinality(Making(m)) <= N
      BY <1>2 DEF Inv, RoomInv, Typed
    <3>2. Making(m) \in SUBSET Thread
      BY DEF Making
    <3>3. IsFiniteSet(Making(m))
      BY <3>2, ClientsAssumption, FS_Subset
    <3>4. Cardinality(Making(m)) \in Nat
      BY <3>3, FS_CardinalityType
    <3> QED
      BY <1>2, <3>1, <3>4, Numbers
  <2>4. <<m, llm[m]>> \in Obj /\ <<m, llm[m]>> \in {m} \X (1..N)
    BY <1>2, <2>3 DEF Obj, N
  <2>5. /\ hand' \in [Thread -> Obj \cup {<< >>}] /\ hand'[t] = <<m, llm[m]>>
        /\ \A u \in Thread \ {t} : hand'[u] = hand[u]
    BY <1>2, <2>1, <2>4 DEF Typed
  <2> HIDE DEF label
  <2>6. /\ Apart(t) /\ pc'[t] = label /\ pc' \in [Thread -> Place] /\ ProbeInv(t)'
        /\ call' \in [Thread -> Offered \cup ProbeSet \cup {<< >>}]
        /\ todo' \in [Thread -> Seq(ProbeSet)] /\ report' \in [Thread -> Report]
    BY <1>1, <1>3, <2>1, <2>2, <2>5, GoesOn
  <2>7. Typed'
    BY <1>1, <1>2, <2>5, <2>6 DEF Typed
  <2>8. LockInv'
    <3>1. Holding(t)' <=> Holding(t)
      BY <1>1, <1>2, <1>5, <2>1, <2>6 DEF Holding, label
    <3> QED
      BY <1>1, <2>6, <3>1, LockMoves
  <2>9. RoomInv'
    <3>1. pc'[t] # "make"
      BY <2>6 DEF label
    <3> QED
      BY <1>1, <2>6, <3>1, RoomStays
  <2>10. CallInv(t)' /\ MissInv(t)'
    BY <1>1, <1>2, <1>5, <2>1, <2>4, <2>5, <2>6 DEF CallInv, MissInv, label
  <2>11. OneClientPerKey'
    BY <1>1 DEF Inv, OneClientPerKey
  <2> QED
    BY <1>1, <1>3, <2>6, <2>7, <2>8, <2>9, <2>10, <2>11, Together
<1> QED
  BY <1>4, <1>5

(* The LLMClient a thread has in hand is one of the model's, and binding   *)
(* it is what the probe of its call is about.                              *)
LEMMA InHand ==
  ASSUME Inv, NEW t \in Thread, pc[t] \in {"impl", "sdk"}, impl' \in [Obj -> Nat],
         NEW over, over = call[t]
  PROVE  hand[t] \in Obj /\ (impl'[hand[t]] # 0 => Earned(over)')
<1>1. /\ CallInv(t) /\ over \in Calls
      /\ \/ over[1] = "bind" /\ hand[t] \in {over[2]} \X (1..N)
         \/ over[1] = "rolebind" /\ hand[t] = <<over[2]>>
  BY DEF Inv, CallInv
<1>2. CASE over[1] = "bind" /\ hand[t] \in {over[2]} \X (1..N)
  <2>1. PICK n \in 1..N : hand[t] = <<over[2], n>>
    BY <1>2
  <2>2. over[2] \in Request
    BY <1>1, <1>2, CallTypes
  <2>3. hand[t] \in Obj
    BY <2>1, <2>2 DEF Obj, N
  <2>4. impl'[hand[t]] # 0 => \E k \in 1..N : impl'[<<over[2], k>>] # 0
    BY <2>1
  <2> QED
    BY <1>2, <2>3, <2>4 DEF Earned, N
<1>3. CASE over[1] = "rolebind" /\ hand[t] = <<over[2]>>
  <2>1. over[2] \in Roles
    BY <1>1, <1>3, CallTypes
  <2> QED
    BY <1>3, <2>1 DEF Earned, Obj
<1> QED
  BY <1>1, <1>2, <1>3

LEMMA CheckImplStep ==
  ASSUME Inv, NEW t \in Thread, CheckImpl(t)
  PROVE  Inv'
<1>1. pc[t] = "impl" /\ UNCHANGED <<owner, cache, llm, impl, todo, count>>
  BY DEF CheckImpl
<1>2. Typed /\ CallInv(t) /\ Grown /\ impl' \in [Obj -> Nat] /\ ~Holding(t)
  BY <1>1, SameIsGrown DEF Inv, Typed, Holding
<1>3. CASE impl[hand[t]] # 0
  <2>1. Finish(t, TRUE)
    BY <1>3 DEF CheckImpl
  <2>2. PICK over : over = call[t]
    OBVIOUS
  <2>3. Earned(over)'
    BY <1>1, <1>2, <1>3, <2>2, InHand
  <2> QED
    BY <1>1, <1>2, <2>1, <2>2, <2>3, EndsWith
<1>4. CASE impl[hand[t]] = 0
  <2>1. Move(t, "sdk") /\ UNCHANGED <<call, hand, report>>
    BY <1>4 DEF CheckImpl, Go, inCall
  <2>2. "sdk" \in Place \ {"idle", "probe"}
    BY DEF Place
  <2>3. /\ Apart(t) /\ pc'[t] = "sdk" /\ pc' \in [Thread -> Place] /\ ProbeInv(t)'
        /\ call' \in [Thread -> Offered \cup ProbeSet \cup {<< >>}]
        /\ todo' \in [Thread -> Seq(ProbeSet)] /\ report' \in [Thread -> Report]
    BY <1>1, <1>2, <2>1, <2>2, GoesOn
  <2>4. Typed'
    BY <1>1, <1>2, <2>1, <2>3 DEF Typed
  <2>5. LockInv'
    <3>1. Holding(t)' <=> Holding(t)
      BY <1>2, <2>3 DEF Holding
    <3> QED
      BY <1>1, <2>3, <3>1, LockMoves
  <2>6. RoomInv'
    BY <1>1, <2>3, RoomStays
  <2>7. CallInv(t)' /\ MissInv(t)' /\ OneClientPerKey'
    BY <1>1, <1>2, <2>1, <2>3 DEF CallInv, MissInv, OneClientPerKey, Inv
  <2> QED
    BY <1>1, <1>2, <2>3, <2>4, <2>5, <2>6, <2>7, Together
<1> QED
  BY <1>3, <1>4

LEMMA ImplSteps ==
  ASSUME Inv, NEW t \in Thread, MakeImpl(t) \/ ImplRaises(t)
  PROVE  Inv'
<1>1. pc[t] = "sdk" /\ UNCHANGED <<owner, cache, llm, todo, count>> /\ ~Holding(t)
  BY DEF MakeImpl, ImplRaises, Holding
<1>2. PICK over : over = call[t]
  OBVIOUS
<1>3. CASE MakeImpl(t)
  <2>1. impl' = [impl EXCEPT ![hand[t]] = @ + 1] /\ Finish(t, TRUE)
    BY <1>3 DEF MakeImpl
  <2>2. impl \in [Obj -> Nat]
    BY DEF Inv, Typed
  <2>3. hand[t] \in Obj
    <3>1. CallInv(t) /\ call[t] \in Calls
      BY <1>1 DEF Inv, CallInv
    <3>2. CASE call[t][1] = "bind" /\ hand[t] \in {call[t][2]} \X (1..N)
      BY <3>1, <3>2, CallTypes DEF Obj, N
    <3>3. CASE call[t][1] = "rolebind" /\ hand[t] = <<call[t][2]>>
      BY <3>1, <3>3, CallTypes DEF Obj
    <3> QED
      BY <1>1, <3>1, <3>2, <3>3 DEF CallInv
  <2>4. /\ impl' \in [Obj -> Nat] /\ impl'[hand[t]] = impl[hand[t]] + 1 /\ impl[hand[t]] \in Nat
        /\ \A o \in Obj : o # hand[t] => impl'[o] = impl[o]
    BY <2>1, <2>2, <2>3
  <2>5. Grown
    BY <1>1, <2>4 DEF Grown
  <2>6. Earned(over)'
    BY <1>1, <1>2, <2>4, InHand
  <2> QED
    BY <1>1, <1>2, <2>1, <2>4, <2>5, <2>6, EndsWith
<1>4. CASE ImplRaises(t)
  <2>1. Finish(t, FALSE) /\ UNCHANGED impl
    BY <1>4 DEF ImplRaises
  <2>2. impl' \in [Obj -> Nat] /\ Grown
    BY <1>1, <2>1, SameIsGrown DEF Inv, Typed
  <2> QED
    BY <1>1, <1>2, <2>1, <2>2, EndsWith
<1> QED
  BY <1>3, <1>4

-----------------------------------------------------------------------------
(* The steps under the lock.                                               *)
LEMMA EnterStep ==
  ASSUME Inv, NEW t \in Thread, Enter(t)
  PROVE  Inv'
<1> DEFINE label == IF call[t][1] = "native" THEN "check" ELSE "lookup"
<1>1. /\ pc[t] = "lock" /\ Acquirable(t) /\ owner' = t /\ Move(t, label)
      /\ UNCHANGED <<call, hand, report, cache, llm, impl, todo, count>>
  BY DEF Enter, Go, inCall
<1>2. Typed /\ CallInv(t) /\ Grown /\ label \in Place \ {"idle", "probe"}
  BY <1>1, SameIsGrown DEF Inv, Place
<1> HIDE DEF label
<1>3. /\ Apart(t) /\ pc'[t] = label /\ pc' \in [Thread -> Place] /\ ProbeInv(t)'
      /\ call' \in [Thread -> Offered \cup ProbeSet \cup {<< >>}]
      /\ todo' \in [Thread -> Seq(ProbeSet)] /\ report' \in [Thread -> Report]
  BY <1>1, <1>2, GoesOn
<1>4. Typed'
  BY <1>1, <1>2, <1>3 DEF Typed
<1>5. LockInv'
  <2>1. Holding(t)'
    BY <1>1, <1>3 DEF Holding, label
  <2> QED
    BY <1>1, <1>3, <2>1, LockMoves
<1>6. RoomInv'
  <2>1. pc'[t] # "make"
    BY <1>3 DEF label
  <2> QED
    BY <1>1, <1>3, <2>1, RoomStays
<1>7. CallInv(t)' /\ MissInv(t)' /\ OneClientPerKey'
  BY <1>1, <1>2, <1>3 DEF CallInv, MissInv, OneClientPerKey, Inv, label
<1> QED
  BY <1>1, <1>2, <1>3, <1>4, <1>5, <1>6, <1>7, Together

(* The lock is given back, and what the call was for is in the cache.      *)
LEMMA LeaveStep ==
  ASSUME Inv, NEW t \in Thread, Leave(t), pc[t] \in {"lookup", "build", "built"},
         UNCHANGED <<llm, impl, todo, count>>, cache' \in [Key -> Nat],
         cache'[KeyOf(call[t])] # 0, Grown, OneClientPerKey'
  PROVE  Inv'
<1>1. /\ Typed /\ CallInv(t) /\ Holding(t) /\ owner' = Nobody /\ call[t] \in Calls
      /\ call[t][1] \in {"langfuse", "native", "role", "rolebind"}
  BY DEF Inv, Leave, Holding, CallInv
<1>2. CASE call[t][1] = "rolebind"
  <2>1. /\ Move(t, "impl") /\ hand' = [hand EXCEPT ![t] = <<call[t][2]>>]
        /\ UNCHANGED <<call, report>>
    BY <1>2 DEF Leave
  <2>2. <<call[t][2]>> \in Obj /\ "impl" \in Place \ {"idle", "probe"}
    BY <1>1, <1>2, CallTypes DEF Obj, Place
  <2>3. /\ hand' \in [Thread -> Obj \cup {<< >>}] /\ hand'[t] = <<call[t][2]>>
        /\ \A u \in Thread \ {t} : hand'[u] = hand[u]
    BY <1>1, <2>1, <2>2 DEF Typed
  <2>4. /\ Apart(t) /\ pc'[t] = "impl" /\ pc' \in [Thread -> Place] /\ ProbeInv(t)'
        /\ call' \in [Thread -> Offered \cup ProbeSet \cup {<< >>}]
        /\ todo' \in [Thread -> Seq(ProbeSet)] /\ report' \in [Thread -> Report]
    BY <2>1, <2>2, <2>3, GoesOn
  <2>5. Typed'
    BY <1>1, <2>3, <2>4 DEF Typed
  <2>6. LockInv'
    <3>1. ~Holding(t)'
      BY <2>4 DEF Holding
    <3> QED
      BY <1>1, <2>4, <3>1, LockMoves
  <2>7. RoomInv'
    BY <2>4, RoomStays
  <2>8. CallInv(t)' /\ MissInv(t)'
    BY <1>1, <1>2, <2>1, <2>3, <2>4 DEF CallInv, MissInv
  <2> QED
    BY <1>1, <2>4, <2>5, <2>6, <2>7, <2>8, Together
<1>3. CASE call[t][1] # "rolebind"
  <2>1. Finish(t, TRUE)
    BY <1>3 DEF Leave
  <2>2. PICK over : over = call[t]
    OBVIOUS
  <2>3. Earned(over)'
    <3>1. KeyOf(over) = KeyOf(call[t]) /\ over[1] \in {"langfuse", "native", "role"}
      BY <1>1, <1>3, <2>2
    <3> QED
      BY <3>1 DEF Earned, KeyOf
  <2>4. /\ Apart(t) /\ pc'[t] \in {"idle", "probe"} /\ pc' \in [Thread -> Place]
        /\ call' \in [Thread -> Offered \cup ProbeSet \cup {<< >>}]
        /\ hand' \in [Thread -> Obj \cup {<< >>}]
        /\ todo' \in [Thread -> Seq(ProbeSet)] /\ report' \in [Thread -> Report]
        /\ CallInv(t)' /\ MissInv(t)' /\ ProbeInv(t)' /\ ~Holding(t)'
    BY <2>1, <2>2, <2>3, CallOver
  <2>5. Typed'
    BY <1>1, <2>4 DEF Typed
  <2>6. LockInv' /\ RoomInv'
    BY <1>1, <2>4, LockMoves, RoomStays
  <2> QED
    BY <1>1, <2>4, <2>5, <2>6, Together
<1> QED
  BY <1>2, <1>3

LEMMA LookupHitStep ==
  ASSUME Inv, NEW t \in Thread, LookupHit(t)
  PROVE  Inv'
<1>1. /\ pc[t] = "lookup" /\ cache[KeyOf(call[t])] # 0 /\ Leave(t)
      /\ UNCHANGED <<cache, llm, impl, todo, count>>
  BY DEF LookupHit
<1>2. Grown /\ cache' \in [Key -> Nat] /\ OneClientPerKey'
  BY <1>1, SameIsGrown DEF Inv, Typed, OneClientPerKey
<1> QED
  BY <1>1, <1>2, LeaveStep

(* A client is built for a key that has none.                              *)
LEMMA CachedOnce ==
  ASSUME Inv, NEW k \in Key, cache[k] = 0, Cached(k), UNCHANGED <<llm, impl>>
  PROVE  /\ cache' \in [Key -> Nat] /\ cache'[k] = 1 /\ Grown /\ OneClientPerKey'
         /\ \A j \in Key : j # k => cache'[j] = cache[j]
<1>1. cache \in [Key -> Nat] /\ cache' = [cache EXCEPT ![k] = @ + 1]
  BY DEF Inv, Typed, Cached
<1>2. /\ cache' \in [Key -> Nat] /\ cache'[k] = 1
      /\ \A j \in Key : j # k => cache'[j] = cache[j]
  BY <1>1
<1> QED
  BY <1>2 DEF Inv, OneClientPerKey, Grown

LEMMA BuildStep ==
  ASSUME Inv, NEW t \in Thread, Build(t)
  PROVE  Inv'
<1> DEFINE k == KeyOf(call[t])
<1>1. pc[t] \in {"build", "built"} /\ Cached(k) /\ Leave(t) /\ UNCHANGED <<llm, impl, todo, count>>
  BY DEF Build
<1>2. k \in Key /\ cache[k] = 0
  BY <1>1, KeyTypes DEF Inv, CallInv, MissInv
<1>3. cache' \in [Key -> Nat] /\ cache'[k] = 1 /\ Grown /\ OneClientPerKey'
  BY <1>1, <1>2, CachedOnce
<1> QED
  BY <1>1, <1>3, LeaveStep

LEMMA WithinStep ==
  ASSUME Inv, NEW t \in Thread, LookupMiss(t) \/ AskTracer(t)
  PROVE  Inv'
<1>1. /\ UNCHANGED <<call, hand, report, owner, cache, llm, impl, todo, count>>
      /\ \/ pc[t] = "lookup" /\ cache[KeyOf(call[t])] = 0 /\ Move(t, "build")
         \/ pc[t] = "build" /\ call[t][1] \in {"native", "role"} /\ Move(t, "tracer")
  BY DEF LookupMiss, AskTracer, Go, inCall
<1>2. PICK label \in {"build", "tracer"} :
         /\ Move(t, label)
         /\ IF label = "build" THEN pc[t] = "lookup" /\ cache[KeyOf(call[t])] = 0
            ELSE pc[t] = "build" /\ call[t][1] \in {"native", "role"}
  BY <1>1
<1>3. Typed /\ CallInv(t) /\ MissInv(t) /\ Grown /\ label \in Place \ {"idle", "probe"}
  BY <1>1, SameIsGrown DEF Inv, Place
<1>4. /\ Apart(t) /\ pc'[t] = label /\ pc' \in [Thread -> Place] /\ ProbeInv(t)'
      /\ call' \in [Thread -> Offered \cup ProbeSet \cup {<< >>}]
      /\ todo' \in [Thread -> Seq(ProbeSet)] /\ report' \in [Thread -> Report]
  BY <1>1, <1>2, <1>3, GoesOn
<1>5. Typed'
  BY <1>1, <1>3, <1>4 DEF Typed
<1>6. LockInv' /\ RoomInv'
  <2>1. Holding(t) /\ Holding(t)' /\ pc'[t] # "make"
    BY <1>2, <1>4 DEF Holding
  <2> QED
    BY <1>1, <1>4, <2>1, LockMoves, RoomStays
<1>7. CallInv(t)' /\ MissInv(t)' /\ OneClientPerKey'
  BY <1>1, <1>2, <1>3, <1>4 DEF CallInv, MissInv, OneClientPerKey, Inv, KeyOf
<1> QED
  BY <1>1, <1>3, <1>4, <1>5, <1>6, <1>7, Together

(* The factory's own langfuse(): another key than the one it builds for.   *)
LEMMA TracerStep ==
  ASSUME Inv, NEW t \in Thread, Tracer(t)
  PROVE  Inv'
<1> DEFINE k == <<"langfuse">>
<1>1. /\ pc[t] = "tracer" /\ Move(t, "built")
      /\ UNCHANGED <<call, hand, report, owner, llm, impl, todo, count>>
      /\ IF cache[k] = 0 THEN Cached(k) ELSE UNCHANGED cache
  BY DEF Tracer, Go, inCall
<1>2. /\ Typed /\ CallInv(t) /\ MissInv(t) /\ "built" \in Place \ {"idle", "probe"}
      /\ k \in Key /\ Holding(t)
  BY <1>1 DEF Inv, Place, Key, Holding
<1>3. KeyOf(call[t]) \in Key /\ KeyOf(call[t]) # k /\ cache[KeyOf(call[t])] = 0
  BY <1>1, <1>2, KeyTypes DEF CallInv, MissInv
<1>4. /\ cache' \in [Key -> Nat] /\ Grown /\ OneClientPerKey'
      /\ \A j \in Key : j # k => cache'[j] = cache[j]
  <2>1. CASE cache[k] = 0
    BY <1>1, <1>2, <2>1, CachedOnce
  <2>2. CASE cache[k] # 0
    BY <1>1, <1>2, <2>2, SameIsGrown DEF Inv, Typed, OneClientPerKey
  <2> QED
    BY <2>1, <2>2
<1> HIDE DEF k
<1>5. /\ Apart(t) /\ pc'[t] = "built" /\ pc' \in [Thread -> Place] /\ ProbeInv(t)'
      /\ call' \in [Thread -> Offered \cup ProbeSet \cup {<< >>}]
      /\ todo' \in [Thread -> Seq(ProbeSet)] /\ report' \in [Thread -> Report]
  BY <1>1, <1>2, <1>4, GoesOn
<1>6. Typed'
  BY <1>1, <1>2, <1>4, <1>5 DEF Typed
<1>7. LockInv' /\ RoomInv'
  <2>1. Holding(t)'
    BY <1>5 DEF Holding
  <2> QED
    BY <1>1, <1>2, <1>5, <2>1, LockMoves, RoomStays
<1>8. CallInv(t)' /\ MissInv(t)'
  <2>1. KeyOf(call'[t]) = KeyOf(call[t])
    BY <1>1
  <2>2. cache'[KeyOf(call'[t])] = 0
    BY <1>3, <1>4, <2>1
  <2> QED
    BY <1>1, <1>2, <1>5, <2>2 DEF CallInv, MissInv, KeyOf
<1> QED
  BY <1>2, <1>4, <1>5, <1>6, <1>7, <1>8, Together

LEMMA BuildRaisesStep ==
  ASSUME Inv, NEW t \in Thread, BuildRaises(t)
  PROVE  Inv'
<1>1. /\ pc[t] \in {"build", "built"} /\ owner' = Nobody /\ Finish(t, FALSE)
      /\ UNCHANGED <<cache, llm, impl, todo, count>>
  BY DEF BuildRaises
<1>2. Holding(t) /\ Grown /\ impl' \in [Obj -> Nat]
  BY <1>1, SameIsGrown DEF Holding, Inv, Typed
<1>3. PICK over : over = call[t]
  OBVIOUS
<1> QED
  BY <1>1, <1>2, <1>3, EndsWith

-----------------------------------------------------------------------------
(* Calls begin, and readiness() goes from probe to probe.                  *)
LEMMA EntryTypes ==
  ASSUME NEW c \in Calls
  PROVE  /\ Entry(c) \in {"check", "ping", "lock"}
         /\ Entry(c) = "check" => c[1] \in {"bind", "identity"}
         /\ Entry(c) = "ping" => c[1] = "ping"
         /\ Entry(c) = "lock" => c[1] \in {"langfuse", "native", "role", "rolebind"}
BY CallTypes DEF Entry, Kind

LEMMA PingStep ==
  ASSUME Inv, NEW t \in Thread, Ping(t)
  PROVE  Inv'
<1>1. /\ pc[t] = "ping" /\ UNCHANGED <<owner, cache, llm, impl, todo, count>>
      /\ Finish(t, TRUE) \/ Finish(t, FALSE)
  BY DEF Ping
<1>2. ~Holding(t) /\ Grown /\ impl' \in [Obj -> Nat] /\ CallInv(t)
  BY <1>1, SameIsGrown DEF Holding, Inv, Typed
<1>3. PICK over : over = call[t]
  OBVIOUS
<1>4. Earned(over)'
  BY <1>1, <1>2, <1>3 DEF CallInv, Earned
<1> QED
  BY <1>1, <1>2, <1>3, <1>4, EndsWith

(* A call is entered, by the Surface or by a probe.                        *)
LEMMA Entered ==
  ASSUME Inv, NEW t \in Thread, NEW c \in Offered \cup ProbeSet,
         pc[t] \in {"idle", "probe"}, call' = [call EXCEPT ![t] = c], Move(t, Entry(c)),
         UNCHANGED <<owner, cache, llm, impl, hand, report>>,
         todo' \in [Thread -> Seq(ProbeSet)], \A u \in Thread \ {t} : todo'[u] = todo[u],
         report[t].probing => Ran(todo[t]) \subseteq {c} \cup Ran(todo'[t]),
         count' \in [Thread -> Nat], \A u \in Thread : count'[u] <= MaxCalls[u]
  PROVE  Inv'
<1>1. /\ c \in Calls /\ Entry(c) \in {"check", "ping", "lock"}
      /\ Entry(c) = "check" => c[1] \in {"bind", "identity"}
      /\ Entry(c) = "ping" => c[1] = "ping"
      /\ Entry(c) = "lock" => c[1] \in {"langfuse", "native", "role", "rolebind"}
  BY CallTypes, EntryTypes
<1>2. Typed /\ ProbeInv(t) /\ Grown
  BY SameIsGrown DEF Inv
<1>3. pc' = [pc EXCEPT ![t] = Entry(c)]
  BY DEF Move
<1>4. /\ pc' \in [Thread -> Place] /\ pc'[t] = Entry(c) /\ call'[t] = c
      /\ call' \in [Thread -> Offered \cup ProbeSet \cup {<< >>}]
      /\ \A u \in Thread \ {t} : pc'[u] = pc[u] /\ call'[u] = call[u]
  BY <1>1, <1>2, <1>3 DEF Typed, Place
<1>5. Apart(t)
  BY <1>4 DEF Apart
<1>6. Typed'
  BY <1>2, <1>4 DEF Typed
<1>7. LockInv' /\ RoomInv'
  <2>1. ~Holding(t) /\ ~Holding(t)' /\ pc'[t] # "make"
    BY <1>1, <1>4 DEF Holding
  <2> QED
    BY <1>5, <2>1, LockMoves, RoomStays
<1>8. CallInv(t)' /\ MissInv(t)' /\ OneClientPerKey'
  BY <1>1, <1>4 DEF CallInv, MissInv, Inv, OneClientPerKey
<1>9. ProbeInv(t)'
  <2>1. ASSUME report[t].probing, NEW d \in ProbeSet
        PROVE  \/ d \in Ran(todo'[t]) \/ call'[t] = d
               \/ report[t][Side(d)] => Earned(d)'
    <3>1. CASE d \in Ran(todo[t])
      BY <1>4, <2>1, <3>1
    <3>2. CASE call[t] = d /\ pc[t] # "probe"
      BY <1>2, <2>1, <3>2 DEF ProbeInv
    <3>3. CASE report[t][Side(d)] => Earned(d)
      BY <1>2, <3>3, EarnedStays, WhatIsProbed
    <3> QED
      BY <1>2, <2>1, <3>1, <3>2, <3>3 DEF ProbeInv
  <2> QED
    BY <1>1, <1>4, <2>1 DEF ProbeInv, Ran, Side
<1> QED
  BY <1>2, <1>5, <1>6, <1>7, <1>8, <1>9, Together

LEMMA BeginStep ==
  ASSUME Inv, NEW t \in Thread, NEW c \in Offered, Begin(t, c)
  PROVE  Inv'
<1>1. /\ pc[t] = "idle" /\ count[t] < MaxCalls[t] /\ count' = [count EXCEPT ![t] = @ + 1]
      /\ call' = [call EXCEPT ![t] = c] /\ Move(t, Entry(c))
      /\ UNCHANGED <<owner, cache, llm, impl, hand, report, todo>>
  BY DEF Begin
<1>2. Typed /\ ~report[t].probing
  BY <1>1 DEF Inv, ProbeInv
<1>3. count' \in [Thread -> Nat] /\ \A u \in Thread : count'[u] <= MaxCalls[u]
  BY <1>1, <1>2, ClientsAssumption DEF Typed
<1>4. todo' \in [Thread -> Seq(ProbeSet)] /\ \A u \in Thread \ {t} : todo'[u] = todo[u]
  BY <1>1, <1>2 DEF Typed
<1> QED
  BY <1>1, <1>2, <1>3, <1>4, Entered

LEMMA NextProbeStep ==
  ASSUME Inv, NEW t \in Thread, NextProbe(t)
  PROVE  Inv'
<1> DEFINE c == Head(todo[t])
<1>1. /\ pc[t] = "probe" /\ todo[t] # << >> /\ todo' = [todo EXCEPT ![t] = Tail(@)]
      /\ call' = [call EXCEPT ![t] = c] /\ Move(t, Entry(c))
      /\ UNCHANGED <<owner, cache, llm, impl, hand, report, count>>
  BY DEF NextProbe
<1>2. Typed /\ todo \in [Thread -> Seq(ProbeSet)]
  BY DEF Inv, Typed
<1>3. c \in ProbeSet /\ Tail(todo[t]) \in Seq(ProbeSet)
      /\ Ran(todo[t]) \subseteq {c} \cup Ran(Tail(todo[t]))
  BY <1>1, <1>2, RanTail
<1>4. /\ todo' \in [Thread -> Seq(ProbeSet)] /\ todo'[t] = Tail(todo[t])
      /\ \A u \in Thread \ {t} : todo'[u] = todo[u]
  BY <1>1, <1>2, <1>3
<1>5. count' \in [Thread -> Nat] /\ \A u \in Thread : count'[u] <= MaxCalls[u]
  BY <1>1, <1>2 DEF Typed
<1> HIDE DEF c
<1> QED
  BY <1>1, <1>3, <1>4, <1>5, Entered

(* A report begins with every probe ahead of it, and ends with none.       *)
LEMMA ReadinessSteps ==
  ASSUME Inv, NEW t \in Thread, BeginReadiness(t) \/ EndReadiness(t)
  PROVE  Inv'
<1>1. /\ pc[t] \in {"idle", "probe"} /\ UNCHANGED <<owner, cache, llm, impl, call, hand>>
  BY DEF BeginReadiness, EndReadiness
<1>2. Typed /\ Grown
  BY <1>1, SameIsGrown DEF Inv
<1>3. PICK label \in {"idle", "probe"}, r \in Report :
        /\ Move(t, label) /\ report' = [report EXCEPT ![t] = r]
        /\ r.probing <=> label = "probe"
        /\ todo' \in [Thread -> Seq(ProbeSet)] /\ \A u \in Thread \ {t} : todo'[u] = todo[u]
        /\ label = "probe" => todo'[t] = Probes
        /\ count' \in [Thread -> Nat] /\ \A u \in Thread : count'[u] <= MaxCalls[u]
  <2>1. CASE BeginReadiness(t)
    <3> DEFINE r == [write |-> TRUE, bound |-> TRUE, probing |-> TRUE]
    <3>1. /\ report' = [report EXCEPT ![t] = r] /\ Move(t, "probe")
          /\ todo' = [todo EXCEPT ![t] = Probes]
          /\ count[t] < MaxCalls[t] /\ count' = [count EXCEPT ![t] = @ + 1]
      BY <2>1 DEF BeginReadiness
    <3>2. r \in Report /\ r.probing
      BY DEF Report
    <3>3. /\ todo' \in [Thread -> Seq(ProbeSet)] /\ todo'[t] = Probes
          /\ \A u \in Thread \ {t} : todo'[u] = todo[u]
      BY <1>2, <3>1, WhatIsProbed DEF Typed
    <3>4. count' \in [Thread -> Nat] /\ \A u \in Thread : count'[u] <= MaxCalls[u]
      <4>1. /\ count \in [Thread -> Nat] /\ MaxCalls \in [Thread -> Nat]
            /\ \A u \in Thread : count[u] <= MaxCalls[u]
        BY <1>2, ClientsAssumption DEF Typed
      <4> HIDE DEF r
      <4>2. /\ count' \in [Thread -> Nat] /\ count'[t] = count[t] + 1
            /\ \A u \in Thread \ {t} : count'[u] = count[u]
        BY <3>1, <4>1
      <4> QED
        BY <3>1, <4>1, <4>2
    <3> HIDE DEF r
    <3> QED
      BY <3>1, <3>2, <3>3, <3>4
  <2>2. CASE EndReadiness(t)
    <3>1. /\ report' = [report EXCEPT ![t] = NoReport] /\ Move(t, "idle")
          /\ UNCHANGED <<todo, count>>
      BY <2>2 DEF EndReadiness
    <3>2. NoReport \in Report /\ ~NoReport.probing
      BY DEF NoReport, Report
    <3> QED
      BY <1>2, <3>1, <3>2 DEF Typed
  <2> QED
    BY <2>1, <2>2
<1>4. pc' = [pc EXCEPT ![t] = label]
  BY <1>3 DEF Move
<1>5. /\ pc' \in [Thread -> Place] /\ pc'[t] = label
      /\ report' \in [Thread -> Report] /\ report'[t] = r
      /\ \A u \in Thread \ {t} : pc'[u] = pc[u] /\ report'[u] = report[u]
  BY <1>2, <1>3, <1>4 DEF Typed, Place
<1>6. Apart(t)
  BY <1>1, <1>3, <1>5 DEF Apart
<1>7. Typed'
  BY <1>1, <1>2, <1>3, <1>5 DEF Typed
<1>8. LockInv' /\ RoomInv'
  <2>1. ~Holding(t) /\ ~Holding(t)' /\ pc'[t] # "make"
    BY <1>1, <1>3, <1>5 DEF Holding
  <2> QED
    BY <1>1, <1>6, <2>1, LockMoves, RoomStays
<1>9. CallInv(t)' /\ MissInv(t)' /\ OneClientPerKey'
  BY <1>1, <1>3, <1>5 DEF CallInv, MissInv, Inv, OneClientPerKey
<1>10. ProbeInv(t)'
  <2>1. r.probing => \A c \in ProbeSet : c \in Ran(todo'[t])
    BY <1>3, WhatIsProbed
  <2> QED
    BY <1>3, <1>5, <2>1 DEF ProbeInv, Ran
<1> QED
  BY <1>1, <1>2, <1>6, <1>7, <1>8, <1>9, <1>10, Together

-----------------------------------------------------------------------------
LEMMA InitInv == Init => Inv
<1> SUFFICES ASSUME Init PROVE Inv
  OBVIOUS
<1>1. /\ owner = Nobody /\ cache = [k \in Key |-> 0] /\ llm = [m \in Request |-> 0]
      /\ impl = [o \in Obj |-> 0] /\ pc = [t \in Thread |-> "idle"]
      /\ call = [t \in Thread |-> << >>] /\ hand = [t \in Thread |-> << >>]
      /\ todo = [t \in Thread |-> << >>] /\ report = [t \in Thread |-> NoReport]
      /\ count = [t \in Thread |-> 0]
  BY DEF Init
<1>2. NoReport \in Report /\ ~NoReport.probing
  BY DEF NoReport, Report
<1>3. Typed
  BY <1>1, <1>2, EmptySeq, ClientsAssumption DEF Typed, Place
<1>4. LockInv
  BY <1>1, Numbers DEF LockInv, Holding
<1>5. RoomInv
  <2> SUFFICES ASSUME NEW m \in Request
               PROVE  llm[m] + Cardinality(Making(m)) <= N
    BY DEF RoomInv
  <2>1. Making(m) = {}
    BY <1>1 DEF Making
  <2>2. Cardinality(Making(m)) = 0
    BY <2>1, FS_EmptySet
  <2> QED
    BY <1>1, <2>2, Numbers
<1>6. OneClientPerKey
  BY <1>1 DEF OneClientPerKey
<1>7. \A t \in Thread : CallInv(t) /\ MissInv(t) /\ ProbeInv(t)
  BY <1>1, <1>2 DEF CallInv, MissInv, ProbeInv
<1> QED
  BY <1>3, <1>4, <1>5, <1>6, <1>7 DEF Inv

LEMMA Stutters == Inv /\ UNCHANGED vars => Inv'
<1> SUFFICES ASSUME Inv, UNCHANGED vars PROVE Inv'
  OBVIOUS
<1>1. /\ UNCHANGED <<owner, cache, llm, impl, pc, call, hand, report, todo, count>>
  BY DEF vars, inCall
<1>2. Typed'
  BY <1>1 DEF Inv, Typed
<1>3. LockInv' /\ OneClientPerKey'
  BY <1>1 DEF Inv, LockInv, Holding, OneClientPerKey
<1>4. RoomInv'
  <2>1. \A m \in Request : Making(m)' = Making(m)
    BY <1>1 DEF Making
  <2> QED
    BY <1>1, <2>1 DEF Inv, RoomInv, N
<1>5. ASSUME NEW t \in Thread PROVE CallInv(t)' /\ MissInv(t)' /\ ProbeInv(t)'
  <2>1. CallInv(t)' /\ MissInv(t)'
    BY <1>1 DEF Inv, CallInv, MissInv, KeyOf
  <2>2. ASSUME NEW c \in ProbeSet, report[t][Side(c)] => Earned(c)
        PROVE  report[t][Side(c)] => Earned(c)'
    BY <1>1, <2>2 DEF Earned, KeyOf
  <2> QED
    BY <1>1, <2>1, <2>2 DEF Inv, ProbeInv, Ran, Side
<1> QED
  BY <1>2, <1>3, <1>4, <1>5 DEF Inv

LEMMA StepInv == Inv /\ [Next]_vars => Inv'
<1> SUFFICES ASSUME Inv, [Next]_vars
             PROVE  Inv'
  OBVIOUS
<1>1. ASSUME NEW t \in Thread, Step(t)
      PROVE  Inv'
  BY <1>1, CheckLlmStep, MakeLlmStep, LlmRaisesStep, ReadLlmStep, CheckImplStep, ImplSteps,
     EnterStep, LookupHitStep, WithinStep, BuildStep, TracerStep, BuildRaisesStep,
     NextProbeStep, PingStep, ReadinessSteps DEF Step
<1>2. ASSUME NEW t \in Thread, BeginReadiness(t)
      PROVE  Inv'
  BY <1>2, ReadinessSteps
<1>3. ASSUME NEW t \in Thread, NEW c \in Offered, Begin(t, c)
      PROVE  Inv'
  BY <1>3, BeginStep
<1> QED
  BY <1>1, <1>2, <1>3, Stutters DEF Next

LEMMA Invariance == Spec => []Inv
<1> QED
  BY InitInv, StepInv, PTL DEF Spec

(* The state is well formed: the lock is held by the thread that is inside *)
(* an accessor, and no request has more LLMClients than there are threads. *)
THEOREM TypeCorrect == Spec => []TypeOK
<1>1. Inv => TypeOK
  <2> SUFFICES ASSUME Inv PROVE TypeOK
    OBVIOUS
  <2>1. \A m \in Request : llm[m] \in 0..N
    <3> SUFFICES ASSUME NEW m \in Request PROVE llm[m] \in 0..N
      OBVIOUS
    <3>1. Making(m) \in SUBSET Thread
      BY DEF Making
    <3>2. IsFiniteSet(Making(m))
      BY <3>1, ClientsAssumption, FS_Subset
    <3>3. Cardinality(Making(m)) \in Nat
      BY <3>2, FS_CardinalityType
    <3> QED
      BY <3>3, Numbers DEF Inv, Typed, RoomInv
  <2>2. llm \in [Request -> 0..Cardinality(Thread)]
    BY <2>1 DEF Inv, Typed, N
  <2>3. \A t \in Thread : count[t] \in 0..MaxCalls[t]
    BY ClientsAssumption DEF Inv, Typed
  <2>4. owner # Nobody <=> \E t \in Thread : Holding(t)
    BY Numbers DEF Inv, Typed, LockInv
  <2> QED
    BY <2>2, <2>3, <2>4 DEF Inv, Typed, TypeOK, Place, Report, ProbeSet, Holding
<1> QED
  BY <1>1, Invariance, PTL

(* Whatever the threads' timing and whichever factories failed before, one *)
(* client at most is built for a key of the construction lock.             *)
THEOREM OneClient == Spec => []OneClientPerKey
<1>1. Inv => OneClientPerKey
  BY DEF Inv
<1> QED
  BY <1>1, Invariance, PTL

(* A readiness report that says "bound" or "write path ok" has seen the    *)
(* clients it speaks of, every role's among them.                          *)
THEOREM HonestReport == Spec => []ReadinessHonest
<1>1. Inv => ReadinessHonest
  <2> SUFFICES ASSUME Inv, NEW t \in Thread, pc[t] = "probe", todo[t] = << >>
               PROVE  /\ report[t].bound => /\ PrimaryRequired => PrimaryBound
                                            /\ \A r \in Roles : RoleBound(r)
                      /\ report[t].write /\ CustomTracer => cache[<<"langfuse">>] # 0
    BY DEF ReadinessHonest
  <2>1. \A c \in ProbeSet : report[t][Side(c)] => Earned(c)
    <3>1. ProbeInv(t) /\ Ran(todo[t]) = {}
      BY RanSingle DEF Inv
    <3> QED
      BY <3>1 DEF ProbeInv
  <2>2. ASSUME report[t].bound, PrimaryRequired PROVE PrimaryBound
    <3>1. CASE NativePrimary
      <4>1. <<"native", Default>> \in ProbeSet /\ Side(<<"native", Default>>) = "bound"
        BY <2>2, <3>1, WhatIsProbed DEF Side
      <4>2. Earned(<<"native", Default>>)
        BY <2>1, <2>2, <4>1
      <4> QED
        BY <3>1, <4>2 DEF Earned, KeyOf, PrimaryBound
    <3>2. CASE ~NativePrimary
      <4>1. <<"bind", Default>> \in ProbeSet /\ Side(<<"bind", Default>>) = "bound"
        BY <2>2, <3>2, WhatIsProbed DEF Side
      <4>2. Earned(<<"bind", Default>>)
        BY <2>1, <2>2, <4>1
      <4> QED
        BY <3>2, <4>2 DEF Earned, PrimaryBound, N
    <3> QED
      BY <3>1, <3>2
  <2>3. ASSUME report[t].bound, NEW r \in Roles PROVE RoleBound(r)
    <3>1. RoleCall(r) \in ProbeSet /\ Side(RoleCall(r)) = "bound"
      BY WhatIsProbed DEF Side, RoleCall
    <3>2. Earned(RoleCall(r))
      BY <2>1, <2>3, <3>1
    <3> QED
      BY <3>2 DEF Earned, KeyOf, RoleCall, RoleBound
  <2>4. ASSUME report[t].write, CustomTracer PROVE cache[<<"langfuse">>] # 0
    <3>1. <<"langfuse">> \in ProbeSet /\ Side(<<"langfuse">>) = "write"
      BY <2>4, WhatIsProbed DEF Side
    <3>2. Earned(<<"langfuse">>)
      BY <2>1, <2>4, <3>1
    <3> QED
      BY <3>2 DEF Earned, KeyOf
  <2> QED
    BY <2>2, <2>3, <2>4
<1> QED
  BY <1>1, Invariance, PTL

-----------------------------------------------------------------------------
(***************************************************************************)
(* The deadline of forward_otel: type correctness, and the three           *)
(* invariants the run checks, from one inductive invariant.                *)
(***************************************************************************)

(* The flag is set exactly while the sockets are closed and after; a cut   *)
(* socket and a spoiled read are the timer's work.                         *)
FlagInv ==
  /\ expired => timer \in {"closing", "ended"}
  /\ timer = "closing" => expired
  /\ sock = "cut" => expired /\ timer = "ended"
  /\ spoiled => expired

(* What each stage of the call has behind it. *)
StageInv ==
  /\ stage = "start" => timer = "idle"
  /\ timer = "idle" => stage \in {"start", "done"}
  /\ stage \in {"start", "watch", "connecting"} =>
       sock = "none" /\ ~recorded /\ ~attached
  /\ stage \in {"connecting", "tunnel", "connected", "headers", "body"} => watched
  /\ stage \in {"tunnel", "connected", "headers", "body"} => sock \in {"open", "cut"}
  /\ stage \in {"headers", "body"} => recorded
  /\ outcome # "none" => stage \in {"finish", "join", "done"}

DeadlineInv ==
  /\ ForwardTypeOK /\ FlagInv /\ StageInv
  /\ StableOutcome /\ NothingAfterReturn /\ DeadlineReaches

LEMMA DeadlineInit == ForwardInit => DeadlineInv
  BY DEF DeadlineInv, FlagInv, StageInv, ForwardInit, ForwardTypeOK,
         StableOutcome, NothingAfterReturn, DeadlineReaches

(* No step of the calling thread, of the target or of the timer thread     *)
(* takes the invariant away.                                               *)
LEMMA DeadlineStep == DeadlineInv /\ [ForwardNext]_forwardVars => DeadlineInv'
<1> SUFFICES ASSUME DeadlineInv, [ForwardNext]_forwardVars
             PROVE  DeadlineInv'
  OBVIOUS
<1> USE DEF DeadlineInv, FlagInv, StageInv, ForwardTypeOK, StableOutcome,
            NothingAfterReturn, DeadlineReaches, LockFree, Goto, shared
<1>1. CASE Refuse
  BY <1>1 DEF Refuse
<1>2. CASE StartTimer
  BY <1>2 DEF StartTimer
<1>3. CASE Watch
  BY <1>3 DEF Watch
<1>4. CASE Connect
  <2>1. CASE stage' = "connected"
    BY <1>4, <2>1 DEF Connect
  <2>2. CASE stage' = "failed"
    BY <1>4, <2>2 DEF Connect
  <2> QED
    BY <1>4, <2>1, <2>2 DEF Connect
<1>5. CASE Dial
  BY <1>5 DEF Dial
<1>6. CASE TunnelAnswered
  BY <1>6 DEF TunnelAnswered
<1>7. CASE TunnelCut
  BY <1>7 DEF TunnelCut
<1>8. CASE Connected
  BY <1>8 DEF Connected
<1>9. CASE ReadHeaders
  <2>1. CASE spoiled' = spoiled
    BY <1>9, <2>1 DEF ReadHeaders
  <2>2. CASE spoiled' = TRUE /\ sock = "cut"
    BY <1>9, <2>2 DEF ReadHeaders
  <2> QED
    BY <1>9, <2>1, <2>2 DEF ReadHeaders
<1>10. CASE TargetFails
  BY <1>10 DEF TargetFails
<1>11. CASE ReadBody
  <2>1. CASE spoiled' = spoiled
    BY <1>11, <2>1 DEF ReadBody
  <2>2. CASE spoiled' = TRUE /\ sock = "cut"
    BY <1>11, <2>2 DEF ReadBody
  <2> QED
    BY <1>11, <2>1, <2>2 DEF ReadBody
<1>12. CASE Decode
  BY <1>12 DEF Decode
<1>13. CASE Check
  BY <1>13 DEF Check
<1>14. CASE Except
  BY <1>14 DEF Except
<1>15. CASE Cancel
  BY <1>15 DEF Cancel
<1>16. CASE Join
  BY <1>16 DEF Join
<1>17. CASE Wake
  BY <1>17 DEF Wake, callerVars
<1>18. CASE Look
  BY <1>18 DEF Look, callerVars
<1>19. CASE Mark
  BY <1>19 DEF Mark, callerVars
<1>20. CASE CloseSockets
  BY <1>20 DEF CloseSockets, callerVars, InReach
<1>21. CASE Target
  BY <1>21 DEF Target
<1>22. CASE UNCHANGED forwardVars
  BY <1>22 DEF forwardVars
<1> QED
  BY <1>1, <1>2, <1>3, <1>4, <1>5, <1>6, <1>7, <1>8, <1>9, <1>10, <1>11,
     <1>12, <1>13, <1>14, <1>15, <1>16, <1>17, <1>18, <1>19, <1>20, <1>21,
     <1>22
  DEF ForwardNext, Caller, TimerThread, Expire,
      Done

LEMMA DeadlineInvariance == ForwardSpec => []DeadlineInv
  BY DeadlineInit, DeadlineStep, PTL DEF ForwardSpec

(* Type correctness of the two threads. *)
THEOREM DeadlineTypes == ForwardSpec => []ForwardTypeOK
<1>1. DeadlineInv => ForwardTypeOK
  BY DEF DeadlineInv
<1> QED
  BY DeadlineInvariance, <1>1, PTL

(* What the timer did to a read is always reported as the deadline's       *)
(* Timeout: _expire sets the flag before it touches a socket, and both     *)
(* exits of response_deadline look at the flag.                            *)
THEOREM OutcomeStable == ForwardSpec => []StableOutcome
<1>1. DeadlineInv => StableOutcome
  BY DEF DeadlineInv
<1> QED
  BY DeadlineInvariance, <1>1, PTL

(* When forward_otel has returned, the timer thread has ended and the      *)
(* socket is closed.                                                       *)
THEOREM QuietAfterReturn == ForwardSpec => []NothingAfterReturn
<1>1. DeadlineInv => NothingAfterReturn
  BY DEF DeadlineInv
<1> QED
  BY DeadlineInvariance, <1>1, PTL

(* After _expire no read of the target's answer is on an open socket.      *)
THEOREM DeadlineIsFelt == ForwardSpec => []DeadlineReaches
<1>1. DeadlineInv => DeadlineReaches
  BY DEF DeadlineInv
<1> QED
  BY DeadlineInvariance, <1>1, PTL
=============================================================================
