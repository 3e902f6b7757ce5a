------------------------ MODULE BackdateProbeProofs ------------------------
(***************************************************************************)
(* Proofs about the backdate probe, for any number of probes, overlapping  *)
(* or not, any page size, and any bounds on attempts, polls and pages.     *)
(*                                                                         *)
(* That a verdict is about the host rests on whose rows a probe reads:     *)
(* rows of its own trace are rows of its own POST (Mine), because no two   *)
(* probes have drawn the same nonce (Distinct).  The start of the root,    *)
(* and that of the child unless the trace was dated late, is in the minute *)
(* under which the host files the trace; a late child is in the next one.  *)
(***************************************************************************)
EXTENDS BackdateProbe, FiniteSetTheorems, TLAPS

(* The minute under which the host files what run r wrote. *)
Filed(r) == IF host = "keeps" THEN Backdate(r) ELSE Arrival(r)
OwnRow(x, r) == x.trace = id[r] /\ x.run = r /\ x.start = Start(r, x.kind)

Mine == \A x \in stored : OwnRow(x, x.run)
ReadsOwn == \A r \in Run : \A x \in reading[r].rows : OwnRow(x, r)
Distinct == \A q, r \in Run : id[q] # NoId /\ id[q] = id[r] => q = r
Drawn == \A r \in Run :
  /\ probe[r] \in {"idle", "guardrail"} => id[r] = NoId
  /\ probe[r] \in {"posting", "polling"} => id[r] \in Nonce /\ demo
PollsAcked == \A r \in Run :
  /\ probe[r] \in {"idle", "guardrail", "posting", "polling"} => r \notin erred
  /\ probe[r] = "polling" => r \in acked

Inv == /\ TypeOK /\ Mine /\ ReadsOwn /\ Distinct /\ Drawn /\ PollsAcked
       /\ VerdictAboutHost /\ VerdictEarned /\ GuardrailHolds

(* A page, and so a cursor, is made of rows that are there. *)
LEMMA PageWithin ==
  ASSUME NEW R, NEW c
  PROVE  Page(R, c) \subseteq R
BY DEF Page, Onward

LEMMA CursorWithin ==
  ASSUME NEW R, NEW c, NEW d \in Cursors(R, c)
  PROVE  d \subseteq R
BY PageWithin, Zenon DEF Cursors, NoCursor

(* What a kept or dropped start amounts to, in halves of a minute. *)
LEMMA StartsInMinute ==
  ASSUME NEW r \in Run, NEW k
  PROVE  /\ Filed(r) \in Nat /\ Start(r, k) \in Nat
         /\ Start(r, k) \in {2 * Filed(r), 2 * Filed(r) + 1, 2 * Filed(r) + 2}
         /\ r \notin late \/ k # "child" => Start(r, k) # 2 * Filed(r) + 2
BY RunAssumption, BoundsAssumption DEF Start, Filed, Backdate, Arrival, Half

(* The timestamp is of the minute under which the host files the trace, or *)
(* of the next one if the trace is late and its root was not read.         *)
LEMMA TimestampInMinute ==
  ASSUME NEW r \in Run, NEW R, R # {}, \A x \in R : OwnRow(x, r)
  PROVE  \/ Minute(Timestamp(R)) = Filed(r)
         \/ /\ Minute(Timestamp(R)) = Filed(r) + 1
            /\ r \in late /\ \A x \in R : x.kind # "root"
<1> DEFINE T == {x.start : x \in R}
           m == Filed(r)
           t == Timestamp(R)
<1>1. m \in Nat /\ T \subseteq {2 * m, 2 * m + 1, 2 * m + 2} /\ T # {}
  BY StartsInMinute DEF OwnRow
<1>2. \E u \in T : \A x \in R : u <= x.start
  <2>1. \E u \in T : \A v \in T : u <= v
    <3> HIDE DEF m, T
    <3> USE <1>1
    <3>1. CASE 2 * m \in T
      BY <3>1
    <3>2. CASE 2 * m \notin T /\ 2 * m + 1 \in T
      <4>1. T \subseteq {2 * m + 1, 2 * m + 2}
        BY <3>2, Zenon
      <4> QED BY <3>2, <4>1
    <3>3. CASE 2 * m \notin T /\ 2 * m + 1 \notin T
      <4>1. T = {2 * m + 2}
        BY <3>3, Zenon
      <4> QED BY <4>1
    <3> QED BY <3>1, <3>2, <3>3
  <2> QED BY <2>1, Zenon
<1>3. t \in T /\ \A x \in R : t <= x.start
  BY <1>2, Zenon DEF Timestamp
<1>4. t \in {2 * m, 2 * m + 1, 2 * m + 2}
  BY <1>1, <1>3, Zenon
<1>5. CASE t # 2 * m + 2
  <2> HIDE DEF m, t
  <2>1. Minute(t) = m
    BY <1>1, <1>4, <1>5 DEF Minute
  <2> QED BY <2>1 DEF m, t
<1>6. CASE t = 2 * m + 2
  <2>1. \A x \in R : x.start = 2 * m + 2
    <3> TAKE x \in R
    <3>1. x.start \in {2 * m, 2 * m + 1, 2 * m + 2} /\ t <= x.start
      BY <1>1, <1>3, Zenon
    <3> HIDE DEF m, t
    <3> QED BY <1>1, <1>6, <3>1
  <2>2. \A x \in R : x.kind = "child" /\ r \in late
    BY <2>1, StartsInMinute DEF OwnRow
  <2>3. Minute(t) = m + 1
    <3> HIDE DEF m, t
    <3> QED BY <1>1, <1>6 DEF Minute
  <2> QED BY <2>2, <2>3
<1> QED BY <1>5, <1>6

LEMMA VerdictIsOfHost ==
  ASSUME NEW r \in Run, NEW R, R # {}, \A x \in R : OwnRow(x, r),
         host \in {"keeps", "drops"}
  PROVE  \/ Verdict(r, R) = "passed" /\ host = "keeps"
         \/ /\ Verdict(r, R) = "dropped"
            /\ \/ host = "drops"
               \/ r \in late /\ \A x \in R : x.kind # "root"
BY TimestampInMinute, RunAssumption, BoundsAssumption
   DEF Verdict, Filed, Backdate, Arrival

(* A probe that draws a nonce gets one that no other probe has. *)
LEMMA NonceIsFresh ==
  ASSUME TypeOK, NEW r \in Run
  PROVE  FreshNonce(r) \in Nonce /\ \A q \in Run \ {r} : id[q] # FreshNonce(r)
<1>1. \E n \in Nonce : \A q \in Run \ {r} : id[q] # n
  BY NonceAssumption DEF TypeOK
<1> QED BY <1>1, Zenon DEF FreshNonce

LEMMA InitHolds == Init => Inv
BY BoundsAssumption, RunAssumption
   DEF Init, Inv, TypeOK, Mine, ReadsOwn, Distinct, Drawn, PollsAcked,
       VerdictAboutHost, VerdictEarned, GuardrailHolds, Nothing, NoCursor,
       Busy, Getting, Over, Verdicts

---------------------------------------------------------------------------
(* The two ways a page is taken: the reading goes on with the rows R and   *)
(* the cursor d, or the probe concludes from R.                            *)
GoesOn(r, R, d) ==
  /\ probe' = [probe EXCEPT ![r] = "polling"]
  /\ reading' = [reading EXCEPT ![r] =
       [cursor |-> d, pages |-> reading[r].pages + 1, rows |-> R]]
  /\ owed' = [owed EXCEPT ![r] = Owed(r)]
  /\ UNCHANGED <<poll, missed, rootless>>

Concludes(r, R) ==
  /\ \/ \E pc \in {"polling", "unreadable"} : probe' = [probe EXCEPT ![r] = pc]
     \/ R # {} /\ probe' = [probe EXCEPT ![r] = Verdict(r, R)]
  /\ reading' = [reading EXCEPT ![r] = Nothing]
  /\ owed' = [owed EXCEPT ![r] = {}]
  /\ missed' \in {missed, missed \cup {r}}
  /\ rootless' = IF \A x \in R : x.kind # "root"
                 THEN rootless \cup {r} ELSE rootless \ {r}
  /\ \/ UNCHANGED poll
     \/ ~LastPoll(r) /\ poll' = [poll EXCEPT ![r] = NextPoll(r)]

LEMMA PageReadOutcome ==
  ASSUME NEW r \in Run, PageRead(r)
  PROVE  /\ attempt' = [attempt EXCEPT ![r] = 1]
         /\ UNCHANGED <<host, demo, late, id, langfuse, acked, erred>>
         /\ \E R \in SUBSET (reading[r].rows \cup Visible(r)),
               d \in SUBSET Visible(r) : GoesOn(r, R, d) \/ Concludes(r, R)
<1> DEFINE V == Visible(r)
           c == reading[r].cursor
           R == reading[r].rows \cup Page(V, c)
<1>1. PICK d \in Cursors(V, c) : Take(r, Page(V, c), d)
  BY DEF PageRead
<1>2. R \subseteq reading[r].rows \cup V /\ d \subseteq V
  BY PageWithin, CursorWithin, Zenon
<1>3. UNCHANGED <<host, demo, late, id, langfuse, acked, erred>>
  BY DEF PageRead
<1>4. \/ /\ Conclude(r, R)
         /\ owed' = [owed EXCEPT ![r] = {}]
         /\ missed' \in {missed, missed \cup {r}}
         /\ rootless' = IF \A x \in R : x.kind # "root"
                        THEN rootless \cup {r} ELSE rootless \ {r}
      \/ Goto(r, "polling") /\ GoesOn(r, R, d)
  BY <1>1, Zenon DEF Take, Goto, GoesOn
<1> HIDE DEF R, V
<1>5. ASSUME Conclude(r, R), owed' = [owed EXCEPT ![r] = {}],
             missed' \in {missed, missed \cup {r}},
             rootless' = IF \A x \in R : x.kind # "root"
                         THEN rootless \cup {r} ELSE rootless \ {r}
      PROVE  Concludes(r, R) /\ attempt' = [attempt EXCEPT ![r] = 1]
  BY <1>5, Zenon DEF Conclude, Concludes, Goto
<1>6. /\ attempt' = [attempt EXCEPT ![r] = 1]
      /\ GoesOn(r, R, d) \/ Concludes(r, R)
  BY <1>4, <1>5, Zenon DEF Goto
<1> QED BY <1>2, <1>3, <1>6, Zenon DEF V

(* Type correctness, one action at a time. *)
LEMMA TypeStep == Inv /\ [Next]_vars => TypeOK'
<1> SUFFICES ASSUME Inv, [Next]_vars PROVE TypeOK'
  OBVIOUS
<1> USE DEF Inv, TypeOK
<1>1. ASSUME NEW r \in Run, Begin(r) PROVE TypeOK'
  BY <1>1, BoundsAssumption
     DEF Begin, Goto, langfuse, history, Busy, Getting
<1>2. ASSUME NEW r \in Run, GetAgain(r) PROVE TypeOK'
  BY <1>2, BoundsAssumption DEF GetAgain, langfuse, history
<1>3. ASSUME NEW r \in Run, GetRaises(r) PROVE TypeOK'
  BY <1>3, BoundsAssumption
     DEF GetRaises, Goto, Over, langfuse, Nothing, NoCursor
<1>4. ASSUME NEW r \in Run, Guardrail(r) PROVE TypeOK'
  BY <1>4, BoundsAssumption, NonceIsFresh
     DEF Guardrail, Goto, langfuse, history, Busy, Over
<1>5. ASSUME NEW r \in Run, probe[r] = "posting" PROVE Body(r) \subseteq Row
  BY <1>5, StartsInMinute DEF Body, Row, Drawn
<1>6. ASSUME NEW r \in Run, PostAccepted(r) PROVE TypeOK'
  BY <1>5, <1>6, BoundsAssumption
     DEF PostAccepted, Stores, Goto, Busy, Getting
<1>7. ASSUME NEW r \in Run, PostFails(r) PROVE TypeOK'
  BY <1>5, <1>7, BoundsAssumption
     DEF PostFails, AfterFailedPost, Stores, Goto, Over, history
<1>8. ASSUME NEW r \in Run, PostAgain(r) PROVE TypeOK'
  BY <1>5, <1>8, BoundsAssumption DEF PostAgain, Stores, history
<1>9. ASSUME NEW r \in Run, PageRead(r) PROVE TypeOK'
  <2>1. PICK R \in SUBSET (reading[r].rows \cup Visible(r)),
             d \in SUBSET Visible(r) : GoesOn(r, R, d) \/ Concludes(r, R)
    BY <1>9, PageReadOutcome
  <2>2. /\ attempt' = [attempt EXCEPT ![r] = 1]
        /\ UNCHANGED <<host, demo, late, id, langfuse, acked, erred>>
    BY <1>9, PageReadOutcome
  <2>3. R \subseteq Row /\ d \subseteq Row /\ Owed(r) \subseteq Row
    BY DEF Visible, Owed
  <2>4. CASE GoesOn(r, R, d)
    <3>1. [cursor |-> d, pages |-> reading[r].pages + 1, rows |-> R]
            \in [cursor : SUBSET Row, pages : Nat, rows : SUBSET Row]
      BY <2>3
    <3> HIDE DEF Row
    <3> QED BY <2>2, <2>3, <2>4, <3>1, BoundsAssumption
            DEF GoesOn, langfuse, Busy, Getting
  <2>5. CASE Concludes(r, R)
    <3>1. poll' \in [Run -> 1..MaxPolls]
      <4>1. poll \in [Run -> 1..MaxPolls]
        OBVIOUS
      <4>2. ~LastPoll(r) => NextPoll(r) \in 1..MaxPolls
        <5> HIDE DEF Inv, TypeOK
        <5> QED BY <4>1, BoundsAssumption DEF NextPoll, LastPoll
      <4> QED BY <2>5, <4>1, <4>2, Zenon DEF Concludes
    <3>2. probe' \in [Run -> {"idle"} \cup Busy \cup Over]
      BY <2>5 DEF Concludes, Verdict, Busy, Getting, Over, Verdicts
    <3>3. reading' \in [Run -> [cursor : SUBSET Row, pages : Nat,
                                rows : SUBSET Row]]
      BY <2>5 DEF Concludes, Nothing, NoCursor
    <3> QED BY <2>2, <2>5, <3>1, <3>2, <3>3, BoundsAssumption
            DEF Concludes, langfuse
  <2> QED BY <2>1, <2>4, <2>5
<1>10. ASSUME NEW r \in Run, ErrorResponse(r) PROVE TypeOK'
  BY <1>10, BoundsAssumption
     DEF ErrorResponse, OnErrorResponse, Goto, Over, langfuse, Nothing, NoCursor
<1>11. CASE Settle
  BY <1>11 DEF Settle, history
<1>12. ASSUME NEW r \in Run, DeleteTrace(r) PROVE TypeOK'
  BY <1>12 DEF DeleteTrace, history
<1>13. CASE UNCHANGED vars
  BY <1>13 DEF vars, langfuse, history
<1> QED
  BY <1>1, <1>2, <1>3, <1>4, <1>6, <1>7, <1>8, <1>9, <1>10, <1>11, <1>12,
     <1>13, Zenon DEF Next, Step

---------------------------------------------------------------------------
(* The rest of the invariant. *)
Rest == /\ Mine /\ ReadsOwn /\ Distinct /\ Drawn /\ PollsAcked
        /\ VerdictAboutHost /\ VerdictEarned /\ GuardrailHolds

(* A run that reads sees rows of its own trace only. *)
LEMMA SeesOwn ==
  ASSUME Inv, NEW r \in Run, id[r] # NoId
  PROVE  \A x \in Visible(r) : OwnRow(x, r)
<1> SUFFICES ASSUME NEW x \in Visible(r) PROVE OwnRow(x, r)
  OBVIOUS
<1>1. x \in stored /\ x.trace = id[r] /\ x.run \in Run
  BY DEF Visible, Inv, TypeOK, Row
<1>2. OwnRow(x, x.run) /\ id[x.run] = id[r]
  BY <1>1 DEF Inv, Mine, OwnRow
<1>3. x.run = r
  BY <1>1, <1>2 DEF Inv, Distinct
<1> QED BY <1>2, <1>3

LEMMA RestStep == Inv /\ [Next]_vars => Rest'
<1> SUFFICES ASSUME Inv, [Next]_vars PROVE Rest'
  OBVIOUS
<1> USE DEF Inv, TypeOK, Rest
<1>a. TypeOK'
  BY TypeStep
(* Steps that leave the ids, the rows and the host alone. *)
<1>1. ASSUME NEW r \in Run, Begin(r) \/ GetAgain(r) \/ GetRaises(r)
                            \/ ErrorResponse(r)
      PROVE  Rest'
  <2>1. /\ UNCHANGED <<host, demo, late, id, stored, rootless, acked>>
        /\ \/ probe' = probe /\ reading' = reading /\ erred' = erred
           \/ /\ probe[r] = "idle" /\ probe' = [probe EXCEPT ![r] = "guardrail"]
              /\ reading' = reading /\ erred' = erred
           \/ /\ probe' = [probe EXCEPT ![r] = "raised"]
              /\ reading' = [reading EXCEPT ![r] = Nothing]
              /\ probe[r] \in Getting
              /\ erred' \in {erred, erred \cup {r}}
    BY <1>1, Zenon DEF Begin, GetAgain, GetRaises, ErrorResponse, OnErrorResponse,
                Goto, langfuse, history
  <2>2. Mine' /\ Distinct' /\ GuardrailHolds'
    BY <2>1 DEF Mine, Distinct, GuardrailHolds, OwnRow, Start, Half
  <2>3. ReadsOwn'
    BY <2>1 DEF ReadsOwn, OwnRow, Start, Half, Nothing
  <2>4. Drawn' /\ PollsAcked' /\ VerdictAboutHost' /\ VerdictEarned'
    BY <2>1 DEF Drawn, PollsAcked, VerdictAboutHost, VerdictEarned, Verdicts,
                Getting
  <2> QED BY <2>2, <2>3, <2>4
<1>2. ASSUME NEW r \in Run, Guardrail(r) PROVE Rest'
  <2>1. /\ probe[r] = "guardrail" /\ id[r] = NoId
        /\ UNCHANGED <<host, demo, late, stored, reading, rootless, acked, erred>>
        /\ \/ /\ demo /\ probe' = [probe EXCEPT ![r] = "posting"]
              /\ id' = [id EXCEPT ![r] = FreshNonce(r)]
           \/ probe' = [probe EXCEPT ![r] = "raised"] /\ id' = id
    BY <1>2 DEF Guardrail, GuardrailPasses, Goto, langfuse, history, Drawn
  <2>2. FreshNonce(r) \in Nonce /\ \A q \in Run \ {r} : id[q] # FreshNonce(r)
    BY NonceIsFresh
  <2>3. \A x \in stored : x.run # r
    BY <2>1, NonceAssumption DEF Mine, OwnRow, Row
  <2>4. Mine'
    BY <2>1, <2>3 DEF Mine, OwnRow, Start, Half, Row
  <2>5. ReadsOwn'
    <3>1. \A x \in reading[r].rows : FALSE
      BY <2>1, NonceAssumption DEF ReadsOwn, OwnRow, Row
    <3> QED BY <2>1, <3>1 DEF ReadsOwn, OwnRow, Start, Half
  <2>6. Distinct'
    BY <2>1, <2>2, NonceAssumption DEF Distinct
  <2>7. Drawn' /\ PollsAcked' /\ VerdictAboutHost' /\ VerdictEarned'
        /\ GuardrailHolds'
    BY <2>1, <2>2 DEF Drawn, PollsAcked, VerdictAboutHost, VerdictEarned,
                      Verdicts, GuardrailHolds
  <2> QED BY <2>4, <2>5, <2>6, <2>7
<1>3. ASSUME NEW r \in Run, PostAccepted(r) \/ PostFails(r) \/ PostAgain(r)
      PROVE  Rest'
  <2>1. /\ probe[r] = "posting"
        /\ UNCHANGED <<host, demo, late, id, reading, rootless, erred>>
        /\ \E S \in SUBSET Body(r) : stored' = stored \cup S
        /\ \/ /\ probe' = [probe EXCEPT ![r] = "polling"]
              /\ acked' = acked \cup {r}
           \/ probe' = [probe EXCEPT ![r] = "raised"] /\ acked' = acked
           \/ probe' = probe /\ acked' = acked
    BY <1>3, Zenon DEF PostAccepted, PostFails, PostAgain, AfterFailedPost, Stores,
                Goto, history
  <2>2. Mine'
    BY <2>1 DEF Mine, OwnRow, Start, Half, Body
  <2>3. ReadsOwn' /\ Distinct'
    BY <2>1 DEF ReadsOwn, OwnRow, Start, Half, Distinct
  <2>4. Drawn' /\ PollsAcked' /\ VerdictAboutHost' /\ VerdictEarned'
        /\ GuardrailHolds'
    BY <2>1 DEF Drawn, PollsAcked, VerdictAboutHost, VerdictEarned, Verdicts,
                GuardrailHolds
  <2> QED BY <2>2, <2>3, <2>4
<1>4. ASSUME NEW r \in Run, PageRead(r) PROVE Rest'
  <2>1. PICK R \in SUBSET (reading[r].rows \cup Visible(r)),
             d \in SUBSET Visible(r) : GoesOn(r, R, d) \/ Concludes(r, R)
    BY <1>4, PageReadOutcome
  <2>2. /\ UNCHANGED <<host, demo, late, id, stored, acked, erred>>
        /\ probe[r] = "polling" /\ id[r] # NoId
    BY <1>4, PageReadOutcome, NonceAssumption DEF langfuse, PageRead, Drawn
  <2>3. \A x \in R : OwnRow(x, r)
    BY <2>1, <2>2, SeesOwn, Zenon DEF ReadsOwn
  <2>4. Mine' /\ Distinct' /\ GuardrailHolds'
    BY <2>2 DEF Mine, Distinct, GuardrailHolds, OwnRow, Start, Half
  <2>5. ReadsOwn'
    BY <2>1, <2>2, <2>3
       DEF ReadsOwn, OwnRow, Start, Half, GoesOn, Concludes, Nothing
  <2>6. /\ rootless \ {r} \subseteq rootless'
        /\ \/ \E pc \in {"polling", "unreadable"} :
                  probe' = [probe EXCEPT ![r] = pc]
           \/ \E v \in {"passed", "dropped"} :
                /\ probe' = [probe EXCEPT ![r] = v]
                /\ v = "passed" => host = "keeps"
                /\ v = "dropped" => \/ host = "drops"
                                    \/ r \in late /\ r \in rootless'
    BY <2>1, <2>3, VerdictIsOfHost DEF GoesOn, Concludes
  <2>7. Drawn' /\ PollsAcked' /\ VerdictAboutHost' /\ VerdictEarned'
    BY <2>2, <2>6 DEF Drawn, PollsAcked, VerdictAboutHost, VerdictEarned,
                      Verdicts
  <2> QED BY <2>4, <2>5, <2>7
<1>5. ASSUME UNCHANGED <<host, demo, late, probe, id, reading, rootless, acked,
                         erred>>,
             stored' \subseteq stored
      PROVE  Rest'
  BY <1>5 DEF Mine, ReadsOwn, OwnRow, Start, Half, Distinct, Drawn, PollsAcked,
              VerdictAboutHost, VerdictEarned, GuardrailHolds
<1>6. CASE Settle
  BY <1>5, <1>6 DEF Settle, history
<1>7. ASSUME NEW r \in Run, DeleteTrace(r) PROVE Rest'
  BY <1>5, <1>7 DEF DeleteTrace, history
<1>8. CASE UNCHANGED vars
  BY <1>5, <1>8 DEF vars, langfuse, history
<1> QED
  BY <1>1, <1>2, <1>3, <1>4, <1>6, <1>7, <1>8, Zenon DEF Next, Step

THEOREM Invariance == Spec => []Inv
<1>1. Inv /\ [Next]_vars => Inv'
  BY TypeStep, RestStep DEF Inv, Rest
<1> QED BY <1>1, InitHolds, PTL DEF Spec

(* Type correctness of the probe and of Langfuse as it sees it. *)
THEOREM TypeCorrect == Spec => []TypeOK
BY Invariance, PTL DEF Inv

(* A passed or failed probe is right about the host (probe.py:112-123):    *)
(* earlier and simultaneous probes, duplicates and rows that were not yet  *)
(* readable cannot change its verdict, except that a trace dated into the  *)
(* end of a minute is called dropped when its child alone was readable.    *)
THEOREM RightAboutHost == Spec => []VerdictAboutHost
BY Invariance, PTL DEF Inv

(* A verdict follows an acknowledged POST and no error response.           *)
THEOREM EarnedVerdict == Spec => []VerdictEarned
BY Invariance, PTL DEF Inv

(* Nothing is written to a project the hint does not name.                 *)
THEOREM Guarded == Spec => []GuardrailHolds
BY Invariance, PTL DEF Inv
---------------------------------------------------------------------------
(* A reading that ended before the cap is complete.                        *)
(*                                                                         *)
(* What a reading owes is among the rows it has and those its cursor       *)
(* leaves (Pending).  That a page followed by no cursor was the last one   *)
(* needs every set of rows of one trace to have a first and a last row     *)
(* (Ordered): rows become readable one at a time, and each finds its place *)
(* among those of its trace.                                               *)

IsFirst(x, T) == \A y \in T : y = x \/ Before(x, y)
IsLast(x, T) == \A y \in T : y = x \/ Before(y, x)

Ordered ==
  \A T \in SUBSET readable :
    T # {} /\ (\A x, y \in T : x.trace = y.trace)
      => (\E x \in T : IsFirst(x, T)) /\ (\E x \in T : IsLast(x, T))

Pending ==
  \A r \in Run :
    \/ reading[r] = Nothing
    \/ /\ probe[r] = "polling" /\ reading[r].pages # 0
       /\ owed[r] \subseteq reading[r].rows
                              \cup Onward(Visible(r), reading[r].cursor)

ReadInv == IsFiniteSet(stored) /\ Ordered /\ Pending /\ ReadComplete

LEMMA RowFields ==
  ASSUME NEW x \in Row
  PROVE  x.start \in Nat /\ x.try \in Nat
BY BoundsAssumption DEF Row

LEMMA BeforeIsTransitive ==
  ASSUME NEW x \in Row, NEW y \in Row, NEW z \in Row, Before(x, y), Before(y, z)
  PROVE  Before(x, z) /\ ~Before(y, x)
BY RowFields DEF Before

(* Two rows of a trace are of one run, so they differ in their kind, and   *)
(* with it in their start, or in the attempt that stored them.             *)
LEMMA BeforeIsTotal ==
  ASSUME Inv, NEW x \in stored, NEW y \in stored, x.trace = y.trace, x # y
  PROVE  Before(x, y) \/ Before(y, x)
<1>1. x \in Row /\ y \in Row
  BY DEF Inv, TypeOK
<1>2. /\ x.run \in Run /\ y.run \in Run
      /\ x.trace = id[x.run] /\ y.trace = id[y.run] /\ x.trace # NoId
      /\ x.start = Start(x.run, x.kind) /\ y.start = Start(y.run, y.kind)
  BY <1>1, NonceAssumption DEF Inv, Mine, OwnRow, Row
<1>3. x.run = y.run
  BY <1>2 DEF Inv, Distinct
<1>4. x.kind \in {"root", "child"} /\ y.kind \in {"root", "child"}
  BY <1>1 DEF Row
<1>5. x.kind # y.kind \/ x.try # y.try
  <2> SUFFICES ASSUME x.kind = y.kind, x.try = y.try PROVE FALSE
    OBVIOUS
  <2>1. x.start = y.start
    BY <1>2, <1>3
  <2>2. x = [trace |-> x.trace, run |-> x.run, kind |-> x.kind, try |-> x.try, start |-> x.start]
        /\ y = [trace |-> y.trace, run |-> y.run, kind |-> y.kind, try |-> y.try, start |-> y.start]
    BY <1>1 DEF Row
  <2> QED
    BY <1>3, <2>1, <2>2
<1>6. x.start \in Nat /\ y.start \in Nat /\ x.try \in Nat /\ y.try \in Nat
  BY <1>1, RowFields
<1>7. CASE x.kind # y.kind
  <2>1. x.start # y.start
    <3>1. Start(x.run, "root") # Start(x.run, "child")
      <4>1. Filed(x.run) \in Nat
        BY <1>2, StartsInMinute
      <4>2. /\ Start(x.run, "root") = 2 * Filed(x.run) + Half(x.run) + 0
            /\ Start(x.run, "child") = 2 * Filed(x.run) + Half(x.run) + 1
            /\ Half(x.run) \in Nat
        BY DEF Start, Filed, Half
      <4> QED
        BY <4>1, <4>2
    <3> QED
      BY <1>2, <1>3, <1>4, <1>7, <3>1
  <2> QED
    BY <1>6, <2>1 DEF Before
<1>8. CASE x.kind = y.kind
  <2>1. x.start = y.start /\ x.try # y.try
    BY <1>2, <1>3, <1>5, <1>8
  <2> QED
    BY <1>6, <2>1 DEF Before
<1> QED
  BY <1>7, <1>8

(* A row more, and its sets of rows of one trace still have both ends. *)
LEMMA OrderedGrows ==
  ASSUME Inv, Ordered, NEW z \in stored, readable' = readable \cup {z}
  PROVE  Ordered'
<1> SUFFICES ASSUME NEW T \in SUBSET (readable \cup {z}), T # {},
                    \A x, y \in T : x.trace = y.trace
             PROVE  (\E x \in T : IsFirst(x, T)) /\ (\E x \in T : IsLast(x, T))
  BY DEF Ordered, IsFirst, IsLast
<1>1. T \subseteq stored /\ T \subseteq Row
  BY DEF Inv, TypeOK
<1>2. CASE z \notin T
  BY <1>2 DEF Ordered
<1>3. CASE z \in T
  <2> DEFINE U == T \ {z}
  <2>1. \A x \in U : Before(x, z) \/ Before(z, x)
    BY <1>1, <1>3, BeforeIsTotal
  <2>2. CASE U = {}
    BY <1>3, <2>2 DEF IsFirst, IsLast
  <2>3. CASE U # {}
    <3>1. U \in SUBSET readable /\ \A x, y \in U : x.trace = y.trace
      OBVIOUS
    <3>2. PICK f \in U : IsFirst(f, U)
      BY <2>3, <3>1 DEF Ordered
    <3>3. PICK l \in U : IsLast(l, U)
      BY <2>3, <3>1 DEF Ordered
    <3>4. \E x \in T : IsFirst(x, T)
      <4>1. CASE Before(f, z)
        BY <3>2, <4>1 DEF IsFirst
      <4>2. CASE Before(z, f)
        <5>1. \A y \in U : Before(z, y)
          BY <1>1, <1>3, <3>2, <4>2, BeforeIsTransitive DEF IsFirst
        <5> QED
          BY <1>3, <5>1 DEF IsFirst
      <4> QED
        BY <2>1, <4>1, <4>2
    <3>5. \E x \in T : IsLast(x, T)
      <4>1. CASE Before(z, l)
        BY <3>3, <4>1 DEF IsLast
      <4>2. CASE Before(l, z)
        <5>1. \A y \in U : Before(y, z)
          BY <1>1, <1>3, <3>3, <4>2, BeforeIsTransitive DEF IsLast
        <5> QED
          BY <1>3, <5>1 DEF IsLast
      <4> QED
        BY <2>1, <4>1, <4>2
    <3> QED
      BY <3>4, <3>5
  <2> QED
    BY <2>2, <2>3
<1> QED
  BY <1>2, <1>3

(* An empty page, and a page without a cursor, leave nothing to be served; *)
(* a cursor leaves what its page did not hold.                             *)
LEMMA PageSplits ==
  ASSUME Inv, ReadInv, NEW V \in SUBSET readable,
         \A x, y \in V : x.trace = y.trace, NEW c, NEW d \in Cursors(V, c)
  PROVE  /\ Page(V, c) = {} => Onward(V, c) = {}
         /\ d = NoCursor => Onward(V, c) \subseteq Page(V, c)
         /\ d # NoCursor => Onward(V, c) \subseteq Page(V, c) \cup Onward(V, d)
<1> DEFINE left == Onward(V, c)
           pred(x) == {y \in left : Before(y, x)}
           page == Page(V, c)
<1>1. /\ left \subseteq readable /\ left \subseteq stored /\ left \subseteq Row
      /\ left \subseteq V
      /\ \A x, y \in left : x.trace = y.trace
      /\ page = {x \in left : Cardinality(pred(x)) < PageSize}
      /\ page \subseteq left
  BY DEF Inv, TypeOK, Onward, Page
<1>2. IsFiniteSet(left)
  BY <1>1, FS_Subset DEF ReadInv
<1>3. \A x : IsFiniteSet(pred(x)) /\ Cardinality(pred(x)) \in Nat
  BY <1>2, FS_Subset, FS_CardinalityType
<1> HIDE DEF left, page
<1>4. page = {} => left = {}
  <2> SUFFICES ASSUME left # {} PROVE page # {}
    OBVIOUS
  <2>1. PICK f \in left : IsFirst(f, left)
    BY <1>1 DEF ReadInv, Ordered
  <2>2. pred(f) = {}
    <3> SUFFICES ASSUME NEW y \in left, Before(y, f) PROVE FALSE
      OBVIOUS
    <3>1. y = f \/ Before(f, y)
      BY <2>1 DEF IsFirst
    <3>2. y \in Row /\ f \in Row
      BY <1>1
    <3> QED
      BY <3>1, <3>2, RowFields DEF Before
  <2>3. Cardinality(pred(f)) = 0
    BY <2>2, FS_EmptySet
  <2> QED
    BY <1>1, <2>3, PageSizeAssumption
<1>5. d = NoCursor => left \subseteq page
  <2> SUFFICES ASSUME d = NoCursor, page # {} PROVE left \subseteq page
    BY <1>4
  <2>1. PICK l \in page : IsLast(l, page)
    BY <1>1 DEF ReadInv, Ordered
  <2>2. l \in {x \in page : \A y \in page : y = x \/ Before(y, x)}
    BY <2>1 DEF IsLast
  <2> QED
    BY <2>2 DEF Cursors, NoCursor, left, page
<1>6. ASSUME d # NoCursor, NEW x \in left, x \notin page
      PROVE  x \in Onward(V, d)
  <2>1. d = {z \in page : \A y \in page : y = z \/ Before(y, z)}
    BY <1>6 DEF Cursors, page
  <2>2. ASSUME NEW z \in d PROVE Before(z, x)
    <3>1. z \in page /\ z \in left /\ z # x
      BY <1>1, <1>6, <2>1, <2>2
    <3>2. CASE Before(x, z)
      <4>1. pred(x) \subseteq pred(z)
        BY <1>1, <3>1, <3>2, BeforeIsTransitive
      <4>2. Cardinality(pred(x)) <= Cardinality(pred(z))
        BY <1>3, <4>1, FS_Subset
      <4>3. Cardinality(pred(z)) < PageSize /\ ~(Cardinality(pred(x)) < PageSize)
        BY <1>1, <1>6, <3>1
      <4> QED
        BY <1>3, <4>2, <4>3, PageSizeAssumption
    <3> QED
      BY <1>1, <3>1, <3>2, BeforeIsTotal
  <2> QED
    BY <1>1, <2>2 DEF Onward
<1> QED
  BY <1>4, <1>5, <1>6 DEF left, page

(* What a reading owes, before and after a page. *)
LEMMA OwedIsLeft ==
  ASSUME Inv, ReadInv, NEW r \in Run, probe[r] = "polling"
  PROVE  Owed(r) \subseteq reading[r].rows
                             \cup Onward(Visible(r), reading[r].cursor)
<1>1. CASE reading[r] = Nothing
  BY <1>1 DEF Owed, Nothing, NoCursor, Onward
<1>2. CASE reading[r] # Nothing
  BY <1>2 DEF ReadInv, Pending, Owed
<1> QED
  BY <1>1, <1>2

LEMMA PageReadKeeps ==
  ASSUME Inv, ReadInv, NEW r \in Run, PageRead(r)
  PROVE  /\ \A q \in Run \ {r} : /\ probe'[q] = probe[q] /\ owed'[q] = owed[q]
                                 /\ reading'[q] = reading[q]
         /\ UNCHANGED <<langfuse, id>>
         /\ missed' = missed
         /\ \/ reading'[r] = Nothing
            \/ /\ probe'[r] = "polling" /\ reading'[r].pages # 0
               /\ owed'[r] \subseteq reading'[r].rows
                             \cup Onward(Visible(r), reading'[r].cursor)
<1> DEFINE V == Visible(r)
           c == reading[r].cursor
           page == Page(V, c)
           R == reading[r].rows \cup page
           pages == reading[r].pages + 1
<1>1. PICK d \in Cursors(V, c) : Take(r, page, d)
  BY DEF PageRead
<1>2. Owed(r) \subseteq reading[r].rows \cup Onward(V, c)
  BY OwedIsLeft DEF PageRead
<1>3. /\ page = {} => Onward(V, c) = {}
      /\ d = NoCursor => Onward(V, c) \subseteq page
      /\ d # NoCursor => Onward(V, c) \subseteq page \cup Onward(V, d)
  <2>1. V \in SUBSET readable /\ \A x, y \in V : x.trace = y.trace
    BY DEF Visible
  <2> QED
    BY <2>1, PageSplits
<1>4. reading[r].pages \in Nat
  BY DEF Inv, TypeOK
<1>5. UNCHANGED <<langfuse, id>>
  BY DEF PageRead
<1> HIDE DEF V, c, page
<1>6. CASE /\ Ends(page, d, pages)
           /\ Conclude(r, R)
           /\ owed' = [owed EXCEPT ![r] = {}]
           /\ missed' = IF pages < MaxPages /\ ~(Owed(r) \subseteq R)
                        THEN missed \cup {r} ELSE missed
  <2>1. missed' = missed
    BY <1>2, <1>3, <1>4, <1>6, BoundsAssumption DEF Ends
  <2>2. reading' = [reading EXCEPT ![r] = Nothing]
    BY <1>6 DEF Conclude
  <2>3. \E pc : probe' = [probe EXCEPT ![r] = pc]
    BY <1>6 DEF Conclude, Goto
  <2>4. reading'[r] = Nothing
    BY <2>2 DEF Inv, TypeOK
  <2>5. \A q \in Run \ {r} : /\ probe'[q] = probe[q] /\ owed'[q] = owed[q]
                             /\ reading'[q] = reading[q]
    BY <1>6, <2>2, <2>3 DEF Inv, TypeOK
  <2> QED
    BY <1>5, <2>1, <2>4, <2>5
<1>7. CASE /\ ~Ends(page, d, pages)
           /\ reading' = [reading EXCEPT ![r] =
                            [cursor |-> d, pages |-> pages, rows |-> R]]
           /\ owed' = [owed EXCEPT ![r] = Owed(r)]
           /\ Goto(r, "polling") /\ UNCHANGED <<poll, missed>>
  <2>1. reading'[r] = [cursor |-> d, pages |-> pages, rows |-> R]
        /\ owed'[r] = Owed(r) /\ probe'[r] = "polling"
    BY <1>7 DEF Inv, TypeOK, Goto
  <2>2. pages # 0
    BY <1>4
  <2>3. Owed(r) \subseteq R \cup Onward(V, d)
    BY <1>2, <1>3, <1>7 DEF Ends
  <2>4. \A q \in Run \ {r} : /\ probe'[q] = probe[q] /\ owed'[q] = owed[q]
                             /\ reading'[q] = reading[q]
    BY <1>7 DEF Inv, TypeOK, Goto
  <2>5. reading'[r].pages # 0 /\ reading'[r].cursor = d /\ reading'[r].rows = R
    BY <2>1, <2>2
  <2> QED
    BY <1>5, <1>7, <2>1, <2>3, <2>4, <2>5 DEF V
<1> QED
  BY <1>1, <1>6, <1>7 DEF Take

LEMMA BodyIsFinite == \A r \in Run : IsFiniteSet(Body(r))
<1> TAKE r \in Run
<1> DEFINE row(k) == [trace |-> id[r], run |-> r, kind |-> k,
                      try |-> attempt[r], start |-> Start(r, k)]
<1>1. Body(r) = {row("root"), row("child")}
  BY DEF Body
<1>2. IsFiniteSet({row("root"), row("child")})
  <2> HIDE DEF row
  <2>1. IsFiniteSet({row("root")})
    BY FS_Singleton
  <2>2. {row("root"), row("child")} = {row("root")} \cup {row("child")}
    OBVIOUS
  <2> QED
    BY <2>1, <2>2, FS_AddElement
<1> QED
  BY <1>1, <1>2

(* The steps after which every reading is as it was or has been dropped.   *)
LEMMA PendingFrame ==
  ASSUME ReadInv, NEW r \in Run,
         \A q \in Run \ {r} : /\ probe'[q] = probe[q] /\ owed'[q] = owed[q]
                              /\ reading'[q] = reading[q] /\ id'[q] = id[q],
         reading'[r] = Nothing, readable' = readable
  PROVE  Pending'
<1> SUFFICES ASSUME NEW q \in Run, reading'[q] # Nothing
             PROVE  /\ probe'[q] = "polling" /\ reading'[q].pages # 0
                    /\ owed'[q] \subseteq reading'[q].rows
                         \cup Onward(Visible(q), reading[q].cursor)'
  BY DEF Pending, Nothing
<1>1. q # r /\ reading[q] # Nothing /\ reading'[q] = reading[q]
  OBVIOUS
<1>2. Visible(q)' = Visible(q)
  BY <1>1 DEF Visible
<1> QED
  BY <1>1, <1>2 DEF ReadInv, Pending, Onward

LEMMA ReadStep ==
  ASSUME Inv, ReadInv, [Next]_vars
  PROVE  ReadInv'
<1> USE DEF langfuse, history
<1>1. ASSUME stored' = stored, readable' = readable, missed' = missed, Pending'
      PROVE  ReadInv'
  BY <1>1 DEF ReadInv, Ordered, IsFirst, IsLast, ReadComplete
<1>2. \A r \in Run : probe[r] # "polling" => reading[r] = Nothing
  BY DEF ReadInv, Pending
<1>3. ASSUME NEW r \in Run, Begin(r) \/ Guardrail(r)
      PROVE  ReadInv'
  <2>1. /\ probe[r] # "polling" /\ reading' = reading /\ owed' = owed
        /\ stored' = stored /\ readable' = readable /\ missed' = missed
        /\ \E pc : probe' = [probe EXCEPT ![r] = pc]
        /\ id' = id \/ \E n : id' = [id EXCEPT ![r] = n]
    BY <1>3 DEF Begin, Guardrail, Goto
  <2>2. \A q \in Run \ {r} : /\ probe'[q] = probe[q] /\ owed'[q] = owed[q]
                             /\ reading'[q] = reading[q] /\ id'[q] = id[q]
    BY <2>1 DEF Inv, TypeOK
  <2>3. Pending'
    BY <1>2, <2>1, <2>2, PendingFrame
  <2> QED
    BY <1>1, <2>1, <2>3
<1>4. ASSUME NEW r \in Run, GetAgain(r) PROVE ReadInv'
  BY <1>1, <1>4 DEF GetAgain, ReadInv, Pending, Visible, Onward
<1>5. ASSUME NEW r \in Run, GetRaises(r) \/ ErrorResponse(r)
      PROVE  ReadInv'
  <2>1. /\ reading' = [reading EXCEPT ![r] = Nothing]
        /\ owed' = [owed EXCEPT ![r] = {}]
        /\ stored' = stored /\ readable' = readable /\ missed' = missed
        /\ \E pc : probe' = [probe EXCEPT ![r] = pc]
        /\ id' = id
    BY <1>5 DEF GetRaises, ErrorResponse, OnErrorResponse, Goto
  <2>2. /\ reading'[r] = Nothing
        /\ \A q \in Run \ {r} : /\ probe'[q] = probe[q] /\ owed'[q] = owed[q]
                                /\ reading'[q] = reading[q] /\ id'[q] = id[q]
    BY <2>1 DEF Inv, TypeOK
  <2>3. Pending'
    BY <2>1, <2>2, PendingFrame
  <2> QED
    BY <1>1, <2>1, <2>3
<1>6. ASSUME NEW r \in Run, PostAccepted(r) \/ PostFails(r) \/ PostAgain(r)
      PROVE  ReadInv'
  <2>1. /\ probe[r] = "posting" /\ reading' = reading /\ owed' = owed
        /\ readable' = readable /\ missed' = missed /\ id' = id
        /\ \E S \in SUBSET Body(r) : stored' = stored \cup S
        /\ probe' = probe \/ \E pc : probe' = [probe EXCEPT ![r] = pc]
    BY <1>6 DEF PostAccepted, PostFails, PostAgain, AfterFailedPost, Stores, Goto
  <2>2. \A q \in Run \ {r} : /\ probe'[q] = probe[q] /\ owed'[q] = owed[q]
                             /\ reading'[q] = reading[q] /\ id'[q] = id[q]
    BY <2>1 DEF Inv, TypeOK
  <2>3. Pending'
    BY <1>2, <2>1, <2>2, PendingFrame
  <2>4. IsFiniteSet(stored')
    BY <2>1, BodyIsFinite, FS_Subset, FS_Union DEF ReadInv
  <2>5. Ordered'
    BY <2>1 DEF ReadInv, Ordered, IsFirst, IsLast
  <2> QED
    BY <2>1, <2>3, <2>4, <2>5 DEF ReadInv, ReadComplete
<1>7. ASSUME NEW r \in Run, PageRead(r) PROVE ReadInv'
  <2>1. /\ \A q \in Run \ {r} : /\ probe'[q] = probe[q] /\ owed'[q] = owed[q]
                                /\ reading'[q] = reading[q]
        /\ UNCHANGED <<langfuse, id>>
        /\ missed' = missed
        /\ \/ reading'[r] = Nothing
           \/ /\ probe'[r] = "polling" /\ reading'[r].pages # 0
              /\ owed'[r] \subseteq reading'[r].rows
                            \cup Onward(Visible(r), reading'[r].cursor)
    BY <1>7, PageReadKeeps
  <2>2. \A q \in Run : Visible(q)' = Visible(q)
    BY <2>1 DEF Visible
  <2>3. Pending'
    BY <2>1, <2>2 DEF ReadInv, Pending, Nothing, Onward
  <2> QED
    BY <1>1, <2>1, <2>3
<1>8. CASE Settle
  <2>1. PICK z \in stored : readable' = readable \cup {z}
    BY <1>8 DEF Settle
  <2>2. /\ UNCHANGED <<probe, id, reading, stored, owed, missed>>
    BY <1>8 DEF Settle
  <2>3. Ordered'
    BY <2>1, OrderedGrows DEF ReadInv
  <2>4. Pending'
    BY <2>1, <2>2 DEF ReadInv, Pending, Visible, Onward, Nothing
  <2> QED
    BY <2>2, <2>3, <2>4 DEF ReadInv, ReadComplete
<1>9. ASSUME NEW r \in Run, DeleteTrace(r) PROVE ReadInv'
  <2>1. /\ UNCHANGED <<probe, id, reading, owed, missed>>
        /\ probe[r] \in Over /\ id[r] # NoId
        /\ stored' \subseteq stored
        /\ readable' = {x \in readable : x.trace # id[r]}
    BY <1>9 DEF DeleteTrace
  <2>2. Ordered'
    BY <2>1 DEF ReadInv, Ordered, IsFirst, IsLast
  <2>3. \A q \in Run : reading[q] # Nothing => Visible(q)' = Visible(q)
    <3> SUFFICES ASSUME NEW q \in Run, probe[q] = "polling"
                 PROVE  Visible(q)' = Visible(q)
      BY <1>2
    <3>1. q # r
      BY <2>1 DEF Over, Verdicts
    <3>2. id[q] # id[r]
      BY <2>1, <3>1 DEF Inv, Distinct
    <3> QED
      BY <2>1, <3>2 DEF Visible
  <2>4. Pending'
    BY <2>1, <2>3 DEF ReadInv, Pending, Nothing, Onward
  <2>5. IsFiniteSet(stored')
    BY <2>1, FS_Subset DEF ReadInv
  <2> QED
    BY <2>1, <2>2, <2>4, <2>5 DEF ReadInv, ReadComplete
<1>10. CASE UNCHANGED vars
  BY <1>1, <1>10 DEF vars, ReadInv, Pending, Visible, Onward
<1> QED
  BY <1>3, <1>4, <1>5, <1>6, <1>7, <1>8, <1>9, <1>10, Zenon DEF Next, Step

LEMMA ReadInit == Init => ReadInv
BY FS_EmptySet DEF Init, ReadInv, Ordered, Pending, ReadComplete

(* A reading that ended before the cap left out no row that was readable   *)
(* when it began, for any page size and number of rows, whatever became    *)
(* readable or was deleted between its pages.                              *)
THEOREM ReadsAreComplete == Spec => []ReadComplete
<1>1. Inv /\ ReadInv /\ [Next]_vars => ReadInv'
  BY ReadStep
<1>2. ReadInv => ReadComplete
  BY DEF ReadInv
<1> QED
  BY <1>1, <1>2, ReadInit, Invariance, PTL DEF Spec
=============================================================================
