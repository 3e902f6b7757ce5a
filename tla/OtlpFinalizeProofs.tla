------------------------ MODULE OtlpFinalizeProofs ------------------------
(***************************************************************************)
(* Theorems about OtlpFinalize, for every set of traces, keys and values   *)
(* and every draft.                                                        *)
(***************************************************************************)
EXTENDS OtlpFinalize, SequenceTheorems, TLAPS

---------------------------------------------------------------------------
(* What pass one has learnt after m lines, said without the order in which *)
(* it learnt it.                                                           *)

SpansIn(m, t) == {k \in 1..m : IsSpan(disk[k]) /\ disk[k].trace = t}
RootsIn(m, t) == {k \in SpansIn(m, t) : disk[k].root}

EndLearnt(m, t) ==
  /\ \A k \in SpansIn(m, t) : disk[k].end <= state[t].end
  /\ state[t].end = 0 \/ \E k \in SpansIn(m, t) : state[t].end = disk[k].end
RootLearnt(m, t) ==
  IF RootsIn(m, t) = {} THEN ~state[t].root /\ state[t].attrs = {}
  ELSE /\ state[t].root
       /\ \E k \in RootsIn(m, t) : /\ \A j \in RootsIn(m, t) : j <= k
                                   /\ state[t].attrs = Shell(disk[k].attrs)
Learnt(m) ==
  /\ DOMAIN state = {disk[k].trace : k \in {j \in 1..m : IsSpan(disk[j])}}
  /\ \A t \in DOMAIN state : EndLearnt(m, t) /\ RootLearnt(m, t)

ScanInv == /\ pc = "scan" => Learnt(read)
           /\ pc = "rewrite" => Learnt(Len(disk))
TmpInv ==
  pc = "rewrite" => \A k \in 1..read : tmp[k] = OnTheWire(disk, disk[k])

PassInv == ScanInv /\ TmpInv

---------------------------------------------------------------------------
(* Lemmas about lines *)

LEMMA LatestIs ==
  ASSUME NEW S \in SUBSET Int, NEW m \in S, \A n \in S : n <= m
  PROVE  Latest(S) = m
<1> DEFINE P(x) == \A n \in S : n <= x
<1>1. \A x \in S : P(x) => x = m
  OBVIOUS
<1>2. P(m)
  OBVIOUS
<1> HIDE DEF P
<1>3. (CHOOSE x \in S : P(x)) = m
  BY <1>1, <1>2
<1> QED
  BY <1>3 DEF Latest, P

LEMMA LineType ==
  ASSUME NEW q \in Seq(Line), NEW k \in 1..Len(q)
  PROVE  /\ q[k] \in Line
         /\ IsSpan(q[k]) => /\ q[k].trace \in Trace /\ q[k].root \in BOOLEAN
                            /\ q[k].end \in Nat /\ q[k].attrs \in SUBSET Attr
                            /\ q[k].parent \in {"none", "root", "other"}
BY DEF IsSpan, Span

LEMMA ShellType ==
  ASSUME NEW attrs \in SUBSET Attr
  PROVE  Shell(attrs) \in SUBSET Attr
BY DEF Shell

LEMMA LearnType ==
  ASSUME NEW e \in Entry, NEW line \in Span
  PROVE  LearnRoot(LearnEnd(e, line), line) \in Entry
BY ShellType DEF LearnRoot, LearnEnd, Entry, Span

---------------------------------------------------------------------------
(* Type correctness *)

LEMMA ScanTraceType ==
  ASSUME TypeOK, NEW line \in Line
  PROVE  /\ DOMAIN ScanTrace(line) \subseteq Trace
         /\ \A t \in DOMAIN ScanTrace(line) : ScanTrace(line)[t] \in Entry
<1>1. CASE ~IsSpan(line)
  BY <1>1 DEF ScanTrace, TypeOK
<1>2. CASE IsSpan(line)
  <2>1. line \in Span /\ line.trace \in Trace
    BY <1>2 DEF IsSpan, Span
  <2>2. SetDefault(line.trace) \in Entry
    BY DEF SetDefault, TypeOK, Blank, Entry
  <2>3. LearnRoot(LearnEnd(SetDefault(line.trace), line), line) \in Entry
    BY <2>1, <2>2, LearnType
  <2> QED
    BY <1>2, <2>1, <2>3 DEF ScanTrace, TypeOK
<1> QED
  BY <1>1, <1>2

LEMMA FinalizeSpanType ==
  ASSUME TypeOK, NEW line \in Line
  PROVE  FinalizeSpan(line) \in Line
<1>1. CASE ~IsSpan(line) \/ line.trace \notin DOMAIN state
  BY <1>1 DEF FinalizeSpan
<1>2. CASE IsSpan(line) /\ line.trace \in DOMAIN state
  <2>1. line \in Span /\ state[line.trace] \in Entry
    BY <1>2 DEF IsSpan, TypeOK
  <2>2. Copied(line) \in SUBSET Attr /\ Reparent(line) \in {"none", "root", "other"}
    BY <2>1 DEF Copied, Reparent, Entry, Span
  <2>3. [line EXCEPT !.end = state[line.trace].end] \in Span
    BY <2>1 DEF Entry, Span
  <2>4. [line EXCEPT !.attrs = Copied(line) \cup @, !.parent = Reparent(line)] \in Span
    BY <2>1, <2>2 DEF Span
  <2> QED
    BY <1>2, <2>3, <2>4 DEF FinalizeSpan, Line
<1> QED
  BY <1>1, <1>2

LEMMA NextType == TypeOK /\ [Next]_vars => TypeOK'
<1> SUFFICES ASSUME TypeOK, [Next]_vars PROVE TypeOK'
  OBVIOUS
<1> USE DEF TypeOK
<1>1. CASE UNCHANGED vars
  BY <1>1 DEF vars
<1>2. CASE WriteSpool
  BY <1>2, DraftsAssumption DEF WriteSpool, NoState
<1>3. CASE CloseSpool
  BY <1>3 DEF CloseSpool, NoState
<1>4. CASE ScanLine
  <2>1. disk[read + 1] \in Line /\ read + 1 \in 0..Len(disk)
    BY <1>4 DEF ScanLine
  <2> QED
    BY <1>4, <2>1, ScanTraceType DEF ScanLine
<1>5. CASE BeginRewrite
  BY <1>5 DEF BeginRewrite, TruncateTmp
<1>6. CASE RewriteLine
  <2>1. disk[read + 1] \in Line /\ read + 1 \in 0..Len(disk)
    BY <1>6 DEF RewriteLine
  <2>2. FinalizeSpan(disk[read + 1]) \in Line
    BY <2>1, FinalizeSpanType
  <2>3. tmp' \in Seq(Line) /\ Len(tmp') = Len(tmp) + 1
    BY <1>6, <2>2, AppendProperties DEF RewriteLine
  <2> QED
    BY <1>6, <2>1, <2>3 DEF RewriteLine
<1>7. CASE ReplaceSpool
  BY <1>7 DEF ReplaceSpool, Rewritten
<1>8. CASE Crash
  BY <1>8 DEF Crash, NoState
<1> QED
  BY <1>1, <1>2, <1>3, <1>4, <1>5, <1>6, <1>7, <1>8 DEF Next

(* The files, the position in them and what pass one has learnt keep their *)
(* shape, and pass two never writes more or fewer lines than it reads.     *)
THEOREM TypeCorrect == Spec => []TypeOK
<1>1. Init => TypeOK
  BY DEF Init, TypeOK, NoState
<1> QED
  BY <1>1, NextType, PTL DEF Spec

---------------------------------------------------------------------------
(* Pass one *)

LEMMA ScanStep ==
  ASSUME TypeOK, Learnt(read), ScanLine
  PROVE  Learnt(read)'
<1> DEFINE line == disk[read + 1]
<1>1. /\ read \in Nat /\ read + 1 \in DOMAIN disk /\ disk' = disk
      /\ read' = read + 1 /\ state' = ScanTrace(line)
      /\ line \in Line
  BY DEF ScanLine, TypeOK
<1>2. 1..(read + 1) = (1..read) \cup {read + 1} /\ read + 1 \notin 1..read
  BY <1>1
<1>3. \A t : /\ SpansIn(read, t)' = SpansIn(read + 1, t)
             /\ RootsIn(read, t)' = RootsIn(read + 1, t)
  BY <1>1 DEF SpansIn, RootsIn
<1>4. CASE ~IsSpan(line)
  <2>1. state' = state
    BY <1>1, <1>4 DEF ScanTrace
  <2>2. \A t : SpansIn(read + 1, t) = SpansIn(read, t)
    BY <1>2, <1>4 DEF SpansIn
  <2>3. \A t : RootsIn(read + 1, t) = RootsIn(read, t)
    BY <2>2 DEF RootsIn
  <2>4. {j \in 1..(read + 1) : IsSpan(disk[j])} = {j \in 1..read : IsSpan(disk[j])}
    BY <1>2, <1>4
  <2>5. (DOMAIN state = {disk[k].trace : k \in {j \in 1..read : IsSpan(disk[j])}})'
    BY <1>1, <2>1, <2>4 DEF Learnt
  <2>6. ASSUME NEW t \in DOMAIN state
        PROVE  EndLearnt(read, t)' /\ RootLearnt(read, t)'
    BY <1>1, <1>3, <2>1, <2>2, <2>3 DEF Learnt, EndLearnt, RootLearnt
  <2> QED
    BY <2>1, <2>5, <2>6 DEF Learnt
<1>5. CASE IsSpan(line)
  <2>0. PICK u : u = line.trace
    OBVIOUS
  <2> DEFINE e == SetDefault(u)
  <2>1. /\ DOMAIN state' = DOMAIN state \cup {u}
        /\ state'[u] = LearnRoot(LearnEnd(e, line), line)
        /\ \A t \in DOMAIN state \ {u} : state'[t] = state[t]
    BY <1>1, <1>5, <2>0 DEF ScanTrace
  <2>2. /\ line \in Span /\ line.end \in Nat /\ line.root \in BOOLEAN
        /\ e \in Entry
    BY <1>5 DEF IsSpan, Span, SetDefault, TypeOK, Blank, Entry
  <2>3. (DOMAIN state = {disk[k].trace : k \in {j \in 1..read : IsSpan(disk[j])}})'
    BY <1>1, <1>2, <1>5, <2>0, <2>1 DEF Learnt
  <2>4. /\ SpansIn(read + 1, u) = SpansIn(read, u) \cup {read + 1}
        /\ \A t : t # u => SpansIn(read + 1, t) = SpansIn(read, t)
    BY <1>2, <1>5, <2>0 DEF SpansIn
  <2>5. /\ RootsIn(read + 1, u) = RootsIn(read, u) \cup (IF line.root THEN {read + 1} ELSE {})
        /\ \A t : t # u => RootsIn(read + 1, t) = RootsIn(read, t)
    BY <2>4 DEF RootsIn
  <2>6. /\ \A k \in SpansIn(read, u) : disk[k].end <= e.end
        /\ e.end = 0 \/ \E k \in SpansIn(read, u) : e.end = disk[k].end
        /\ IF RootsIn(read, u) = {} THEN ~e.root /\ e.attrs = {}
           ELSE /\ e.root
                /\ \E k \in RootsIn(read, u) :
                     /\ \A j \in RootsIn(read, u) : j <= k
                     /\ e.attrs = Shell(disk[k].attrs)
    <3>1. CASE u \in DOMAIN state
      BY <3>1 DEF SetDefault, Learnt, EndLearnt, RootLearnt
    <3>2. CASE u \notin DOMAIN state
      <4>1. SpansIn(read, u) = {} /\ RootsIn(read, u) = {}
        BY <3>2 DEF Learnt, SpansIn, RootsIn
      <4> QED
        BY <3>2, <4>1 DEF SetDefault, Blank
    <3> QED
      BY <3>1, <3>2
  <2>7. EndLearnt(read, u)'
    <3>1. /\ state'[u].end = IF line.end > e.end THEN line.end ELSE e.end
          /\ e.end \in Nat
      BY <2>1, <2>2 DEF LearnEnd, LearnRoot, Entry
    <3>2. \A k \in SpansIn(read, u) : disk[k].end \in Nat
      BY <1>1 DEF SpansIn, IsSpan, Span
    <3> QED
      BY <1>1, <1>3, <2>2, <2>4, <2>6, <3>1, <3>2 DEF EndLearnt
  <2>8. RootLearnt(read, u)'
    <3>1. CASE line.root
      <4>1. state'[u].root /\ state'[u].attrs = Shell(line.attrs)
        BY <2>1, <2>2, <3>1 DEF LearnEnd, LearnRoot, Entry
      <4>2. \A j \in RootsIn(read, u) : j <= read + 1
        BY <1>1 DEF RootsIn, SpansIn
      <4> QED
        BY <1>1, <1>3, <2>5, <3>1, <4>1, <4>2 DEF RootLearnt
    <3>2. CASE ~line.root
      <4>1. state'[u].root = e.root /\ state'[u].attrs = e.attrs
        BY <2>1, <2>2, <3>2 DEF LearnEnd, LearnRoot, Entry
      <4> QED
        BY <1>1, <1>3, <2>5, <2>6, <3>2, <4>1 DEF RootLearnt
    <3> QED
      BY <2>2, <3>1, <3>2
  <2>9. ASSUME NEW t \in DOMAIN state \ {u}
        PROVE  EndLearnt(read, t)' /\ RootLearnt(read, t)'
    BY <1>1, <1>3, <2>1, <2>4, <2>5 DEF Learnt, EndLearnt, RootLearnt
  <2> QED
    BY <2>1, <2>3, <2>7, <2>8, <2>9 DEF Learnt
<1> QED
  BY <1>4, <1>5

---------------------------------------------------------------------------
(* Pass two *)

LEMMA WholeFile ==
  ASSUME TypeOK, NEW t
  PROVE  /\ SpansIn(Len(disk), t) = SpansOf(disk, t)
         /\ RootsIn(Len(disk), t) = RootsOf(disk, t)
<1>1. DOMAIN disk = 1..Len(disk)
  BY DEF TypeOK
<1> QED
  BY <1>1 DEF SpansIn, RootsIn, SpansOf, RootsOf

LEMMA FinalizeLine ==
  ASSUME TypeOK, Learnt(Len(disk)), NEW k \in 1..Len(disk)
  PROVE  FinalizeSpan(disk[k]) = OnTheWire(disk, disk[k])
<1>1. disk[k] \in Line /\ Len(disk) \in Nat
  BY DEF TypeOK
<1>2. CASE ~IsSpan(disk[k])
  BY <1>2 DEF FinalizeSpan, OnTheWire
<1>3. CASE IsSpan(disk[k])
  <2>1. PICK t : t = disk[k].trace
    OBVIOUS
  <2>2. /\ disk[k] \in Span /\ t \in DOMAIN state /\ state[t] \in Entry
        /\ EndLearnt(Len(disk), t) /\ RootLearnt(Len(disk), t)
    BY <1>3, <2>1 DEF Learnt, TypeOK, IsSpan
  <2>3. EndOf(disk, t) = state[t].end
    <3> DEFINE S == {0} \cup {disk[j].end : j \in SpansOf(disk, t)}
    <3>1. S \in SUBSET Int
      BY DEF SpansOf, IsSpan, Span
    <3>2. state[t].end \in S /\ \A n \in S : n <= state[t].end
      BY <2>2, WholeFile DEF EndLearnt, Entry
    <3> HIDE DEF S
    <3>3. Latest(S) = state[t].end
      BY <3>1, <3>2, LatestIs
    <3> QED
      BY <3>3 DEF S, EndOf
  <2>4. /\ ShellOf(disk, t) = state[t].attrs
        /\ state[t].root = (RootsOf(disk, t) # {})
    <3>1. CASE RootsOf(disk, t) = {}
      BY <2>2, <3>1, WholeFile DEF RootLearnt, ShellOf, Entry
    <3>2. CASE RootsOf(disk, t) # {}
      <4>1. PICK j \in RootsOf(disk, t) :
              /\ \A n \in RootsOf(disk, t) : n <= j
              /\ state[t].attrs = Shell(disk[j].attrs)
        BY <2>2, <3>2, WholeFile DEF RootLearnt
      <4>2. RootsOf(disk, t) \in SUBSET Int
        BY DEF RootsOf, SpansOf, TypeOK
      <4>3. Latest(RootsOf(disk, t)) = j
        BY <4>1, <4>2, LatestIs
      <4>4. state[t].root
        BY <2>2, <3>2, WholeFile DEF RootLearnt
      <4> QED
        BY <3>2, <4>1, <4>3, <4>4, <2>2 DEF ShellOf, Entry
    <3> QED
      BY <3>1, <3>2
  <2>5. CASE disk[k].root
    BY <1>3, <2>1, <2>2, <2>3, <2>5 DEF FinalizeSpan, OnTheWire, IsTraceRoot
  <2>6. CASE ~disk[k].root
    <3>1. Copied(disk[k]) = {a \in ShellOf(disk, t) : a[1] \notin KeysOf(disk[k].attrs)}
      BY <2>1, <2>4 DEF Copied
    <3>2. Reparent(disk[k]) = IF RootsOf(disk, t) # {} /\ disk[k].parent = "none"
                              THEN "root" ELSE disk[k].parent
      BY <2>1, <2>4 DEF Reparent
    <3> QED
      BY <1>3, <2>1, <2>2, <2>6, <3>1, <3>2 DEF FinalizeSpan, OnTheWire, IsTraceRoot
  <2> QED
    BY <2>2, <2>5, <2>6 DEF Span
<1> QED
  BY <1>2, <1>3

LEMMA PassNext ==
  ASSUME TypeOK, PassInv, [Next]_vars
  PROVE  PassInv'
<1>1. CASE UNCHANGED vars
  BY <1>1 DEF vars, PassInv, ScanInv, TmpInv, Learnt, EndLearnt, RootLearnt,
              SpansIn, RootsIn
<1>2. CASE WriteSpool \/ ReplaceSpool \/ Crash
  BY <1>2 DEF WriteSpool, ReplaceSpool, Crash, PassInv, ScanInv, TmpInv
<1>3. CASE CloseSpool
  BY <1>3 DEF CloseSpool, NoState, PassInv, ScanInv, TmpInv, Learnt
<1>4. CASE ScanLine
  BY <1>4, ScanStep DEF ScanLine, PassInv, ScanInv, TmpInv
<1>5. CASE BeginRewrite
  BY <1>5 DEF BeginRewrite, PassInv, ScanInv, TmpInv, Learnt, EndLearnt,
              RootLearnt, SpansIn, RootsIn
<1>6. CASE RewriteLine
  <2>1. /\ read \in Nat /\ read + 1 \in 1..Len(disk) /\ read' = read + 1
        /\ disk' = disk /\ state' = state /\ pc = "rewrite"
        /\ Len(tmp) = read /\ tmp \in Seq(Line)
        /\ tmp' = Append(tmp, FinalizeSpan(disk[read + 1]))
    BY <1>6 DEF RewriteLine, TypeOK
  <2>2. ScanInv'
    BY <1>6, <2>1 DEF RewriteLine, PassInv, ScanInv, Learnt, EndLearnt,
                      RootLearnt, SpansIn, RootsIn
  <2>3. FinalizeSpan(disk[read + 1]) = OnTheWire(disk, disk[read + 1])
    BY <2>1, FinalizeLine DEF PassInv, ScanInv
  <2>4. FinalizeSpan(disk[read + 1]) \in Line
    BY <2>1, FinalizeSpanType DEF TypeOK
  <2>5. /\ \A k \in 1..read : tmp'[k] = tmp[k]
        /\ tmp'[read + 1] = FinalizeSpan(disk[read + 1])
    BY <2>1, <2>4
  <2>6. TmpInv'
    BY <2>1, <2>3, <2>5 DEF PassInv, TmpInv
  <2> QED
    BY <2>2, <2>6 DEF PassInv
<1> QED
  BY <1>1, <1>2, <1>3, <1>4, <1>5, <1>6 DEF Next

(* The file that replaces the Spool is the finished one. *)
LEMMA ReplaceFinishes ==
  ASSUME TypeOK, PassInv, ReplaceSpool
  PROVE  disk' = Finalised(disk)
<1>1. /\ disk' = tmp /\ tmp \in Seq(Line) /\ disk \in Seq(Line)
      /\ Len(tmp) = Len(disk)
      /\ \A k \in 1..Len(disk) : tmp[k] = OnTheWire(disk, disk[k])
  BY DEF ReplaceSpool, Rewritten, TypeOK, PassInv, TmpInv
<1>2. DOMAIN tmp = 1..Len(disk) /\ DOMAIN disk = 1..Len(disk)
  BY <1>1
<1>3. tmp = [k \in 1..Len(tmp) |-> tmp[k]]
  BY <1>1
<1> QED
  BY <1>1, <1>2, <1>3 DEF Finalised

LEMMA PassInit == Init => PassInv
BY DEF Init, PassInv, ScanInv, TmpInv

LEMMA SameFinish == \A q : Promise!Finalised(q) = Finalised(q)
BY DEF Promise!Finalised, Finalised, Promise!OnTheWire, OnTheWire,
       Promise!IsSpan, IsSpan, Promise!Span, Span, Promise!Attr, Attr,
       Promise!EndOf, EndOf, Promise!ShellOf, ShellOf, Promise!Shell, Shell,
       Promise!RootsOf, RootsOf, Promise!SpansOf, SpansOf, Promise!Latest,
       Latest, Promise!KeysOf, KeysOf

LEMMA StepImplements ==
  ASSUME TypeOK, PassInv, [Next]_vars
  PROVE  [Promise!Next]_disk
<1>1. CASE ReplaceSpool
  <2>1. disk' = Promise!Finalised(disk)
    BY <1>1, ReplaceFinishes, SameFinish
  <2> QED
    BY <2>1 DEF Promise!Next, Promise!Finish
<1>2. CASE WriteSpool
  BY <1>2 DEF WriteSpool, Promise!Next, Promise!Write
<1>3. CASE UNCHANGED vars
  BY <1>3 DEF vars
<1>4. CASE CloseSpool \/ ScanLine \/ BeginRewrite \/ RewriteLine \/ Crash
  BY <1>4 DEF CloseSpool, ScanLine, BeginRewrite, RewriteLine, Crash
<1> QED
  BY <1>1, <1>2, <1>3, <1>4 DEF Next

(* The two passes, streaming and killed anywhere, implement a file that    *)
(* changes from draft to finished Spool in one step: pass one computes     *)
(* exactly what WireFormat says of the whole file, whatever the order of   *)
(* the lines.                                                              *)
THEOREM Implements == Spec => ImplementsAtomicSpool
<1>1. TypeOK /\ PassInv /\ [Next]_vars => PassInv'
  BY PassNext
<1>2. TypeOK /\ PassInv /\ [Next]_vars => [Promise!Next]_disk
  BY StepImplements
<1>3. Init => Promise!Init
  BY DEF Init, Promise!Init
<1> QED
  BY <1>1, <1>2, <1>3, PassInit, TypeCorrect, PTL
     DEF Spec, ImplementsAtomicSpool, Promise!Spec

---------------------------------------------------------------------------
(* A finished Spool                                                        *)

(* Every trace of the file has a last moment and, if any, a last root: a   *)
(* file that was read to its end has.                                      *)
Bounded(q) ==
  \A t \in Trace :
    /\ \E m \in {0} \cup {q[k].end : k \in SpansOf(q, t)} :
         \A n \in {0} \cup {q[k].end : k \in SpansOf(q, t)} : n <= m
    /\ RootsOf(q, t) # {} =>
         \E k \in RootsOf(q, t) : \A j \in RootsOf(q, t) : j <= k

LEMMA ReadIsBounded ==
  ASSUME TypeOK, Learnt(Len(disk))
  PROVE  Bounded(disk)
<1> SUFFICES ASSUME NEW t \in Trace
             PROVE  /\ \E m \in {0} \cup {disk[k].end : k \in SpansOf(disk, t)} :
                         \A n \in {0} \cup {disk[k].end : k \in SpansOf(disk, t)} : n <= m
                    /\ RootsOf(disk, t) # {} =>
                         \E k \in RootsOf(disk, t) : \A j \in RootsOf(disk, t) : j <= k
  BY DEF Bounded
<1>1. CASE t \in DOMAIN state
  <2>1. /\ EndLearnt(Len(disk), t) /\ RootLearnt(Len(disk), t)
        /\ state[t] \in Entry
    BY <1>1 DEF Learnt, TypeOK
  <2>2. \A n \in {0} \cup {disk[k].end : k \in SpansOf(disk, t)} : n <= state[t].end
    BY <2>1, WholeFile DEF EndLearnt, Entry
  <2>3. state[t].end \in {0} \cup {disk[k].end : k \in SpansOf(disk, t)}
    BY <2>1, WholeFile DEF EndLearnt
  <2>4. RootsOf(disk, t) # {} =>
          \E k \in RootsOf(disk, t) : \A j \in RootsOf(disk, t) : j <= k
    BY <2>1, WholeFile DEF RootLearnt
  <2> QED
    BY <2>2, <2>3, <2>4
<1>2. CASE t \notin DOMAIN state
  <2>1. SpansOf(disk, t) = {} /\ RootsOf(disk, t) = {}
    BY <1>2, WholeFile DEF Learnt, SpansIn, RootsIn
  <2> QED
    BY <2>1
<1> QED
  BY <1>1, <1>2

LEMMA EndIs ==
  ASSUME NEW q \in Seq(Line), Bounded(q), NEW t \in Trace
  PROVE  /\ EndOf(q, t) \in Nat
         /\ EndOf(q, t) = 0 \/ \E k \in SpansOf(q, t) : EndOf(q, t) = q[k].end
         /\ \A k \in SpansOf(q, t) : q[k].end \in Nat /\ q[k].end <= EndOf(q, t)
<1> DEFINE S == {0} \cup {q[k].end : k \in SpansOf(q, t)}
<1>1. S \in SUBSET Nat
  BY DEF SpansOf, IsSpan, Span
<1>2. PICK m \in S : \A n \in S : n <= m
  BY DEF Bounded
<1>3. EndOf(q, t) = Latest(S)
  BY DEF EndOf
<1>4. Latest(S) = m
  <2> HIDE DEF S
  <2> QED
    BY <1>1, <1>2, LatestIs
<1> QED
  BY <1>1, <1>2, <1>3, <1>4

LEMMA ShellIs ==
  ASSUME NEW q \in Seq(Line), Bounded(q), NEW t \in Trace
  PROVE  /\ RootsOf(q, t) = {} => ShellOf(q, t) = {}
         /\ RootsOf(q, t) # {} =>
              /\ Latest(RootsOf(q, t)) \in RootsOf(q, t)
              /\ ShellOf(q, t) = Shell(q[Latest(RootsOf(q, t))].attrs)
         /\ ShellOf(q, t) \in SUBSET Attr
<1>1. CASE RootsOf(q, t) = {}
  BY <1>1 DEF ShellOf
<1>2. CASE RootsOf(q, t) # {}
  <2>1. PICK k \in RootsOf(q, t) : \A j \in RootsOf(q, t) : j <= k
    BY <1>2 DEF Bounded
  <2>2. RootsOf(q, t) \in SUBSET Int
    BY DEF RootsOf, SpansOf
  <2>3. Latest(RootsOf(q, t)) = k
    BY <2>1, <2>2, LatestIs
  <2>4. q[k] \in Span
    BY <2>1 DEF RootsOf, SpansOf, IsSpan
  <2>5. Shell(q[k].attrs) \in SUBSET Attr
    BY <2>4, ShellType DEF Span
  <2> QED
    BY <1>2, <2>1, <2>3, <2>5 DEF ShellOf
<1> QED
  BY <1>1, <1>2

(* What a line of the finished file has to do with the drafted one. *)
LEMMA WireLine ==
  ASSUME NEW q \in Seq(Line), Bounded(q), NEW k \in 1..Len(q), IsSpan(q[k])
  PROVE  /\ OnTheWire(q, q[k]) \in Span
         /\ OnTheWire(q, q[k]).trace = q[k].trace
         /\ OnTheWire(q, q[k]).root = q[k].root
         /\ q[k].root =>
              /\ OnTheWire(q, q[k]).end = EndOf(q, q[k].trace)
              /\ OnTheWire(q, q[k]).attrs = q[k].attrs
              /\ OnTheWire(q, q[k]).parent = q[k].parent
         /\ ~q[k].root =>
              /\ OnTheWire(q, q[k]).end = q[k].end
              /\ OnTheWire(q, q[k]).attrs =
                   q[k].attrs \cup {a \in ShellOf(q, q[k].trace) :
                                      a[1] \notin KeysOf(q[k].attrs)}
              /\ OnTheWire(q, q[k]).parent =
                   IF RootsOf(q, q[k].trace) # {} /\ q[k].parent = "none"
                   THEN "root" ELSE q[k].parent
<1>1. q[k] \in Span /\ q[k].trace \in Trace
  BY DEF IsSpan, Span
<1>2. EndOf(q, q[k].trace) \in Nat /\ ShellOf(q, q[k].trace) \in SUBSET Attr
  BY <1>1, EndIs, ShellIs
<1>3. CASE q[k].root
  BY <1>1, <1>2, <1>3 DEF OnTheWire, Span
<1>4. CASE ~q[k].root
  BY <1>1, <1>2, <1>4 DEF OnTheWire, Span
<1> QED
  BY <1>1, <1>3, <1>4 DEF Span

LEMMA FinalisedShape ==
  ASSUME NEW q \in Seq(Line), Bounded(q)
  PROVE  /\ Finalised(q) \in Seq(Line) /\ Len(Finalised(q)) = Len(q)
         /\ \A k \in 1..Len(q) : Finalised(q)[k] = OnTheWire(q, q[k])
         /\ \A k \in 1..Len(q) : IsSpan(Finalised(q)[k]) <=> IsSpan(q[k])
         /\ \A t : /\ SpansOf(Finalised(q), t) = SpansOf(q, t)
                   /\ RootsOf(Finalised(q), t) = RootsOf(q, t)
<1>1. DOMAIN q = 1..Len(q) /\ Len(q) \in Nat
  OBVIOUS
<1>2. \A k \in 1..Len(q) : Finalised(q)[k] = OnTheWire(q, q[k])
  BY <1>1 DEF Finalised
<1>3. ASSUME NEW k \in 1..Len(q), ~IsSpan(q[k])
      PROVE  OnTheWire(q, q[k]) = q[k] /\ q[k] \in Line
  BY <1>3 DEF OnTheWire
<1>4. \A k \in 1..Len(q) : OnTheWire(q, q[k]) \in Line
  BY <1>3, WireLine DEF Line
<1>5. /\ Finalised(q) \in Seq(Line) /\ Len(Finalised(q)) = Len(q)
      /\ DOMAIN Finalised(q) = 1..Len(q)
  BY <1>1, <1>4 DEF Finalised
<1>6. \A k \in 1..Len(q) : IsSpan(Finalised(q)[k]) <=> IsSpan(q[k])
  BY <1>2, <1>3, WireLine DEF IsSpan
<1>7. \A t : SpansOf(Finalised(q), t) = SpansOf(q, t)
  BY <1>1, <1>2, <1>5, <1>6, WireLine DEF SpansOf
<1>8. \A t : RootsOf(Finalised(q), t) = RootsOf(q, t)
  <2>1. \A t : \A k \in SpansOf(q, t) : Finalised(q)[k].root = q[k].root
    BY <1>1, <1>2, WireLine DEF SpansOf
  <2> QED
    BY <1>7, <2>1 DEF RootsOf
<1> QED
  BY <1>2, <1>5, <1>6, <1>7, <1>8

(* Finishing a file moves neither the end of a trace nor its shell. *)
LEMMA FinalisedSame ==
  ASSUME NEW q \in Seq(Line), Bounded(q), NEW t \in Trace
  PROVE  /\ EndOf(Finalised(q), t) = EndOf(q, t)
         /\ ShellOf(Finalised(q), t) = ShellOf(q, t)
<1> DEFINE f == Finalised(q)
           S == {0} \cup {f[k].end : k \in SpansOf(q, t)}
<1>1. \A k \in SpansOf(q, t) :
        /\ k \in 1..Len(q) /\ IsSpan(q[k]) /\ q[k].trace = t
        /\ f[k] = OnTheWire(q, q[k])
  BY FinalisedShape DEF SpansOf
<1>2. \A k \in SpansOf(q, t) :
        f[k].end = IF q[k].root THEN EndOf(q, t) ELSE q[k].end
  BY <1>1, WireLine DEF IsSpan, Span
<1>3. EndOf(f, t) = EndOf(q, t)
  <2>1. S \in SUBSET Int /\ \A n \in S : n <= EndOf(q, t)
    BY <1>2, EndIs
  <2>2. EndOf(q, t) \in S
    BY <1>2, EndIs
  <2>3. EndOf(f, t) = Latest(S)
    BY FinalisedShape DEF EndOf
  <2> HIDE DEF S
  <2> QED
    BY <2>1, <2>2, <2>3, LatestIs
<1>4. ShellOf(f, t) = ShellOf(q, t)
  <2>1. \A k \in RootsOf(q, t) : f[k].attrs = q[k].attrs
    BY <1>1, WireLine DEF RootsOf
  <2>2. RootsOf(f, t) = RootsOf(q, t)
    BY FinalisedShape
  <2>3. RootsOf(q, t) # {} => Latest(RootsOf(q, t)) \in RootsOf(q, t)
    BY ShellIs
  <2> QED
    BY <2>1, <2>2, <2>3 DEF ShellOf
<1> QED
  BY <1>3, <1>4

LEMMA FinalisedBounded ==
  ASSUME NEW q \in Seq(Line), Bounded(q)
  PROVE  Bounded(Finalised(q))
<1> SUFFICES ASSUME NEW t \in Trace
             PROVE  \E m \in {0} \cup {Finalised(q)[k].end : k \in SpansOf(q, t)} :
                      \A n \in {0} \cup {Finalised(q)[k].end : k \in SpansOf(q, t)} : n <= m
  BY FinalisedShape DEF Bounded
<1>1. \A k \in SpansOf(q, t) :
        Finalised(q)[k].end = IF q[k].root THEN EndOf(q, t) ELSE q[k].end
  BY FinalisedShape, WireLine DEF SpansOf, IsSpan, Span
<1>2. EndOf(q, t) \in {0} \cup {Finalised(q)[k].end : k \in SpansOf(q, t)}
  BY <1>1, EndIs
<1>3. \A n \in {0} \cup {Finalised(q)[k].end : k \in SpansOf(q, t)} : n <= EndOf(q, t)
  BY <1>1, EndIs
<1> QED
  BY <1>2, <1>3

(* A finished Spool is not changed by finishing it again. *)
LEMMA FinalisedTwice ==
  ASSUME NEW q \in Seq(Line), Bounded(q)
  PROVE  Finalised(Finalised(q)) = Finalised(q)
<1> DEFINE f == Finalised(q)
<1>1. /\ f \in Seq(Line) /\ Len(f) = Len(q) /\ Bounded(f)
      /\ DOMAIN f = 1..Len(q)
      /\ \A k \in 1..Len(q) : f[k] = OnTheWire(q, q[k])
      /\ \A k \in 1..Len(q) : IsSpan(f[k]) <=> IsSpan(q[k])
  BY FinalisedShape, FinalisedBounded
<1> HIDE DEF f
<1>2. ASSUME NEW k \in 1..Len(q)
      PROVE  OnTheWire(f, f[k]) = f[k]
  <2>1. CASE ~IsSpan(q[k])
    BY <1>1, <2>1 DEF OnTheWire
  <2>2. CASE IsSpan(q[k])
    <3>1. PICK t : t = q[k].trace
      OBVIOUS
    <3>2. t \in Trace /\ f[k] \in Span /\ f[k].trace = t /\ q[k].root \in BOOLEAN
      <4>1. OnTheWire(q, q[k]).trace = t
        BY <2>2, <3>1, WireLine
      <4> QED
        BY <1>1, <2>2, <3>1, <4>1 DEF IsSpan, Span
    <3>3. /\ EndOf(f, t) = EndOf(q, t) /\ ShellOf(f, t) = ShellOf(q, t)
          /\ RootsOf(f, t) = RootsOf(q, t)
      BY <3>2, FinalisedSame, FinalisedShape DEF f
    <3>4. /\ OnTheWire(f, f[k]) \in Span
          /\ OnTheWire(f, f[k]).trace = t
          /\ OnTheWire(f, f[k]).root = f[k].root
          /\ f[k].root =>
               /\ OnTheWire(f, f[k]).end = EndOf(q, t)
               /\ OnTheWire(f, f[k]).attrs = f[k].attrs
               /\ OnTheWire(f, f[k]).parent = f[k].parent
          /\ ~f[k].root =>
               /\ OnTheWire(f, f[k]).end = f[k].end
               /\ OnTheWire(f, f[k]).attrs =
                    f[k].attrs \cup {a \in ShellOf(q, t) :
                                       a[1] \notin KeysOf(f[k].attrs)}
               /\ OnTheWire(f, f[k]).parent =
                    IF RootsOf(q, t) # {} /\ f[k].parent = "none"
                    THEN "root" ELSE f[k].parent
      <4>1. k \in 1..Len(f) /\ IsSpan(f[k])
        BY <1>1, <2>2
      <4> QED
        BY <1>1, <3>2, <3>3, <4>1, WireLine
    <3>5. /\ f[k].root = q[k].root
          /\ q[k].root => f[k].end = EndOf(q, t)
          /\ ~q[k].root =>
               /\ f[k].attrs = q[k].attrs \cup {a \in ShellOf(q, t) :
                                                  a[1] \notin KeysOf(q[k].attrs)}
               /\ f[k].parent = IF RootsOf(q, t) # {} /\ q[k].parent = "none"
                                THEN "root" ELSE q[k].parent
      BY <1>1, <2>2, <3>1, WireLine
    <3>6. ~q[k].root => {a \in ShellOf(q, t) : a[1] \notin KeysOf(f[k].attrs)} = {}
      BY <3>5 DEF KeysOf
    <3>7. ~q[k].root => OnTheWire(f, f[k]).attrs = f[k].attrs
      BY <3>4, <3>5, <3>6
    <3>8. /\ OnTheWire(f, f[k]).end = f[k].end
          /\ OnTheWire(f, f[k]).attrs = f[k].attrs
          /\ OnTheWire(f, f[k]).parent = f[k].parent
      BY <3>2, <3>4, <3>5, <3>7
    <3> QED
      BY <3>2, <3>4, <3>8 DEF Span
  <2> QED
    BY <2>1, <2>2
<1>3. Finalised(f) = [k \in 1..Len(q) |-> f[k]]
  BY <1>1, <1>2 DEF Finalised
<1>4. f = [k \in 1..Len(f) |-> f[k]]
  BY <1>1
<1> QED
  BY <1>1, <1>3, <1>4 DEF f

LEMMA ScoresOnly ==
  ASSUME NEW q \in Seq(Line), ~HasSpan(q)
  PROVE  Finalised(q) = q /\ Bounded(q)
<1>1. \A k \in DOMAIN q : ~IsSpan(q[k])
  BY DEF HasSpan
<1>2. Finalised(q) = [k \in DOMAIN q |-> q[k]]
  BY <1>1 DEF Finalised, OnTheWire
<1>3. \A t : SpansOf(q, t) = {} /\ RootsOf(q, t) = {}
  BY <1>1 DEF SpansOf, RootsOf
<1> QED
  BY <1>2, <1>3 DEF Bounded

LEMMA FinalisedComplete ==
  ASSUME NEW q \in Seq(Line), Bounded(q)
  PROVE  Complete(Finalised(q))
<1> DEFINE f == Finalised(q)
<1> SUFFICES ASSUME NEW t \in Trace, RootsOf(q, t) # {}, NEW k \in SpansOf(q, t)
             PROVE  /\ f[k].end <= f[Latest(RootsOf(q, t))].end
                    /\ ~f[k].root =>
                         /\ f[k].parent # "none"
                         /\ KeysOf(Shell(f[Latest(RootsOf(q, t))].attrs))
                              \subseteq KeysOf(f[k].attrs)
  BY FinalisedShape DEF Complete
<1>1. PICK r : r = Latest(RootsOf(q, t))
  OBVIOUS
<1>2. /\ r \in RootsOf(q, t) /\ ShellOf(q, t) = Shell(q[r].attrs)
      /\ r \in 1..Len(q) /\ IsSpan(q[r]) /\ q[r].trace = t /\ q[r].root
  BY <1>1, ShellIs DEF RootsOf, SpansOf
<1>3. f[r] = OnTheWire(q, q[r])
  BY <1>2, FinalisedShape
<1>4. f[r].end = EndOf(q, t) /\ f[r].attrs = q[r].attrs
  BY <1>2, <1>3, WireLine
<1>5. k \in 1..Len(q) /\ IsSpan(q[k]) /\ q[k].trace = t /\ q[k] \in Span
  BY DEF SpansOf, IsSpan
<1>6. f[k] = OnTheWire(q, q[k])
  BY <1>5, FinalisedShape
<1>7. EndOf(q, t) \in Nat /\ q[k].end \in Nat /\ q[k].end <= EndOf(q, t)
  BY EndIs
<1>8. f[k].root = q[k].root
  BY <1>5, <1>6, WireLine
<1>9. CASE q[k].root
  BY <1>1, <1>4, <1>5, <1>6, <1>7, <1>8, <1>9, WireLine
<1>10. CASE ~q[k].root
  <2>1. /\ f[k].end = q[k].end
        /\ f[k].attrs = q[k].attrs \cup {a \in ShellOf(q, t) :
                                           a[1] \notin KeysOf(q[k].attrs)}
        /\ f[k].parent = IF q[k].parent = "none" THEN "root" ELSE q[k].parent
    BY <1>5, <1>6, <1>10, WireLine
  <2>2. KeysOf(Shell(q[r].attrs)) \subseteq KeysOf(f[k].attrs)
    BY <1>2, <2>1 DEF KeysOf
  <2> QED
    BY <1>1, <1>4, <1>7, <2>1, <2>2
<1> QED
  BY <1>5, <1>9, <1>10 DEF Span

(* The file is the draft until it is finished, and then the finished one,  *)
(* however often it is closed.                                             *)
FileInv ==
  /\ pc = "open" => disk = draft
  /\ pc \in {"scan", "rewrite"} =>
       disk = draft \/ (disk = Finalised(draft) /\ Bounded(draft))
  /\ pc = "closed" => disk = Finalised(draft) /\ Bounded(draft)

LEMMA FileNext ==
  ASSUME TypeOK, PassInv, FileInv, [Next]_vars
  PROVE  FileInv'
<1>1. CASE UNCHANGED vars
  BY <1>1 DEF vars, FileInv
<1>2. CASE WriteSpool \/ Crash
  BY <1>2 DEF WriteSpool, Crash, FileInv
<1>3. CASE CloseSpool
  <2>1. CASE HasSpan(draft)
    BY <1>3, <2>1 DEF CloseSpool, FileInv
  <2>2. CASE ~HasSpan(draft)
    <3>1. Finalised(draft) = draft /\ Bounded(draft)
      BY <2>2, ScoresOnly DEF TypeOK
    <3>2. disk' = draft /\ draft' = draft /\ pc' = "closed"
      <4>1. disk = draft
        BY <1>3, <3>1 DEF CloseSpool, FileInv
      <4> QED
        BY <1>3, <2>2, <4>1 DEF CloseSpool
    <3> QED
      BY <3>1, <3>2 DEF FileInv
  <2> QED
    BY <2>1, <2>2
<1>4. CASE ScanLine \/ BeginRewrite \/ RewriteLine
  BY <1>4 DEF ScanLine, BeginRewrite, RewriteLine, FileInv
<1>5. CASE ReplaceSpool
  <2>1. /\ disk' = Finalised(disk) /\ draft' = draft /\ pc' = "closed"
        /\ Bounded(disk) /\ draft \in Seq(Line) /\ pc = "rewrite"
    BY <1>5, ReplaceFinishes, ReadIsBounded
       DEF ReplaceSpool, PassInv, ScanInv, TypeOK
  <2>2. CASE disk = draft
    <3>1. disk' = Finalised(draft) /\ Bounded(draft)
      BY <2>1, <2>2
    <3> QED
      BY <2>1, <3>1 DEF FileInv
  <2>3. CASE disk = Finalised(draft) /\ Bounded(draft)
    <3>1. disk' = Finalised(draft)
      BY <2>1, <2>3, FinalisedTwice
    <3> QED
      BY <2>1, <2>3, <3>1 DEF FileInv
  <2> QED
    BY <2>1, <2>2, <2>3 DEF FileInv
<1> QED
  BY <1>1, <1>2, <1>3, <1>4, <1>5 DEF Next

LEMMA FileSafe == Spec => [](TypeOK /\ FileInv)
<1>1. Init => FileInv
  BY DEF Init, FileInv
<1>2. TypeOK /\ PassInv /\ FileInv /\ [Next]_vars => FileInv'
  BY FileNext
<1>3. TypeOK /\ PassInv /\ [Next]_vars => PassInv'
  BY PassNext
<1> QED
  BY <1>1, <1>2, <1>3, PassInit, TypeCorrect, PTL DEF Spec

(* A closed Spool answers every v4 query: below a root no orphan, its keys *)
(* on every span, and no span that ends after it.                          *)
THEOREM ClosedIsComplete == Spec => []WireComplete
<1>1. TypeOK /\ FileInv => WireComplete
  BY FinalisedComplete DEF TypeOK, FileInv, WireComplete
<1> QED
  BY <1>1, FileSafe, PTL

(* A finished file counts as much as the file it was made from. *)
LEMMA FinalisedCount ==
  ASSUME NEW q \in Seq(Line), Bounded(q)
  PROVE  CountSpool(Finalised(q)) = CountSpool(q)
<1> DEFINE f == Finalised(q)
           spans(g) == {k \in DOMAIN g : IsSpan(g[k])}
           scores(g) == {k \in DOMAIN g : g[k] \in Score}
<1>1. /\ DOMAIN f = 1..Len(q) /\ DOMAIN q = 1..Len(q)
      /\ \A k \in 1..Len(q) : f[k] = OnTheWire(q, q[k])
      /\ \A k \in 1..Len(q) : IsSpan(f[k]) <=> IsSpan(q[k])
  BY FinalisedShape
<1>2. \A k \in 1..Len(q) : IsSpan(q[k]) => f[k].trace = q[k].trace
  BY <1>1, WireLine
<1>3. \A k \in 1..Len(q) : ~IsSpan(q[k]) => f[k] = q[k]
  BY <1>1 DEF OnTheWire
<1>4. spans(f) = spans(q)
  BY <1>1
<1>5. {f[k].trace : k \in spans(f)} = {q[k].trace : k \in spans(q)}
  BY <1>1, <1>2, <1>4
<1>6. scores(f) = scores(q)
  BY <1>1, <1>3, ScoresAssumption DEF IsSpan
<1> QED
  BY <1>4, <1>5, <1>6 DEF CountSpool

(* Finalisation only adds: nothing a builder said is lost or overwritten,  *)
(* and nothing of another trace comes in, however often a file is closed.  *)
THEOREM ClosedKeepsDraft == Spec => []NothingLost
<1>1. TypeOK /\ FileInv => NothingLost
  <2> SUFFICES ASSUME TypeOK, FileInv PROVE NothingLost
    OBVIOUS
  <2>3. pc # "idle" => CountSpool(disk) = CountSpool(draft)
    BY FinalisedCount DEF FileInv, TypeOK
  <2> SUFFICES ASSUME pc = "closed" PROVE NothingLost
    BY <2>3 DEF NothingLost
  <2>1. /\ disk = Finalised(draft) /\ Bounded(draft) /\ draft \in Seq(Line)
        /\ DOMAIN draft = 1..Len(draft) /\ Len(disk) = Len(draft)
    BY FinalisedShape DEF FileInv, TypeOK
  <2>2. ASSUME NEW k \in DOMAIN draft
        PROVE  IF ~IsSpan(draft[k]) THEN disk[k] = draft[k]
               ELSE /\ draft[k].attrs \subseteq disk[k].attrs
                    /\ draft[k].parent \in {"none", disk[k].parent}
                    /\ draft[k].end <= disk[k].end
                    /\ ~draft[k].root => disk[k].end = draft[k].end
                    /\ \A a \in Gained(k) :
                         /\ a[1] \in TraceKey
                         /\ a[1] \notin KeysOf(draft[k].attrs)
                         /\ \E j \in RootsOf(draft, draft[k].trace) : a \in draft[j].attrs
    <3>1. k \in 1..Len(draft) /\ disk[k] = OnTheWire(draft, draft[k])
      BY <2>1, FinalisedShape
    <3>2. CASE ~IsSpan(draft[k])
      BY <3>1, <3>2 DEF OnTheWire
    <3>3. CASE IsSpan(draft[k])
      <4>1. PICK t \in Trace : t = draft[k].trace
        BY <3>3 DEF IsSpan, Span
      <4>2. /\ k \in SpansOf(draft, t) /\ draft[k] \in Span
            /\ draft[k].end \in Nat /\ draft[k].end <= EndOf(draft, t)
        BY <2>1, <3>1, <3>3, <4>1, EndIs DEF SpansOf, IsSpan
      <4>3. CASE draft[k].root
        BY <2>1, <3>1, <3>3, <4>1, <4>2, <4>3, WireLine DEF Gained
      <4>4. CASE ~draft[k].root
        <5>1. /\ disk[k].end = draft[k].end
              /\ disk[k].attrs = draft[k].attrs \cup
                   {a \in ShellOf(draft, t) : a[1] \notin KeysOf(draft[k].attrs)}
              /\ disk[k].parent = IF RootsOf(draft, t) # {} /\ draft[k].parent = "none"
                                  THEN "root" ELSE draft[k].parent
          BY <2>1, <3>1, <3>3, <4>1, <4>4, WireLine
        <5>2. \A a \in ShellOf(draft, t) :
                /\ a[1] \in TraceKey
                /\ \E j \in RootsOf(draft, t) : a \in draft[j].attrs
          BY <2>1, ShellIs DEF Shell
        <5>3. \A a \in Gained(k) :
                a \in ShellOf(draft, t) /\ a[1] \notin KeysOf(draft[k].attrs)
          BY <3>3, <5>1 DEF Gained
        <5> QED
          BY <3>3, <4>1, <4>2, <4>4, <5>1, <5>2, <5>3
      <4> QED
        BY <4>2, <4>3, <4>4 DEF Span
    <3> QED
      BY <3>2, <3>3
  <2> QED
    BY <2>1, <2>2, <2>3 DEF NothingLost
<1> QED
  BY <1>1, FileSafe, PTL
=============================================================================
