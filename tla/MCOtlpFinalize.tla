-------------------------- MODULE MCOtlpFinalize --------------------------
(***************************************************************************)
(* Every order of up to two of six lines, and of three of the ones that    *)
(* matter to each other: two roots of one trace, children that end before  *)
(* and after it, with and without a parent and a trace name of their own,  *)
(* a trace without a root, a score.                                        *)
(***************************************************************************)
EXTENDS OtlpFinalize, EventBuilders, TLC

CONSTANTS t1, t2, name, own, a, b, c

MCTrace == {t1, t2}
MCScore == {c}
MCTraceKey == {name}
MCOwnKey == {own}
MCValue == {a, b}

Root == TraceEvent(t1, 1, {<<name, a>>}, {<<own, a>>})
SecondRoot == TraceEvent(t1, 2, {<<name, b>>}, {<<own, a>>})
Orphan == SpanEvent(t1, 0, {3}, {}, {})
Child == ObservationSpan(t1, 0, {1}, {"other"}, {<<name, b>>, <<own, b>>})
Rootless == EventEvent(t2, 2, {}, {<<own, b>>})

Orders(L, n) ==
  {q \in [1..n -> L] : \A j, k \in 1..n : q[j] = q[k] => j = k}

Pairs == UNION {Orders({Root, SecondRoot, Orphan, Child, Rootless, c}, n)
                  : n \in 0..2}
Triples == Orders({Root, Orphan, Rootless, c}, 3) \cup Orders({Root, SecondRoot, Orphan}, 3)
MCDrafts == Pairs \cup Triples
=============================================================================
