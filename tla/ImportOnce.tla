---------------------------- MODULE ImportOnce ----------------------------
(***************************************************************************)
(* What the record beside a Spool (events.ndjson.imported) is for, said    *)
(* without files, chunks, requests or processes.                           *)
(*                                                                         *)
(* Langfuse's OTLP endpoint appends: it never recognises a span it already *)
(* holds.  A Spool therefore promises only this: under one clean slate a   *)
(* span is delivered to the project at most once.                          *)
(***************************************************************************)
EXTENDS Naturals

CONSTANT Span           \* the observations a Spool may carry

VARIABLES delivered,    \* copies of each span stored under this clean slate
          held           \* copies of each span the project holds

None == [s \in Span |-> 0]
Plus(f, S) == [s \in Span |-> IF s \in S THEN f[s] + 1 ELSE f[s]]

Init == delivered = None /\ held = None

(* Some spans that were not delivered yet reach the project. *)
Deliver ==
  \E S \in SUBSET Span :
     /\ \A s \in S : delivered[s] = 0
     /\ delivered' = Plus(delivered, S)
     /\ held' = Plus(held, S)

(* A new Spool is written, or an import is confirmed to start from an      *)
(* emptied project.                                                        *)
CleanSlate == delivered' = None /\ UNCHANGED held

(* The operator clears the deployment's Langfuse data. *)
Clear == held' = None /\ UNCHANGED delivered

Next == Deliver \/ CleanSlate \/ Clear

Spec == Init /\ [][Next]_<<delivered, held>>
=============================================================================
