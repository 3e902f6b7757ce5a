---------------------------- MODULE AtomicSpool ----------------------------
(***************************************************************************)
(* What finalisation promises the reader of events.ndjson, who may come at *)
(* any moment and after any crash: the file is the draft as written or the *)
(* finished Spool, never a mixture and never a part of it.                 *)
(***************************************************************************)
EXTENDS WireFormat

CONSTANT Drafts         \* the line sequences a run may write

VARIABLE spool          \* the lines of events.ndjson

Init == spool = <<>>
Write == spool' \in Drafts
Finish == spool' = Finalised(spool)

Next == Write \/ Finish
Spec == Init /\ [][Next]_spool
=============================================================================
