----------------------------- MODULE ReadSeam -----------------------------
(***************************************************************************)
(* The read seam (read.py): how a trace is read back from Langfuse.        *)
(*                                                                         *)
(* Under v4 there is no trace to fetch.  The reader asks for the           *)
(* observations that carry the id, page by page along a cursor, and puts   *)
(* a trace together from what came back.  A row is an observation as       *)
(* Langfuse holds it.  Its start is a number, two to the minute: 2m lies   *)
(* before the last 120 ms of minute m, 2m + 1 in them.                     *)
(***************************************************************************)
EXTENDS Integers, FiniteSets

CONSTANT PageSize     \* _PAGE_SIZE, rows of one page

ASSUME PageSizeAssumption == PageSize \in Nat \ {0}

(* A cursor is the last row served, as a set of at most one row. *)
NoCursor == {}

(* The API lists the newest start first; rows stored by several attempts   *)
(* of one request are told apart by the attempt.                           *)
Before(x, y) == \/ x.start > y.start
                \/ x.start = y.start /\ x.try < y.try

(* The rows a cursor leaves to be served. *)
Onward(R, cursor) == {x \in R : \A y \in cursor : Before(y, x)}

Page(R, cursor) ==
  LET left == Onward(R, cursor) IN
  {x \in left : Cardinality({y \in left : Before(y, x)}) < PageSize}

(* The cursor after a page: its last row.  The API may also hand one out   *)
(* when nothing is left; an empty page ends the reading then.              *)
Cursors(R, cursor) ==
  LET page == Page(R, cursor)
      last == {x \in page : \A y \in page : y = x \/ Before(y, x)}
  IN {last} \cup (IF Onward(R, cursor) \subseteq page THEN {NoCursor} ELSE {})

(* _trace_from_observations: the timestamp of a trace is the start of its  *)
(* earliest observation, among those that were read.                       *)
Timestamp(R) == CHOOSE t \in {x.start : x \in R} : \A x \in R : t <= x.start

(* Both ends of the comparison are cut to the minute (probe.py, %H:%M). *)
Minute(t) == t \div 2
=============================================================================
