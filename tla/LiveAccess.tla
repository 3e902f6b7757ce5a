----------------------------- MODULE LiveAccess -----------------------------
(***************************************************************************)
(* Who reaches a live component (companion/access.py): the policy the      *)
(* worker is configured with, and what the middleware makes of a request.  *)
(* A path is the sequence of its segments and how it was spelt.            *)
(***************************************************************************)
EXTENDS Naturals, Sequences, SequencesExt

CONSTANTS
  Health      \* the segments of the component's health route

Spelling == {"plain", "ambiguous", "encoded"}

(* validate_request_path, and the middleware's look at the raw path.       *)
ValidPath(path) == path.spelling = "plain"

(* validate_protected_paths, for one entry of the policy.                  *)
ValidEntry(e) ==
  ValidPath(e.path) /\ e.path.segments # <<>> /\ e.access \in {"presenter", "manage"}

Under(path, e) == IsPrefix(e.path.segments, path.segments)

RouteAccess(path, policy) ==
  LET matches == {e.access : e \in {e \in policy : Under(path, e)}} IN
  IF "manage" \in matches THEN "manage"
  ELSE IF matches # {} THEN "presenter" ELSE "nobody"

(* guarded_app: what serves the component, or the refusal to serve it.     *)
GuardedApp(policy, proof) ==
  LET health == [segments |-> Health, spelling |-> "plain"] IN
  IF \E e \in policy : ~ValidEntry(e) THEN "refused"
  ELSE IF policy = {} THEN "legacy"
  ELSE IF RouteAccess(health, policy) # "nobody" \/ proof = "malformed" THEN "refused"
  ELSE "guarded"

IsHealth(rq) ==
  rq.type = "http" /\ rq.method \in {"GET", "HEAD"} /\ rq.path.segments = Health

(* LiveAccessMiddleware.__call__: exactly one proof header, the right one. *)
Permitted(rq) == rq.proofs = <<"own">>

Passes(gate, rq) ==
  \/ gate = "legacy" \/ rq.type = "lifespan"
  \/ ValidPath(rq.path) /\ (Permitted(rq) \/ IsHealth(rq))

(* What the component's own code sees of the proof headers.                *)
SeenProofs(gate, rq) ==
  IF gate = "guarded" /\ rq.type # "lifespan" THEN <<>> ELSE rq.proofs
=============================================================================
