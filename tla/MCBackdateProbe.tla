-------------------------- MODULE MCBackdateProbe --------------------------
(* Two probes over one project, one of which may be late in its minute. *)
EXTENDS BackdateProbe

Probes == {1, 2}
OneProbe == {1}
=============================================================================
