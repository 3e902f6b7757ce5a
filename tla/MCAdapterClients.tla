------------------------- MODULE MCAdapterClients -------------------------
(***************************************************************************)
(* Two threads; a pinned LLM_MODEL, so that asking for a model and asking  *)
(* for none resolve to the same identity; one role with a factory of its   *)
(* own and one without.  One thread makes two calls, the other one.        *)
(***************************************************************************)
EXTENDS AdapterClients

CONSTANTS t1, t2, none, m1, id, speech, chat

MCRequest == {none, m1}
MCResolve == [m \in MCRequest |-> id]
MCRole == <<speech, chat>>
MCNativeRole == {speech}
MCOffered == {<<"langfuse">>, <<"native", none>>, <<"native", m1>>,
              <<"bind", m1>>, <<"role", speech>>}
MCMaxCalls == [t \in {t1, t2} |-> IF t = t1 THEN 2 ELSE 1]
=============================================================================
