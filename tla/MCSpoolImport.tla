-------------------------- MODULE MCSpoolImport --------------------------
(***************************************************************************)
(* Small instances of SpoolImport.  With chunks of two lines the Spools    *)
(* have mixed chunks, a partial last chunk, a score before the first span  *)
(* and one after the last; one Spool carries no span at all.               *)
(***************************************************************************)
EXTENDS SpoolImport, TLC

CONSTANTS s1, s2, s3, c1, i1, i2

MCSpan == {s1, s2, s3}
MCScore == {c1}
MCRecipes == {<<c1, s1, s2>>, <<s1, s2, s3, c1>>, <<c1>>}

OneImporter == {i1}
TwoImporters == {i1, i2}
Interchangeable == Permutations(Importer)

AllFaults == FaultKinds
LostReply == {"lost_reply"}
CarelessOperator == {"dirty_generate", "dirty_confirm"}
=============================================================================
