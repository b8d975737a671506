------------------------------ MODULE MCRecovery ------------------------------
(***************************************************************************)
(* Instances for TLC: two rebuilds of a live index that race, one rebuild  *)
(* beside ingestion, the recovery exercise beside ingestion, and a library *)
(* of all short documents for the chunker.                                 *)
(***************************************************************************)
EXTENDS RecoveryExercise

Line(kind, words) == [kind |-> kind, words |-> words, level |-> IF kind = "heading" THEN 1 ELSE 0]

Lines == {Line("text", 0), Line("text", 1), Line("text", 5), Line("heading", 2),
          Line("backtick", 1), Line("tilde", 1)}

Library == UNION {[1..n -> Lines] : n \in 0..4}

Short == <<Line("text", 1)>>
Long  == <<Line("heading", 2), Line("text", 5)>>
Blank == <<>>

Live == [live |-> TRUE, rebuilds |-> {2, 3}, documents |-> {1}, contents |-> {Short},
         maxRows |-> 1, maxFaults |-> 2, maxDamage |-> 0, maxDeletions |-> 0]

MCWorlds == <<
  Live,
  [Live EXCEPT !.rebuilds = {2}, !.contents = {Short, Blank}, !.maxRows = 2,
               !.maxDamage = 1, !.maxDeletions = 1],
  [Live EXCEPT !.rebuilds = {2}, !.documents = {1, 2}, !.maxRows = 2],
  [Live EXCEPT !.live = FALSE, !.rebuilds = {2}, !.contents = {Short, Long}, !.maxRows = 2,
               !.maxDamage = 1, !.maxFaults = 1],
  [Live EXCEPT !.rebuilds = {}, !.contents = Library, !.maxFaults = 0]>>
=============================================================================
