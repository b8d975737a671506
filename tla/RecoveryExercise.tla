-------------------------- MODULE RecoveryExercise --------------------------
(***************************************************************************)
(* The two callers of a rebuild. In a live world, operators rebuild and    *)
(* roll back the index that ingestion writes to. In the other, the         *)
(* recovery exercise backs up PostgreSQL and the artifacts, restores them  *)
(* to fresh places and rebuilds a search index from them, beside a system  *)
(* that is asked to pause its writes and may not have done so.             *)
(***************************************************************************)
EXTENDS IndexRebuild

VARIABLE exercise  \* the recovery exercise: its phase and what it has in hand

allVars == <<vars, exercise>>

Restored == 2  \* the schema version the exercise rebuilds

ASSUME RestoredAssumption == Restored \in Rebuilders

NoExercise == [phase |-> "idle", dump |-> <<>>, sums |-> <<>>, backup |-> <<>>,
               evidence |-> {}]

Init == RebuildInit /\ exercise = NoExercise

In(phase) == ~Outside.live /\ exercise.phase = phase
Reaches(phase) == exercise' = [exercise EXCEPT !.phase = phase]

\* pg_dump, a snapshot of the tables.
Dump ==
  /\ In("idle") /\ rows # <<>>
  /\ exercise' = [exercise EXCEPT !.phase = "dumped", !.dump = rows]
  /\ UNCHANGED vars

\* The checksums of the source's tables, read after the dump was taken.
SumTables ==
  /\ In("dumped")
  /\ exercise' = [exercise EXCEPT !.phase = "summed", !.sums = rows]
  /\ UNCHANGED vars

\* Every artifact the bucket lists is read, verified and copied.
SaveArtifacts ==
  /\ In("summed")
  /\ IF "corrupt" \in ToSet(artifacts) THEN Reaches("ended")
     ELSE exercise' = [exercise EXCEPT !.phase = "saved", !.backup = artifacts]
  /\ UNCHANGED vars

\* Fault: the restored tables are only counted.
ChecksumsMatchSize(restored, sums) == Len(restored) > 0

ChecksumsMatch(restored, sums) == restored = sums

\* The dump is restored to a new database, whose checksums are compared.
RestoreTables ==
  /\ In("saved")
  /\ Reaches(IF ChecksumsMatch(exercise.dump, exercise.sums) THEN "restored" ELSE "cleanup")
  /\ UNCHANGED vars

\* The artifacts are copied on, and an index is made to be replaced.
EnsureIndex ==
  /\ In("restored")
  /\ indices' = Ensured /\ read' = {1} /\ write' = {1}
  /\ Reaches("rebuilding")
  /\ UNCHANGED <<world, tables, artifacts, rebuild, faults>>

\* The rebuild has raised, or the evidence behind the read alias is counted
\* and the report written.
Report ==
  /\ In("rebuilding") /\ rebuild[Restored].phase \in {"done", "raised"}
  /\ \E found \in Hits(UNION {indices[i].chunks : i \in read},
                      Cardinality(rebuild[Restored].written)) :
        IF /\ rebuild[Restored].phase = "done"
           /\ Cardinality(found) = Cardinality(rebuild[Restored].written)
        THEN exercise' = [exercise EXCEPT !.phase = "reported", !.evidence = found]
        ELSE Reaches("cleanup")
  /\ UNCHANGED vars

\* Any step of the exercise raises; what it created it removes, except before
\* it has created a database.
ExerciseFails ==
  /\ faults < Outside.maxFaults
  /\ ~Outside.live /\ exercise.phase \notin {"idle", "rebuilding", "cleanup", "reported", "ended"}
  /\ faults' = faults + 1
  /\ Reaches(IF exercise.phase \in {"dumped", "summed"} THEN "ended" ELSE "cleanup")
  /\ UNCHANGED <<world, tables, artifacts, cluster, rebuild>>

\* The restored database is dropped and the exercise's indexes are deleted.
CleanUp ==
  /\ In("cleanup") \/ In("reported")
  /\ indices' = <<>> /\ read' = {} /\ write' = {}
  /\ Reaches("ended")
  /\ UNCHANGED <<world, tables, artifacts, rebuild, faults>>

Exercise ==
  \/ Dump \/ SumTables \/ SaveArtifacts \/ RestoreTables \/ EnsureIndex \/ Report
  \/ ExerciseFails \/ CleanUp

Next ==
  \/ Happens /\ UNCHANGED exercise
  \/ /\ Outside.live
     /\ \E r \in Rebuilders : RebuildStep(r, rows, artifacts)
     /\ UNCHANGED exercise
  \/ /\ In("rebuilding")
     /\ RebuildStep(Restored, exercise.dump, exercise.backup)
     /\ UNCHANGED exercise
  \/ Exercise

Spec == Init /\ [][Next]_allVars

-----------------------------------------------------------------------------
(* Properties *)

\* Both aliases are on one and the same index, whichever rebuilds, rollbacks
\* and compensations race each other between the inspection of the aliases
\* and their update, and whatever requests fail: switch_aliases moves an
\* index's aliases only from where it expects them.
AliasesAgree == read = write /\ Cardinality(read) <= 1

\* What the replayed or live index is a projection of.
Origin == IF Outside.live THEN rows ELSE exercise.dump

\* No half-built corpus is served, and none that is out of order: of every
\* document, an index that was rebuilt and has the read alias shows as current all
\* chunks of the document's current version and no other, whichever order versions
\* were submitted and completed in, and of a document that is deleted or has no
\* completed version, none. Exempt are the documents ingestion has touched since the
\* rows were selected: with a commit or a deletion the replay could not see, whether
\* their chunks were written before or after, or with a write to this index; and a
\* document whose current version has no chunks.
ServedIsWhole ==
  \A i \in read \ {1} : \A d \in Documents \ indices[i].touched :
    LET shown == {c \in indices[i].current : Origin[c[1]].document = d}
        ids == ChunkIds(Origin, CurrentVersion(Origin, d))
    IN IF d \in Recorded(Origin) THEN (ids # {}) => shown = ids ELSE shown = {}

\* A rebuild that ends in an error has left its candidate without the aliases,
\* even when the cluster had applied the switch and only the answer was lost;
\* unless the compensation itself could not inspect or move the aliases.
FailureIsCompensated ==
  [][\A r \in Rebuilders :
       (rebuild[r].phase # "raised" /\ rebuild'[r].phase = "raised" /\ ~rebuild'[r].cut)
         => r \notin read']_allVars

\* A report of success means that the restored tables are those the source had
\* when its checksums were taken, writes going on or not, and that the search
\* evidence is every chunk of every completed version in them.
ReportIsTrue ==
  (exercise.phase = "reported") =>
    /\ exercise.dump = exercise.sums
    /\ exercise.evidence = UNION {ChunkIds(exercise.sums, v) : v \in Completed(exercise.sums)}

Tiles(ranges, start, end) ==
  IF ranges = <<>> THEN start = end
  ELSE /\ ranges[1].start = start /\ Last(ranges).end = end
       /\ \A n \in DOMAIN ranges : ranges[n].start < ranges[n].end
       /\ \A n \in 1..(Len(ranges) - 1) : ranges[n].end = ranges[n + 1].start

\* The chunks of a document are its text cut in consecutive pieces, none of them
\* longer than the limit, a section that fits in a chunk is never cut, and the
\* provenance spans of a chunk cover it exactly.
ChunksAreFaithful ==
  (rows # <<>>) =>
    LET lines == Last(rows).lines
        chunks == ChunkDocument(lines)
    IN /\ Tiles(chunks, 0, Len(Text(lines)))
       /\ \A c \in ToSet(chunks) : c.tokens <= MaxTokens /\ Tiles(c.spans, c.start, c.end)
       /\ \A s \in ToSet(Parse(lines)) :
            (Count(Text(lines), s.start, s.end) <= MaxTokens) =>
              \E c \in ToSet(chunks) : c.start <= s.start /\ s.end <= c.end
=============================================================================
