-------------------------- MODULE DocumentVersions --------------------------
(***************************************************************************)
(* Which version of one document is current: in PostgreSQL, where a run    *)
(* promotes the version it completes, and in the search index, where the   *)
(* run flags that version's chunks first, outside its transaction.         *)
(*                                                                         *)
(* A run holds the row of its document from its first statement to its end *)
(* (the FOR UPDATE of submit), so runs, submissions and deletions of the   *)
(* document are serialized; how jobs are delivered, retried and given up   *)
(* is the subject of module IngestionWorker.                               *)
(***************************************************************************)
EXTENDS Naturals, FiniteSets

CONSTANTS
  Versions,  \* source_version values, digests of contents, ordered as numbers
  Empty,     \* those versions whose content has no chunk
  Chunks,    \* ordinals of the chunks of the others
  MaxScans,  \* bound on the number of scans of the corpus
  None       \* no current version

ASSUME VersionsAssumption ==
  /\ Versions \subseteq Nat /\ IsFiniteSet(Versions)
  /\ Empty \subseteq Versions
  /\ Chunks # {} /\ IsFiniteSet(Chunks)
  /\ MaxScans \in Nat
  /\ None \notin Versions

VARIABLES
  scans,    \* scans so far: the time of the last one
  pending,  \* events scanned and not yet submitted
  stamp,    \* source_timestamp of each version row, 0 before there is one
  job,      \* state of each version's job: absent, open, completed, failed
  current,  \* documents.current_version_id
  deleted,  \* documents.deleted
  present,  \* chunks in the index, as pairs of a version and an ordinal
  flagged,  \* those with is_current set
  run,      \* the run that holds the document row: its version and phase
  newest    \* history: the event with the latest timestamp that was submitted

vars == <<scans, pending, stamp, job, current, deleted, present, flagged, run, newest>>
index == <<present, flagged>>
tables == <<stamp, job, current, deleted>>

Event == [version : Versions \cup {None}, at : 0..MaxScans]
Idle  == [version |-> None, phase |-> "idle"]

ChunksOf(v) == IF v \in Empty THEN {} ELSE {v} \X Chunks

TypeOK ==
  /\ scans \in 0..MaxScans
  /\ pending \subseteq Event
  /\ stamp \in [Versions -> 0..MaxScans]
  /\ job \in [Versions -> {"absent", "open", "completed", "failed"}]
  /\ current \in Versions \cup {None}
  /\ deleted \in BOOLEAN
  /\ present \subseteq Versions \X Chunks
  /\ flagged \subseteq present
  /\ run \in {Idle} \cup [version : Versions,
                          phase : {"open", "written", "cleared", "published"}]
  /\ newest \in Event

Init ==
  /\ scans = 0 /\ pending = {}
  /\ stamp = [v \in Versions |-> 0]
  /\ job = [v \in Versions |-> "absent"]
  /\ current = None /\ deleted = FALSE
  /\ present = {} /\ flagged = {}
  /\ run = Idle
  /\ newest = [version |-> None, at |-> 0]

-----------------------------------------------------------------------------
(* Sources and submissions.                                                *)

\* A scan captures the content the source has now, whatever it had before.
Scan(v) ==
  /\ scans < MaxScans
  /\ scans' = scans + 1
  /\ pending' = pending \cup {[version |-> v, at |-> scans']}
  /\ UNCHANGED <<tables, index, run, newest>>

\* submit, once per event: a version or job that exists is left as it is.
Submit(e) ==
  /\ e \in pending /\ run = Idle
  /\ pending' = pending \ {e}
  /\ stamp' = [stamp EXCEPT ![e.version] = IF @ = 0 THEN e.at ELSE @]
  /\ job' = [job EXCEPT ![e.version] = IF @ = "absent" THEN "open" ELSE @]
  /\ newest' = IF e.at > newest.at THEN e ELSE newest
  /\ UNCHANGED <<scans, current, deleted, index, run>>

\* The submitter dies before its transaction.
Abandon(e) ==
  /\ e \in pending
  /\ pending' = pending \ {e}
  /\ UNCHANGED <<scans, tables, index, run, newest>>

\* A deleted event of a known document: only the document row knows of it.
Delete ==
  /\ run = Idle /\ \E v \in Versions : job[v] # "absent"
  /\ deleted' = TRUE /\ current' = None
  /\ UNCHANGED <<scans, pending, stamp, job, index, run, newest>>

-----------------------------------------------------------------------------
(* A run of a job, from the document lock to its commit.                   *)

Begin(v) ==
  /\ run = Idle /\ job[v] = "open"
  /\ run' = [version |-> v, phase |-> "open"]
  /\ UNCHANGED <<scans, pending, tables, index, newest>>

At(phase) == run # Idle /\ run.phase = phase
Reach(phase) == run' = [run EXCEPT !.phase = phase]

\* Fault: the transaction of a failed run stays open.
RollbackLater ==
  /\ run' = [run EXCEPT !.phase = "failed"]
  /\ \E s \in {"open", "failed"} : job' = [job EXCEPT ![run.version] = s]
  /\ UNCHANGED <<stamp, current, deleted>>

\* The transaction ends without a promotion: the job is retried or given up.
Rollback ==
  /\ run' = Idle
  /\ \E s \in {"open", "failed"} : job' = [job EXCEPT ![run.version] = s]
  /\ UNCHANGED <<stamp, current, deleted>>

\* Fault: a projection of a deleted document is let through.
AcceptsAny == TRUE

\* validate_projections, in the run's transaction.
Accepts == ~deleted

\* The run calls the index with the chunks of its version.
Sends == At("open") /\ run.version \notin Empty /\ Accepts

\* Fault: failed items of the bulk response are not looked at.
WriteIgnored ==
  /\ Sends
  /\ \E ok \in SUBSET ChunksOf(run.version) :
       present' = present \cup ok /\ flagged' = flagged \ ok
  /\ Reach("written")
  /\ UNCHANGED <<scans, pending, tables, newest>>

\* The bulk request: every chunk of the version, not current.
Write ==
  /\ Sends
  /\ present' = present \cup ChunksOf(run.version)
  /\ flagged' = flagged \ ChunksOf(run.version)
  /\ Reach("written")
  /\ UNCHANGED <<scans, pending, tables, newest>>

\* Fault: chunks that are in the index already are not sent again.
SkipPresent ==
  /\ At("open") /\ ChunksOf(run.version) \subseteq present
  /\ Reach("published")
  /\ UNCHANGED <<scans, pending, tables, index, newest>>

\* An empty version: prepare returns before it calls the index.
SkipIndex ==
  /\ At("open") /\ run.version \in Empty
  /\ Reach("published")
  /\ UNCHANGED <<scans, pending, tables, index, newest>>

\* Some chunks are refused: those written are deleted, and the run fails.
WriteRefused ==
  /\ Sends
  /\ \E ok \in SUBSET ChunksOf(run.version) \ {ChunksOf(run.version)} :
       present' = present \ ok /\ flagged' = flagged \ ok
  /\ Rollback
  /\ UNCHANGED <<scans, pending, newest>>

\* The bulk request or the clean-up raises: any chunk may have been written.
WriteLost ==
  /\ Sends
  /\ \E ok \in SUBSET ChunksOf(run.version) :
       present' = present \cup ok /\ flagged' = flagged \ ok
  /\ Rollback
  /\ UNCHANGED <<scans, pending, newest>>

Others(v) == flagged \ ChunksOf(v)

\* Fault: the other versions are not looked for.
ClearNone(v) == {}

\* The chunks that the first update_by_query stops from being current.
Cleared(v) == Others(v)

ClearOthers ==
  /\ At("written")
  /\ flagged' = flagged \ Cleared(run.version)
  /\ Reach("cleared")
  /\ UNCHANGED <<scans, pending, tables, present, newest>>

Publish ==
  /\ At("cleared")
  /\ flagged' = flagged \cup (present \cap ChunksOf(run.version))
  /\ Reach("published")
  /\ UNCHANGED <<scans, pending, tables, present, newest>>

\* Either update raises after it changed any part of the chunks it was to change.
ClearLost ==
  /\ At("written")
  /\ \E some \in SUBSET Others(run.version) : flagged' = flagged \ some
  /\ Rollback
  /\ UNCHANGED <<scans, pending, present, newest>>

PublishLost ==
  /\ At("cleared")
  /\ \E some \in SUBSET (present \cap ChunksOf(run.version)) : flagged' = flagged \cup some
  /\ Rollback
  /\ UNCHANGED <<scans, pending, present, newest>>

\* (source_timestamp, source_version) of a is at most that of b.
NotNewer(a, b) == stamp[a] < stamp[b] \/ (stamp[a] = stamp[b] /\ a <= b)

\* Fault: the run that completes last wins.
PromotedAlways(v) == IF deleted THEN current ELSE v

\* promote: a version that was overtaken does not become current.
Promoted(v) ==
  IF ~deleted /\ (current = None \/ NotNewer(current, v)) THEN v ELSE current

\* promote, save_job and the commit.
Complete ==
  /\ At("published")
  /\ current' = Promoted(run.version)
  /\ job' = [job EXCEPT ![run.version] = "completed"]
  /\ run' = Idle
  /\ UNCHANGED <<scans, pending, stamp, deleted, index, newest>>

\* A crash, an error outside the index, or a failed commit, at any point.
Fail ==
  /\ run # Idle
  /\ Rollback
  /\ UNCHANGED <<scans, pending, index, newest>>

\* The claim after the last delivery, which locks the job's row only: the job is
\* given up without a run.
GiveUp(v) ==
  /\ run.version # v /\ job[v] = "open"
  /\ job' = [job EXCEPT ![v] = "failed"]
  /\ UNCHANGED <<scans, pending, stamp, current, deleted, index, run, newest>>

Run == \/ Write \/ SkipIndex \/ WriteRefused \/ WriteLost \/ ClearOthers \/ ClearLost
       \/ Publish \/ PublishLost \/ Complete \/ Fail

Next == \/ \E v \in Versions : Scan(v) \/ Begin(v) \/ GiveUp(v)
        \/ \E e \in pending : Submit(e) \/ Abandon(e)
        \/ Delete \/ Run

Spec == Init /\ [][Next]_vars

-----------------------------------------------------------------------------
(* Properties.                                                             *)

\* Outside the index call at most one version is served, whatever was lost in
\* the three requests of upsert: readers never see two versions of a document.
OneVersionServed ==
  Cardinality({p[1] : p \in flagged}) <= 1

\* PostgreSQL's current version is one whose job completed, as replay requires
\* (indexing/replay.py:77), and it is in the index whole: its run had every chunk
\* written, and no later run of any version removes one.
CurrentIsBacked ==
  current # None => job[current] = "completed" /\ ChunksOf(current) \subseteq present

\* A later version is never replaced by an earlier one, in whatever order the
\* jobs of several versions finish (promote's comparison under the row lock).
CurrentNeverOlder ==
  [][current # None /\ current' # None => NotNewer(current, current')]_vars

\* At the step that promotes a version with chunks, the index serves exactly
\* that version: the index was written before the commit.
PromotionIsPublished ==
  [][current' \notin {current, None} \cup Empty => flagged' = ChunksOf(current')]_vars

\* After a deletion no chunk becomes current, although open jobs still run and
\* resubmissions still come (validate_projections refuses a deleted document).
TombstoneNotIndexed ==
  [][deleted => flagged' \subseteq flagged /\ current' = None]_vars

\* Nothing is left to do, and every version that was submitted has completed.
AllCompleted == /\ pending = {} /\ run = Idle
                /\ \A v \in Versions : job[v] \in {"absent", "completed"}

\* Then what the index serves is the document's current version: PostgreSQL is
\* authoritative (design.md:8) and search is of the current corpus (README.md:19).
IndexAgrees ==
  AllCompleted /\ ~deleted => \A p \in flagged : p[1] = current

\* Then the content submitted last is the current version (spec.md:61, "WHEN
\* source content changes THEN ... mark the new version as current").
LatestIsCurrent ==
  AllCompleted /\ ~deleted => current = newest.version
=============================================================================
