----------------------- MODULE DocumentVersionsProofs -----------------------
(***************************************************************************)
(* Theorems about DocumentVersions, for every set of versions and chunks   *)
(* and any number of scans.                                                *)
(***************************************************************************)
EXTENDS DocumentVersions, FiniteSetTheorems, TLAPS

USE VersionsAssumption

-----------------------------------------------------------------------------
(* The inductive invariant.                                                *)

\* Current chunks are of one version.
OneFlagged == \A p, q \in flagged : p[1] = q[1]

\* What the run that holds the document row has reached: its job is open, once
\* written its chunks are all there, and the flags are as its phase left them.
RunSound ==
  run # Idle =>
    /\ job[run.version] = "open"
    /\ run.phase # "open" => ChunksOf(run.version) \subseteq present
    /\ run.phase = "cleared" => flagged \subseteq ChunksOf(run.version)
    /\ run.phase = "published" /\ run.version \notin Empty =>
         flagged = ChunksOf(run.version)

\* A deleted document has no current version, and no run of it is in the index.
DeletedSound ==
  deleted => current = None /\ (run # Idle => run.phase \in {"open", "published"})

VersionsInv ==
  TypeOK /\ OneFlagged /\ CurrentIsBacked /\ RunSound /\ DeletedSound

-----------------------------------------------------------------------------
(* Facts about chunks and runs.                                            *)

\* The chunks of two versions are different chunks.
LEMMA ChunksDisjoint ==
  ASSUME NEW v \in Versions, NEW w \in Versions, v # w
  PROVE  ChunksOf(v) \cap ChunksOf(w) = {}
BY DEF ChunksOf

\* The chunks of a version carry that version.
LEMMA ChunksVersion ==
  ASSUME NEW v \in Versions
  PROVE  /\ ChunksOf(v) \subseteq Versions \X Chunks
         /\ \A p \in ChunksOf(v) : p[1] = v
BY DEF ChunksOf

\* A run that is not idle has a version and one of the phases of a run.
LEMMA RunType ==
  ASSUME TypeOK, run # Idle
  PROVE  /\ run.version \in Versions
         /\ run.phase \in {"open", "written", "cleared", "published"}
         /\ run = [version |-> run.version, phase |-> run.phase]
BY DEF TypeOK

\* A run of phase p, of the version of the run before.
LEMMA Reached ==
  ASSUME TypeOK, run # Idle, NEW p \in {"written", "cleared", "published"}, Reach(p)
  PROVE  /\ run'.version = run.version /\ run'.phase = p /\ run' # Idle
         /\ run' \in [version : Versions, phase : {"open", "written", "cleared", "published"}]
BY RunType DEF Reach, Idle, TypeOK

\* A rollback ends the run and leaves its job open or failed.
LEMMA RolledBack ==
  ASSUME VersionsInv, run # Idle, Rollback
  PROVE  /\ run' = Idle
         /\ job' \in [Versions -> {"absent", "open", "completed", "failed"}]
         /\ \A v \in Versions : job[v] = "completed" => job'[v] = "completed"
         /\ stamp' = stamp /\ current' = current /\ deleted' = deleted
BY RunType DEF VersionsInv, TypeOK, Rollback, RunSound

\* The current version is not that of a run in progress.
LEMMA CurrentNotRunning ==
  ASSUME VersionsInv, run # Idle, current # None
  PROVE  current \in Versions /\ current # run.version
BY RunType DEF VersionsInv, TypeOK, CurrentIsBacked, RunSound

-----------------------------------------------------------------------------
(* Preservation, action by action.                                         *)

\* The empty tables and the empty index.
LEMMA InitSound == Init => VersionsInv
<1> SUFFICES ASSUME Init PROVE VersionsInv
  OBVIOUS
<1>1. TypeOK
  <2>1. pending \subseteq Event /\ newest \in Event
    BY DEF Init, Event
  <2>2. run = Idle
    BY DEF Init
  <2>3. /\ stamp \in [Versions -> 0..MaxScans]
        /\ job \in [Versions -> {"absent", "open", "completed", "failed"}]
    BY DEF Init
  <2>4. /\ scans \in 0..MaxScans /\ current \in Versions \cup {None}
        /\ present \subseteq Versions \X Chunks /\ flagged \subseteq present
    BY DEF Init
  <2>5. deleted \in BOOLEAN
    BY Zenon DEF Init
  <2>6. QED
    BY <2>1, <2>2, <2>3, <2>4, <2>5 DEF TypeOK
<1>2. OneFlagged /\ CurrentIsBacked /\ RunSound /\ DeletedSound
  BY DEF Init, OneFlagged, CurrentIsBacked, RunSound, DeletedSound
<1>3. QED
  BY <1>1, <1>2 DEF VersionsInv

\* Scans and events that are given up do not touch tables, index or run.
LEMMA SourceSound ==
  ASSUME VersionsInv,
         (\E v \in Versions : Scan(v)) \/ (\E e \in pending : Abandon(e))
  PROVE  VersionsInv'
<1>1. TypeOK'
  BY DEF VersionsInv, TypeOK, Scan, Abandon, tables, index, Event
<1>2. QED
  BY <1>1 DEF VersionsInv, Scan, Abandon, tables, index, OneFlagged, CurrentIsBacked,
              RunSound, DeletedSound

\* submit leaves a job that exists as it is, so a completed one stays completed.
LEMMA SubmitSound ==
  ASSUME VersionsInv, NEW e \in pending, Submit(e)
  PROVE  VersionsInv'
<1>1. e \in Event
  BY DEF VersionsInv, TypeOK
<1>2. TypeOK'
  BY <1>1 DEF VersionsInv, TypeOK, Submit, index, Event
<1>3. \A v \in Versions : job[v] = "completed" => job'[v] = "completed"
  BY DEF VersionsInv, TypeOK, Submit
<1>4. CurrentIsBacked'
  BY <1>3 DEF VersionsInv, TypeOK, Submit, index, CurrentIsBacked
<1>5. QED
  BY <1>2, <1>4 DEF VersionsInv, Submit, index, OneFlagged, RunSound, DeletedSound

\* A deletion comes between runs.
LEMMA DeleteSound ==
  ASSUME VersionsInv, Delete
  PROVE  VersionsInv'
BY DEF VersionsInv, TypeOK, Delete, index, OneFlagged, CurrentIsBacked, RunSound, DeletedSound

\* A run begins on an open job and has written nothing.
LEMMA BeginSound ==
  ASSUME VersionsInv, NEW v \in Versions, Begin(v)
  PROVE  VersionsInv'
<1>1. run' # Idle /\ run'.version = v /\ run'.phase = "open"
  BY DEF Begin, Idle
<1>2. TypeOK'
  BY DEF VersionsInv, TypeOK, Begin, tables, index
<1>3. RunSound' /\ DeletedSound'
  BY <1>1 DEF VersionsInv, Begin, tables, index, RunSound, DeletedSound
<1>4. QED
  BY <1>2, <1>3 DEF VersionsInv, Begin, tables, index, OneFlagged, CurrentIsBacked

\* The claim that gives up a job gives up no job that runs.
LEMMA GiveUpSound ==
  ASSUME VersionsInv, NEW v \in Versions, GiveUp(v)
  PROVE  VersionsInv'
<1>1. TypeOK'
  BY DEF VersionsInv, TypeOK, GiveUp, index
<1>2. \A w \in Versions : w # v => job'[w] = job[w]
  BY DEF VersionsInv, TypeOK, GiveUp
<1>3. CurrentIsBacked'
  BY <1>2 DEF VersionsInv, TypeOK, GiveUp, index, CurrentIsBacked
<1>4. RunSound'
  BY <1>2, RunType DEF VersionsInv, GiveUp, index, RunSound
<1>5. QED
  BY <1>1, <1>3, <1>4 DEF VersionsInv, GiveUp, index, OneFlagged, DeletedSound

\* A run ends without promotion: the index has lost flags, or chunks of the run's
\* version only, or has gained chunks, or flags that are the only ones.
LEMMA RollbackSound ==
  ASSUME VersionsInv, run # Idle, Rollback,
         UNCHANGED <<scans, pending, newest>>,
         present' \subseteq Versions \X Chunks, flagged' \subseteq present',
         flagged' \subseteq flagged \/ flagged' \subseteq ChunksOf(run.version),
         present \ ChunksOf(run.version) \subseteq present'
  PROVE  VersionsInv'
<1>1. TypeOK'
  BY RolledBack DEF VersionsInv, TypeOK
<1>2. OneFlagged'
  BY RunType, ChunksVersion DEF VersionsInv, OneFlagged
<1>3. CurrentIsBacked'
  <2> SUFFICES ASSUME current # None
               PROVE  job'[current] = "completed" /\ ChunksOf(current) \subseteq present'
    BY RolledBack DEF CurrentIsBacked
  <2>1. job'[current] = "completed"
    BY CurrentNotRunning, RolledBack DEF VersionsInv, CurrentIsBacked
  <2>2. ChunksOf(current) \subseteq present /\ ChunksOf(current) \cap ChunksOf(run.version) = {}
    BY CurrentNotRunning, RunType, ChunksDisjoint DEF VersionsInv, CurrentIsBacked
  <2>3. QED
    BY <2>1, <2>2
<1>4. RunSound' /\ DeletedSound'
  BY RolledBack DEF VersionsInv, RunSound, DeletedSound
<1>5. QED
  BY <1>1, <1>2, <1>3, <1>4 DEF VersionsInv

\* Every failure of a run, in or between the requests to the index.
LEMMA FailureSound ==
  ASSUME VersionsInv,
         WriteRefused \/ WriteLost \/ ClearLost \/ PublishLost \/ Fail
  PROVE  VersionsInv'
<1>1. run # Idle
  BY DEF WriteRefused, WriteLost, ClearLost, PublishLost, Fail, Sends, At
<1>2. ChunksOf(run.version) \subseteq Versions \X Chunks
  BY <1>1, RunType, ChunksVersion DEF VersionsInv
<1>3. present \subseteq Versions \X Chunks /\ flagged \subseteq present
  BY DEF VersionsInv, TypeOK
<1>4. CASE WriteRefused
  <2>1. PICK ok \in SUBSET ChunksOf(run.version) :
          present' = present \ ok /\ flagged' = flagged \ ok
    BY <1>4 DEF WriteRefused
  <2>2. Rollback /\ UNCHANGED <<scans, pending, newest>>
    BY <1>4 DEF WriteRefused
  <2>3. QED
    BY <1>1, <1>3, <2>1, <2>2, RollbackSound
<1>5. CASE WriteLost
  <2>1. PICK ok \in SUBSET ChunksOf(run.version) :
          present' = present \cup ok /\ flagged' = flagged \ ok
    BY <1>5 DEF WriteLost
  <2>2. Rollback /\ UNCHANGED <<scans, pending, newest>>
    BY <1>5 DEF WriteLost
  <2>3. QED
    BY <1>1, <1>2, <1>3, <2>1, <2>2, RollbackSound
<1>6. CASE ClearLost
  <2>1. PICK some \in SUBSET Others(run.version) : flagged' = flagged \ some
    BY <1>6 DEF ClearLost
  <2>2. Rollback /\ UNCHANGED <<scans, pending, present, newest>>
    BY <1>6 DEF ClearLost
  <2>3. QED
    BY <1>1, <1>3, <2>1, <2>2, RollbackSound
<1>7. CASE PublishLost
  <2>1. PICK some \in SUBSET (present \cap ChunksOf(run.version)) : flagged' = flagged \cup some
    BY <1>7 DEF PublishLost
  <2>2. Rollback /\ UNCHANGED <<scans, pending, present, newest>>
    BY <1>7 DEF PublishLost
  <2>3. flagged \subseteq ChunksOf(run.version)
    BY <1>1, <1>7 DEF VersionsInv, RunSound, PublishLost, At
  <2>4. QED
    BY <1>1, <1>3, <2>1, <2>2, <2>3, RollbackSound
<1>8. CASE Fail
  BY <1>1, <1>3, <1>8, RollbackSound DEF Fail, index
<1>9. QED
  BY <1>4, <1>5, <1>6, <1>7, <1>8

\* The requests that succeed, each leaving the index as its phase says.
LEMMA UpsertSound ==
  ASSUME VersionsInv, Write \/ SkipIndex \/ ClearOthers \/ Publish
  PROVE  VersionsInv'
<1>1. run # Idle /\ run.version \in Versions /\ job[run.version] = "open"
  BY RunType DEF VersionsInv, RunSound, Write, SkipIndex, ClearOthers, Publish, Sends, At
<1>2. /\ ChunksOf(run.version) \subseteq Versions \X Chunks
      /\ \A p \in ChunksOf(run.version) : p[1] = run.version
  BY <1>1, ChunksVersion
<1>3. PICK p \in {"written", "cleared", "published"} : Reach(p)
  BY DEF Write, SkipIndex, ClearOthers, Publish
<1>4. /\ run'.version = run.version /\ run'.phase = p /\ run' # Idle
      /\ run' \in [version : Versions, phase : {"open", "written", "cleared", "published"}]
  BY <1>1, <1>3, Reached DEF VersionsInv
<1>5. /\ UNCHANGED <<scans, pending, stamp, job, current, deleted, newest>>
      /\ present \subseteq present' /\ present' \subseteq present \cup ChunksOf(run.version)
      /\ flagged' \subseteq present'
  BY DEF VersionsInv, TypeOK, Write, SkipIndex, ClearOthers, Publish, tables, index
<1>6. TypeOK'
  BY <1>2, <1>4, <1>5 DEF VersionsInv, TypeOK
<1>7. flagged' \subseteq flagged \/ flagged' \subseteq ChunksOf(run.version)
  BY <1>1 DEF VersionsInv, RunSound, Write, SkipIndex, ClearOthers, Publish, index, At
<1>8. OneFlagged' /\ CurrentIsBacked'
  BY <1>2, <1>5, <1>7 DEF VersionsInv, OneFlagged, CurrentIsBacked
<1>9. RunSound'
  <2>1. ChunksOf(run.version) \subseteq present'
    BY <1>1 DEF VersionsInv, RunSound, Write, SkipIndex, ClearOthers, Publish, At, ChunksOf, index
  <2>2. p = "cleared" => flagged' \subseteq ChunksOf(run.version)
    BY <1>1, <1>3, <1>4 DEF Write, SkipIndex, ClearOthers, Publish, Reach, Cleared, Others
  <2>3. p = "published" /\ run.version \notin Empty => flagged' = ChunksOf(run.version)
    BY <1>1, <1>3, <1>4 DEF VersionsInv, RunSound, Write, SkipIndex, ClearOthers, Publish, Reach, At
  <2>4. QED
    BY <1>1, <1>4, <1>5, <2>1, <2>2, <2>3 DEF RunSound
<1>10. DeletedSound'
  BY <1>1, <1>4, <1>5 DEF VersionsInv, DeletedSound, Write, SkipIndex, ClearOthers, Publish,
     Reach, Sends, Accepts, At
<1>11. QED
  BY <1>6, <1>8, <1>9, <1>10 DEF VersionsInv

\* A run that has published completes its job and promotes it or leaves what is
\* newer; either is completed and whole.
LEMMA CompleteSound ==
  ASSUME VersionsInv, Complete
  PROVE  VersionsInv'
<1>1. run # Idle /\ run.version \in Versions /\ run.phase = "published"
  BY RunType DEF VersionsInv, Complete, At
<1>2. ChunksOf(run.version) \subseteq present
  BY <1>1 DEF VersionsInv, RunSound
<1>3. current' \in {current, run.version} /\ (deleted => current' = current)
  BY DEF Complete, Promoted
<1>4. /\ job' \in [Versions -> {"absent", "open", "completed", "failed"}]
      /\ job'[run.version] = "completed"
      /\ \A v \in Versions : job[v] = "completed" => job'[v] = "completed"
  BY <1>1 DEF VersionsInv, TypeOK, Complete
<1>5. TypeOK'
  BY <1>1, <1>3, <1>4 DEF VersionsInv, TypeOK, Complete, index
<1>6. CurrentIsBacked'
  BY <1>2, <1>3, <1>4 DEF VersionsInv, TypeOK, Complete, index, CurrentIsBacked
<1>7. QED
  BY <1>3, <1>5, <1>6 DEF VersionsInv, Complete, index, OneFlagged, RunSound, DeletedSound

-----------------------------------------------------------------------------
(* Theorems.                                                               *)

\* Every action of sources, submitters, runs and claims keeps the invariant.
THEOREM VersionsStep == VersionsInv /\ [Next]_vars => VersionsInv'
<1> SUFFICES ASSUME VersionsInv, [Next]_vars PROVE VersionsInv'
  OBVIOUS
<1>1. ASSUME NEW v \in Versions, Scan(v) \/ Begin(v) \/ GiveUp(v) PROVE VersionsInv'
  BY <1>1, SourceSound, BeginSound, GiveUpSound
<1>2. ASSUME NEW e \in pending, Submit(e) \/ Abandon(e) PROVE VersionsInv'
  BY <1>2, SourceSound, SubmitSound
<1>3. CASE Run
  BY <1>3, FailureSound, UpsertSound, CompleteSound DEF Run
<1>4. CASE UNCHANGED vars
  BY <1>4 DEF vars, VersionsInv, TypeOK, OneFlagged, CurrentIsBacked, RunSound, DeletedSound
<1>5. QED
  BY <1>1, <1>2, <1>3, <1>4, DeleteSound DEF Next

\* In every reachable state tables, index and the run in progress agree.
THEOREM VersionsSafety == Spec => []VersionsInv
BY InitSound, VersionsStep, PTL DEF Spec

\* Every variable keeps its type.
THEOREM VersionsTypeCorrect == Spec => []TypeOK
<1>1. VersionsInv => TypeOK
  BY DEF VersionsInv
<1>2. QED
  BY <1>1, VersionsSafety, PTL

\* Readers see chunks of at most one version of the document as current, whatever
\* fails in the three requests of upsert.
THEOREM OneVersion == Spec => []OneVersionServed
<1>1. ASSUME VersionsInv PROVE OneVersionServed
  <2> DEFINE S == {p[1] : p \in flagged}
  <2>1. S = {} \/ \E v : S = {v}
    BY <1>1 DEF VersionsInv, OneFlagged
  <2> HIDE DEF S
  <2>2. Cardinality(S) \in {0, 1}
    BY <2>1, FS_EmptySet, FS_Singleton, Zenon
  <2>3. Cardinality(S) <= 1
    BY <2>2
  <2>4. QED
    BY <2>3 DEF OneVersionServed, S
<1>2. QED
  BY <1>1, VersionsSafety, PTL

\* PostgreSQL's current version has a completed job and all its chunks.
THEOREM CurrentBacked == Spec => []CurrentIsBacked
<1>1. VersionsInv => CurrentIsBacked
  BY DEF VersionsInv
<1>2. QED
  BY <1>1, VersionsSafety, PTL

\* What a step does to the current version: only a run's commit and a deletion
\* change it.
LEMMA CurrentChanges ==
  ASSUME VersionsInv, [Next]_vars, current' # current
  PROVE  Complete \/ (Delete /\ current' = None)
BY DEF Next, Run, vars, tables, index, Scan, Submit, Abandon, Delete, Begin, GiveUp, Write,
       SkipIndex, WriteRefused, WriteLost, ClearOthers, ClearLost, Publish, PublishLost,
       Fail, Rollback

\* The current version only advances (promote).
THEOREM OnlyNewer == Spec => CurrentNeverOlder
<1>1. ASSUME VersionsInv, [Next]_vars, current # None, current' # None
      PROVE  NotNewer(current, current')
  <2>1. CASE current' = current
    BY <1>1, <2>1 DEF VersionsInv, TypeOK, NotNewer
  <2>2. CASE current' # current
    BY <1>1, <2>2, CurrentChanges DEF Complete, Promoted
  <2>3. QED
    BY <2>1, <2>2
<1>2. VersionsInv /\ [Next]_vars =>
        [current # None /\ current' # None => NotNewer(current, current')]_vars
  BY <1>1
<1>3. QED
  BY <1>2, VersionsSafety, PTL DEF Spec, CurrentNeverOlder

\* A version with chunks is promoted only while the index serves exactly it.
THEOREM PublishedFirst == Spec => PromotionIsPublished
<1>1. ASSUME VersionsInv, [Next]_vars, current' \notin {current, None} \cup Empty
      PROVE  flagged' = ChunksOf(current')
  <2>1. Complete /\ current' = run.version
    BY <1>1, CurrentChanges DEF Complete, Promoted
  <2>2. flagged = ChunksOf(run.version) /\ flagged' = flagged
    BY <1>1, <2>1 DEF VersionsInv, RunSound, Complete, At, index
  <2>3. QED
    BY <2>1, <2>2
<1>2. VersionsInv /\ [Next]_vars =>
        [current' \notin {current, None} \cup Empty => flagged' = ChunksOf(current')]_vars
  BY <1>1
<1>3. QED
  BY <1>2, VersionsSafety, PTL DEF Spec, PromotionIsPublished

\* What a step does to the flags: only the last update of a run adds any.
LEMMA FlagsAdded ==
  ASSUME VersionsInv, [Next]_vars
  PROVE  flagged' \subseteq flagged \/ At("cleared")
BY DEF Next, Run, vars, tables, index, Scan, Submit, Abandon, Delete, Begin, GiveUp, Write,
       SkipIndex, WriteRefused, WriteLost, ClearOthers, ClearLost, Publish, PublishLost,
       Complete, Fail, Rollback

\* After a deletion nothing becomes current again, in the index or the tables.
THEOREM TombstoneHolds == Spec => TombstoneNotIndexed
<1>1. ASSUME VersionsInv, [Next]_vars, deleted
      PROVE  flagged' \subseteq flagged /\ current' = None
  <2>1. current = None /\ ~At("cleared")
    BY <1>1 DEF VersionsInv, DeletedSound, At
  <2>2. current' = None
    BY <1>1, <2>1, CurrentChanges DEF Complete, Promoted
  <2>3. QED
    BY <1>1, <2>1, <2>2, FlagsAdded
<1>2. VersionsInv /\ [Next]_vars =>
        [deleted => flagged' \subseteq flagged /\ current' = None]_vars
  BY <1>1
<1>3. QED
  BY <1>2, VersionsSafety, PTL DEF Spec, TombstoneNotIndexed
=============================================================================
