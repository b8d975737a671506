----------------------- MODULE RecoveryExerciseProofs -----------------------
(***************************************************************************)
(* Proofs about the index behind its two aliases, for any number of        *)
(* rebuilds, documents, versions and failures: the aliases stay together,  *)
(* only whole corpora are served, a rebuild that fails is compensated, and *)
(* a recovery report is true; and about the chunker, for any document and  *)
(* any limit: its chunks tile the text. Of the chunker the index needs     *)
(* only that equal documents have equal chunks, and finitely many.         *)
(***************************************************************************)
EXTENDS RecoveryExercise, OrderingsProofs

RebuildFields == {"phase", "seen", "previous", "documents", "queue", "written", "cut"}
IndexFields == {"chunks", "current", "touched"}
ExerciseFields == {"phase", "dump", "sums", "backup", "evidence"}

\* The phases of a rebuild before its rows are selected, before the switch of
\* the aliases, and from the validation on.
Preparing == {"idle", "start", "create", "count", "select"}
Early == Preparing \cup {"replay", "validate"}
Validated == {"guard", "update", "confirm", "done", "undone"} \cup Undoing
Built == Validated \cup {"validate"}
Phases == Early \cup Validated \cup {"raised"}

Rows == [document : Documents, lines : Outside.contents, stamp : Nat,
         done : BOOLEAN, deleted : BOOLEAN]

Typed ==
  /\ world \in DOMAIN Worlds
  /\ rows \in Seq(Rows) /\ pending \subseteq DOMAIN rows
  /\ DOMAIN exercise = ExerciseFields /\ exercise.dump \in Seq(Rows)
  /\ DOMAIN rebuild = Rebuilders
  /\ \A r \in Rebuilders : /\ DOMAIN rebuild[r] = RebuildFields
                           /\ rebuild[r].phase \in Phases /\ rebuild[r].queue \in Seq(Nat)
  /\ \A i \in DOMAIN indices : DOMAIN indices[i] = IndexFields

\* The aliases are on one and the same index, which exists, or on none.
AliasesSound == read = write /\ (read = {} \/ \E i \in DOMAIN indices : read = {i})

\* The candidate of a rebuild that has not come to its switch has not been
\* behind the aliases, so no other rebuild would put them back to it.
EarlyUnserved ==
  \A r \in Rebuilders : (rebuild[r].phase \in Early) =>
    r \notin read /\ \A q \in Rebuilders : rebuild[q].previous # r

\* Timestamps tell the versions of a document apart.
StampsApart(table) ==
  \A u, v \in DOMAIN table :
    table[u].document = table[v].document /\ table[u].stamp = table[v].stamp => u = v

TablesSound == StampsApart(rows) /\ StampsApart(exercise.dump)

\* A completed version, and none of its document is newer.
IsCurrent(table, v) ==
  /\ v \in Completed(table)
  /\ \A u \in Completed(table) :
       table[u].document = table[v].document => table[u].stamp <= table[v].stamp

\* The chunks of all completed versions.
AllChunks(table) == UNION {ChunkIds(table, v) : v \in Completed(table)}

\* What an index shows as current of a document.
Shows(index, table, d) == {c \in index.current : table[c[1]].document = d}

\* The whole of a document is its current version, or nothing.
Whole(index, table, d) ==
  /\ \A v \in Completed(table) :
       IsCurrent(table, v) /\ table[v].document = d /\ ChunkIds(table, v) # {} =>
         Shows(index, table, d) = ChunkIds(table, v)
  /\ d \notin Recorded(table) => Shows(index, table, d) = {}

Known(index, table) == \A c \in index.current : c[1] \in DOMAIN table

CurrentKnown == \A i \in DOMAIN indices : Known(indices[i], Origin)

\* The indexes that are behind the aliases, may come to be or may come back.
Servable(i) ==
  \/ i \in read \/ \E q \in Rebuilders : rebuild[q].previous = i
  \/ i \in Rebuilders /\ rebuild[i].phase \in Built

ServableWhole ==
  \A i \in DOMAIN indices \ {1} : Servable(i) =>
    \A d \in Documents \ indices[i].touched : Whole(indices[i], Origin, d)

\* No candidate holds anything before its replay.
CandidateBlank ==
  \A r \in Rebuilders : (rebuild[r].phase \in {"count", "select"} /\ r \in DOMAIN indices) =>
    indices[r].current = {}

\* The versions of a document in a queue.
Of(queue, table, d) == {v \in ToSet(queue) : table[v].document = d}

\* The current version of a document comes last of its versions in the queue.
CurrentLast(queue, table, d) ==
  \A a, b \in DOMAIN queue :
    a < b /\ table[queue[a]].document = d /\ table[queue[b]].document = d =>
      ~IsCurrent(table, queue[a])

\* During the replay a document is whole, or its current version is still to come.
Filling(index, table, queue, d) ==
  /\ Of(queue, table, d) \subseteq Completed(table)
  /\ Of(queue, table, d) # {} => \E v \in Of(queue, table, d) : IsCurrent(table, v)
  /\ Of(queue, table, d) = {} => Whole(index, table, d)
  /\ CurrentLast(queue, table, d)

ReplaySound ==
  \A r \in Rebuilders : (rebuild[r].phase = "replay") =>
    /\ ToSet(rebuild[r].queue) \subseteq DOMAIN Origin
    /\ (r \in DOMAIN indices) =>
         \A d \in Documents \ indices[r].touched :
           Filling(indices[r], Origin, rebuild[r].queue, d)

\* What the rebuild of the exercise has written, and where it has left it.
WrittenSound ==
  LET b == rebuild[Restored]
  IN ~Outside.live =>
       /\ (b.phase \in Preparing) => b.written = {}
       /\ (b.phase = "replay") =>
            b.written \cup UNION {ChunkIds(exercise.dump, v) : v \in ToSet(b.queue)}
              = AllChunks(exercise.dump)
       /\ (b.phase \in Built) => b.written = AllChunks(exercise.dump)
       /\ (b.phase \in Built \cup {"count", "select", "replay"} /\ Restored \in DOMAIN indices) =>
            indices[Restored].chunks = b.written
       /\ (b.phase = "done" /\ exercise.phase = "rebuilding") => read = {Restored}

\* Until it makes an index to be replaced, the exercise has touched none.
BeforeIndex == {"idle", "dumped", "summed", "saved", "restored"}

ExerciseSound ==
  /\ (~Outside.live /\ exercise.phase \in BeforeIndex) =>
       /\ DOMAIN indices = {}
       /\ \A r \in Rebuilders : rebuild[r].phase = "idle" /\ rebuild[r].previous = None
  /\ (exercise.phase \in {"restored", "rebuilding", "reported"}) =>
       exercise.dump = exercise.sums

RecoveryInv ==
  /\ Typed /\ AliasesSound /\ EarlyUnserved /\ TablesSound /\ CurrentKnown /\ ServableWhole
  /\ CandidateBlank /\ ReplaySound /\ WrittenSound /\ ExerciseSound /\ ReportIsTrue

-----------------------------------------------------------------------------
(* Tables of versions, and the order of the replay *)

\* What a table of rows is made of.
LEMMA RowFacts ==
  ASSUME NEW table \in Seq(Rows)
  PROVE  /\ DOMAIN table = 1..Len(table) /\ Len(table) \in Nat /\ DOMAIN table \subseteq Nat
         /\ \A v \in DOMAIN table :
              /\ table[v].document \in Documents /\ table[v].document \in Nat
              /\ table[v].stamp \in Nat /\ table[v].lines \in Outside.contents
         /\ Completed(table) \subseteq DOMAIN table /\ IsFiniteSet(Completed(table))
<1>1. DOMAIN table = 1..Len(table) /\ Len(table) \in Nat
  OBVIOUS
<1>2. \A v \in DOMAIN table : table[v] \in Rows
  OBVIOUS
<1>3. Documents \subseteq Nat
  BY RebuildAssumption
<1>4. Completed(table) \subseteq DOMAIN table
  BY DEF Completed
<1>5. IsFiniteSet(1..Len(table))
  <2>1. 1 \in Int /\ Len(table) \in Int
    BY <1>1
  <2> QED
    BY <2>1, FS_Interval, Zenon
<1>6. IsFiniteSet(Completed(table))
  BY <1>1, <1>4, <1>5, FS_Subset
<1>7. \A v \in DOMAIN table : table[v].document \in Documents /\ table[v].stamp \in Nat
                              /\ table[v].lines \in Outside.contents
  BY <1>2 DEF Rows
<1>8. DOMAIN table \subseteq Nat
  BY <1>1
<1>9. \A v \in DOMAIN table : table[v].document \in Nat
  BY <1>3, <1>7
<1> QED
  BY <1>1, <1>4, <1>6, <1>7, <1>8, <1>9

\* Of the completed versions of a document one has the latest timestamp.
LEMMA CurrentExists ==
  ASSUME NEW table \in Seq(Rows), StampsApart(table), NEW v \in Completed(table)
  PROVE  \E w \in Completed(table) :
           IsCurrent(table, w) /\ table[w].document = table[v].document
<1> DEFINE S == {u \in Completed(table) : table[u].document = table[v].document}
           before == {p \in S \X S : table[p[1]].stamp < table[p[2]].stamp}
           size == Cardinality(S)
           sorted == Sorted(S, before)
<1>1. /\ Completed(table) \subseteq DOMAIN table /\ IsFiniteSet(Completed(table))
      /\ \A u \in DOMAIN table : table[u].stamp \in Nat
  BY RowFacts
<1>2. IsFiniteSet(S)
  BY <1>1, FS_Subset
<1>3. \A u, w \in S : <<u, w>> \in before <=> table[u].stamp < table[w].stamp
  OBVIOUS
<1>4. \A u \in S : u \in DOMAIN table /\ table[u].document = table[v].document
                   /\ table[u].stamp \in Nat
  BY <1>1
<1>5. v \in S
  OBVIOUS
<1>6. \A w \in S : (\A u \in S : table[u].stamp <= table[w].stamp) =>
        w \in Completed(table) /\ IsCurrent(table, w) /\ table[w].document = table[v].document
  BY DEF IsCurrent
<1> HIDE DEF S, before, size, sorted
<1>7. StrictTotalOrder(before, S)
  <2>1. \A u, w \in S : u # w => table[u].stamp # table[w].stamp
    BY <1>4 DEF StampsApart
  <2> QED
    BY <1>3, <1>4, <2>1 DEF StrictTotalOrder
<1>8. /\ size \in Nat /\ sorted \in [1..size -> S]
      /\ \A x \in S : \E n \in 1..size : sorted[n] = x
      /\ \A m, n \in 1..size : m < n <=> <<sorted[m], sorted[n]>> \in before
  BY <1>2, <1>7, SortedFacts DEF size, sorted
<1>9. size \in 1..size /\ sorted[size] \in S
  BY <1>5, <1>8
<1>10. ASSUME NEW u \in S
       PROVE  table[u].stamp <= table[sorted[size]].stamp
  <2>1. PICK n \in 1..size : sorted[n] = u
    BY <1>8
  <2>2. n = size \/ n < size
    BY <1>8
  <2>3. n < size => table[u].stamp < table[sorted[size]].stamp
    BY <1>3, <1>8, <1>9, <2>1
  <2> QED
    BY <1>4, <1>9, <2>1, <2>2, <2>3
<1> QED
  BY <1>6, <1>9, <1>10

\* promote leaves that version as the current one of its document.
LEMMA CurrentChosen ==
  ASSUME NEW table \in Seq(Rows), StampsApart(table), NEW v \in Completed(table),
         IsCurrent(table, v)
  PROVE  CurrentVersion(table, table[v].document) = v
<1> DEFINE d == table[v].document
           S == VersionsOf(table, d) \cap Completed(table)
           m == CurrentVersion(table, d)
<1>1. m = CHOOSE x \in S : \A u \in S : table[u].stamp <= table[x].stamp
  BY DEF CurrentVersion
<1>2. Completed(table) \subseteq DOMAIN table /\ \A u \in DOMAIN table : table[u].stamp \in Nat
  BY RowFacts
<1>3. v \in S /\ \A u \in S : table[u].stamp <= table[v].stamp
  BY <1>2 DEF IsCurrent, VersionsOf
<1>4. \A u \in S : u \in DOMAIN table /\ table[u].document = d
  BY DEF VersionsOf
<1> HIDE DEF S, m
<1>5. m \in S /\ \A u \in S : table[u].stamp <= table[m].stamp
  BY <1>1, <1>3
<1>6. m \in DOMAIN table /\ v \in DOMAIN table /\ table[m].document = table[v].document
      /\ table[m].stamp <= table[v].stamp /\ table[v].stamp <= table[m].stamp
  BY <1>3, <1>4, <1>5
<1>7. table[m].stamp = table[v].stamp
  BY <1>2, <1>6
<1>8. m = v
  BY <1>6, <1>7 DEF StampsApart
<1> QED
  BY <1>8 DEF m

\* The rows in the order of the replay: documents, and of each document its
\* versions by their timestamps, the current one last.
LEMMA ReplayOrdered ==
  ASSUME NEW table \in Seq(Rows), StampsApart(table), NEW completed, completed = Completed(table)
  PROVE  StrictTotalOrder({p \in completed \X completed : Precedes(table, p[1], p[2])}, completed)
<1> DEFINE before == {p \in completed \X completed : Precedes(table, p[1], p[2])}
<1>1. \A u, v \in completed : <<u, v>> \in before <=> Precedes(table, u, v)
  OBVIOUS
<1>2. \A u \in completed : /\ u \in DOMAIN table /\ table[u].document \in Nat
                           /\ table[u].stamp \in Nat
  BY RowFacts
<1>3. \A u, v \in completed : table[u].document = table[v].document /\ u # v =>
                                table[u].stamp # table[v].stamp
  BY <1>2 DEF StampsApart
<1>4. \A u, v \in completed :
        Precedes(table, u, v) <=>
          \/ table[u].document < table[v].document
          \/ /\ table[u].document = table[v].document
             /\ \/ u # CurrentVersion(table, table[u].document)
                   /\ v = CurrentVersion(table, table[u].document)
                \/ /\ (u = CurrentVersion(table, table[u].document)
                         <=> v = CurrentVersion(table, table[u].document))
                   /\ table[u].stamp < table[v].stamp
  BY DEF Precedes
<1> HIDE DEF before
<1>5. \A u \in completed : ~Precedes(table, u, u)
  BY <1>2, <1>4
<1>6. \A u, v \in completed : u # v => Precedes(table, u, v) \/ Precedes(table, v, u)
  BY <1>2, <1>3, <1>4
<1>7. ASSUME NEW u \in completed, NEW v \in completed, NEW w \in completed,
             Precedes(table, u, v), Precedes(table, v, w)
      PROVE  Precedes(table, u, w)
  BY <1>2, <1>4, <1>7
<1> QED
  BY <1>1, <1>5, <1>6, <1>7 DEF StrictTotalOrder, before

\* Nothing of a document comes after its current version.
LEMMA NothingAfterCurrent ==
  ASSUME NEW table \in Seq(Rows), StampsApart(table), NEW u \in Completed(table),
         NEW v \in Completed(table), table[u].document = table[v].document,
         Precedes(table, u, v)
  PROVE  ~IsCurrent(table, u)
<1> SUFFICES ASSUME IsCurrent(table, u)
             PROVE  FALSE
  OBVIOUS
<1>1. CurrentVersion(table, table[u].document) = u
  BY CurrentChosen
<1>2. table[u].document \in Nat /\ table[u].stamp \in Nat
  BY RowFacts
<1> QED
  BY <1>1, <1>2 DEF Precedes

\* The replay takes up every completed version and no other, a document's
\* current one after the others.
LEMMA ReplayOrderSound ==
  ASSUME NEW table \in Seq(Rows), StampsApart(table), NEW queue, queue = ReplayOrder(table)
  PROVE  /\ queue \in Seq(Nat) /\ ToSet(queue) = Completed(table)
         /\ \A d : CurrentLast(queue, table, d)
<1> DEFINE completed == Completed(table)
           before == {p \in completed \X completed : Precedes(table, p[1], p[2])}
           size == Cardinality(completed)
<1>1. queue = Sorted(completed, before)
  BY DEF ReplayOrder
<1>2. IsFiniteSet(completed) /\ completed \subseteq Nat
  BY RowFacts
<1>3. StrictTotalOrder(before, completed)
  BY ReplayOrdered
<1>4. \A u, v \in completed : <<u, v>> \in before => Precedes(table, u, v)
  OBVIOUS
<1> HIDE DEF before, size, completed
<1>5. /\ size \in Nat /\ queue \in [1..size -> completed]
      /\ \A x \in completed : \E n \in 1..size : queue[n] = x
      /\ \A m, n \in 1..size : m < n <=> <<queue[m], queue[n]>> \in before
  BY <1>1, <1>2, <1>3, SortedFacts DEF size
<1>6. queue \in Seq(Nat)
  <2>1. queue \in [1..size -> Nat]
    BY <1>2, <1>5
  <2> QED
    BY <1>5, <2>1
<1>7. DOMAIN queue = 1..size
  BY <1>5
<1>8. ToSet(queue) = completed
  BY <1>5, <1>7 DEF ToSet
<1>9. ASSUME NEW d, NEW a \in DOMAIN queue, NEW b \in DOMAIN queue, a < b,
             table[queue[a]].document = d, table[queue[b]].document = d
      PROVE  ~IsCurrent(table, queue[a])
  <2>1. queue[a] \in completed /\ queue[b] \in completed /\ <<queue[a], queue[b]>> \in before
    BY <1>5, <1>7, <1>9
  <2>2. Precedes(table, queue[a], queue[b])
    BY <1>4, <2>1
  <2> QED
    BY <1>9, <2>1, <2>2, NothingAfterCurrent DEF completed
<1>10. \A d : CurrentLast(queue, table, d)
  BY <1>9 DEF CurrentLast
<1> QED
  BY <1>6, <1>8, <1>10 DEF completed

-----------------------------------------------------------------------------
(* Constants, and what the aliases can be *)

\* What the assumptions say of the constants.
LEMMA Constants ==
  /\ Rebuilders \subseteq Nat \ {0, 1} /\ None \notin Nat /\ MaxChunks \in Nat
  /\ Restored \in Rebuilders
BY RebuildAssumption, RestoredAssumption

\* active_index gives the index behind both aliases, which is there, or raises.
LEMMA ActiveIndex ==
  ASSUME AliasesSound, NEW seen, Cardinality(seen) = 1, seen = write
  PROVE  \E i \in DOMAIN indices : read = {i} /\ write = {i} /\ (CHOOSE j \in seen : TRUE) = i
<1>1. Cardinality({}) = 0
  BY FS_EmptySet
<1>2. read # {}
  BY <1>1 DEF AliasesSound
<1>3. PICK i \in DOMAIN indices : read = {i}
  BY <1>2 DEF AliasesSound
<1>4. seen = {i} /\ write = {i}
  BY <1>3 DEF AliasesSound
<1> QED
  BY <1>3, <1>4

-----------------------------------------------------------------------------
(* The moves of a rebuild *)

\* A step of rebuild r changes no other rebuild.
Only(r) ==
  /\ DOMAIN rebuild' = Rebuilders
  /\ DOMAIN rebuild'[r] = RebuildFields
  /\ rebuild'[r].phase \in Phases /\ rebuild'[r].queue \in Seq(Nat)
  /\ \A q \in Rebuilders \ {r} : rebuild'[q] = rebuild[q]

Kept(b, c) == c.queue = b.queue /\ c.written = b.written

\* From which phases the phases are reached, while nothing is written.
PhaseMoves(r) ==
  LET b == rebuild[r]
      c == rebuild'[r]
  IN /\ (c.phase \in Preparing) => b.phase \in Preparing
     /\ (c.phase \in {"count", "select"}) => b.phase \in {"count", "select"}
     /\ (c.phase = "replay") => b.phase = "replay"
     /\ (c.phase = "validate") => b.phase = "validate" \/ (b.phase = "replay" /\ b.queue = <<>>)
     /\ (c.phase \in Validated) => b.phase \in Validated \cup {"validate"}
     /\ (c.phase = "done") => b.phase = "done" \/ read = {r}

Quiet(r) ==
  /\ UNCHANGED cluster /\ Kept(rebuild[r], rebuild'[r]) /\ PhaseMoves(r)
  /\ rebuild'[r].previous = rebuild[r].previous \/ read = {rebuild'[r].previous}

Creates(r) ==
  /\ rebuild[r].phase = "create" /\ rebuild'[r].phase = "count"
  /\ r \notin DOMAIN indices /\ indices' = Created(r) /\ UNCHANGED <<read, write>>
  /\ Kept(rebuild[r], rebuild'[r]) /\ rebuild'[r].previous = rebuild[r].previous

Selects(r, table) ==
  /\ rebuild[r].phase = "select" /\ rebuild'[r].phase = "replay" /\ UNCHANGED <<read, write>>
  /\ indices' = [indices EXCEPT ![r].touched = {}]
  /\ rebuild'[r].queue = ReplayOrder(table) /\ rebuild'[r].written = rebuild[r].written
  /\ rebuild'[r].previous = rebuild[r].previous

Replays(r, table) ==
  LET v == Head(rebuild[r].queue)
  IN /\ rebuild[r].phase = "replay" /\ rebuild'[r].phase = "replay"
     /\ rebuild[r].queue # <<>> /\ rebuild'[r].queue = Tail(rebuild[r].queue)
     /\ rebuild'[r].written = rebuild[r].written \cup ChunkIds(table, v)
     /\ rebuild'[r].previous = rebuild[r].previous
     /\ UNCHANGED <<read, write>>
     /\ indices' = IF ChunkIds(table, v) = {} THEN indices
                   ELSE [indices EXCEPT ![r] = Upserted(@, table, v)]

Breaks(r) ==
  /\ rebuild[r].phase = "replay" /\ rebuild'[r].phase = "raised"
  /\ rebuild'[r].previous = rebuild[r].previous /\ UNCHANGED <<read, write>>
  /\ \E ids : indices' = [indices EXCEPT ![r].chunks = @ \cup ids]

\* The aliases move to the candidate, or back to the index before it.
Moves(r) ==
  /\ UNCHANGED indices /\ Kept(rebuild[r], rebuild'[r])
  /\ rebuild'[r].previous = rebuild[r].previous
  /\ rebuild[r].phase \in {"update", "undo_update"}
  /\ rebuild'[r].phase \in {"confirm", "undo_confirm", "check", "raised"}
  /\ \E to \in DOMAIN indices :
       /\ read' = {to} /\ write' = {to}
       /\ to = r \/ to = rebuild[r].previous

Compensated(r) ==
  (rebuild[r].phase # "raised" /\ rebuild'[r].phase = "raised" /\ ~rebuild'[r].cut) => r \notin read'

\* An exception ends the rebuild, or leads out of the switch to the check.
LEMMA RaisedFacts ==
  ASSUME NEW b, DOMAIN b = RebuildFields
  PROVE  /\ DOMAIN Raised(b) = RebuildFields
         /\ Raised(b).phase = IF b.phase \in Switching THEN "check" ELSE "raised"
         /\ Raised(b).cut = (b.phase \in Undoing)
         /\ Raised(b).queue = b.queue /\ Raised(b).written = b.written
         /\ Raised(b).previous = b.previous
BY DEF Raised, RebuildFields, Undoing, Switching

\* A step that makes rebuild r what b is.
LEMMA GoesFacts ==
  ASSUME Typed, NEW r \in Rebuilders, NEW b, Goes(r, b), DOMAIN b = RebuildFields,
         b.phase \in Phases, b.queue \in Seq(Nat)
  PROVE  Only(r) /\ rebuild'[r] = b
BY DEF Goes, Only, Typed

\* An exception in a step that has changed nothing outside the rebuild.
LEMMA RaisedMoves ==
  ASSUME Typed, EarlyUnserved, NEW r \in Rebuilders, Goes(r, Raised(rebuild[r])),
         UNCHANGED cluster, rebuild[r].phase \notin {"idle", "done", "raised", "undone"}
  PROVE  Only(r) /\ Quiet(r) /\ Compensated(r)
<1> DEFINE b == rebuild[r]
<1>1. DOMAIN b = RebuildFields /\ b.phase \in Phases /\ b.queue \in Seq(Nat)
  BY DEF Typed
<1>2. /\ DOMAIN Raised(b) = RebuildFields /\ Raised(b).queue \in Seq(Nat)
      /\ Raised(b).phase \in Phases
  BY <1>1, RaisedFacts DEF Phases, Validated, Undoing
<1>3. Only(r) /\ rebuild'[r] = Raised(b)
  BY <1>2, GoesFacts
<1>4. Kept(b, rebuild'[r]) /\ rebuild'[r].previous = b.previous
  BY <1>1, <1>3, RaisedFacts DEF Kept
<1>5. rebuild'[r].phase = IF b.phase \in Switching THEN "check" ELSE "raised"
  BY <1>1, <1>3, RaisedFacts
<1>6. PhaseMoves(r)
  BY <1>5 DEF PhaseMoves, Preparing, Validated, Switching, Undoing
<1>7. Quiet(r)
  BY <1>4, <1>6 DEF Quiet
<1>8. rebuild'[r].cut = (b.phase \in Undoing)
  BY <1>1, <1>3, RaisedFacts
<1>9. b.phase \in Early => r \notin read
  BY DEF EarlyUnserved
<1>10. Compensated(r)
  BY <1>1, <1>5, <1>8, <1>9
     DEF Compensated, Phases, Early, Validated, Preparing, Switching, Undoing, cluster
<1> QED
  BY <1>3, <1>7, <1>10

\* A request that fails raises, and changes nothing in the cluster.
LEMMA RequestFailsMoves ==
  ASSUME Typed, EarlyUnserved, NEW r \in Rebuilders, RequestFails(r)
  PROVE  Only(r) /\ Quiet(r) /\ Compensated(r)
BY RaisedMoves DEF RequestFails

\* The steps that move on without an exception and without a request that writes.
LEMMA OnwardMoves ==
  ASSUME Typed, NEW r \in Rebuilders, NEW phase \in Phases, UNCHANGED cluster,
         NEW b, Goes(r, b), DOMAIN b = RebuildFields, b.phase = phase,
         Kept(rebuild[r], b), b.previous = rebuild[r].previous,
         \/ phase = rebuild[r].phase
         \/ <<rebuild[r].phase, phase>> \in {<<"idle", "start">>, <<"count", "select">>,
                                             <<"done", "undo_guard">>}
         \/ rebuild[r].phase = "replay" /\ rebuild[r].queue = <<>> /\ phase = "validate"
         \/ rebuild[r].phase = "validate" /\ phase = "guard"
  PROVE  Only(r) /\ Quiet(r) /\ Compensated(r)
<1>1. b.queue \in Seq(Nat)
  BY DEF Kept, Typed
<1>2. Only(r) /\ rebuild'[r] = b
  BY <1>1, GoesFacts
<1>3. PhaseMoves(r)
  BY <1>2 DEF PhaseMoves, Preparing, Validated, Undoing
<1>4. Compensated(r)
  BY <1>2 DEF Compensated
<1> QED
  BY <1>2, <1>3, <1>4 DEF Quiet

\* active_index has asked for the read alias.
LEMMA LookAtReadMoves ==
  ASSUME Typed, NEW r \in Rebuilders, LookAtRead(r)
  PROVE  Only(r) /\ Quiet(r) /\ Compensated(r)
<1> DEFINE b == [rebuild[r] EXCEPT !.seen = read]
<1>1. DOMAIN rebuild[r] = RebuildFields /\ rebuild[r].phase \in Phases
  BY DEF Typed
<1>2. /\ DOMAIN b = RebuildFields /\ b.phase = rebuild[r].phase /\ Kept(rebuild[r], b)
      /\ b.previous = rebuild[r].previous
  BY <1>1 DEF RebuildFields, Kept
<1>3. Goes(r, b) /\ UNCHANGED cluster
  BY DEF LookAtRead
<1> QED
  BY <1>1, <1>2, <1>3, OnwardMoves

\* rebuild begins with the question which index is active.
LEMMA StartMoves ==
  ASSUME Typed, NEW r \in Rebuilders, Start(r)
  PROVE  Only(r) /\ Quiet(r) /\ Compensated(r)
<1> DEFINE b == [rebuild[r] EXCEPT !.phase = "start"]
<1>1. DOMAIN rebuild[r] = RebuildFields
  BY DEF Typed
<1>2. /\ DOMAIN b = RebuildFields /\ b.phase = "start" /\ Kept(rebuild[r], b)
      /\ b.previous = rebuild[r].previous
  BY <1>1 DEF RebuildFields, Kept
<1>3. Goes(r, b) /\ UNCHANGED cluster /\ rebuild[r].phase = "idle"
  BY DEF Start, At
<1>4. "start" \in Phases
  BY DEF Phases, Early, Preparing
<1> QED
  BY <1>2, <1>3, <1>4, OnwardMoves

\* rollback goes the way of a switch, back to the previous index.
LEMMA RollbackMoves ==
  ASSUME Typed, NEW r \in Rebuilders, Rollback(r)
  PROVE  Only(r) /\ Quiet(r) /\ Compensated(r)
<1> DEFINE b == [rebuild[r] EXCEPT !.phase = "undo_guard"]
<1>1. DOMAIN rebuild[r] = RebuildFields
  BY DEF Typed
<1>2. /\ DOMAIN b = RebuildFields /\ b.phase = "undo_guard" /\ Kept(rebuild[r], b)
      /\ b.previous = rebuild[r].previous
  BY <1>1 DEF RebuildFields, Kept
<1>3. Goes(r, b) /\ UNCHANGED cluster /\ rebuild[r].phase = "done"
  BY DEF Rollback, At
<1>4. "undo_guard" \in Phases
  BY DEF Phases, Validated, Undoing
<1> QED
  BY <1>2, <1>3, <1>4, OnwardMoves

\* The replay counts the documents.
LEMMA CountDocumentsMoves ==
  ASSUME Typed, NEW r \in Rebuilders, NEW table, CountDocuments(r, table)
  PROVE  Only(r) /\ Quiet(r) /\ Compensated(r)
<1> DEFINE n == Cardinality(Recorded(table))
           b == [rebuild[r] EXCEPT !.phase = "select", !.documents = n]
<1>3. Goes(r, b) /\ UNCHANGED cluster /\ rebuild[r].phase = "count"
  BY DEF CountDocuments, At
<1> HIDE DEF n
<1>1. DOMAIN rebuild[r] = RebuildFields
  BY DEF Typed
<1>2. /\ DOMAIN b = RebuildFields /\ b.phase = "select" /\ Kept(rebuild[r], b)
      /\ b.previous = rebuild[r].previous
  BY <1>1 DEF RebuildFields, Kept
<1>4. "select" \in Phases
  BY DEF Phases, Early, Preparing
<1> QED
  BY <1>2, <1>3, <1>4, OnwardMoves

\* The replay is over when its queue is empty.
LEMMA EndReplayMoves ==
  ASSUME Typed, NEW r \in Rebuilders, EndReplay(r)
  PROVE  Only(r) /\ Quiet(r) /\ Compensated(r)
<1> DEFINE b == [rebuild[r] EXCEPT !.phase = "validate"]
<1>1. DOMAIN rebuild[r] = RebuildFields
  BY DEF Typed
<1>2. /\ DOMAIN b = RebuildFields /\ b.phase = "validate" /\ Kept(rebuild[r], b)
      /\ b.previous = rebuild[r].previous
  BY <1>1 DEF RebuildFields, Kept
<1>3. Goes(r, b) /\ UNCHANGED cluster /\ rebuild[r].phase = "replay" /\ rebuild[r].queue = <<>>
  BY DEF EndReplay, At
<1>4. "validate" \in Phases
  BY DEF Phases, Early, Preparing
<1> QED
  BY <1>2, <1>3, <1>4, OnwardMoves

\* The validation goes on to the switch, or raises.
LEMMA ValidateMoves ==
  ASSUME Typed, EarlyUnserved, NEW r \in Rebuilders, Validate(r)
  PROVE  Only(r) /\ Quiet(r) /\ Compensated(r)
<1> DEFINE b == [rebuild[r] EXCEPT !.phase = "guard"]
<1>1. DOMAIN rebuild[r] = RebuildFields
  BY DEF Typed
<1>2. /\ DOMAIN b = RebuildFields /\ b.phase = "guard" /\ Kept(rebuild[r], b)
      /\ b.previous = rebuild[r].previous
  BY <1>1 DEF RebuildFields, Kept
<1>3. UNCHANGED cluster /\ rebuild[r].phase = "validate"
  BY DEF Validate, At
<1>4. "guard" \in Phases
  BY DEF Phases, Validated
<1>5. Goes(r, b) \/ Goes(r, Raised(rebuild[r]))
  BY DEF Validate
<1>6. CASE Goes(r, b)
  BY <1>2, <1>3, <1>4, <1>6, OnwardMoves
<1>7. CASE Goes(r, Raised(rebuild[r]))
  BY <1>3, <1>7, RaisedMoves
<1> QED
  BY <1>5, <1>6, <1>7

\* What was seen of the aliases is forgotten by an exception.
LEMMA RaisedForgets ==
  ASSUME NEW b, DOMAIN b = RebuildFields
  PROVE  Raised([b EXCEPT !.seen = None]) = Raised(b)
<1> DEFINE c == [b EXCEPT !.seen = None]
<1>1. DOMAIN c = RebuildFields /\ c.phase = b.phase /\ Kept(b, c) /\ c.previous = b.previous
      /\ c.documents = b.documents /\ c.cut = b.cut
  BY DEF RebuildFields, Kept
<1> HIDE DEF c
<1>2. \A f \in RebuildFields : Raised(c)[f] = Raised(b)[f]
  BY <1>1 DEF Raised, RebuildFields, Kept
<1>3. DOMAIN Raised(c) = RebuildFields /\ DOMAIN Raised(b) = RebuildFields
  BY <1>1, RaisedFacts
<1>4. /\ Raised(c) = [f \in RebuildFields |-> Raised(c)[f]]
      /\ Raised(b) = [f \in RebuildFields |-> Raised(b)[f]]
  BY <1>1 DEF Raised
<1> QED
  BY <1>2, <1>4 DEF c

\* What can follow from the answer of active_index.
LEMMA FoundCases ==
  ASSUME NEW r, NEW b, NEW active
  PROVE  \/ b.phase = "start" /\ Found(r, b, active) = [b EXCEPT !.previous = active, !.phase = "create"]
         \/ b.phase = "guard" /\ Found(r, b, active) = [b EXCEPT !.phase = "update"]
         \/ b.phase = "confirm" /\ active = r /\ Found(r, b, active) = [b EXCEPT !.phase = "done"]
         \/ b.phase = "check" /\ active = r /\ Found(r, b, active) = [b EXCEPT !.phase = "undo_guard"]
         \/ b.phase = "check" /\ active # r /\ Found(r, b, active) = [b EXCEPT !.phase = "raised"]
         \/ b.phase = "undo_guard" /\ Found(r, b, active) = [b EXCEPT !.phase = "undo_update"]
         \/ b.phase = "undo_confirm" /\ Found(r, b, active) = [b EXCEPT !.phase = "undone"]
         \/ Found(r, b, active) = Raised(b)
BY DEF Found

\* active_index has asked for the write alias too: its answer, when it does not
\* raise, is the one index behind both, though the first answer may be old.
LEMMA LookAtWriteMoves ==
  ASSUME Typed, AliasesSound, EarlyUnserved, NEW r \in Rebuilders, LookAtWrite(r)
  PROVE  Only(r) /\ Quiet(r) /\ Compensated(r)
<1> DEFINE b == [rebuild[r] EXCEPT !.seen = None]
           seen == rebuild[r].seen
           active == CHOOSE i \in seen : TRUE
<1>1. DOMAIN rebuild[r] = RebuildFields /\ rebuild[r].queue \in Seq(Nat)
  BY DEF Typed
<1>2. /\ DOMAIN b = RebuildFields /\ b.phase = rebuild[r].phase /\ Kept(rebuild[r], b)
      /\ b.previous = rebuild[r].previous
  BY <1>1 DEF RebuildFields, Kept
<1>3. UNCHANGED cluster /\ rebuild[r].phase \in Looking
  BY DEF LookAtWrite
<1>4. ASSUME Goes(r, Raised(b))
      PROVE  Only(r) /\ Quiet(r) /\ Compensated(r)
  <2>1. Goes(r, Raised(rebuild[r]))
    BY <1>1, <1>4, RaisedForgets
  <2> QED
    BY <1>3, <2>1, RaisedMoves DEF Looking
<1>5. CASE Cardinality(seen) # 1 \/ seen # write
  BY <1>4, <1>5 DEF LookAtWrite
<1>6. CASE ~(Cardinality(seen) # 1 \/ seen # write)
  <2>1. \E i \in DOMAIN indices : read = {i} /\ write = {i} /\ active = i
    BY <1>6, ActiveIndex
  <2>2. Goes(r, Found(r, b, active))
    BY <1>6 DEF LookAtWrite
  <2> DEFINE c == Found(r, b, active)
  <2>3. \/ c = Raised(b)
        \/ b.phase = "start" /\ c = [b EXCEPT !.previous = active, !.phase = "create"]
        \/ \E phase \in {"update", "done", "undo_guard", "undo_update", "undone", "raised"} :
             /\ c = [b EXCEPT !.phase = phase]
             /\ phase = "done" => active = r
             /\ phase = "raised" => active # r
             /\ b.phase \in Validated
    BY FoundCases DEF Validated, Undoing
  <2> HIDE DEF b, active, c
  <2>4. CASE c = Raised(b)
    BY <1>4, <2>2, <2>4 DEF c
  <2>5. CASE b.phase = "start" /\ c = [b EXCEPT !.previous = active, !.phase = "create"]
    <3>1. /\ DOMAIN c = RebuildFields /\ c.phase = "create" /\ Kept(b, c)
          /\ c.previous = active
      BY <1>2, <2>5 DEF RebuildFields, Kept
    <3>2. c.queue \in Seq(Nat) /\ c.phase \in Phases
      BY <1>1, <1>2, <3>1 DEF Kept, Phases, Early, Preparing
    <3>3. Only(r) /\ rebuild'[r] = c
      BY <2>2, <3>1, <3>2, GoesFacts DEF c
    <3>4. PhaseMoves(r) /\ Compensated(r)
      BY <1>2, <2>5, <3>1, <3>3 DEF PhaseMoves, Preparing, Validated, Undoing, Compensated
    <3>5. Kept(rebuild[r], rebuild'[r])
      BY <1>2, <3>1, <3>3 DEF Kept
    <3>6. read = {rebuild'[r].previous}
      BY <2>1, <3>1, <3>3
    <3> QED
      BY <1>3, <3>3, <3>4, <3>5, <3>6 DEF Quiet
  <2>6. ASSUME NEW phase \in {"update", "done", "undo_guard", "undo_update", "undone", "raised"},
               c = [b EXCEPT !.phase = phase], phase = "done" => active = r,
               phase = "raised" => active # r, b.phase \in Validated
        PROVE  Only(r) /\ Quiet(r) /\ Compensated(r)
    <3>1. /\ DOMAIN c = RebuildFields /\ c.phase = phase /\ Kept(b, c)
          /\ c.previous = b.previous
      BY <1>2, <2>6 DEF RebuildFields, Kept
    <3>2. c.queue \in Seq(Nat) /\ c.phase \in Phases
      BY <1>1, <1>2, <3>1 DEF Kept, Phases, Validated, Undoing
    <3>3. Only(r) /\ rebuild'[r] = c
      BY <2>2, <3>1, <3>2, GoesFacts DEF c
    <3>4. PhaseMoves(r)
      BY <1>2, <2>1, <2>6, <3>1, <3>3 DEF PhaseMoves, Preparing, Validated, Undoing
    <3>5. Compensated(r)
      BY <1>3, <2>1, <2>6, <3>1, <3>3 DEF Compensated, cluster
    <3>6. Kept(rebuild[r], rebuild'[r])
      BY <1>2, <3>1, <3>3 DEF Kept
    <3> QED
      BY <1>2, <1>3, <3>1, <3>3, <3>4, <3>5, <3>6 DEF Quiet
  <2> QED
    BY <2>3, <2>4, <2>5, <2>6
<1> QED
  BY <1>5, <1>6

\* create_candidate makes an index of its own, or raises.
LEMMA CreateCandidateMoves ==
  ASSUME Typed, EarlyUnserved, NEW r \in Rebuilders, CreateCandidate(r)
  PROVE  Only(r) /\ Compensated(r) /\ (Quiet(r) \/ Creates(r))
<1> DEFINE b == [rebuild[r] EXCEPT !.phase = "count"]
<1>1. DOMAIN rebuild[r] = RebuildFields /\ rebuild[r].queue \in Seq(Nat)
  BY DEF Typed
<1>2. /\ DOMAIN b = RebuildFields /\ b.phase = "count" /\ Kept(rebuild[r], b)
      /\ b.previous = rebuild[r].previous
  BY <1>1 DEF RebuildFields, Kept
<1>3. UNCHANGED <<read, write>> /\ rebuild[r].phase = "create"
  BY DEF CreateCandidate, At
<1>4. CASE r \in DOMAIN indices
  <2>1. Goes(r, Raised(rebuild[r])) /\ UNCHANGED cluster
    BY <1>4 DEF CreateCandidate, cluster
  <2> QED
    BY <1>3, <2>1, RaisedMoves
<1>5. CASE r \notin DOMAIN indices
  <2>1. Goes(r, b) /\ indices' = Created(r)
    BY <1>5 DEF CreateCandidate
  <2>2. b.phase \in Phases /\ b.queue \in Seq(Nat)
    BY <1>1, <1>2 DEF Phases, Early, Preparing, Kept
  <2>3. Only(r) /\ rebuild'[r] = b
    BY <1>2, <2>1, <2>2, GoesFacts
  <2> QED
    BY <1>2, <1>3, <1>5, <2>1, <2>3 DEF Creates, Compensated
<1> QED
  BY <1>4, <1>5

\* The replay takes up the rows, all of them, or raises.
LEMMA SelectRowsMoves ==
  ASSUME Typed, EarlyUnserved, NEW r \in Rebuilders, NEW table \in Seq(Rows), StampsApart(table),
         SelectRows(r, table)
  PROVE  Only(r) /\ Compensated(r) /\ (Quiet(r) \/ Selects(r, table))
<1> DEFINE queue == ReplayOrder(table)
           b == [rebuild[r] EXCEPT !.phase = "replay", !.queue = queue]
<1>1. DOMAIN rebuild[r] = RebuildFields
  BY DEF Typed
<1>2. UNCHANGED <<read, write>> /\ rebuild[r].phase = "select"
  BY DEF SelectRows, At
<1>3. \/ Goes(r, Raised(rebuild[r])) /\ UNCHANGED cluster
      \/ Goes(r, b) /\ indices' = [indices EXCEPT ![r].touched = {}]
  BY DEF SelectRows, cluster
<1>4. queue \in Seq(Nat)
  BY ReplayOrderSound
<1>5. CASE Goes(r, Raised(rebuild[r])) /\ UNCHANGED cluster
  BY <1>2, <1>5, RaisedMoves
<1>6. CASE Goes(r, b) /\ indices' = [indices EXCEPT ![r].touched = {}]
  <2> HIDE DEF queue
  <2>1. /\ DOMAIN b = RebuildFields /\ b.phase = "replay" /\ b.queue = queue
        /\ b.written = rebuild[r].written /\ b.previous = rebuild[r].previous
    BY <1>1 DEF RebuildFields
  <2>2. b.phase \in Phases
    BY <2>1 DEF Phases, Early
  <2>3. Only(r) /\ rebuild'[r] = b
    BY <1>4, <1>6, <2>1, <2>2, GoesFacts
  <2> QED
    BY <1>2, <1>6, <2>1, <2>3 DEF Selects, Compensated, queue
<1> QED
  BY <1>3, <1>5, <1>6

\* One row is replayed, or its artifacts are not whole or its document deleted,
\* and the replay raises.
LEMMA ReplayRowMoves ==
  ASSUME Typed, EarlyUnserved, NEW r \in Rebuilders, NEW table, NEW store, ReplayRow(r, table, store)
  PROVE  Only(r) /\ Compensated(r) /\ (Quiet(r) \/ Replays(r, table))
<1> DEFINE v == Head(rebuild[r].queue)
           ids == ChunkIds(table, v)
           b == [rebuild[r] EXCEPT !.queue = Tail(@), !.written = @ \cup ids]
<1>1. DOMAIN rebuild[r] = RebuildFields /\ rebuild[r].queue \in Seq(Nat)
  BY DEF Typed
<1>2. UNCHANGED <<read, write>> /\ rebuild[r].phase = "replay" /\ rebuild[r].queue # <<>>
  BY DEF ReplayRow, At
<1>3. CASE ~Fetched(store, v) \/ (ids # {} /\ table[v].deleted)
  <2>1. Goes(r, Raised(rebuild[r])) /\ UNCHANGED cluster
    BY <1>3 DEF ReplayRow, cluster
  <2> QED
    BY <1>2, <2>1, RaisedMoves
<1>4. CASE ~(~Fetched(store, v) \/ (ids # {} /\ table[v].deleted))
  <2>1. /\ Goes(r, b)
        /\ indices' = IF ids = {} THEN indices
                      ELSE [indices EXCEPT ![r] = Upserted(@, table, v)]
    BY <1>4 DEF ReplayRow
  <2> HIDE DEF ids
  <2>2. /\ DOMAIN b = RebuildFields /\ b.phase = "replay" /\ b.queue = Tail(rebuild[r].queue)
        /\ b.written = rebuild[r].written \cup ids /\ b.previous = rebuild[r].previous
    BY <1>1, <1>2 DEF RebuildFields
  <2>3. b.phase \in Phases /\ b.queue \in Seq(Nat)
    BY <1>1, <1>2, <2>2 DEF Phases, Early
  <2> HIDE DEF b
  <2>4. Only(r) /\ rebuild'[r] = b
    BY <2>1, <2>2, <2>3, GoesFacts
  <2>5. Compensated(r)
    BY <1>2, <2>2, <2>4 DEF Compensated
  <2> QED
    BY <1>2, <2>1, <2>2, <2>4, <2>5 DEF Replays, ids
<1> QED
  BY <1>3, <1>4

\* A bulk request that breaks leaves chunks in a candidate nobody is served from.
LEMMA ReplayBreaksMoves ==
  ASSUME Typed, EarlyUnserved, NEW r \in Rebuilders, NEW table, ReplayBreaks(r, table)
  PROVE  Only(r) /\ Compensated(r) /\ Breaks(r)
<1> DEFINE b == Raised(rebuild[r])
<1>1. DOMAIN rebuild[r] = RebuildFields /\ rebuild[r].queue \in Seq(Nat)
  BY DEF Typed
<1>2. UNCHANGED <<read, write>> /\ rebuild[r].phase = "replay" /\ Goes(r, b)
  BY DEF ReplayBreaks, At
<1>3. /\ DOMAIN b = RebuildFields /\ b.phase = "raised" /\ b.queue \in Seq(Nat)
      /\ b.previous = rebuild[r].previous
  BY <1>1, <1>2, RaisedFacts DEF Switching
<1>4. Only(r) /\ rebuild'[r] = b
  BY <1>2, <1>3, GoesFacts DEF Phases
<1>5. r \notin read
  BY <1>2 DEF EarlyUnserved, Early
<1>6. \E ids : indices' = [indices EXCEPT ![r].chunks = @ \cup ids]
  BY DEF ReplayBreaks
<1> QED
  BY <1>2, <1>3, <1>4, <1>5, <1>6 DEF Breaks, Compensated

\* The update of the aliases is refused, or moves them from the one index they
\* are on to another that exists.
LEMMA MoveAliasesMoves ==
  ASSUME Typed, AliasesSound, EarlyUnserved, NEW r \in Rebuilders, NEW from, NEW to, NEW next,
         MoveAliases(r, from, to, next), UNCHANGED indices,
         \/ rebuild[r].phase = "update" /\ next = "confirm" /\ to = r
         \/ rebuild[r].phase = "undo_update" /\ next = "undo_confirm" /\ to = rebuild[r].previous
  PROVE  Only(r) /\ Compensated(r) /\ (Quiet(r) \/ Moves(r))
<1>1. DOMAIN rebuild[r] = RebuildFields /\ rebuild[r].queue \in Seq(Nat)
  BY DEF Typed
<1>2. CASE ~Switchable(from, to)
  <2>1. Goes(r, Raised(rebuild[r])) /\ UNCHANGED cluster
    BY <1>2 DEF MoveAliases, cluster
  <2> QED
    BY <2>1, RaisedMoves
<1>3. CASE Switchable(from, to)
  <2>1. read = {from} /\ write = {from} /\ to \in DOMAIN indices
    BY <1>3 DEF Switchable, AliasesSound
  <2>2. read' = {to} /\ write' = {to}
    BY <1>3, <2>1 DEF MoveAliases, Moved
  <2> DEFINE b == [rebuild[r] EXCEPT !.phase = next]
             c == Raised(rebuild[r])
  <2>3. Goes(r, b) \/ Goes(r, c)
    BY <1>3 DEF MoveAliases
  <2>4. CASE Goes(r, b)
    <3>1. /\ DOMAIN b = RebuildFields /\ b.phase = next /\ Kept(rebuild[r], b)
          /\ b.previous = rebuild[r].previous
      BY <1>1 DEF RebuildFields, Kept
    <3>2. b.phase \in Phases /\ b.queue \in Seq(Nat)
      BY <1>1, <3>1 DEF Phases, Validated, Undoing, Kept
    <3>3. Only(r) /\ rebuild'[r] = b
      BY <2>4, <3>1, <3>2, GoesFacts
    <3> QED
      BY <2>1, <2>2, <3>1, <3>3 DEF Moves, Compensated
  <2>5. CASE Goes(r, c)
    <3>1. /\ DOMAIN c = RebuildFields /\ Kept(rebuild[r], c) /\ c.previous = rebuild[r].previous
          /\ c.phase = IF rebuild[r].phase \in Switching THEN "check" ELSE "raised"
          /\ c.cut = (rebuild[r].phase \in Undoing)
      BY <1>1, RaisedFacts DEF Kept
    <3> HIDE DEF c
    <3>2. c.phase \in Phases /\ c.queue \in Seq(Nat)
      BY <1>1, <3>1 DEF Phases, Validated, Undoing, Kept
    <3>3. Only(r) /\ rebuild'[r] = c
      BY <2>5, <3>1, <3>2, GoesFacts
    <3>4. Compensated(r)
      BY <3>1, <3>3 DEF Compensated, Switching, Undoing
    <3>5. c.phase \in {"check", "raised"}
      BY <3>1
    <3> QED
      BY <2>1, <2>2, <3>1, <3>3, <3>4, <3>5 DEF Moves
  <2> QED
    BY <2>3, <2>4, <2>5
<1> QED
  BY <1>2, <1>3

\* Every step of a rebuild is one of these moves, and none of them ends the
\* rebuild in an error with its candidate behind the aliases, unless the
\* compensation was cut off.
LEMMA RebuildMoves ==
  ASSUME Typed, AliasesSound, EarlyUnserved, NEW r \in Rebuilders, NEW table \in Seq(Rows),
         StampsApart(table), NEW store, RebuildStep(r, table, store)
  PROVE  /\ Only(r) /\ Compensated(r) /\ UNCHANGED <<world, rows, pending>>
         /\ \/ Quiet(r) \/ Creates(r) \/ Selects(r, table) \/ Replays(r, table)
            \/ Breaks(r) \/ Moves(r)
<1>1. UNCHANGED <<world, rows, pending>>
  BY DEF RebuildStep, Start, LookAtRead, LookAtWrite, CreateCandidate, CountDocuments, SelectRows,
         ReplayRow, ReplayBreaks, EndReplay, Validate, SwitchAliases, UndoSwitch, Rollback,
         RequestFails, tables
<1>2. CASE SwitchAliases(r)
  BY <1>1, <1>2, MoveAliasesMoves DEF SwitchAliases, At
<1>3. CASE UndoSwitch(r)
  BY <1>1, <1>3, MoveAliasesMoves DEF UndoSwitch, At
<1>4. CASE SelectRows(r, table)
  BY <1>1, <1>4, SelectRowsMoves
<1>5. CASE ReplayRow(r, table, store) \/ ReplayBreaks(r, table) \/ CreateCandidate(r)
  BY <1>1, <1>5, ReplayRowMoves, ReplayBreaksMoves, CreateCandidateMoves
<1>6. CASE Start(r) \/ LookAtRead(r) \/ LookAtWrite(r) \/ RequestFails(r)
  BY <1>1, <1>6, StartMoves, LookAtReadMoves, LookAtWriteMoves, RequestFailsMoves
<1>7. CASE CountDocuments(r, table) \/ EndReplay(r) \/ Validate(r) \/ Rollback(r)
  BY <1>1, <1>7, CountDocumentsMoves, EndReplayMoves, ValidateMoves, RollbackMoves
<1> QED
  BY <1>2, <1>3, <1>4, <1>5, <1>6, <1>7 DEF RebuildStep

-----------------------------------------------------------------------------
(* Queues, chunks and indexes *)

\* A queue is its head and what is left of it, in the same order.
LEMMA QueueTail ==
  ASSUME NEW queue \in Seq(Nat), queue # <<>>
  PROVE  /\ ToSet(queue) = {Head(queue)} \cup ToSet(Tail(queue))
         /\ 1 \in DOMAIN queue /\ Head(queue) = queue[1]
         /\ \A n \in DOMAIN Tail(queue) :
              n \in Nat /\ n >= 1 /\ n + 1 \in DOMAIN queue /\ Tail(queue)[n] = queue[n + 1]
<1> DEFINE tail == Tail(queue)
<1>1. /\ Len(queue) \in Nat \ {0} /\ DOMAIN queue = 1..Len(queue) /\ Head(queue) = queue[1]
      /\ DOMAIN tail = 1..(Len(queue) - 1) /\ \A n \in DOMAIN tail : tail[n] = queue[n + 1]
  OBVIOUS
<1> HIDE DEF tail
<1>2. \A n \in DOMAIN tail : n \in Nat /\ n >= 1 /\ n + 1 \in DOMAIN queue
  BY <1>1
<1>3. ToSet(tail) \subseteq ToSet(queue) /\ Head(queue) \in ToSet(queue)
  BY <1>1, <1>2 DEF ToSet
<1>4. ASSUME NEW u \in ToSet(queue), u # Head(queue)
      PROVE  u \in ToSet(tail)
  <2>1. PICK n \in DOMAIN queue : u = queue[n]
    BY DEF ToSet
  <2>2. n - 1 \in DOMAIN tail /\ tail[n - 1] = queue[n]
    BY <1>1, <1>4, <2>1
  <2> QED
    BY <2>1, <2>2 DEF ToSet
<1>5. ToSet(queue) = {Head(queue)} \cup ToSet(tail)
  BY <1>3, <1>4
<1> QED
  BY <1>1, <1>2, <1>5 DEF tail

\* A chunk is named after its version.
LEMMA ChunksNamed ==
  ASSUME NEW table, NEW v, NEW c \in ChunkIds(table, v)
  PROVE  c[1] = v
BY DEF ChunkIds

\* After an upsert an index shows that version of its document, and of any
\* other document what it did before.
UpsertedTo(index, after, table, v) ==
  /\ DOMAIN after = IndexFields /\ after.chunks = index.chunks \cup ChunkIds(table, v)
  /\ after.touched = index.touched
  /\ after.current \subseteq index.current \cup ChunkIds(table, v)
  /\ Shows(after, table, table[v].document) = ChunkIds(table, v)
  /\ \A d : (d # table[v].document) => Shows(after, table, d) = Shows(index, table, d)

\* The upsert of a version.
LEMMA UpsertedShows ==
  ASSUME NEW index, DOMAIN index = IndexFields, NEW table, NEW v,
         NEW after, after = Upserted(index, table, v)
  PROVE  UpsertedTo(index, after, table, v)
<1> DEFINE ids == ChunkIds(table, v)
           others == {c \in index.current : table[c[1]].document = table[v].document}
<1>1. \A c \in ids : c[1] = v
  BY ChunksNamed
<1>2. after = [index EXCEPT !.chunks = @ \cup ids, !.current = (@ \ others) \cup ids]
  BY DEF Upserted
<1> HIDE DEF ids, others
<1>3. /\ DOMAIN after = IndexFields /\ after.chunks = index.chunks \cup ids
      /\ after.touched = index.touched /\ after.current = (index.current \ others) \cup ids
  BY <1>2 DEF IndexFields
<1>4. Shows(after, table, table[v].document) = ids
  BY <1>1, <1>3 DEF Shows, others
<1>5. ASSUME NEW d, d # table[v].document
      PROVE  Shows(after, table, d) = Shows(index, table, d)
  BY <1>1, <1>3, <1>5 DEF Shows, others
<1> QED
  BY <1>3, <1>4, <1>5 DEF ids, UpsertedTo

\* The indexes after one more is there.
LEMMA CreatedFacts ==
  ASSUME NEW i
  PROVE  /\ DOMAIN Created(i) = DOMAIN indices \cup {i}
         /\ \A k \in DOMAIN indices : Created(i)[k] = indices[k]
         /\ i \notin DOMAIN indices => Created(i)[i] = NewIndex
         /\ DOMAIN NewIndex = IndexFields /\ NewIndex.current = {} /\ NewIndex.touched = {}
         /\ NewIndex.chunks = {}
BY DEF Created, NewIndex, IndexFields

\* A candidate that is blank when its rows are selected lacks what is in the queue.
LEMMA SelectedFilling ==
  ASSUME NEW table \in Seq(Rows), StampsApart(table), NEW queue, queue = ReplayOrder(table),
         NEW index, index.current = {}, NEW d
  PROVE  Filling(index, table, queue, d)
<1>1. ToSet(queue) = Completed(table) /\ CurrentLast(queue, table, d)
  BY ReplayOrderSound
<1>2. Of(queue, table, d) \subseteq Completed(table)
  BY <1>1 DEF Of
<1>3. ASSUME NEW v \in Of(queue, table, d)
      PROVE  \E w \in Of(queue, table, d) : IsCurrent(table, w)
  <2>1. v \in Completed(table) /\ table[v].document = d
    BY <1>1 DEF Of
  <2>2. PICK w \in Completed(table) : IsCurrent(table, w) /\ table[w].document = d
    BY <2>1, CurrentExists
  <2> QED
    BY <1>1, <2>2 DEF Of
<1>4. Of(queue, table, d) = {} => Whole(index, table, d)
  BY <1>1 DEF Of, Whole, Shows
<1> QED
  BY <1>1, <1>2, <1>3, <1>4 DEF Filling

\* One row on, a document is whole, or its current version is still to come.
LEMMA ReplayedFilling ==
  ASSUME NEW table \in Seq(Rows), StampsApart(table), NEW queue \in Seq(Nat), queue # <<>>,
         NEW index, NEW d, Filling(index, table, queue, d), NEW after,
         \/ after = index /\ ChunkIds(table, Head(queue)) = {}
         \/ UpsertedTo(index, after, table, Head(queue))
  PROVE  Filling(after, table, Tail(queue), d)
<1> DEFINE h == Head(queue)
           tail == Tail(queue)
<1>1. /\ ToSet(queue) = {h} \cup ToSet(tail) /\ 1 \in DOMAIN queue /\ h = queue[1]
      /\ \A n \in DOMAIN tail :
           n \in Nat /\ n >= 1 /\ n + 1 \in DOMAIN queue /\ tail[n] = queue[n + 1]
  BY QueueTail
<1>2. /\ Of(queue, table, d) \subseteq Completed(table) /\ CurrentLast(queue, table, d)
      /\ Of(queue, table, d) # {} => \E v \in Of(queue, table, d) : IsCurrent(table, v)
      /\ Of(queue, table, d) = {} => Whole(index, table, d)
  BY DEF Filling
<1> HIDE DEF h, tail
<1>3. CurrentLast(tail, table, d)
  <2> SUFFICES ASSUME NEW a \in DOMAIN tail, NEW b \in DOMAIN tail, a < b,
                      table[tail[a]].document = d, table[tail[b]].document = d
               PROVE  ~IsCurrent(table, tail[a])
    BY DEF CurrentLast
  <2>1. a + 1 < b + 1 /\ a + 1 \in DOMAIN queue /\ b + 1 \in DOMAIN queue
        /\ tail[a] = queue[a + 1] /\ tail[b] = queue[b + 1]
    BY <1>1
  <2> QED
    BY <1>2, <2>1 DEF CurrentLast
<1>4. CASE table[h].document # d
  <2>1. Of(tail, table, d) = Of(queue, table, d)
    BY <1>1, <1>4 DEF Of
  <2>2. Shows(after, table, d) = Shows(index, table, d)
    BY <1>4 DEF UpsertedTo, h
  <2>3. Whole(index, table, d) => Whole(after, table, d)
    BY <2>2 DEF Whole
  <2> QED
    BY <1>2, <1>3, <2>1, <2>3 DEF Filling, tail
<1>5. CASE table[h].document = d
  <2>1. Of(queue, table, d) = {h} \cup Of(tail, table, d)
    BY <1>1, <1>5 DEF Of
  <2>2. PICK v \in Of(queue, table, d) : IsCurrent(table, v)
    BY <1>2, <2>1
  <2>3. ASSUME NEW u \in Of(tail, table, d)
        PROVE  v \in Of(tail, table, d)
    <3>1. PICK n \in DOMAIN tail : tail[n] = u
      BY DEF Of, ToSet
    <3>2. 1 < n + 1 /\ n + 1 \in DOMAIN queue /\ queue[n + 1] = u /\ table[u].document = d
      BY <1>1, <3>1 DEF Of
    <3>3. ~IsCurrent(table, h)
      BY <1>1, <1>2, <1>5, <3>2 DEF CurrentLast
    <3> QED
      BY <2>1, <2>2, <3>3
  <2>4. ASSUME Of(tail, table, d) = {}
        PROVE  Whole(after, table, d)
    <3>1. IsCurrent(table, h) /\ h \in Completed(table)
      BY <1>2, <2>1, <2>2, <2>4
    <3>2. ASSUME NEW w \in Completed(table), IsCurrent(table, w), table[w].document = d
          PROVE  w = h
      BY <1>5, <3>1, <3>2, CurrentChosen
    <3>3. ChunkIds(table, h) # {} => Shows(after, table, d) = ChunkIds(table, h)
      BY <1>5 DEF UpsertedTo, h
    <3>4. d \in Recorded(table)
      BY <1>5, <3>1 DEF Recorded
    <3> QED
      BY <3>2, <3>3, <3>4 DEF Whole
  <2> QED
    BY <1>2, <1>3, <2>1, <2>2, <2>3, <2>4 DEF Filling, tail
<1> QED
  BY <1>4, <1>5

-----------------------------------------------------------------------------
(* The invariant, under the moves of a rebuild *)

AnyMove(r) ==
  \/ Quiet(r) \/ Creates(r) \/ Selects(r, Origin) \/ Replays(r, Origin) \/ Breaks(r) \/ Moves(r)

\* A rebuild runs in a live world, or in the exercise.
MayRun(r) == Outside.live \/ (exercise.phase = "rebuilding" /\ r = Restored)

Move(r) ==
  Only(r) /\ AnyMove(r) /\ MayRun(r) /\ UNCHANGED <<world, rows, pending, exercise>>

\* What a rebuild can do to the indexes: only its own candidate changes, and only
\* while it is created and filled.
IndexChange(r) ==
  /\ DOMAIN indices \subseteq DOMAIN indices' /\ DOMAIN indices' \subseteq DOMAIN indices \cup {r}
  /\ \A i \in DOMAIN indices' \ {r} : indices'[i] = indices[i]
  /\ \/ indices' = indices
     \/ /\ rebuild[r].phase \in {"create", "select", "replay"} /\ rebuild'[r].phase \notin Built
        /\ read' = read /\ rebuild'[r].previous = rebuild[r].previous

\* The table a replay reads.
LEMMA OriginSound ==
  ASSUME RecoveryInv
  PROVE  Origin \in Seq(Rows) /\ StampsApart(Origin)
BY DEF RecoveryInv, Typed, TablesSound, Origin

\* No move of a rebuild changes the index of another.
LEMMA MoveIndices ==
  ASSUME RecoveryInv, NEW r \in Rebuilders, Move(r)
  PROVE  IndexChange(r)
<1>1. CASE Quiet(r) \/ Moves(r)
  BY <1>1 DEF Quiet, Moves, IndexChange, cluster
<1>2. CASE Creates(r)
  BY <1>2, CreatedFacts DEF Creates, IndexChange, Built, Validated, Undoing
<1>3. CASE Replays(r, Origin)
  BY <1>3 DEF Replays, IndexChange, Built, Validated, Undoing
<1>4. CASE Breaks(r)
  BY <1>4 DEF Breaks, IndexChange, Built, Validated, Undoing
<1>5. CASE Selects(r, Origin)
  BY <1>5 DEF Selects, IndexChange, Built, Validated, Undoing
<1> QED
  BY <1>1, <1>2, <1>3, <1>4, <1>5 DEF Move, AnyMove

\* The candidate after one row of the replay.
LEMMA ReplaysCandidate ==
  ASSUME RecoveryInv, NEW r \in Rebuilders, Replays(r, Origin), r \in DOMAIN indices,
         NEW h, h = Head(rebuild[r].queue)
  PROVE  \/ indices'[r] = indices[r] /\ ChunkIds(Origin, h) = {}
         \/ UpsertedTo(indices[r], indices'[r], Origin, h)
<1>1. DOMAIN indices[r] = IndexFields
  BY DEF RecoveryInv, Typed
<1>2. CASE ChunkIds(Origin, h) = {}
  BY <1>2 DEF Replays
<1>3. CASE ChunkIds(Origin, h) # {}
  <2>1. indices'[r] = Upserted(indices[r], Origin, h)
    BY <1>3 DEF Replays
  <2> QED
    BY <1>1, <2>1, UpsertedShows
<1> QED
  BY <1>2, <1>3

\* The candidate of a rebuild that creates or fills it.
LEMMA MoveCandidate ==
  ASSUME RecoveryInv, NEW r \in Rebuilders, Move(r), r \in DOMAIN indices'
  PROVE  DOMAIN indices'[r] = IndexFields /\ Known(indices'[r], Origin)
<1>1. r \in DOMAIN indices => DOMAIN indices[r] = IndexFields /\ Known(indices[r], Origin)
  BY DEF RecoveryInv, Typed, CurrentKnown
<1>2. CASE Quiet(r) \/ Moves(r)
  BY <1>1, <1>2 DEF Quiet, Moves, cluster
<1>3. CASE Creates(r)
  BY <1>3, CreatedFacts DEF Creates, Known
<1>4. CASE Replays(r, Origin)
  <2>1. PICK h : h = Head(rebuild[r].queue)
    OBVIOUS
  <2>2. rebuild[r].queue \in Seq(Nat) /\ rebuild[r].queue # <<>>
        /\ ToSet(rebuild[r].queue) \subseteq DOMAIN Origin
    BY <1>4 DEF Replays, RecoveryInv, Typed, ReplaySound
  <2>3. h \in DOMAIN Origin
    BY <2>1, <2>2, QueueTail
  <2>4. r \in DOMAIN indices
    BY <1>4 DEF Replays
  <2>5. \/ indices'[r] = indices[r] /\ ChunkIds(Origin, h) = {}
        \/ UpsertedTo(indices[r], indices'[r], Origin, h)
    BY <1>4, <2>1, <2>4, ReplaysCandidate
  <2> QED
    BY <1>1, <2>3, <2>4, <2>5, ChunksNamed DEF UpsertedTo, Known
<1>5. CASE Breaks(r)
  <2>1. r \in DOMAIN indices
    BY <1>5 DEF Breaks
  <2>2. PICK ids : indices' = [indices EXCEPT ![r].chunks = @ \cup ids]
    BY <1>5 DEF Breaks
  <2>3. indices'[r] = [indices[r] EXCEPT !.chunks = @ \cup ids]
    BY <2>1, <2>2
  <2> QED
    BY <1>1, <2>1, <2>3 DEF IndexFields, Known
<1>6. CASE Selects(r, Origin)
  <2>1. r \in DOMAIN indices /\ indices'[r] = [indices[r] EXCEPT !.touched = {}]
    BY <1>6 DEF Selects
  <2> QED
    BY <1>1, <2>1 DEF IndexFields, Known
<1> QED
  BY <1>2, <1>3, <1>4, <1>5, <1>6 DEF Move, AnyMove

\* Tables, rebuilds and indexes keep their shape, and current chunks their rows.
LEMMA MoveTyped ==
  ASSUME RecoveryInv, NEW r \in Rebuilders, Move(r)
  PROVE  Typed' /\ CurrentKnown'
<1>1. IndexChange(r)
  BY MoveIndices
<1>2. Origin' = Origin
  BY DEF Move, Origin, Outside
<1>3. \A i \in DOMAIN indices' : DOMAIN indices'[i] = IndexFields /\ Known(indices'[i], Origin)
  BY <1>1, MoveCandidate DEF IndexChange, RecoveryInv, Typed, CurrentKnown
<1>4. CurrentKnown'
  BY <1>2, <1>3 DEF CurrentKnown
<1>5. Typed'
  BY <1>3 DEF RecoveryInv, Typed, Move, Only, Rows, Outside
<1> QED
  BY <1>4, <1>5

\* No move of a rebuild parts the aliases or leaves them on an index that is not.
LEMMA MoveAliasesSound ==
  ASSUME RecoveryInv, NEW r \in Rebuilders, Move(r)
  PROVE  AliasesSound'
<1>1. IndexChange(r)
  BY MoveIndices
<1>2. CASE Moves(r)
  BY <1>2 DEF Moves, AliasesSound
<1>3. CASE UNCHANGED <<read, write>>
  BY <1>1, <1>3 DEF AliasesSound, IndexChange, RecoveryInv
<1> QED
  BY <1>2, <1>3 DEF Move, AnyMove, Quiet, Creates, Selects, Replays, Breaks, cluster

\* From where a rebuild may send the aliases.
LEMMA MoveTargets ==
  ASSUME NEW r \in Rebuilders, Move(r)
  PROVE  /\ \A i \in read' : i \in read \/ (i = r /\ rebuild[r].phase \in Validated)
                             \/ i = rebuild[r].previous
         /\ rebuild'[r].previous = rebuild[r].previous \/ read = {rebuild'[r].previous}
         /\ rebuild'[r].phase \in Early => rebuild[r].phase \in Early
<1>1. CASE Moves(r)
  BY <1>1 DEF Moves, Validated, Early, Preparing, Undoing
<1>2. CASE Quiet(r)
  BY <1>2 DEF Quiet, PhaseMoves, cluster, Early
<1>3. CASE Creates(r) \/ Selects(r, Origin) \/ Replays(r, Origin) \/ Breaks(r)
  BY <1>3 DEF Creates, Selects, Replays, Breaks, Early, Preparing
<1> QED
  BY <1>1, <1>2, <1>3 DEF Move, AnyMove

\* No move of a rebuild puts the aliases on a candidate before its switch.
LEMMA MoveEarlyUnserved ==
  ASSUME RecoveryInv, NEW r \in Rebuilders, Move(r)
  PROVE  EarlyUnserved'
<1> SUFFICES ASSUME NEW q \in Rebuilders, rebuild'[q].phase \in Early
             PROVE  q \notin read' /\ \A p \in Rebuilders : rebuild'[p].previous # q
  BY DEF EarlyUnserved
<1>1. rebuild[q].phase \in Early
  BY MoveTargets DEF Move, Only
<1>2. q \notin read /\ \A p \in Rebuilders : rebuild[p].previous # q
  BY <1>1 DEF RecoveryInv, EarlyUnserved
<1>3. \A p \in Rebuilders : rebuild'[p].previous # q
  BY <1>2, MoveTargets DEF Move, Only
<1>4. Early \cap Validated = {}
  BY DEF Early, Validated, Preparing, Undoing
<1> QED
  BY <1>1, <1>2, <1>3, <1>4, MoveTargets

\* When a replay is through its queue, the candidate is whole.
LEMMA ReplayedWhole ==
  ASSUME RecoveryInv, NEW r \in Rebuilders, r \in DOMAIN indices, rebuild[r].phase = "replay",
         rebuild[r].queue = <<>>, NEW d \in Documents \ indices[r].touched
  PROVE  Whole(indices[r], Origin, d)
<1>1. Of(rebuild[r].queue, Origin, d) = {}
  BY DEF Of, ToSet
<1> QED
  BY <1>1 DEF RecoveryInv, ReplaySound, Filling

\* No move of a rebuild makes an index servable that is not whole.
LEMMA MoveServableWhole ==
  ASSUME RecoveryInv, NEW r \in Rebuilders, Move(r)
  PROVE  ServableWhole'
<1>1. Origin' = Origin
  BY DEF Move, Origin, Outside
<1> SUFFICES ASSUME NEW i \in DOMAIN indices' \ {1}, Servable(i)',
                    NEW d \in Documents \ indices'[i].touched
             PROVE  Whole(indices'[i], Origin, d)
  BY <1>1 DEF ServableWhole
<1>2. IndexChange(r)
  BY MoveIndices
<1>3. Built \cap Early = {"validate"} /\ Validated \subseteq Built
  BY DEF Built, Early, Validated, Preparing, Undoing
<1>4. CASE i = r /\ rebuild[r].phase \in {"create", "select", "replay"}
           /\ rebuild'[r].phase \notin Built
           /\ read' = read /\ rebuild'[r].previous = rebuild[r].previous
  <2>1. r \notin read /\ \A q \in Rebuilders : rebuild[q].previous # r
    BY <1>4 DEF RecoveryInv, EarlyUnserved, Early, Preparing
  <2>2. ~Servable(i)'
    BY <1>4, <2>1 DEF Servable, Move, Only
  <2> QED
    BY <2>2
<1>5. CASE i \in DOMAIN indices /\ indices'[i] = indices[i]
  <2>1. CASE Servable(i)
    BY <1>5, <2>1 DEF RecoveryInv, ServableWhole
  <2>2. CASE ~Servable(i)
    <3>1. i \notin read /\ \A q \in Rebuilders : rebuild[q].previous # i
      BY <2>2 DEF Servable
    <3>2. i \notin read'
      BY <1>3, <2>2, <3>1, MoveTargets DEF Servable
    <3>3. \A q \in Rebuilders : rebuild'[q].previous # i
      BY <3>1, MoveTargets DEF Move, Only
    <3>4. i \in Rebuilders /\ rebuild'[i].phase \in Built /\ rebuild[i].phase \notin Built
      BY <2>2, <3>1, <3>2, <3>3 DEF Servable
    <3>5. i = r
      BY <3>4 DEF Move, Only
    <3>6. rebuild[r].phase = "replay" /\ rebuild[r].queue = <<>>
      <4>1. ~Moves(r) /\ ~Creates(r) /\ ~Selects(r, Origin) /\ ~Replays(r, Origin) /\ ~Breaks(r)
        BY <3>4, <3>5 DEF Moves, Creates, Selects, Replays, Breaks, Built, Validated, Undoing
      <4>2. Quiet(r)
        BY <4>1 DEF Move, AnyMove
      <4> QED
        BY <3>4, <3>5, <4>2 DEF Quiet, PhaseMoves, Built
    <3> QED
      BY <1>5, <3>5, <3>6, ReplayedWhole
  <2> QED
    BY <2>1, <2>2
<1> QED
  BY <1>2, <1>4, <1>5 DEF IndexChange

\* A candidate is blank when it is created, and until its replay.
LEMMA MoveCandidateBlank ==
  ASSUME RecoveryInv, NEW r \in Rebuilders, Move(r)
  PROVE  CandidateBlank'
<1> SUFFICES ASSUME NEW q \in Rebuilders, rebuild'[q].phase \in {"count", "select"},
                    q \in DOMAIN indices'
             PROVE  indices'[q].current = {}
  BY DEF CandidateBlank
<1>1. IndexChange(r)
  BY MoveIndices
<1>2. CASE q # r
  BY <1>1, <1>2 DEF IndexChange, Move, Only, RecoveryInv, CandidateBlank
<1>3. CASE q = r /\ Quiet(r)
  BY <1>3 DEF Quiet, PhaseMoves, cluster, RecoveryInv, CandidateBlank
<1>4. CASE q = r /\ Creates(r)
  BY <1>4, CreatedFacts DEF Creates
<1>5. CASE q = r /\ (Selects(r, Origin) \/ Replays(r, Origin) \/ Breaks(r) \/ Moves(r))
  BY <1>5 DEF Selects, Replays, Breaks, Moves
<1> QED
  BY <1>2, <1>3, <1>4, <1>5 DEF Move, AnyMove

\* No move of a rebuild loses a version from its own replay or another's.
LEMMA MoveReplaySound ==
  ASSUME RecoveryInv, NEW r \in Rebuilders, Move(r)
  PROVE  ReplaySound'
<1>1. Origin' = Origin
  BY DEF Move, Origin, Outside
<1>2. IndexChange(r)
  BY MoveIndices
<1>3. Origin \in Seq(Rows) /\ StampsApart(Origin)
  BY OriginSound
<1> SUFFICES ASSUME NEW q \in Rebuilders, rebuild'[q].phase = "replay"
             PROVE  /\ ToSet(rebuild'[q].queue) \subseteq DOMAIN Origin
                    /\ (q \in DOMAIN indices') =>
                         \A d \in Documents \ indices'[q].touched :
                           Filling(indices'[q], Origin, rebuild'[q].queue, d)
  BY <1>1 DEF ReplaySound
<1>4. CASE q # r
  <2>1. rebuild'[q] = rebuild[q]
    BY <1>4 DEF Move, Only
  <2>2. q \in DOMAIN indices' => q \in DOMAIN indices /\ indices'[q] = indices[q]
    BY <1>2, <1>4 DEF IndexChange
  <2> QED
    BY <2>1, <2>2 DEF RecoveryInv, ReplaySound
<1>5. CASE q = r /\ Quiet(r)
  BY <1>5 DEF Quiet, PhaseMoves, Kept, cluster, RecoveryInv, ReplaySound
<1>6. CASE q = r /\ Selects(r, Origin)
  <2>1. rebuild'[r].queue = ReplayOrder(Origin)
    BY <1>6 DEF Selects
  <2>2. ToSet(rebuild'[r].queue) \subseteq DOMAIN Origin
    BY <1>3, <2>1, ReplayOrderSound, RowFacts
  <2>3. ASSUME r \in DOMAIN indices'
        PROVE  indices'[r].current = {}
    <3>1. r \in DOMAIN indices /\ indices'[r] = [indices[r] EXCEPT !.touched = {}]
      BY <1>6, <2>3 DEF Selects
    <3>2. indices[r].current = {} /\ DOMAIN indices[r] = IndexFields
      BY <1>6, <3>1 DEF Selects, RecoveryInv, CandidateBlank, Typed
    <3> QED
      BY <3>1, <3>2 DEF IndexFields
  <2> QED
    BY <1>3, <1>6, <2>1, <2>2, <2>3, SelectedFilling
<1>7. CASE q = r /\ Replays(r, Origin)
  <2>1. PICK h : h = Head(rebuild[r].queue)
    OBVIOUS
  <2>2. /\ rebuild[r].queue \in Seq(Nat) /\ rebuild[r].queue # <<>>
        /\ ToSet(rebuild[r].queue) \subseteq DOMAIN Origin
    BY <1>7 DEF Replays, RecoveryInv, Typed, ReplaySound
  <2>3. rebuild'[r].queue = Tail(rebuild[r].queue) /\ DOMAIN indices' = DOMAIN indices
    BY <1>7 DEF Replays
  <2>4. ToSet(rebuild'[r].queue) \subseteq DOMAIN Origin
    BY <2>2, <2>3, QueueTail
  <2>5. ASSUME r \in DOMAIN indices', NEW d \in Documents \ indices'[r].touched
        PROVE  Filling(indices'[r], Origin, Tail(rebuild[r].queue), d)
    <3>1. r \in DOMAIN indices
      BY <2>3, <2>5
    <3>2. \/ indices'[r] = indices[r] /\ ChunkIds(Origin, h) = {}
          \/ UpsertedTo(indices[r], indices'[r], Origin, h)
      BY <1>7, <2>1, <3>1, ReplaysCandidate
    <3>3. d \in Documents \ indices[r].touched
      BY <2>5, <3>2 DEF UpsertedTo
    <3>4. Filling(indices[r], Origin, rebuild[r].queue, d)
      BY <1>7, <3>1, <3>3 DEF Replays, RecoveryInv, ReplaySound
    <3> QED
      BY <1>3, <2>1, <2>2, <3>2, <3>4, ReplayedFilling
  <2> QED
    BY <1>7, <2>3, <2>4, <2>5
<1>8. CASE q = r /\ (Creates(r) \/ Breaks(r) \/ Moves(r))
  BY <1>8 DEF Creates, Breaks, Moves
<1> QED
  BY <1>4, <1>5, <1>6, <1>7, <1>8 DEF Move, AnyMove

\* The rebuild of the exercise writes the whole dump, and nothing else.
LEMMA MoveWrittenSound ==
  ASSUME RecoveryInv, NEW r \in Rebuilders, Move(r)
  PROVE  WrittenSound'
<1> DEFINE b == rebuild[Restored]
           c == rebuild'[Restored]
           dump == exercise.dump
           Filled == Built \cup {"count", "select", "replay"}
<1>1. CASE Outside.live
  BY <1>1 DEF WrittenSound, Move, Outside
<1>2. CASE ~Outside.live
  <2>1. r = Restored /\ exercise.phase = "rebuilding" /\ Origin = dump /\ exercise' = exercise
    BY <1>2 DEF Move, MayRun, Origin
  <2>2. /\ (b.phase \in Preparing) => b.written = {}
        /\ (b.phase = "replay") =>
             b.written \cup UNION {ChunkIds(dump, v) : v \in ToSet(b.queue)} = AllChunks(dump)
        /\ (b.phase \in Built) => b.written = AllChunks(dump)
        /\ (b.phase \in Filled /\ Restored \in DOMAIN indices) =>
             indices[Restored].chunks = b.written
        /\ (b.phase = "done") => read = {Restored}
    BY <1>2, <2>1 DEF RecoveryInv, WrittenSound
  <2> DEFINE Goal ==
        /\ (c.phase \in Preparing) => c.written = {}
        /\ (c.phase = "replay") =>
             c.written \cup UNION {ChunkIds(dump, v) : v \in ToSet(c.queue)} = AllChunks(dump)
        /\ (c.phase \in Built) => c.written = AllChunks(dump)
        /\ (c.phase \in Filled /\ Restored \in DOMAIN indices') =>
             indices'[Restored].chunks = c.written
        /\ (c.phase = "done") => read' = {Restored}
  <2>3. SUFFICES Goal
    BY <2>1 DEF WrittenSound
  <2>4. CASE Quiet(r)
    <3>1. c.queue = b.queue /\ c.written = b.written /\ indices' = indices /\ read' = read
      BY <2>1, <2>4 DEF Quiet, Kept, cluster
    <3>2. /\ (c.phase \in Preparing) => b.phase \in Preparing
          /\ (c.phase \in {"count", "select"}) => b.phase \in {"count", "select"}
          /\ (c.phase = "replay") => b.phase = "replay"
          /\ (c.phase = "validate") => b.phase = "validate" \/ (b.phase = "replay" /\ b.queue = <<>>)
          /\ (c.phase \in Validated) => b.phase \in Validated \cup {"validate"}
          /\ (c.phase = "done") => b.phase = "done" \/ read = {r}
      BY <2>1, <2>4 DEF Quiet, PhaseMoves
    <3>3. (b.phase = "replay" /\ b.queue = <<>>) => b.written = AllChunks(dump)
      <4>1. ToSet(<<>>) = {}
        BY DEF ToSet
      <4>2. UNION {ChunkIds(dump, v) : v \in {}} = {}
        OBVIOUS
      <4>3. ASSUME b.phase = "replay", ToSet(b.queue) = {}
            PROVE  b.written = AllChunks(dump)
        <5>1. b.written \cup UNION {ChunkIds(dump, v) : v \in ToSet(b.queue)} = AllChunks(dump)
          BY <2>2, <4>3
        <5> QED
          BY <4>2, <4>3, <5>1
      <4> QED
        BY <4>1, <4>3
    <3>4. (c.phase \in Built) => c.written = AllChunks(dump)
      BY <2>2, <3>1, <3>2, <3>3 DEF Built
    <3>5. (c.phase \in Filled) => b.phase \in Filled
      BY <3>2 DEF Built
    <3> QED
      BY <2>1, <2>2, <3>1, <3>2, <3>4, <3>5
  <2>5. CASE Creates(r)
    <3>1. indices'[r].chunks = {} /\ b.phase = "create" /\ c.phase = "count" /\ c.written = b.written
      BY <2>1, <2>5, CreatedFacts DEF Creates, Kept
    <3> QED
      BY <2>1, <2>2, <3>1 DEF Preparing, Built, Validated, Undoing
  <2>6. CASE Selects(r, Origin)
    <3>1. ToSet(c.queue) = Completed(dump) /\ c.written = {} /\ c.phase = "replay"
          /\ b.phase = "select" /\ b.written = {}
      BY <2>1, <2>2, <2>6, OriginSound, ReplayOrderSound DEF Selects, Preparing
    <3>2. Restored \in DOMAIN indices' => indices'[Restored].chunks = {}
      <4>1. SUFFICES ASSUME Restored \in DOMAIN indices'
                     PROVE  indices'[Restored].chunks = {}
        OBVIOUS
      <4>2. Restored \in DOMAIN indices
            /\ indices'[Restored] = [indices[Restored] EXCEPT !.touched = {}]
        BY <2>1, <2>6, <4>1 DEF Selects
      <4>3. indices[Restored].chunks = {} /\ DOMAIN indices[Restored] = IndexFields
        BY <2>2, <3>1, <4>2 DEF RecoveryInv, Typed
      <4> QED
        BY <4>2, <4>3 DEF IndexFields
    <3> QED
      BY <3>1, <3>2 DEF AllChunks, Preparing, Built, Validated, Undoing
  <2>7. CASE Replays(r, Origin)
    <3> DEFINE h == Head(b.queue)
    <3>1. b.queue \in Seq(Nat) /\ b.queue # <<>>
      BY <2>1, <2>7 DEF Replays, RecoveryInv, Typed
    <3>2. ToSet(b.queue) = {h} \cup ToSet(Tail(b.queue))
      BY <3>1, QueueTail
    <3>3. c.written = b.written \cup ChunkIds(dump, h) /\ c.queue = Tail(b.queue)
          /\ b.phase = "replay" /\ c.phase = "replay" /\ DOMAIN indices' = DOMAIN indices
      BY <2>1, <2>7 DEF Replays
    <3>4. c.written \cup UNION {ChunkIds(dump, v) : v \in ToSet(c.queue)}
            = b.written \cup UNION {ChunkIds(dump, v) : v \in ToSet(b.queue)}
      <4> HIDE DEF h, b, c, dump
      <4> QED
        BY <3>2, <3>3
    <3>5. ASSUME Restored \in DOMAIN indices'
          PROVE  indices'[Restored].chunks = c.written
      <4>1. \/ indices'[r] = indices[r] /\ ChunkIds(Origin, h) = {}
            \/ UpsertedTo(indices[r], indices'[r], Origin, h)
        BY <2>1, <2>7, <3>3, <3>5, ReplaysCandidate
      <4>2. indices[r].chunks = b.written
        BY <2>1, <2>2, <3>3, <3>5
      <4>3. indices'[r].chunks = indices[r].chunks \cup ChunkIds(Origin, h)
        BY <4>1 DEF UpsertedTo
      <4> QED
        BY <2>1, <3>3, <4>2, <4>3
    <3> QED
      BY <2>2, <3>3, <3>4, <3>5 DEF Preparing, Built, Validated, Undoing
  <2>8. CASE Breaks(r)
    BY <2>1, <2>8 DEF Breaks, Preparing, Built, Validated, Undoing
  <2>9. CASE Moves(r)
    <3>1. /\ indices' = indices /\ c.written = b.written /\ b.phase \in Validated
          /\ c.phase \in {"confirm", "undo_confirm", "check", "raised"}
      BY <2>1, <2>9 DEF Moves, Kept, Validated, Undoing
    <3> QED
      BY <2>2, <3>1 DEF Preparing, Built
  <2> QED
    BY <2>4, <2>5, <2>6, <2>7, <2>8, <2>9 DEF Move, AnyMove
<1> QED
  BY <1>1, <1>2

\* A rebuild's step keeps the invariant.
LEMMA MoveKeepsInv ==
  ASSUME RecoveryInv, NEW r \in Rebuilders, Move(r)
  PROVE  RecoveryInv'
<1>1. ExerciseSound'
  BY DEF RecoveryInv, ExerciseSound, Move, MayRun, Outside, BeforeIndex
<1>2. TablesSound'
  BY DEF RecoveryInv, TablesSound, Move
<1>3. ReportIsTrue'
  BY DEF RecoveryInv, ReportIsTrue, Move
<1> QED
  BY <1>1, <1>2, <1>3, MoveTyped, MoveAliasesSound, MoveEarlyUnserved, MoveServableWhole,
     MoveCandidateBlank, MoveReplaySound, MoveWrittenSound DEF RecoveryInv

-----------------------------------------------------------------------------
(* The invariant, under ingestion *)

\* The rows there are stay what they are, but for their state.
RowsKept ==
  /\ rows' \in Seq(Rows) /\ StampsApart(rows') /\ DOMAIN rows \subseteq DOMAIN rows'
  /\ \A v \in DOMAIN rows : /\ rows'[v].document = rows[v].document
                            /\ rows'[v].stamp = rows[v].stamp /\ rows'[v].lines = rows[v].lines

\* No version of document d comes to be completed, or ceases to be.
Steady(d) ==
  \A v \in DOMAIN rows' : (rows'[v].document = d) =>
    (v \in Completed(rows') <=> v \in Completed(rows))

\* A submission adds a row that is not completed.
LEMMA SubmitRows ==
  ASSUME RecoveryInv, NEW d \in Outside.documents, NEW lines \in Outside.contents,
         NEW stamp \in 1..Outside.maxRows, Submit(d, lines, stamp)
  PROVE  RowsKept /\ pending' \subseteq DOMAIN rows' /\ \A e : Steady(e)
<1> DEFINE row == [document |-> d, lines |-> lines, stamp |-> stamp, done |-> FALSE,
                   deleted |-> Deleted(d)]
           n == Len(rows) + 1
<1>1. /\ rows \in Seq(Rows) /\ pending \subseteq DOMAIN rows /\ world \in DOMAIN Worlds
      /\ StampsApart(rows)
  BY DEF RecoveryInv, Typed, TablesSound
<1>2. row \in Rows
  <2>1. Outside \in ToSet(Worlds)
    BY <1>1 DEF Outside, ToSet
  <2>2. d \in Documents /\ Outside.maxRows \in Nat
    BY <2>1, RebuildAssumption
  <2>3. stamp \in Nat
    BY <2>2
  <2>4. Deleted(d) \in BOOLEAN
    BY DEF Deleted
  <2> QED
    BY <2>2, <2>3, <2>4 DEF Rows
<1>3. row.document = d /\ row.lines = lines /\ row.stamp = stamp /\ ~row.done
  OBVIOUS
<1>4. rows' = Append(rows, row) /\ pending' = pending
      /\ \A v \in VersionsOf(rows, d) : rows[v].stamp # stamp
  BY DEF Submit
<1> HIDE DEF row
<1>5. /\ rows' \in Seq(Rows) /\ n \in Nat /\ n \notin DOMAIN rows
      /\ DOMAIN rows' = DOMAIN rows \cup {n} /\ rows'[n] = row
      /\ \A v \in DOMAIN rows : rows'[v] = rows[v]
  BY <1>1, <1>2, <1>4
<1> HIDE DEF n
<1>6. StampsApart(rows')
  <2> SUFFICES ASSUME NEW u \in DOMAIN rows', NEW v \in DOMAIN rows',
                      rows'[u].document = rows'[v].document, rows'[u].stamp = rows'[v].stamp
               PROVE  u = v
    BY DEF StampsApart
  <2>1. \A w \in DOMAIN rows : rows[w].document = d => rows[w].stamp # stamp
    BY <1>4 DEF VersionsOf
  <2> QED
    BY <1>1, <1>3, <1>5, <2>1 DEF StampsApart
<1>7. Completed(rows') = Completed(rows)
  BY <1>3, <1>5 DEF Completed
<1> QED
  BY <1>1, <1>4, <1>5, <1>6, <1>7 DEF RowsKept, Steady

\* A row whose version is done.
LEMMA CommitRows ==
  ASSUME RecoveryInv, NEW v, Commit(v)
  PROVE  /\ RowsKept /\ pending' \subseteq DOMAIN rows'
         /\ \A e : (e # rows[v].document) => Steady(e)
<1>1. rows \in Seq(Rows) /\ pending \subseteq DOMAIN rows /\ StampsApart(rows)
  BY DEF RecoveryInv, Typed, TablesSound
<1>2. /\ v \in DOMAIN rows /\ pending' = pending \ {v}
      /\ rows' = [rows EXCEPT ![v].done = TRUE]
  BY <1>1 DEF Commit
<1>3. \A u \in DOMAIN rows : rows[u] \in Rows
  BY <1>1
<1>4. [rows[v] EXCEPT !.done = TRUE] \in Rows
  BY <1>2, <1>3 DEF Rows
<1>5. /\ rows' \in Seq(Rows) /\ DOMAIN rows' = DOMAIN rows
      /\ rows'[v] = [rows[v] EXCEPT !.done = TRUE]
      /\ \A u \in DOMAIN rows \ {v} : rows'[u] = rows[u]
  BY <1>1, <1>2, <1>4
<1>6. /\ rows'[v].document = rows[v].document /\ rows'[v].stamp = rows[v].stamp
      /\ rows'[v].lines = rows[v].lines
  BY <1>2, <1>3, <1>5 DEF Rows
<1>7. \A u \in DOMAIN rows : /\ rows'[u].document = rows[u].document
                             /\ rows'[u].stamp = rows[u].stamp /\ rows'[u].lines = rows[u].lines
  BY <1>5, <1>6
<1>8. RowsKept
  BY <1>1, <1>5, <1>7 DEF RowsKept, StampsApart
<1>9. ASSUME NEW e, e # rows[v].document
      PROVE  Steady(e)
  BY <1>2, <1>5, <1>6, <1>9 DEF Steady, Completed
<1> QED
  BY <1>1, <1>2, <1>5, <1>8, <1>9

\* The rows of a document that is deleted.
LEMMA DeleteRows ==
  ASSUME RecoveryInv, NEW d, Delete(d)
  PROVE  /\ RowsKept /\ pending' \subseteq DOMAIN rows'
         /\ \A e : (e # d) => Steady(e)
<1>1. rows \in Seq(Rows) /\ pending \subseteq DOMAIN rows /\ StampsApart(rows)
  BY DEF RecoveryInv, Typed, TablesSound
<1>2. /\ pending' = pending
      /\ rows' = [v \in DOMAIN rows |->
                    IF rows[v].document = d THEN [rows[v] EXCEPT !.deleted = TRUE] ELSE rows[v]]
  BY DEF Delete
<1>3. \A u \in DOMAIN rows : rows[u] \in Rows
  BY <1>1
<1>4. DOMAIN rows' = DOMAIN rows
  BY <1>2
<1>5. ASSUME NEW u \in DOMAIN rows
      PROVE  /\ rows'[u] \in Rows /\ rows'[u].document = rows[u].document
             /\ rows'[u].stamp = rows[u].stamp /\ rows'[u].lines = rows[u].lines
             /\ rows[u].document # d => rows'[u] = rows[u]
  <2>1. CASE rows[u].document = d
    <3>1. rows'[u] = [rows[u] EXCEPT !.deleted = TRUE]
      BY <1>2, <2>1
    <3> QED
      BY <1>3, <2>1, <3>1 DEF Rows
  <2>2. CASE rows[u].document # d
    <3>1. rows'[u] = rows[u]
      BY <1>2, <2>2
    <3> QED
      BY <1>3, <3>1
  <2> QED
    BY <2>1, <2>2
<1>6. rows' \in Seq(Rows)
  <2>1. rows' = [v \in 1..Len(rows) |-> rows'[v]] /\ Len(rows) \in Nat
        /\ DOMAIN rows = 1..Len(rows)
    BY <1>1, <1>2
  <2>2. rows' \in [1..Len(rows) -> Rows]
    BY <1>5, <2>1
  <2> QED
    BY <2>1, <2>2
<1>7. RowsKept
  BY <1>1, <1>4, <1>5, <1>6 DEF RowsKept, StampsApart
<1>8. ASSUME NEW e, e # d
      PROVE  Steady(e)
  BY <1>4, <1>5, <1>8 DEF Steady, Completed
<1> QED
  BY <1>1, <1>2, <1>4, <1>7, <1>8

\* What a steady document keeps: its completed versions, the current one of
\* them, and their chunks.
LEMMA SteadyFacts ==
  ASSUME rows \in Seq(Rows), RowsKept, NEW d, Steady(d)
  PROVE  /\ \A v : v \in Completed(rows') /\ rows'[v].document = d
                     <=> v \in Completed(rows) /\ rows[v].document = d
         /\ \A v \in Completed(rows) : (rows[v].document = d) =>
              /\ IsCurrent(rows', v) <=> IsCurrent(rows, v)
              /\ ChunkIds(rows', v) = ChunkIds(rows, v)
         /\ d \in Recorded(rows') <=> d \in Recorded(rows)
<1>1. Completed(rows) \subseteq DOMAIN rows /\ Completed(rows') \subseteq DOMAIN rows'
  BY DEF Completed
<1>2. \A v \in DOMAIN rows : /\ v \in DOMAIN rows' /\ rows'[v].document = rows[v].document
                             /\ rows'[v].stamp = rows[v].stamp /\ rows'[v].lines = rows[v].lines
  BY DEF RowsKept
<1>3. \A v : v \in Completed(rows') /\ rows'[v].document = d
               <=> v \in Completed(rows) /\ rows[v].document = d
  BY <1>1, <1>2 DEF Steady
<1>4. ASSUME NEW v \in Completed(rows), rows[v].document = d
      PROVE  /\ IsCurrent(rows', v) <=> IsCurrent(rows, v)
             /\ ChunkIds(rows', v) = ChunkIds(rows, v)
  <2>1. \A u : u \in Completed(rows') /\ rows'[u].document = rows'[v].document
                 <=> u \in Completed(rows) /\ rows[u].document = rows[v].document
    BY <1>1, <1>2, <1>3, <1>4
  <2>2. \A u \in Completed(rows) : rows'[u].stamp = rows[u].stamp
    BY <1>1, <1>2
  <2>3. IsCurrent(rows', v) <=> IsCurrent(rows, v)
    BY <1>3, <1>4, <2>1, <2>2 DEF IsCurrent
  <2>4. ChunkIds(rows', v) = ChunkIds(rows, v)
    BY <1>1, <1>2 DEF ChunkIds
  <2> QED
    BY <2>3, <2>4
<1>5. d \in Recorded(rows') <=> d \in Recorded(rows)
  BY <1>3 DEF Recorded
<1> QED
  BY <1>3, <1>4, <1>5

\* New rows, and new states of rows, do not change what an index shows.
LEMMA KeptShows ==
  ASSUME RowsKept, NEW index, Known(index, rows), NEW d
  PROVE  Shows(index, rows', d) = Shows(index, rows, d)
BY DEF RowsKept, Known, Shows

\* A steady document stays whole where its chunks are left alone.
LEMMA SteadyWhole ==
  ASSUME rows \in Seq(Rows), RowsKept, NEW d, Steady(d), NEW index, NEW after,
         Shows(after, rows', d) = Shows(index, rows, d), Whole(index, rows, d)
  PROVE  Whole(after, rows', d)
BY SteadyFacts DEF Whole

\* And its replay goes on as it was.
LEMMA SteadyFilling ==
  ASSUME rows \in Seq(Rows), RowsKept, NEW d, Steady(d), NEW index, NEW after,
         Shows(after, rows', d) = Shows(index, rows, d), NEW queue,
         ToSet(queue) \subseteq DOMAIN rows, Filling(index, rows, queue, d)
  PROVE  Filling(after, rows', queue, d)
<1>1. \A v \in DOMAIN rows : rows'[v].document = rows[v].document
  BY DEF RowsKept
<1>2. Of(queue, rows', d) = Of(queue, rows, d)
  BY <1>1 DEF Of
<1>3. /\ Of(queue, rows, d) \subseteq Completed(rows) /\ CurrentLast(queue, rows, d)
      /\ Of(queue, rows, d) # {} => \E v \in Of(queue, rows, d) : IsCurrent(rows, v)
      /\ Of(queue, rows, d) = {} => Whole(index, rows, d)
  BY DEF Filling
<1>4. \A v \in Of(queue, rows, d) : /\ v \in Completed(rows) /\ v \in Completed(rows')
                                    /\ IsCurrent(rows', v) <=> IsCurrent(rows, v)
  BY <1>3, SteadyFacts DEF Of
<1>5. CurrentLast(queue, rows', d)
  <2> SUFFICES ASSUME NEW a \in DOMAIN queue, NEW b \in DOMAIN queue, a < b,
                      rows'[queue[a]].document = d, rows'[queue[b]].document = d
               PROVE  ~IsCurrent(rows', queue[a])
    BY DEF CurrentLast
  <2>1. queue[a] \in ToSet(queue) /\ queue[b] \in ToSet(queue)
    BY DEF ToSet
  <2>2. rows[queue[a]].document = d /\ rows[queue[b]].document = d
    BY <1>1, <2>1
  <2>3. ~IsCurrent(rows, queue[a]) /\ queue[a] \in Of(queue, rows, d)
    BY <1>3, <2>1, <2>2 DEF CurrentLast, Of
  <2> QED
    BY <1>4, <2>3
<1>6. Of(queue, rows, d) = {} => Whole(after, rows', d)
  BY <1>3, SteadyWhole
<1> QED
  BY <1>2, <1>3, <1>4, <1>5, <1>6 DEF Filling

\* What ingestion does beside the rebuilds of a live world: of the documents it has
\* not touched, the other indexes show what they did.
Beside ==
  /\ UNCHANGED <<world, rebuild, exercise>>
  /\ RowsKept /\ pending' \subseteq DOMAIN rows'
  /\ AliasesSound' /\ read' \subseteq read \cup {1}
  /\ DOMAIN indices \subseteq DOMAIN indices' /\ DOMAIN indices' \subseteq DOMAIN indices \cup {1}
  /\ \A i \in DOMAIN indices' : DOMAIN indices'[i] = IndexFields /\ Known(indices'[i], rows')
  /\ \A i \in DOMAIN indices \ {1} :
       /\ i \notin read => indices'[i].current = indices[i].current
       /\ \A d \in Documents \ indices'[i].touched :
            /\ d \notin indices[i].touched /\ Steady(d)
            /\ Shows(indices'[i], rows', d) = Shows(indices[i], rows, d)

\* Such a step keeps the invariant.
LEMMA BesideKeepsInv ==
  ASSUME RecoveryInv, Outside.live, Beside
  PROVE  RecoveryInv'
<1>1. Origin = rows /\ Origin' = rows' /\ Outside' = Outside /\ Rows' = Rows
  BY DEF Origin, Outside, Rows, Beside
<1>2. rows \in Seq(Rows) /\ RowsKept
  BY DEF RecoveryInv, Typed, Beside
<1>3. Typed'
  BY <1>1 DEF RecoveryInv, Typed, Beside, RowsKept
<1>4. \A r \in Rebuilders : r # 1
  BY Constants
<1>5. EarlyUnserved'
  BY <1>4 DEF RecoveryInv, EarlyUnserved, Beside
<1>6. TablesSound'
  BY <1>2 DEF RecoveryInv, TablesSound, Beside, RowsKept
<1>7. CurrentKnown'
  BY <1>1 DEF CurrentKnown, Beside
<1>8. ServableWhole'
  <2> SUFFICES ASSUME NEW i \in DOMAIN indices' \ {1}, Servable(i)',
                      NEW d \in Documents \ indices'[i].touched
               PROVE  Whole(indices'[i], rows', d)
    BY <1>1 DEF ServableWhole
  <2>1. i \in DOMAIN indices \ {1} /\ Servable(i)
    BY DEF Servable, Beside
  <2>2. /\ d \in Documents \ indices[i].touched /\ Steady(d)
        /\ Shows(indices'[i], rows', d) = Shows(indices[i], rows, d)
    BY <2>1 DEF Beside
  <2>3. Whole(indices[i], rows, d)
    BY <1>1, <2>1, <2>2 DEF RecoveryInv, ServableWhole
  <2> QED
    BY <1>2, <2>2, <2>3, SteadyWhole
<1>9. CandidateBlank'
  <2> SUFFICES ASSUME NEW r \in Rebuilders, rebuild[r].phase \in {"count", "select"},
                      r \in DOMAIN indices'
               PROVE  indices'[r].current = {}
    BY DEF CandidateBlank, Beside
  <2>1. r \in DOMAIN indices \ {1} /\ r \notin read
    BY <1>4 DEF Beside, RecoveryInv, EarlyUnserved, Early, Preparing
  <2> QED
    BY <2>1 DEF Beside, RecoveryInv, CandidateBlank
<1>10. ReplaySound'
  <2> SUFFICES ASSUME NEW r \in Rebuilders, rebuild[r].phase = "replay"
               PROVE  /\ ToSet(rebuild[r].queue) \subseteq DOMAIN rows'
                      /\ (r \in DOMAIN indices') =>
                           \A d \in Documents \ indices'[r].touched :
                             Filling(indices'[r], rows', rebuild[r].queue, d)
    BY <1>1 DEF ReplaySound, Beside
  <2>1. ToSet(rebuild[r].queue) \subseteq DOMAIN rows
    BY <1>1 DEF RecoveryInv, ReplaySound
  <2>2. ASSUME r \in DOMAIN indices', NEW d \in Documents \ indices'[r].touched
        PROVE  Filling(indices'[r], rows', rebuild[r].queue, d)
    <3>1. r \in DOMAIN indices \ {1}
      BY <1>4, <2>2 DEF Beside
    <3>2. /\ d \in Documents \ indices[r].touched /\ Steady(d)
          /\ Shows(indices'[r], rows', d) = Shows(indices[r], rows, d)
      BY <2>2, <3>1 DEF Beside
    <3>3. Filling(indices[r], rows, rebuild[r].queue, d)
      BY <1>1, <3>1, <3>2 DEF RecoveryInv, ReplaySound
    <3> QED
      BY <1>2, <2>1, <3>2, <3>3, SteadyFilling
  <2> QED
    BY <1>2, <2>1, <2>2 DEF RowsKept
<1>11. WrittenSound' /\ ExerciseSound'
  BY <1>1 DEF RecoveryInv, WrittenSound, ExerciseSound, Beside
<1>12. ReportIsTrue'
  BY DEF RecoveryInv, ReportIsTrue, Beside
<1>13. AliasesSound'
  BY DEF Beside
<1> QED
  BY <1>3, <1>5, <1>6, <1>7, <1>8, <1>9, <1>10, <1>11, <1>12, <1>13 DEF RecoveryInv

\* The exercise has indexes of its own: beside it rows change and nothing else.
LEMMA OutsideExercise ==
  ASSUME RecoveryInv, ~Outside.live, RowsKept, pending' \subseteq DOMAIN rows',
         UNCHANGED <<world, cluster, rebuild, exercise>>
  PROVE  RecoveryInv'
<1>1. Origin' = Origin /\ Outside' = Outside /\ Rows' = Rows
  BY DEF Origin, Outside, Rows
<1>2. Typed' /\ AliasesSound' /\ EarlyUnserved'
  BY <1>1 DEF RecoveryInv, Typed, AliasesSound, EarlyUnserved, cluster, RowsKept
<1>3. CurrentKnown' /\ CandidateBlank'
  BY <1>1 DEF RecoveryInv, CurrentKnown, CandidateBlank, cluster
<1>4. ServableWhole'
  BY <1>1 DEF RecoveryInv, ServableWhole, Servable, cluster
<1>5. ReplaySound'
  BY <1>1 DEF RecoveryInv, ReplaySound, cluster
<1>6. WrittenSound' /\ ExerciseSound'
  BY <1>1 DEF RecoveryInv, WrittenSound, ExerciseSound, cluster
<1>7. TablesSound' /\ ReportIsTrue'
  BY DEF RecoveryInv, TablesSound, ReportIsTrue, RowsKept
<1> QED
  BY <1>2, <1>3, <1>4, <1>5, <1>6, <1>7 DEF RecoveryInv

\* Rows change, and the indexes' chunks do not: the documents concerned are marked
\* as touched in every index.
LEMMA RecordingKeepsInv ==
  ASSUME RecoveryInv, RowsKept, pending' \subseteq DOMAIN rows', NEW d, Recording(d),
         \A e : (e # d) => Steady(e), UNCHANGED <<world, read, write, rebuild, exercise>>
  PROVE  RecoveryInv'
<1>1. CASE ~Outside.live
  BY <1>1, OutsideExercise DEF Recording, cluster
<1>2. CASE Outside.live
  <2>1. indices' = [i \in DOMAIN indices |-> Touched(indices[i], d)]
    BY <1>2 DEF Recording
  <2>2. DOMAIN indices' = DOMAIN indices
    BY <2>1
  <2>3. ASSUME NEW i \in DOMAIN indices
        PROVE  /\ DOMAIN indices'[i] = IndexFields /\ indices'[i].current = indices[i].current
               /\ indices'[i].touched = indices[i].touched \cup {d}
               /\ Known(indices[i], rows)
    <3>1. DOMAIN indices[i] = IndexFields /\ Known(indices[i], rows)
      BY <1>2 DEF RecoveryInv, Typed, CurrentKnown, Origin
    <3>2. indices'[i] = [indices[i] EXCEPT !.touched = @ \cup {d}]
      BY <2>1 DEF Touched
    <3> QED
      BY <3>1, <3>2 DEF IndexFields
  <2>4. \A i \in DOMAIN indices : Known(indices'[i], rows')
    BY <2>3 DEF Known, RowsKept
  <2>5. AliasesSound'
    BY <2>2 DEF RecoveryInv, AliasesSound
  <2>6. ASSUME NEW i \in DOMAIN indices \ {1}, NEW e \in Documents \ indices'[i].touched
        PROVE  /\ e \notin indices[i].touched /\ Steady(e)
               /\ Shows(indices'[i], rows', e) = Shows(indices[i], rows, e)
    <3>1. e # d /\ e \notin indices[i].touched
      BY <2>3, <2>6
    <3>2. Shows(indices'[i], rows', e) = Shows(indices[i], rows', e)
      BY <2>3 DEF Shows
    <3> QED
      BY <2>3, <3>1, <3>2, KeptShows
  <2>7. Beside
    BY <2>2, <2>3, <2>4, <2>5, <2>6 DEF Beside
  <2> QED
    BY <1>2, <2>7, BesideKeepsInv
<1> QED
  BY <1>1, <1>2

\* A submission reaches no index.
LEMMA SubmitKeepsInv ==
  ASSUME RecoveryInv, NEW d \in Outside.documents, NEW lines \in Outside.contents,
         NEW stamp \in 1..Outside.maxRows, Submit(d, lines, stamp), UNCHANGED exercise
  PROVE  RecoveryInv'
<1>1. RowsKept /\ pending' \subseteq DOMAIN rows' /\ \A e : Steady(e)
  BY SubmitRows
<1>2. UNCHANGED <<world, cluster, rebuild>>
  BY DEF Submit
<1>3. CASE ~Outside.live
  BY <1>1, <1>2, <1>3, OutsideExercise
<1>4. CASE Outside.live
  <2>1. UNCHANGED <<indices, read, write>>
    BY <1>2 DEF cluster
  <2>2. \A i \in DOMAIN indices : DOMAIN indices[i] = IndexFields /\ Known(indices[i], rows)
    BY <1>4 DEF RecoveryInv, Typed, CurrentKnown, Origin
  <2>3. \A i \in DOMAIN indices : /\ Known(indices[i], rows')
                                  /\ \A e : Shows(indices[i], rows', e) = Shows(indices[i], rows, e)
    BY <1>1, <2>2, KeptShows DEF Known, RowsKept
  <2>4. AliasesSound'
    BY <2>1 DEF RecoveryInv, AliasesSound
  <2>5. Beside
    BY <1>1, <1>2, <2>1, <2>2, <2>3, <2>4 DEF Beside
  <2> QED
    BY <1>4, <2>5, BesideKeepsInv
<1> QED
  BY <1>3, <1>4

\* A commit and a deletion are recorded.
LEMMA RecordedKeepsInv ==
  ASSUME RecoveryInv, (\E v : Commit(v)) \/ (\E d : Delete(d)), UNCHANGED exercise
  PROVE  RecoveryInv'
<1>1. CASE \E v : Commit(v)
  <2>1. PICK v : Commit(v)
    BY <1>1
  <2>2. Recording(rows[v].document) /\ UNCHANGED <<world, read, write, rebuild>>
    BY <2>1 DEF Commit
  <2> QED
    BY <2>1, <2>2, CommitRows, RecordingKeepsInv
<1>2. CASE \E d : Delete(d)
  <2>1. PICK d : Delete(d)
    BY <1>2
  <2>2. Recording(d) /\ UNCHANGED <<world, read, write, rebuild>>
    BY <2>1 DEF Delete
  <2> QED
    BY <2>1, <2>2, DeleteRows, RecordingKeepsInv
<1> QED
  BY <1>1, <1>2

\* The chunks of a version go to the index behind the write alias, in which its
\* document counts as touched from then on.
LEMMA WrittenKeepsInv ==
  ASSUME RecoveryInv, Outside.live, NEW v \in DOMAIN rows, Ensures,
         UNCHANGED <<world, rows, rebuild, exercise>>, pending' = pending \cup {v},
         read' = IF 1 \in DOMAIN indices THEN read ELSE read \cup {1},
         write' = IF 1 \in DOMAIN indices THEN write ELSE {1},
         indices' = [i \in DOMAIN Ensured |->
                       IF i \in write' THEN Touched(Upserted(Ensured[i], rows, v), rows[v].document)
                       ELSE Ensured[i]]
  PROVE  RecoveryInv'
<1> DEFINE before == Ensured
           d == rows[v].document
<1>1. /\ DOMAIN before = DOMAIN indices \cup {1}
      /\ \A i \in DOMAIN indices : before[i] = indices[i]
      /\ 1 \notin DOMAIN indices => before[1] = NewIndex
      /\ DOMAIN NewIndex = IndexFields /\ NewIndex.current = {}
  BY CreatedFacts DEF Ensured
<1>2. /\ DOMAIN indices' = DOMAIN before
      /\ \A i \in DOMAIN before :
           indices'[i] = IF i \in write' THEN Touched(Upserted(before[i], rows, v), d)
                         ELSE before[i]
  OBVIOUS
<1> HIDE DEF before
<1>3. \A i \in DOMAIN indices : DOMAIN indices[i] = IndexFields /\ Known(indices[i], rows)
  BY DEF RecoveryInv, Typed, CurrentKnown, Origin
<1>4. \A i \in DOMAIN before : DOMAIN before[i] = IndexFields /\ Known(before[i], rows)
  BY <1>1, <1>3 DEF Known
<1>5. ASSUME NEW i \in DOMAIN before, i \in write'
      PROVE  /\ DOMAIN indices'[i] = IndexFields /\ Known(indices'[i], rows)
             /\ indices'[i].touched = before[i].touched \cup {d}
             /\ \A e : (e # d) => Shows(indices'[i], rows, e) = Shows(before[i], rows, e)
  <2>1. PICK after : after = Upserted(before[i], rows, v)
    OBVIOUS
  <2>2. UpsertedTo(before[i], after, rows, v)
    BY <1>4, <2>1, UpsertedShows
  <2>3. indices'[i] = [after EXCEPT !.touched = @ \cup {d}]
    BY <1>2, <1>5, <2>1 DEF Touched
  <2>4. /\ DOMAIN indices'[i] = IndexFields /\ indices'[i].current = after.current
        /\ indices'[i].touched = before[i].touched \cup {d}
    BY <2>2, <2>3 DEF UpsertedTo, IndexFields
  <2>5. \A e : Shows(indices'[i], rows, e) = Shows(after, rows, e)
    BY <2>4 DEF Shows
  <2>6. Known(indices'[i], rows)
    BY <1>4, <2>2, <2>4, ChunksNamed DEF UpsertedTo, Known
  <2> QED
    BY <2>2, <2>4, <2>5, <2>6 DEF UpsertedTo
<1>6. read' = write' /\ read' \subseteq read \cup {1}
  BY DEF RecoveryInv, AliasesSound, Ensures
<1>7. AliasesSound'
  BY <1>1, <1>2, <1>6 DEF RecoveryInv, AliasesSound, Ensures
<1>8. RowsKept /\ pending' \subseteq DOMAIN rows' /\ \A e : Steady(e)
  BY DEF RecoveryInv, Typed, TablesSound, RowsKept, Steady
<1>9. \A i \in DOMAIN indices' : DOMAIN indices'[i] = IndexFields /\ Known(indices'[i], rows)
  BY <1>2, <1>4, <1>5
<1>10. ASSUME NEW i \in DOMAIN indices \ {1}
       PROVE  /\ i \notin read => indices'[i].current = indices[i].current
              /\ \A e \in Documents \ indices'[i].touched :
                   /\ e \notin indices[i].touched
                   /\ Shows(indices'[i], rows, e) = Shows(indices[i], rows, e)
  <2>1. before[i] = indices[i] /\ i \in DOMAIN before
    BY <1>1
  <2>2. CASE i \in write'
    <3>1. i \in read
      BY <1>6, <2>2
    <3> QED
      BY <1>5, <2>1, <2>2, <3>1
  <2>3. CASE i \notin write'
    BY <1>2, <2>1, <2>3
  <2> QED
    BY <2>2, <2>3
<1>11. Beside
  BY <1>1, <1>2, <1>6, <1>7, <1>8, <1>9, <1>10 DEF Beside
<1> QED
  BY <1>11, BesideKeepsInv

-----------------------------------------------------------------------------
(* The chunker *)

\* A set of pieces, of a text or of another piece.
Pieces(T) == \A x \in T : x.start \in Int /\ x.end \in Int

\* What tiling says, piece by piece.
LEMMA TilesUnfolded ==
  ASSUME NEW T, Pieces(T), NEW s \in Seq(T), NEW a \in Int, NEW b \in Int
  PROVE  Tiles(s, a, b) <=>
           /\ (Len(s) = 0) => (a = b)
           /\ (Len(s) # 0) => (s[1].start = a /\ s[Len(s)].end = b)
           /\ \A n \in 1..Len(s) : s[n].start < s[n].end
           /\ \A n \in 1..Len(s) - 1 : s[n].end = s[n + 1].start
<1>1. s = <<>> <=> Len(s) = 0
  OBVIOUS
<1>2. DOMAIN s = 1..Len(s) /\ Last(s) = s[Len(s)]
  BY DEF Last
<1>3. Len(s) = 0 => 1..Len(s) = {} /\ 1..Len(s) - 1 = {}
  OBVIOUS
<1>4. CASE Len(s) = 0
  BY <1>1, <1>3, <1>4 DEF Tiles
<1>5. CASE Len(s) # 0
  BY <1>1, <1>2, <1>5 DEF Tiles
<1>6. QED
  BY <1>4, <1>5

\* The next piece goes where the others end.
LEMMA TilesAppend ==
  ASSUME NEW T, Pieces(T), NEW s \in Seq(T), NEW x \in T, NEW a \in Int,
         Tiles(s, a, x.start), x.start < x.end
  PROVE  Tiles(Append(s, x), a, x.end)
<1> DEFINE t == Append(s, x)
<1>0. x.start \in Int /\ x.end \in Int
  BY DEF Pieces
<1>1. t \in Seq(T) /\ Len(t) = Len(s) + 1 /\ Len(s) \in Nat
  OBVIOUS
<1>2. t[Len(s) + 1] = x /\ \A n \in 1..Len(s) : t[n] = s[n]
  OBVIOUS
<1> HIDE DEF t
<1>3. /\ (Len(s) = 0) => (a = x.start)
      /\ (Len(s) # 0) => (s[1].start = a /\ s[Len(s)].end = x.start)
      /\ \A n \in 1..Len(s) : s[n].start < s[n].end
      /\ \A n \in 1..Len(s) - 1 : s[n].end = s[n + 1].start
  BY <1>0, TilesUnfolded
<1>4. t[1].start = a
  BY <1>1, <1>2, <1>3
<1>5. \A n \in 1..Len(t) : t[n].start < t[n].end
  BY <1>1, <1>2, <1>3
<1>6. ASSUME NEW n \in 1..Len(t) - 1 PROVE t[n].end = t[n + 1].start
  <2>1. n \in 1..Len(s) /\ t[n] = s[n] /\ Len(s) # 0
    BY <1>1, <1>2
  <2>2. CASE n = Len(s)
    BY <1>2, <1>3, <2>1, <2>2
  <2>3. CASE n # Len(s)
    <3>1. n + 1 \in 1..Len(s) /\ n \in 1..Len(s) - 1
      BY <2>1, <2>3
    <3>2. QED
      BY <1>2, <1>3, <2>1, <3>1
  <2>4. QED
    BY <2>2, <2>3
<1>7. Len(t) # 0 /\ t[Len(t)].end = x.end
  BY <1>1, <1>2
<1>8. Tiles(t, a, x.end)
  BY <1>0, <1>1, <1>4, <1>5, <1>6, <1>7, TilesUnfolded
<1>9. QED
  BY <1>8 DEF t

\* Two tilings, one after the other.
LEMMA TilesConcat ==
  ASSUME NEW T, Pieces(T), NEW s \in Seq(T), NEW t \in Seq(T),
         NEW a \in Int, NEW b \in Int, NEW c \in Int, Tiles(s, a, b), Tiles(t, b, c)
  PROVE  Tiles(s \o t, a, c)
<1> DEFINE u == s \o t
<1>1. u \in Seq(T) /\ Len(u) = Len(s) + Len(t) /\ Len(s) \in Nat /\ Len(t) \in Nat
  OBVIOUS
<1>2. /\ \A n \in 1..Len(s) : u[n] = s[n]
      /\ \A n \in Len(s) + 1..Len(s) + Len(t) : u[n] = t[n - Len(s)]
  OBVIOUS
<1> HIDE DEF u
<1>3. /\ (Len(s) = 0) => (a = b)
      /\ (Len(s) # 0) => (s[1].start = a /\ s[Len(s)].end = b)
      /\ \A n \in 1..Len(s) : s[n].start < s[n].end
      /\ \A n \in 1..Len(s) - 1 : s[n].end = s[n + 1].start
  BY TilesUnfolded
<1>4. /\ (Len(t) = 0) => (b = c)
      /\ (Len(t) # 0) => (t[1].start = b /\ t[Len(t)].end = c)
      /\ \A n \in 1..Len(t) : t[n].start < t[n].end
      /\ \A n \in 1..Len(t) - 1 : t[n].end = t[n + 1].start
  BY TilesUnfolded
<1>5. Len(u) # 0 => u[1].start = a /\ u[Len(u)].end = c
  <2>1. Len(s) # 0 => u[1] = s[1] /\ u[Len(s)] = s[Len(s)]
    BY <1>1, <1>2
  <2>2. Len(t) # 0 => u[Len(s) + 1] = t[1] /\ u[Len(u)] = t[Len(t)]
    <3> SUFFICES ASSUME Len(t) # 0 PROVE u[Len(s) + 1] = t[1] /\ u[Len(u)] = t[Len(t)]
      OBVIOUS
    <3>1. Len(s) + 1 \in Len(s) + 1..Len(s) + Len(t) /\ Len(u) \in Len(s) + 1..Len(s) + Len(t)
      BY <1>1
    <3>2. (Len(s) + 1) - Len(s) = 1 /\ Len(u) - Len(s) = Len(t)
      BY <1>1
    <3>3. QED
      BY <1>2, <3>1, <3>2
  <2>3. QED
    BY <1>1, <1>3, <1>4, <2>1, <2>2
<1>6. \A n \in 1..Len(u) : u[n].start < u[n].end
  <2> SUFFICES ASSUME NEW n \in 1..Len(u) PROVE u[n].start < u[n].end
    OBVIOUS
  <2>1. CASE n <= Len(s)
    BY <1>1, <1>2, <1>3, <2>1
  <2>2. CASE n > Len(s)
    <3>1. n - Len(s) \in 1..Len(t) /\ u[n] = t[n - Len(s)]
      BY <1>1, <1>2, <2>2
    <3>2. QED
      BY <1>4, <3>1
  <2>3. QED
    BY <1>1, <2>1, <2>2
<1>7. \A n \in 1..Len(u) - 1 : u[n].end = u[n + 1].start
  <2> SUFFICES ASSUME NEW n \in 1..Len(u) - 1 PROVE u[n].end = u[n + 1].start
    OBVIOUS
  <2>1. CASE n < Len(s)
    <3>1. n \in 1..Len(s) - 1 /\ n \in 1..Len(s) /\ n + 1 \in 1..Len(s)
      BY <1>1, <2>1
    <3>2. QED
      BY <1>2, <1>3, <3>1
  <2>2. CASE n = Len(s)
    <3>1. Len(s) \in 1..Len(s) /\ Len(t) # 0 /\ Len(s) # 0
      BY <1>1, <2>2
    <3>2. n + 1 \in Len(s) + 1..Len(s) + Len(t) /\ (n + 1) - Len(s) = 1
      BY <1>1, <2>2
    <3>3. u[n] = s[Len(s)] /\ u[n + 1] = t[1]
      BY <1>2, <2>2, <3>1, <3>2
    <3>4. QED
      BY <1>3, <1>4, <3>1, <3>3
  <2>3. CASE n > Len(s)
    <3>0. /\ n \in Len(s) + 1..Len(s) + Len(t) /\ n + 1 \in Len(s) + 1..Len(s) + Len(t)
          /\ (n + 1) - Len(s) = (n - Len(s)) + 1 /\ n - Len(s) \in 1..Len(t) - 1
      BY <1>1, <2>3
    <3>1. /\ n - Len(s) \in 1..Len(t) - 1 /\ u[n] = t[n - Len(s)]
          /\ u[n + 1] = t[(n - Len(s)) + 1]
      BY <1>2, <3>0
    <3>2. QED
      BY <1>4, <3>1
  <2>4. QED
    BY <1>1, <2>1, <2>2, <2>3
<1>8. Len(u) = 0 => a = c
  <2> DEFINE j == Len(s)
             k == Len(t)
  <2>0. j \in Nat /\ k \in Nat /\ Len(u) = j + k
    BY <1>1
  <2> HIDE DEF j, k
  <2>1. Len(u) = 0 => j = 0 /\ k = 0
    BY <2>0
  <2>2. QED
    BY <1>3, <1>4, <2>1 DEF j, k
<1>9. Tiles(u, a, c)
  BY <1>1, <1>5, <1>6, <1>7, <1>8, TilesUnfolded
<1>10. QED
  BY <1>9 DEF u

\* A later piece starts where an earlier one has ended, and no piece sticks out.
LEMMA TilesSpread ==
  ASSUME NEW T, Pieces(T), NEW s \in Seq(T), NEW a \in Int, NEW b \in Int, Tiles(s, a, b)
  PROVE  /\ a <= b
         /\ \A n \in 1..Len(s) : a <= s[n].start /\ s[n].start < s[n].end /\ s[n].end <= b
         /\ \A m, n \in 1..Len(s) : m < n => s[m].end <= s[n].start
<1> DEFINE size == Len(s)
<1>0. size \in Nat /\ \A n \in 1..size : s[n].start \in Int /\ s[n].end \in Int
  BY DEF Pieces
<1>1. /\ (size = 0) => (a = b)
      /\ (size # 0) => (s[1].start = a /\ s[size].end = b)
      /\ \A n \in 1..size : s[n].start < s[n].end
      /\ \A n \in 1..size - 1 : s[n].end = s[n + 1].start
  BY TilesUnfolded
<1> HIDE DEF size
<1>2. ASSUME NEW m \in 1..size PROVE \A n \in 1..size : m < n => s[m].end <= s[n].start
  <2> DEFINE U == {n \in 0..size : (m < n) => s[m].end <= s[n].start}
  <2>1. 0 \in U
    BY <1>0
  <2>2. ASSUME NEW n \in 1..size, n - 1 \in U PROVE n \in U
    <3>0. size \in Nat /\ n \in 0..size
      BY <1>0
    <3>1. CASE n <= m
      <4>1. ~(m < n)
        BY <3>0, <3>1
      <4>2. QED
        BY <3>0, <4>1
    <3>2. CASE n = m + 1
      <4>1. m \in 1..size - 1 /\ s[n].start \in Int
        BY <1>0, <3>0, <3>2
      <4>2. s[m].end = s[n].start
        BY <1>1, <3>2, <4>1
      <4>3. s[m].end <= s[n].start
        BY <4>1, <4>2
      <4>4. QED
        BY <3>0, <4>3
    <3>3. CASE n > m + 1
      <4>1. m < n - 1 /\ n - 1 \in 1..size - 1 /\ n - 1 \in 1..size
        BY <1>0, <3>3
      <4>2. s[m].end <= s[n - 1].start
        BY <2>2, <4>1
      <4>3. s[n - 1].end = s[n].start /\ s[n - 1].start < s[n - 1].end
        BY <1>0, <1>1, <4>1
      <4>4. s[m].end \in Int /\ s[n - 1].start \in Int /\ s[n].start \in Int
        BY <1>0, <4>1
      <4>5. s[m].end <= s[n].start
        BY <4>2, <4>3, <4>4
      <4>6. QED
        BY <3>0, <4>5
    <3>4. QED
      BY <3>0, <3>1, <3>2, <3>3
  <2>3. \A n \in 1..size : n - 1 \in U => n \in U
    BY <2>2
  <2> HIDE DEF U
  <2>4. \A n \in 0..size : n \in U
    BY <1>0, <2>1, <2>3, UpTo
  <2>5. QED
    BY <1>0, <2>4 DEF U
<1>3. ASSUME NEW n \in 1..size PROVE a <= s[n].start /\ s[n].start < s[n].end /\ s[n].end <= b
  <2>1. 1 \in 1..size /\ size \in 1..size /\ size # 0
    BY <1>0
  <2>2. n = 1 \/ s[1].end <= s[n].start
    BY <1>0, <1>2, <2>1
  <2>3. n = size \/ s[n].end <= s[size].start
    BY <1>0, <1>2, <2>1
  <2>4. /\ s[1].start = a /\ s[size].end = b /\ s[n].start < s[n].end
        /\ s[1].start < s[1].end /\ s[size].start < s[size].end
    BY <1>1, <2>1
  <2>5. /\ s[1].end \in Int /\ s[n].start \in Int /\ s[n].end \in Int
        /\ s[size].start \in Int
    BY <1>0, <2>1
  <2>6. a <= s[n].start
    BY <2>2, <2>4, <2>5
  <2>7. s[n].end <= b
    BY <2>3, <2>4, <2>5
  <2>8. QED
    BY <2>4, <2>6, <2>7
<1>4. a <= b
  <2>1. CASE size = 0
    BY <1>1, <2>1
  <2>2. CASE size # 0
    <3>1. 1 \in 1..size
      BY <1>0, <2>2
    <3>2. QED
      BY <1>0, <1>3, <3>1
  <2>3. QED
    BY <2>1, <2>2
<1>5. QED
  BY <1>2, <1>3, <1>4 DEF size

\* Every position is in a piece.
LEMMA TilesCover ==
  ASSUME NEW T, Pieces(T), NEW s \in Seq(T), NEW a \in Int, NEW b \in Int, Tiles(s, a, b),
         NEW p \in Int, a <= p, p < b
  PROVE  \E n \in 1..Len(s) : s[n].start <= p /\ p < s[n].end
<1> DEFINE size == Len(s)
           U == {n \in 1..size : p < s[n].end}
<1>0. size \in Nat /\ \A n \in 1..size : s[n].start \in Int /\ s[n].end \in Int
  BY DEF Pieces
<1>1. /\ (size = 0) => (a = b)
      /\ (size # 0) => (s[1].start = a /\ s[size].end = b)
      /\ \A n \in 1..size - 1 : s[n].end = s[n + 1].start
  BY TilesUnfolded
<1> HIDE DEF size
<1>2. size # 0 /\ size \in U
  BY <1>0, <1>1
<1>3. U \subseteq Nat /\ U # {}
  BY <1>0, <1>2
<1>4. PICK n \in U : \A m \in U : n <= m
  BY <1>3, LeastNat
<1>5. n \in 1..size /\ p < s[n].end
  BY <1>4
<1>6. s[n].start <= p
  <2>1. CASE n = 1
    BY <1>1, <1>2, <2>1
  <2>2. CASE n # 1
    <3>1. n - 1 \in 1..size - 1 /\ n - 1 \in 1..size /\ ~(n <= n - 1)
      BY <1>0, <1>5, <2>2
    <3>2. n - 1 \notin U
      BY <1>4, <3>1
    <3>3. s[n - 1].end <= p /\ s[n - 1].end = s[(n - 1) + 1].start /\ (n - 1) + 1 = n
      BY <1>0, <1>1, <1>5, <3>1, <3>2
    <3>4. QED
      BY <3>3
  <2>3. QED
    BY <2>1, <2>2
<1>7. QED
  BY <1>5, <1>6 DEF size

\* The words of a range are those of its two parts, and a position holds at most
\* one.
LEMMA CountFacts ==
  ASSUME NEW text, NEW a \in Int, NEW b \in Int
  PROVE  /\ Count(text, a, b) \in Nat
         /\ a >= b => Count(text, a, b) = 0
         /\ a + 1 = b => Count(text, a, b) = IF text[b] = "word" THEN 1 ELSE 0
         /\ \A c \in Int : a <= b /\ b <= c =>
              Count(text, a, c) = Count(text, a, b) + Count(text, b, c)
<1> DEFINE Words(x, y) == {p \in x..(y - 1) : text[p + 1] = "word"}
<1>1. ASSUME NEW x \in Int, NEW y \in Int
      PROVE  IsFiniteSet(Words(x, y)) /\ Cardinality(Words(x, y)) \in Nat
  <2>1. IsFiniteSet(x..(y - 1))
    BY FS_Interval
  <2>2. Words(x, y) \in SUBSET (x..(y - 1))
    OBVIOUS
  <2> HIDE DEF Words
  <2>3. IsFiniteSet(Words(x, y))
    BY <2>1, <2>2, FS_Subset
  <2>4. QED
    BY <2>3, FS_CardinalityType
<1>2. \A x, y \in Int : Count(text, x, y) = Cardinality(Words(x, y))
  BY DEF Count
<1>3. a >= b => Words(a, b) = {}
  OBVIOUS
<1>4. a + 1 = b => Words(a, b) = IF text[b] = "word" THEN {a} ELSE {}
  OBVIOUS
<1>5. ASSUME NEW c \in Int, a <= b, b <= c
      PROVE  Count(text, a, c) = Count(text, a, b) + Count(text, b, c)
  <2>1. Words(a, c) = Words(a, b) \cup Words(b, c) /\ Words(a, b) \cap Words(b, c) = {}
    BY <1>5
  <2>2. /\ IsFiniteSet(Words(a, b)) /\ IsFiniteSet(Words(b, c))
        /\ Cardinality(Words(a, b)) \in Nat /\ Cardinality(Words(b, c)) \in Nat
    BY <1>1
  <2> HIDE DEF Words
  <2>3. Cardinality(Words(a, c)) = Cardinality(Words(a, b)) + Cardinality(Words(b, c))
                                     - Cardinality(Words(a, b) \cap Words(b, c))
    BY <2>1, <2>2, FS_Union
  <2>4. Cardinality(Words(a, b) \cap Words(b, c)) = 0
    BY <2>1, FS_EmptySet
  <2>5. QED
    BY <1>2, <2>2, <2>3, <2>4
<1> HIDE DEF Words
<1>6. Count(text, a, b) \in Nat
  BY <1>1, <1>2
<1>7. a >= b => Count(text, a, b) = 0
  BY <1>2, <1>3, FS_EmptySet
<1>8. a + 1 = b => Count(text, a, b) = IF text[b] = "word" THEN 1 ELSE 0
  BY <1>2, <1>4, FS_EmptySet, FS_Singleton
<1>9. QED
  BY <1>5, <1>6, <1>7, <1>8

\* Where a range has more words than a number, one of its words has that number
\* of words before it.
LEMMA WordAt ==
  ASSUME NEW text, NEW a \in Int, NEW b \in Int, NEW k \in Nat, Count(text, a, b) > k
  PROVE  \E p \in a..(b - 1) : text[p + 1] = "word" /\ Count(text, a, p) = k
<1>1. a < b
  BY CountFacts
<1> DEFINE T == {d \in 0..(b - a) : Count(text, a, a + d) > k}
<1>2. b - a \in T /\ a + (b - a) = b
  BY <1>1
<1>3. T \subseteq Nat /\ T # {}
  BY <1>2
<1>4. PICK d \in T : \A e \in T : d <= e
  BY <1>3, LeastNat
<1>5. d \in 0..(b - a) /\ Count(text, a, a + d) > k
  BY <1>4
<1>6. d # 0
  BY <1>5, CountFacts
<1> DEFINE p == a + d - 1
<1>7. p \in a..(b - 1) /\ p \in Int /\ a + d \in Int /\ p + 1 = a + d /\ d - 1 \in 0..(b - a)
      /\ a + (d - 1) = p /\ ~(d <= d - 1) /\ a <= p
  BY <1>5, <1>6
<1>8. ~(Count(text, a, p) > k)
  BY <1>4, <1>7
<1> HIDE DEF p, T
<1>9. /\ Count(text, a, p) \in Nat
      /\ Count(text, p, p + 1) = IF text[p + 1] = "word" THEN 1 ELSE 0
      /\ Count(text, a, p + 1) = Count(text, a, p) + Count(text, p, p + 1)
  BY <1>7, CountFacts
<1>10. QED
  BY <1>5, <1>7, <1>8, <1>9

\* A range has no more words than positions.
LEMMA CountBound ==
  ASSUME NEW text, NEW a \in Int, NEW b \in Int, a <= b
  PROVE  Count(text, a, b) <= b - a
<1> DEFINE words == {p \in a..(b - 1) : text[p + 1] = "word"}
<1>1. words \in SUBSET (a..(b - 1))
  OBVIOUS
<1> DEFINE last == b - 1
<1>2. IsFiniteSet(a..last) /\ Cardinality(a..last) = IF a > last THEN 0 ELSE last - a + 1
  <2>1. last \in Int
    OBVIOUS
  <2> HIDE DEF last
  <2>2. QED
    BY <2>1, FS_Interval, Zenon
<1>3. Count(text, a, b) = Cardinality(words)
  BY DEF Count
<1> HIDE DEF words
<1>4. Cardinality(words) <= Cardinality(a..last)
  BY <1>1, <1>2, FS_Subset
<1>5. QED
  BY <1>2, <1>3, <1>4

\* A piece of a text: where it starts and where it ends.
Ranges == [start : Int, end : Int]

\* A section is cut in pieces that have at most MaxTokens words: a word that has a
\* next multiple of MaxTokens before it would be a cut of its own.
LEMMA SplitFacts ==
  ASSUME NEW text, NEW a \in Int, NEW b \in Int, a < b
  PROVE  /\ SplitRange(text, a, b) \in Seq(Ranges)
         /\ Tiles(SplitRange(text, a, b), a, b)
         /\ \A n \in 1..Len(SplitRange(text, a, b)) :
              Count(text, SplitRange(text, a, b)[n].start, SplitRange(text, a, b)[n].end)
                <= MaxTokens
<1> DEFINE bounds == {a, b} \cup Cuts(text, a, b)
           at == Increasing(bounds)
           size == Cardinality(bounds)
           pieces == SplitRange(text, a, b)
<1>0. MaxTokens \in Nat /\ MaxTokens > 0
  BY ChunkingAssumption
<1>1. bounds \subseteq a..b /\ a \in bounds /\ b \in bounds
  BY DEF Cuts
<1>2. IsFiniteSet(bounds)
  BY <1>1, FS_Interval, FS_Subset
<1>3. \A p \in (a + 1)..(b - 1) : \A n \in 1..(b - a) :
        text[p + 1] = "word" /\ Count(text, a, p) = n * MaxTokens => p \in bounds
  BY DEF Cuts
<1>4. ASSUME NEW x \in bounds, x # b PROVE \E n \in 0..(b - a) : Count(text, a, x) = n * MaxTokens
  <2>1. CASE x = a
    <3>1. Count(text, a, a) = 0 * MaxTokens
      BY <1>0, CountFacts
    <3>2. 0 \in 0..(b - a)
      OBVIOUS
    <3>3. QED
      BY <2>1, <3>1, <3>2
  <2>2. CASE x # a
    BY <1>4, <2>2 DEF Cuts
  <2>3. QED
    BY <2>1, <2>2
<1>5. pieces = [n \in 1..size - 1 |-> [start |-> at[n], end |-> at[n + 1]]]
  BY DEF SplitRange
<1> HIDE DEF bounds
<1>6. bounds \subseteq Int
  BY <1>1
<1>7. /\ size \in Nat /\ at \in [1..size -> bounds]
      /\ \A x \in bounds : \E n \in 1..size : at[n] = x
      /\ \A m, n \in 1..size : m < n <=> at[m] < at[n]
  BY <1>2, <1>6, IncreasingFacts
<1> HIDE DEF at, size, pieces
<1>8. \A n \in 1..size : at[n] \in bounds /\ at[n] \in Int /\ a <= at[n] /\ at[n] <= b
  <2>1. \A x \in bounds : x \in Int /\ a <= x /\ x <= b
    BY <1>1
  <2>2. \A n \in 1..size : at[n] \in bounds
    BY <1>7
  <2>3. QED
    BY <2>1, <2>2
<1>9. PICK i \in 1..size, j \in 1..size : at[i] = a /\ at[j] = b
  BY <1>1, <1>7
<1>10. i = 1 /\ j = size /\ i < j
  <2>1. 1 \in 1..size /\ size \in 1..size
    BY <1>7, <1>9
  <2>2. ~(1 < i) /\ ~(j < size) /\ i < j
    BY <1>7, <1>8, <1>9, <2>1
  <2>3. QED
    BY <1>7, <1>9, <2>2
<1>11. /\ pieces \in Seq(Ranges) /\ Len(pieces) = size - 1
       /\ \A n \in 1..size - 1 : pieces[n].start = at[n] /\ pieces[n].end = at[n + 1]
  <2>1. \A n \in 1..size - 1 : n \in 1..size /\ n + 1 \in 1..size
    BY <1>7
  <2>2. \A n \in 1..size - 1 : pieces[n] = [start |-> at[n], end |-> at[n + 1]]
    BY <1>5
  <2>3. \A n \in 1..size - 1 : pieces[n] \in Ranges
    <3> SUFFICES ASSUME NEW n \in 1..size - 1 PROVE pieces[n] \in Ranges
      OBVIOUS
    <3>1. at[n] \in Int /\ at[n + 1] \in Int
      BY <1>8, <2>1
    <3>2. pieces[n] = [start |-> at[n], end |-> at[n + 1]]
      BY <2>2
    <3>3. [start |-> at[n], end |-> at[n + 1]] \in Ranges
      BY <3>1 DEF Ranges
    <3>4. QED
      BY <3>2, <3>3
  <2>4. DOMAIN pieces = 1..size - 1 /\ size - 1 \in Nat
    BY <1>5, <1>7, <1>9
  <2>5. pieces \in [1..size - 1 -> Ranges]
    BY <1>5, <2>3, <2>4
  <2>6. pieces \in Seq(Ranges) /\ Len(pieces) = size - 1
    BY <2>4, <2>5
  <2>7. QED
    BY <2>2, <2>6
<1>12. Tiles(pieces, a, b)
  <2>1. size - 1 # 0 /\ 1 \in 1..size - 1 /\ size - 1 \in 1..size - 1 /\ (size - 1) + 1 = size
    BY <1>7, <1>9, <1>10
  <2>2. pieces[1].start = a /\ pieces[size - 1].end = b
    BY <1>9, <1>10, <1>11, <2>1
  <2>3. \A n \in 1..size - 1 : n \in 1..size /\ n + 1 \in 1..size /\ n < n + 1
    BY <1>7
  <2>4. \A n \in 1..size - 1 : pieces[n].start < pieces[n].end
    BY <1>7, <1>11, <2>3
  <2>5. \A n \in 1..(size - 1) - 1 : pieces[n].end = pieces[n + 1].start
    <3> SUFFICES ASSUME NEW n \in 1..(size - 1) - 1 PROVE pieces[n].end = pieces[n + 1].start
      OBVIOUS
    <3>1. n \in 1..size - 1 /\ n + 1 \in 1..size - 1
      BY <1>7
    <3>2. QED
      BY <1>11, <3>1
  <2>6. Pieces(Ranges)
    BY DEF Pieces, Ranges
  <2>7. QED
    BY <1>11, <2>1, <2>2, <2>4, <2>5, <2>6, TilesUnfolded
<1>13. ASSUME NEW n \in 1..size - 1 PROVE Count(text, at[n], at[n + 1]) <= MaxTokens
  <2> DEFINE x == at[n]
             y == at[n + 1]
  <2>1. n \in 1..size /\ n + 1 \in 1..size /\ n < n + 1
    BY <1>7
  <2>2. x \in bounds /\ y \in bounds /\ x \in Int /\ y \in Int /\ a <= x /\ x < y /\ y <= b
    BY <1>7, <1>8, <2>1
  <2>3. ASSUME NEW p \in bounds, x < p, p < y PROVE FALSE
    <3>1. PICK k \in 1..size : at[k] = p
      BY <1>7
    <3>2. n < k /\ k < n + 1
      BY <1>7, <2>1, <2>3, <3>1
    <3>3. QED
      BY <3>2
  <2> HIDE DEF x, y
  <2>4. ASSUME Count(text, x, y) > MaxTokens PROVE FALSE
    <3>1. PICK p \in x..(y - 1) : text[p + 1] = "word" /\ Count(text, x, p) = MaxTokens
      BY <1>0, <2>2, <2>4, WordAt
    <3>2. p \in Int /\ x <= p /\ p < y
      BY <2>2
    <3>3. p # x
      BY <1>0, <2>2, <3>1, CountFacts
    <3>4. PICK q \in 0..(b - a) : Count(text, a, x) = q * MaxTokens
      BY <1>4, <2>2
    <3>5. Count(text, a, p) = q * MaxTokens + MaxTokens
      BY <2>2, <3>1, <3>2, <3>4, CountFacts
    <3>6. Count(text, a, p) = (q + 1) * MaxTokens
      BY <1>0, <3>5
    <3>7. Count(text, a, p) <= p - a
      BY <2>2, <3>2, CountBound
    <3>8. q + 1 \in 1..(b - a)
      <4>1. q \in Nat /\ (q + 1) * MaxTokens >= q + 1
        BY <1>0
      <4>2. q + 1 <= p - a /\ p - a <= b - a
        <5>1. Count(text, a, p) \in Nat
          BY <2>2, <3>2, CountFacts
        <5>2. q + 1 <= Count(text, a, p)
          BY <3>6, <4>1
        <5>3. QED
          BY <2>2, <3>2, <3>7, <4>1, <5>1, <5>2
      <4>3. QED
        BY <2>2, <3>2, <4>1, <4>2
    <3>9. p \in bounds
      <4>1. p \in (a + 1)..(b - 1)
        BY <2>2, <3>2, <3>3
      <4>2. QED
        BY <1>3, <3>1, <3>6, <3>8, <4>1
    <3>10. x < p
      BY <2>2, <3>2, <3>3
    <3>11. QED
      BY <2>3, <3>2, <3>9, <3>10
  <2>5. Count(text, x, y) \in Nat
    BY <2>2, CountFacts
  <2>6. QED
    BY <1>0, <2>4, <2>5 DEF x, y
<1>14. \A n \in 1..Len(pieces) : Count(text, pieces[n].start, pieces[n].end) <= MaxTokens
  BY <1>11, <1>13
<1>15. QED
  BY <1>11, <1>12, <1>14 DEF pieces

Letters == {"word", "newline"}

\* Where the lines of a document start, and the last one ends.
Offsets(at, lines) ==
  /\ at \in [0..Len(lines) -> Nat] /\ at[0] = 0
  /\ \A n \in 1..Len(lines) : at[n] = at[n - 1] + lines[n].words + 1

\* The text of a document is as long as its lines are.
LEMMA TextOffsets ==
  ASSUME NEW lines, IsDocument(lines)
  PROVE  \E at : Offsets(at, lines) /\ at[Len(lines)] = Len(Text(lines))
<1> DEFINE size == Len(lines)
           V == Seq(Letters)
           piece == [n \in 1..size |-> Written(lines[n])]
           step == [p \in (1..size) \X V |-> p[2] \o piece[p[1]]]
           Body(g) == [n \in 0..size |-> IF n = 0 THEN <<>> ELSE g[n - 1] \o Written(lines[n])]
           text == CHOOSE g : g = Body(g)
<1>0. size \in Nat
  BY DEF IsDocument
<1>1. \A n \in 1..size : lines[n].words \in Nat
  BY DEF IsDocument, ToSet
<1>2. ASSUME NEW n \in 1..size
      PROVE  piece[n] = Written(lines[n]) /\ piece[n] \in V /\ Len(piece[n]) = lines[n].words + 1
  <2> DEFINE words == [w \in 1..lines[n].words |-> "word"]
  <2>1. words \in Seq(Letters) /\ Len(words) = lines[n].words
    BY <1>1 DEF Letters
  <2>2. piece[n] = Append(words, "newline")
    BY DEF Written
  <2> HIDE DEF words
  <2>3. piece[n] \in V /\ Len(piece[n]) = lines[n].words + 1
    BY <2>1, <2>2 DEF Letters
  <2>4. QED
    BY <2>3
<1>3. Text(lines) = text[size]
  BY DEF Text
<1>4. <<>> \in V
  OBVIOUS
<1> HIDE DEF piece
<1>5. step \in [(1..size) \X V -> V]
  <2>1. \A n \in 1..size : \A v \in V : v \o piece[n] \in V
    BY <1>2
  <2>2. \A p \in (1..size) \X V : p[2] \o piece[p[1]] \in V
    BY <2>1
  <2> HIDE DEF V, size
  <2>3. QED
    BY <2>2
<1>6. \A n \in 1..size : \A v \in V : step[n, v] = v \o Written(lines[n])
  BY <1>2
<1> HIDE DEF step, size, V
<1>7. PICK f \in [0..size -> V] : Accumulates(f, <<>>, step, size)
  BY <1>0, <1>4, <1>5, Accumulated
<1>8. \A n \in 0..size : f[n] = IF n = 0 THEN <<>> ELSE f[n - 1] \o Written(lines[n])
  <2> SUFFICES ASSUME NEW n \in 0..size
               PROVE  f[n] = IF n = 0 THEN <<>> ELSE f[n - 1] \o Written(lines[n])
    OBVIOUS
  <2>1. n = 0 \/ (n \in 1..size /\ n - 1 \in 0..size)
    BY <1>0
  <2>2. f[n] = IF n = 0 THEN <<>> ELSE step[n, f[n - 1]]
    BY <1>7 DEF Accumulates
  <2>3. QED
    BY <1>6, <2>1, <2>2
<1>9. f = Body(f)
  BY <1>7, <1>8
<1>10. text = Body(text)
  <2> HIDE DEF Body
  <2>1. QED
    BY <1>9, Zenon
<1> HIDE DEF text
<1>11. text[0] = <<>> /\ \A n \in 1..size : text[n] = text[n - 1] \o Written(lines[n])
  <2>1. 0 \in 0..size /\ \A n \in 1..size : n \in 0..size /\ n # 0
    BY <1>0
  <2>2. \A n \in 0..size : text[n] = IF n = 0 THEN <<>> ELSE text[n - 1] \o Written(lines[n])
    BY <1>10
  <2>3. QED
    BY <2>1, <2>2
<1>12. \A n \in 1..size : text[n] = text[n - 1] \o piece[n]
  <2> SUFFICES ASSUME NEW n \in 1..size PROVE text[n] = text[n - 1] \o piece[n]
    OBVIOUS
  <2>1. text[n] = text[n - 1] \o Written(lines[n])
    BY <1>11
  <2>2. piece[n] = Written(lines[n])
    BY <1>2
  <2>3. QED
    BY <2>1, <2>2
<1> DEFINE T == {n \in 0..size : text[n] \in V}
<1>13. \A n \in 0..size : n \in T
  <2>1. 0 \in T
    BY <1>0, <1>4, <1>11
  <2>2. \A n \in 1..size : n - 1 \in T => n \in T
    <3> SUFFICES ASSUME NEW n \in 1..size, n - 1 \in T PROVE n \in T
      OBVIOUS
    <3>1. text[n] = text[n - 1] \o piece[n]
      BY <1>12, Zenon
    <3>2. n \in 0..size
      BY <1>0
    <3>3. text[n - 1] \in V /\ piece[n] \in V
      BY <1>2
    <3>4. text[n] \in V
      BY <3>1, <3>3 DEF V
    <3>5. QED
      BY <3>2, <3>4
  <2> HIDE DEF T
  <2>3. QED
    BY <1>0, <2>1, <2>2, UpTo
<1> DEFINE at == [n \in 0..size |-> Len(text[n])]
<1>14. \A n \in 1..size : at[n] = at[n - 1] + lines[n].words + 1
  <2> SUFFICES ASSUME NEW n \in 1..size PROVE at[n] = at[n - 1] + lines[n].words + 1
    OBVIOUS
  <2>1. text[n] = text[n - 1] \o piece[n] /\ n \in 0..size /\ n - 1 \in 0..size
    BY <1>0, <1>12
  <2>2. text[n - 1] \in Seq(Letters) /\ piece[n] \in Seq(Letters)
    BY <1>2, <1>13, <2>1 DEF V
  <2>3. Len(text[n]) = Len(text[n - 1]) + Len(piece[n])
    BY <2>1, <2>2
  <2>4. Len(text[n]) = Len(text[n - 1]) + (lines[n].words + 1)
    BY <1>2, <2>3
  <2>5. at[n] = Len(text[n]) /\ at[n - 1] = Len(text[n - 1])
    BY <2>1
  <2>6. at[n - 1] \in Nat
    BY <2>2, <2>5
  <2>7. QED
    BY <1>1, <2>4, <2>5, <2>6
<1>15. at \in [0..size -> Nat] /\ at[0] = 0 /\ at[size] = Len(text[size])
  <2>1. \A n \in 0..size : Len(text[n]) \in Nat
    BY <1>13 DEF V
  <2>2. 0 \in 0..size /\ size \in 0..size
    BY <1>0
  <2>3. QED
    BY <1>11, <2>1, <2>2
<1> HIDE DEF at
<1>16. Offsets(at, lines) /\ at[Len(lines)] = Len(Text(lines))
  BY <1>3, <1>14, <1>15 DEF Offsets, size
<1>17. QED
  BY <1>16

\* What the parser has in hand, and the sections it makes, of a document with
\* some levels.
SectionsWith(levels) == [start : Nat, end : Nat, level : levels]
ParsersWith(levels) ==
  [fence : Fences \cup {"none"}, start : Nat, level : levels, cursor : Nat,
   sections : Seq(SectionsWith(levels))]

\* A line moves the parser's cursor over itself, and may end a section before it.
LEMMA LineParsed ==
  ASSUME NEW levels, NEW p \in ParsersWith(levels), NEW line,
         line.words \in Nat, line.level \in levels
  PROVE  /\ ParseLine(p, line) \in ParsersWith(levels)
         /\ ParseLine(p, line).cursor = p.cursor + line.words + 1
         /\ \/ /\ ParseLine(p, line).start = p.start
               /\ ParseLine(p, line).sections = p.sections
            \/ /\ ParseLine(p, line).start = p.cursor
               /\ ParseLine(p, line).sections = CloseSection(p)
<1> DEFINE S == SectionsWith(levels)
           cursor == p.cursor + line.words + 1
           next == [p EXCEPT !.cursor = cursor]
           q == ParseLine(p, line)
<1>1. /\ p.fence \in Fences \cup {"none"} /\ p.start \in Nat /\ p.level \in levels
      /\ p.cursor \in Nat /\ p.sections \in Seq(S) /\ cursor \in Nat
  BY DEF ParsersWith
<1>2. p = [fence |-> p.fence, start |-> p.start, level |-> p.level, cursor |-> p.cursor,
           sections |-> p.sections]
  BY DEF ParsersWith
<1>3. CloseSection(p) \in Seq(S)
  <2>1. [start |-> p.start, end |-> p.cursor, level |-> p.level] \in S
    BY <1>1 DEF SectionsWith
  <2>2. QED
    BY <1>1, <2>1 DEF CloseSection, Section
<1>4. next = [fence |-> p.fence, start |-> p.start, level |-> p.level, cursor |-> cursor,
              sections |-> p.sections]
  BY <1>2
<1> HIDE DEF cursor, S
<1>5. CASE line.kind \in Fences
  <2> DEFINE fence == IF p.fence = "none" THEN line.kind
                      ELSE IF p.fence = line.kind THEN "none" ELSE p.fence
  <2>1. q = [next EXCEPT !.fence = fence]
    BY <1>5 DEF ParseLine, cursor
  <2>2. fence \in Fences \cup {"none"}
    BY <1>1, <1>5
  <2> HIDE DEF fence
  <2>3. q = [fence |-> fence, start |-> p.start, level |-> p.level, cursor |-> cursor,
             sections |-> p.sections]
    BY <1>4, <2>1
  <2>4. q \in ParsersWith(levels)
    BY <1>1, <2>2, <2>3 DEF ParsersWith, S
  <2>5. QED
    BY <2>3, <2>4 DEF cursor
<1>6. CASE line.kind \notin Fences /\ p.fence = "none" /\ line.kind = "heading"
  <2>1. q = [next EXCEPT !.sections = CloseSection(p), !.start = p.cursor, !.level = line.level]
    BY <1>6 DEF ParseLine, cursor
  <2>2. q = [fence |-> p.fence, start |-> p.cursor, level |-> line.level, cursor |-> cursor,
             sections |-> CloseSection(p)]
    BY <1>4, <2>1
  <2>3. q \in ParsersWith(levels)
    BY <1>1, <1>3, <2>2 DEF ParsersWith, S
  <2>4. QED
    BY <2>2, <2>3 DEF cursor
<1>7. CASE line.kind \notin Fences /\ ~(p.fence = "none" /\ line.kind = "heading")
  <2>1. q = next
    BY <1>7 DEF ParseLine, cursor
  <2>2. q \in ParsersWith(levels)
    BY <1>1, <1>4, <2>1 DEF ParsersWith, S
  <2>3. QED
    BY <1>4, <2>1, <2>2 DEF cursor
<1>8. QED
  BY <1>5, <1>6, <1>7

\* Closing a section brings the sections up to the cursor.
LEMMA SectionClosed ==
  ASSUME NEW levels, NEW p \in ParsersWith(levels), p.start <= p.cursor,
         Tiles(p.sections, 0, p.start)
  PROVE  Tiles(CloseSection(p), 0, p.cursor)
<1> DEFINE S == SectionsWith(levels)
           x == [start |-> p.start, end |-> p.cursor, level |-> p.level]
<1>1. /\ p.start \in Nat /\ p.level \in levels /\ p.cursor \in Nat /\ p.sections \in Seq(S)
  BY DEF ParsersWith
<1>2. Pieces(S)
  BY DEF Pieces, SectionsWith
<1>3. x \in S /\ x.start = p.start /\ x.end = p.cursor
  BY <1>1 DEF SectionsWith
<1>4. CloseSection(p) = IF p.cursor > p.start THEN Append(p.sections, x) ELSE p.sections
  BY DEF CloseSection, Section
<1> HIDE DEF x, S
<1>5. CASE p.cursor > p.start
  <2>1. Tiles(p.sections, 0, x.start) /\ x.start < x.end /\ 0 \in Int
    BY <1>1, <1>3, <1>5
  <2>2. Tiles(Append(p.sections, x), 0, x.end)
    BY <1>1, <1>2, <1>3, <2>1, TilesAppend
  <2>3. QED
    BY <1>3, <1>4, <1>5, <2>2
<1>6. CASE ~(p.cursor > p.start)
  <2>1. p.cursor = p.start
    BY <1>1, <1>6
  <2>2. QED
    BY <1>4, <1>6, <2>1
<1>7. QED
  BY <1>5, <1>6

Levels(lines) == {0} \cup {line.level : line \in ToSet(lines)}

\* The sections of a document tile its text.
LEMMA ParseTiles ==
  ASSUME NEW lines, IsDocument(lines)
  PROVE  /\ Parse(lines) \in Seq(SectionsWith(Levels(lines)))
         /\ Tiles(Parse(lines), 0, Len(Text(lines)))
<1> DEFINE size == Len(lines)
           levels == Levels(lines)
           V == ParsersWith(levels)
           step == [p \in (1..size) \X V |-> ParseLine(p[2], lines[p[1]])]
           Body(g) == [n \in 0..size |-> IF n = 0 THEN Unparsed ELSE ParseLine(g[n - 1], lines[n])]
           parsed == CHOOSE g : g = Body(g)
<1>1. size \in Nat
  BY DEF IsDocument
<1>2. \A n \in 1..size : lines[n].words \in Nat /\ lines[n].level \in levels
  BY DEF IsDocument, ToSet, Levels
<1>3. Unparsed \in V
  <2>1. 0 \in levels
    BY DEF Levels
  <2> HIDE DEF levels
  <2>2. QED
    BY <2>1 DEF Unparsed, ParsersWith
<1>4. Parse(lines) = CloseSection(parsed[size])
  BY DEF Parse
<1> HIDE DEF levels
<1>5. \A n \in 1..size : \A p \in V : ParseLine(p, lines[n]) \in V
  BY <1>2, LineParsed
<1> HIDE DEF V, size
<1>6. step \in [(1..size) \X V -> V]
  <2>1. \A p \in (1..size) \X V : ParseLine(p[2], lines[p[1]]) \in V
    BY <1>5
  <2>2. QED
    BY <2>1
<1>7. \A n \in 1..size : \A p \in V : step[n, p] = ParseLine(p, lines[n])
  OBVIOUS
<1> HIDE DEF step
<1>8. PICK f \in [0..size -> V] : Accumulates(f, Unparsed, step, size)
  BY <1>1, <1>3, <1>6, Accumulated
<1>9. \A n \in 0..size : f[n] = IF n = 0 THEN Unparsed ELSE ParseLine(f[n - 1], lines[n])
  <2> SUFFICES ASSUME NEW n \in 0..size
               PROVE  f[n] = IF n = 0 THEN Unparsed ELSE ParseLine(f[n - 1], lines[n])
    OBVIOUS
  <2>1. n = 0 \/ (n \in 1..size /\ n - 1 \in 0..size)
    BY <1>1
  <2>2. f[n] = IF n = 0 THEN Unparsed ELSE step[n, f[n - 1]]
    BY <1>8 DEF Accumulates
  <2>3. QED
    BY <1>7, <2>1, <2>2
<1>10. f = Body(f)
  BY <1>8, <1>9
<1>11. parsed = Body(parsed)
  <2> HIDE DEF Body
  <2>1. QED
    BY <1>10, Zenon
<1> HIDE DEF parsed
<1>12. parsed[0] = Unparsed /\ \A n \in 1..size : parsed[n] = ParseLine(parsed[n - 1], lines[n])
  <2>1. 0 \in 0..size /\ \A n \in 1..size : n \in 0..size /\ n # 0
    BY <1>1
  <2>2. \A n \in 0..size :
          parsed[n] = IF n = 0 THEN Unparsed ELSE ParseLine(parsed[n - 1], lines[n])
    BY <1>11
  <2>3. QED
    BY <2>1, <2>2
<1>13. PICK at : Offsets(at, lines) /\ at[size] = Len(Text(lines))
  BY TextOffsets DEF size
<1> DEFINE Good(n) == /\ parsed[n] \in V /\ parsed[n].cursor = at[n]
                      /\ parsed[n].start <= parsed[n].cursor
                      /\ Tiles(parsed[n].sections, 0, parsed[n].start)
           T == {n \in 0..size : Good(n)}
<1>14. Good(0)
  <2>1. parsed[0].sections = <<>> /\ parsed[0].start = 0 /\ parsed[0].cursor = 0 /\ at[0] = 0
    BY <1>12, <1>13 DEF Unparsed, Offsets
  <2>2. Tiles(<<>>, 0, 0)
    BY DEF Tiles
  <2>3. QED
    BY <1>3, <1>12, <2>1, <2>2
<1>15. ASSUME NEW n \in 1..size, Good(n - 1) PROVE Good(n)
  <2> DEFINE p == parsed[n - 1]
             q == ParseLine(p, lines[n])
  <2>1. /\ p \in ParsersWith(levels) /\ p.cursor = at[n - 1] /\ p.start <= p.cursor
        /\ Tiles(p.sections, 0, p.start)
    BY <1>15 DEF V
  <2>2. parsed[n] = q
    BY <1>12
  <2>3. lines[n].words \in Nat /\ lines[n].level \in levels
    BY <1>2
  <2>4. at[n] = at[n - 1] + lines[n].words + 1
    BY <1>13 DEF Offsets, size
  <2> HIDE DEF p
  <2>5. /\ q \in ParsersWith(levels) /\ q.cursor = p.cursor + lines[n].words + 1
        /\ \/ q.start = p.start /\ q.sections = p.sections
           \/ q.start = p.cursor /\ q.sections = CloseSection(p)
    BY <2>1, <2>3, LineParsed
  <2>6. Tiles(CloseSection(p), 0, p.cursor)
    BY <2>1, SectionClosed
  <2> HIDE DEF q
  <2>7. p.start \in Nat /\ p.cursor \in Nat
    BY <2>1 DEF ParsersWith
  <2>8. q.cursor = at[n] /\ q.start <= q.cursor
    BY <2>1, <2>3, <2>4, <2>5, <2>7
  <2>9. Tiles(q.sections, 0, q.start)
    BY <2>1, <2>5, <2>6
  <2>10. QED
    BY <2>2, <2>5, <2>8, <2>9 DEF V
<1> HIDE DEF Good
<1>16. \A n \in 0..size : n \in T
  <2>1. 0 \in T /\ \A n \in 1..size : n - 1 \in T => n \in T
    BY <1>1, <1>14, <1>15
  <2> HIDE DEF T
  <2>2. QED
    BY <1>1, <2>1, UpTo
<1>17. Good(size)
  BY <1>1, <1>16
<1> DEFINE last == parsed[size]
<1>18. /\ last \in ParsersWith(levels) /\ last.cursor = Len(Text(lines))
       /\ last.start <= last.cursor /\ Tiles(last.sections, 0, last.start)
  BY <1>13, <1>17 DEF Good, V
<1> HIDE DEF last
<1>19. Tiles(CloseSection(last), 0, last.cursor)
  BY <1>18, SectionClosed
<1>20. CloseSection(last) \in Seq(SectionsWith(levels))
  <2>1. /\ last.start \in Nat /\ last.level \in levels /\ last.cursor \in Nat
        /\ last.sections \in Seq(SectionsWith(levels))
    BY <1>18 DEF ParsersWith
  <2>2. [start |-> last.start, end |-> last.cursor, level |-> last.level] \in SectionsWith(levels)
    BY <2>1 DEF SectionsWith
  <2>3. QED
    BY <2>1, <2>2 DEF CloseSection, Section
<1>21. QED
  BY <1>4, <1>18, <1>19, <1>20 DEF last, levels

\* What the chunker has in hand.
Chunkers == [ranges : Seq(Ranges), pending : Ranges]

\* Ranges that are not too long, and a range that is in one of them.
Bounded(text, ranges) ==
  \A n \in 1..Len(ranges) : Count(text, ranges[n].start, ranges[n].end) <= MaxTokens
Inside(ranges, x, y) == \E n \in 1..Len(ranges) : ranges[n].start <= x /\ y <= ranges[n].end

\* The chunker's ranges and what is pending reach from the start of the text to
\* the end of the last section.
Gathering(text, c, edge) ==
  /\ Tiles(c.ranges, 0, IF c.pending = NoPending THEN edge ELSE c.pending.start)
  /\ Bounded(text, c.ranges)
  /\ (c.pending # NoPending) =>
       /\ c.pending.start < c.pending.end /\ c.pending.end = edge
       /\ Count(text, c.pending.start, c.pending.end) <= MaxTokens

\* A range is in one of the chunker's, or in what is pending.
Holds(c, x, y) ==
  \/ Inside(c.ranges, x, y)
  \/ c.pending # NoPending /\ c.pending.start <= x /\ y <= c.pending.end

\* What is in the ranges stays in them when more are added.
LEMMA RangesExtended ==
  ASSUME NEW text, NEW s \in Seq(Ranges), NEW t \in Seq(Ranges),
         Bounded(text, s), Bounded(text, t)
  PROVE  /\ s \o t \in Seq(Ranges) /\ Bounded(text, s \o t)
         /\ \A x, y \in Int : Inside(s, x, y) \/ Inside(t, x, y) => Inside(s \o t, x, y)
<1> DEFINE u == s \o t
           j == Len(s)
           k == Len(t)
<1>1. u \in Seq(Ranges) /\ Len(u) = j + k /\ j \in Nat /\ k \in Nat
  OBVIOUS
<1>2. /\ \A n \in 1..j : u[n] = s[n]
      /\ \A n \in j + 1..j + k : u[n] = t[n - j]
  OBVIOUS
<1>3. \A n \in 1..k : u[n + j] = t[n]
  OBVIOUS
<1> HIDE DEF u, j, k
<1>4. Bounded(text, u)
  <2> SUFFICES ASSUME NEW n \in 1..Len(u)
               PROVE  Count(text, u[n].start, u[n].end) <= MaxTokens
    BY DEF Bounded
  <2>1. CASE n \in 1..j
    BY <1>2, <2>1 DEF Bounded, j
  <2>2. CASE n \in j + 1..j + k
    <3>1. n - j \in 1..k
      BY <1>1, <2>2
    <3>2. u[n] = t[n - j]
      BY <1>2, <2>2
    <3>3. QED
      BY <3>1, <3>2 DEF Bounded, k
  <2>3. n \in 1..j \/ n \in j + 1..j + k
    BY <1>1
  <2>4. QED
    BY <2>1, <2>2, <2>3
<1>5. ASSUME NEW x \in Int, NEW y \in Int, Inside(s, x, y) PROVE Inside(u, x, y)
  <2>1. PICK n \in 1..j : s[n].start <= x /\ y <= s[n].end
    BY <1>5 DEF Inside, j
  <2>2. n \in 1..Len(u)
    BY <1>1
  <2>3. u[n] = s[n]
    BY <1>2
  <2>4. QED
    BY <2>1, <2>2, <2>3 DEF Inside
<1>6. ASSUME NEW x \in Int, NEW y \in Int, Inside(t, x, y) PROVE Inside(u, x, y)
  <2>1. PICK n \in 1..k : t[n].start <= x /\ y <= t[n].end
    BY <1>6 DEF Inside, k
  <2>2. n + j \in 1..Len(u)
    BY <1>1
  <2>3. u[n + j] = t[n]
    BY <1>3
  <2>4. QED
    BY <2>1, <2>2, <2>3 DEF Inside
<1>7. QED
  BY <1>1, <1>4, <1>5, <1>6 DEF u

\* One range by itself.
LEMMA OneRange ==
  ASSUME NEW text, NEW r \in Ranges, Count(text, r.start, r.end) <= MaxTokens
  PROVE  /\ <<r>> \in Seq(Ranges) /\ Bounded(text, <<r>>)
         /\ \A x, y \in Int : (r.start <= x /\ y <= r.end) => Inside(<<r>>, x, y)
<1>1. Len(<<r>>) = 1 /\ <<r>>[1] = r /\ <<r>> \in Seq(Ranges)
  OBVIOUS
<1> DEFINE s == <<r>>
<1> HIDE DEF s
<1>2. s \in Seq(Ranges) /\ Len(s) = 1 /\ s[1] = r
  BY <1>1 DEF s
<1>3. Bounded(text, s)
  BY <1>2 DEF Bounded
<1>4. \A x, y \in Int : (r.start <= x /\ y <= r.end) => Inside(s, x, y)
  <2>1. 1 \in 1..Len(s)
    BY <1>2
  <2>2. QED
    BY <1>2, <2>1 DEF Inside
<1>5. QED
  BY <1>2, <1>3, <1>4 DEF s

\* Writing out what is pending brings the ranges up to the last section.
LEMMA Flushed ==
  ASSUME NEW text, NEW c \in Chunkers, NEW edge \in Int, Gathering(text, c, edge)
  PROVE  /\ Flush(c) \in Seq(Ranges) /\ Tiles(Flush(c), 0, edge) /\ Bounded(text, Flush(c))
         /\ \A x, y \in Int : Holds(c, x, y) => Inside(Flush(c), x, y)
<1>1. c.ranges \in Seq(Ranges) /\ c.pending \in Ranges
  BY DEF Chunkers
<1>2. CASE c.pending = NoPending
  BY <1>1, <1>2 DEF Gathering, Flush, Holds
<1>3. CASE c.pending # NoPending
  <2> DEFINE r == c.pending
  <2>1. /\ Tiles(c.ranges, 0, r.start) /\ Bounded(text, c.ranges)
        /\ r.start < r.end /\ r.end = edge /\ Count(text, r.start, r.end) <= MaxTokens
    BY <1>3 DEF Gathering
  <2>2. Flush(c) = Append(c.ranges, r)
    BY <1>3 DEF Flush
  <2>3. \A x, y \in Int : Holds(c, x, y) => Inside(c.ranges, x, y) \/ (r.start <= x /\ y <= r.end)
    BY DEF Holds
  <2> HIDE DEF r
  <2>4. r \in Ranges /\ Pieces(Ranges) /\ 0 \in Int
    BY <1>1 DEF r, Pieces, Ranges
  <2>5. Tiles(Append(c.ranges, r), 0, r.end)
    BY <1>1, <2>1, <2>4, TilesAppend
  <2>6. Append(c.ranges, r) = c.ranges \o <<r>>
    BY <1>1, <2>4
  <2>7. /\ <<r>> \in Seq(Ranges) /\ Bounded(text, <<r>>)
        /\ \A x, y \in Int : (r.start <= x /\ y <= r.end) => Inside(<<r>>, x, y)
    BY <2>1, <2>4, OneRange
  <2>8. /\ c.ranges \o <<r>> \in Seq(Ranges) /\ Bounded(text, c.ranges \o <<r>>)
        /\ \A x, y \in Int : Inside(c.ranges, x, y) \/ Inside(<<r>>, x, y) =>
             Inside(c.ranges \o <<r>>, x, y)
    BY <1>1, <2>1, <2>7, RangesExtended
  <2>9. QED
    BY <2>1, <2>2, <2>3, <2>5, <2>6, <2>7, <2>8
<1>4. QED
  BY <1>2, <1>3

\* A chunker with a section more is a chunker.
LEMMA AddedTyped ==
  ASSUME NEW text, NEW c \in Chunkers, NEW s, s.start \in Int, s.end \in Int, s.start < s.end
  PROVE  AddSection(text, c, s) \in Chunkers
<1> DEFINE d == AddSection(text, c, s)
           r == [start |-> s.start, end |-> s.end]
<1>1. c.ranges \in Seq(Ranges) /\ c.pending \in Ranges
  BY DEF Chunkers
<1>2. c = [ranges |-> c.ranges, pending |-> c.pending]
      /\ c.pending = [start |-> c.pending.start, end |-> c.pending.end]
      /\ c.pending.start \in Int
  BY <1>1 DEF Chunkers, Ranges
<1>3. r \in Ranges /\ NoPending \in Ranges
  BY DEF Ranges, NoPending
<1>4. Flush(c) \in Seq(Ranges)
  BY <1>1 DEF Flush
<1>5. SplitRange(text, s.start, s.end) \in Seq(Ranges)
  BY SplitFacts
<1>6. Flush(c) \o SplitRange(text, s.start, s.end) \in Seq(Ranges)
  BY <1>4, <1>5
<1>7. CASE Count(text, s.start, s.end) > MaxTokens
  <2>1. d = [ranges |-> Flush(c) \o SplitRange(text, s.start, s.end), pending |-> NoPending]
    BY <1>7 DEF AddSection
  <2>2. QED
    BY <1>3, <1>6, <2>1 DEF Chunkers
<1>8. CASE ~(Count(text, s.start, s.end) > MaxTokens) /\ c.pending = NoPending
  <2>1. d = [c EXCEPT !.pending = r]
    BY <1>8 DEF AddSection
  <2>2. d = [ranges |-> c.ranges, pending |-> r]
    BY <1>2, <2>1
  <2>3. QED
    BY <1>1, <1>3, <2>2 DEF Chunkers
<1>9. CASE /\ ~(Count(text, s.start, s.end) > MaxTokens) /\ c.pending # NoPending
           /\ Count(text, c.pending.start, s.end) > MaxTokens
  <2>1. d = [ranges |-> Flush(c), pending |-> r]
    BY <1>9 DEF AddSection
  <2>2. QED
    BY <1>3, <1>4, <2>1 DEF Chunkers
<1>10. CASE /\ ~(Count(text, s.start, s.end) > MaxTokens) /\ c.pending # NoPending
            /\ ~(Count(text, c.pending.start, s.end) > MaxTokens)
  <2>1. d = [c EXCEPT !.pending.end = s.end]
    BY <1>10 DEF AddSection
  <2>2. d = [ranges |-> c.ranges, pending |-> [start |-> c.pending.start, end |-> s.end]]
    BY <1>2, <2>1
  <2>3. [start |-> c.pending.start, end |-> s.end] \in Ranges
    BY <1>2 DEF Ranges
  <2>4. QED
    BY <1>1, <2>2, <2>3 DEF Chunkers
<1>11. QED
  BY <1>7, <1>8, <1>9, <1>10

\* A section that follows is taken in: nothing is left out, no range gets too
\* long, and a section that fits stays whole.
LEMMA SectionAdded ==
  ASSUME NEW text, NEW c \in Chunkers, NEW s, s.start \in Nat, s.end \in Nat,
         s.start < s.end, Gathering(text, c, s.start)
  PROVE  /\ Gathering(text, AddSection(text, c, s), s.end)
         /\ \A x, y \in Int : Holds(c, x, y) => Holds(AddSection(text, c, s), x, y)
         /\ (Count(text, s.start, s.end) <= MaxTokens) =>
              Holds(AddSection(text, c, s), s.start, s.end)
<1> DEFINE d == AddSection(text, c, s)
           r == [start |-> s.start, end |-> s.end]
           split == SplitRange(text, s.start, s.end)
           tokens == Count(text, s.start, s.end)
           proposed == Count(text, c.pending.start, s.end)
<1>1. c.ranges \in Seq(Ranges) /\ c.pending \in Ranges
  BY DEF Chunkers
<1>2. /\ c = [ranges |-> c.ranges, pending |-> c.pending]
      /\ c.pending = [start |-> c.pending.start, end |-> c.pending.end]
      /\ c.pending.start \in Int /\ c.pending.end \in Int
  BY <1>1 DEF Chunkers, Ranges
<1>3. r \in Ranges /\ r # NoPending /\ r.start = s.start /\ r.end = s.end
  BY DEF Ranges, NoPending
<1>4. /\ Flush(c) \in Seq(Ranges) /\ Tiles(Flush(c), 0, s.start) /\ Bounded(text, Flush(c))
      /\ \A x, y \in Int : Holds(c, x, y) => Inside(Flush(c), x, y)
  <2>1. s.start \in Int
    OBVIOUS
  <2>2. QED
    BY <2>1, Flushed
<1>5. MaxTokens \in Nat /\ tokens \in Nat /\ proposed \in Nat
  <2>1. s.start \in Int /\ s.end \in Int
    OBVIOUS
  <2>2. tokens \in Nat
    BY <2>1, CountFacts
  <2>3. proposed \in Nat
    BY <1>2, <2>1, CountFacts
  <2>4. QED
    BY <2>2, <2>3, ChunkingAssumption
<1>6. d \in Chunkers
  BY AddedTyped
<1>7. CASE tokens > MaxTokens
  <2>1. d = [ranges |-> Flush(c) \o split, pending |-> NoPending]
    BY <1>7 DEF AddSection
  <2>2. split \in Seq(Ranges) /\ Tiles(split, s.start, s.end) /\ Bounded(text, split)
    BY SplitFacts DEF Bounded
  <2>3. d.ranges = Flush(c) \o split /\ d.pending = NoPending
    BY <2>1
  <2> HIDE DEF d, split, tokens
  <2>4. Pieces(Ranges) /\ 0 \in Int
    BY DEF Pieces, Ranges
  <2>5. Tiles(Flush(c) \o split, 0, s.end)
    BY <1>4, <2>2, <2>4, TilesConcat
  <2>6. /\ Bounded(text, Flush(c) \o split)
        /\ \A x, y \in Int : Inside(Flush(c), x, y) => Inside(Flush(c) \o split, x, y)
    BY <1>4, <2>2, RangesExtended
  <2>7. Gathering(text, d, s.end)
    BY <2>3, <2>5, <2>6 DEF Gathering
  <2>8. \A x, y \in Int : Holds(c, x, y) => Holds(d, x, y)
    BY <1>4, <2>3, <2>6 DEF Holds
  <2>9. QED
    BY <1>5, <1>7, <2>7, <2>8 DEF d, tokens
<1>8. CASE ~(tokens > MaxTokens) /\ c.pending = NoPending
  <2>1. d = [c EXCEPT !.pending = r]
    BY <1>8 DEF AddSection
  <2>2. d.ranges = c.ranges /\ d.pending = r
    BY <1>2, <2>1
  <2>3. Tiles(c.ranges, 0, s.start) /\ Bounded(text, c.ranges)
    BY <1>8 DEF Gathering
  <2>4. tokens <= MaxTokens
    BY <1>5, <1>8
  <2> HIDE DEF d, r
  <2>5. Gathering(text, d, s.end)
    BY <1>3, <2>2, <2>3, <2>4 DEF Gathering
  <2>6. \A x, y \in Int : Holds(c, x, y) => Holds(d, x, y)
    BY <1>8, <2>2 DEF Holds
  <2>7. Holds(d, s.start, s.end)
    BY <1>3, <2>2 DEF Holds
  <2>8. QED
    BY <2>5, <2>6, <2>7 DEF d
<1>9. CASE ~(tokens > MaxTokens) /\ c.pending # NoPending /\ proposed > MaxTokens
  <2>1. d = [ranges |-> Flush(c), pending |-> r]
    BY <1>9 DEF AddSection
  <2>2. d.ranges = Flush(c) /\ d.pending = r
    BY <2>1
  <2>3. tokens <= MaxTokens
    BY <1>5, <1>9
  <2> HIDE DEF d, r
  <2>4. Gathering(text, d, s.end)
    BY <1>3, <1>4, <2>2, <2>3 DEF Gathering
  <2>5. \A x, y \in Int : Holds(c, x, y) => Holds(d, x, y)
    BY <1>4, <2>2 DEF Holds
  <2>6. Holds(d, s.start, s.end)
    BY <1>3, <2>2 DEF Holds
  <2>7. QED
    BY <2>4, <2>5, <2>6 DEF d
<1>10. CASE ~(tokens > MaxTokens) /\ c.pending # NoPending /\ ~(proposed > MaxTokens)
  <2> DEFINE old == c.pending
             new == [start |-> old.start, end |-> s.end]
  <2>1. d = [c EXCEPT !.pending.end = s.end]
    BY <1>10 DEF AddSection
  <2>2. d.ranges = c.ranges /\ d.pending = new
    BY <1>2, <2>1
  <2>3. /\ Tiles(c.ranges, 0, old.start) /\ Bounded(text, c.ranges)
        /\ old.start < old.end /\ old.end = s.start
    BY <1>10 DEF Gathering
  <2>4. proposed <= MaxTokens
    BY <1>5, <1>10
  <2>5. new.start = old.start /\ new.end = s.end /\ old.start \in Int /\ old.end \in Int
    BY <1>2
  <2>6. new # NoPending
    BY <2>5 DEF NoPending
  <2>7. new.start < s.end /\ new.start <= s.start /\ old.end <= new.end
    BY <2>3, <2>5
  <2> HIDE DEF d, new
  <2>8. Gathering(text, d, s.end)
    BY <2>2, <2>3, <2>4, <2>5, <2>6, <2>7 DEF Gathering
  <2>9. ASSUME NEW x \in Int, NEW y \in Int, Holds(c, x, y) PROVE Holds(d, x, y)
    <3>1. CASE Inside(c.ranges, x, y)
      BY <2>2, <3>1 DEF Holds
    <3>2. CASE old.start <= x /\ y <= old.end
      <4>1. new.start <= x /\ y <= new.end
        BY <2>5, <2>7, <3>2
      <4>2. QED
        BY <2>2, <2>6, <4>1 DEF Holds
    <3>3. QED
      BY <2>9, <3>1, <3>2 DEF Holds
  <2>10. Holds(d, s.start, s.end)
    BY <2>2, <2>5, <2>6, <2>7 DEF Holds
  <2>11. QED
    BY <2>8, <2>9, <2>10 DEF d
<1>11. QED
  BY <1>7, <1>8, <1>9, <1>10

\* The ranges of the chunks tile the text, are not too long, and hold every
\* section that fits in one of them.
LEMMA GatheredFacts ==
  ASSUME NEW text, NEW levels, NEW sections \in Seq(SectionsWith(levels)),
         NEW edge \in Int, Tiles(sections, 0, edge)
  PROVE  /\ Gathered(text, sections) \in Seq(Ranges)
         /\ Tiles(Gathered(text, sections), 0, edge)
         /\ Bounded(text, Gathered(text, sections))
         /\ \A n \in 1..Len(sections) :
              (Count(text, sections[n].start, sections[n].end) <= MaxTokens) =>
                Inside(Gathered(text, sections), sections[n].start, sections[n].end)
<1> DEFINE size == Len(sections)
           V == Chunkers
           new == [ranges |-> <<>>, pending |-> NoPending]
           step == [p \in (1..size) \X V |-> AddSection(text, p[2], sections[p[1]])]
           Body(g) == [n \in 0..size |->
                         IF n = 0 THEN new ELSE AddSection(text, g[n - 1], sections[n])]
           gathered == CHOOSE g : g = Body(g)
           Fits(n) == Count(text, sections[n].start, sections[n].end) <= MaxTokens
<1>1. size \in Nat
  OBVIOUS
<1>2. Pieces(SectionsWith(levels)) /\ 0 \in Int
  BY DEF Pieces, SectionsWith
<1>3. /\ (size = 0) => (0 = edge)
      /\ (size # 0) => (sections[1].start = 0 /\ sections[size].end = edge)
      /\ \A n \in 1..size : sections[n].start < sections[n].end
      /\ \A n \in 1..size - 1 : sections[n].end = sections[n + 1].start
  BY <1>2, TilesUnfolded
<1>4. \A n \in 1..size : sections[n].start \in Nat /\ sections[n].end \in Nat
  <2>1. \A n \in 1..size : sections[n] \in SectionsWith(levels)
    OBVIOUS
  <2>2. QED
    BY <2>1 DEF SectionsWith
<1>5. Gathered(text, sections) = Flush(gathered[size])
  BY DEF Gathered
<1>6. new \in V /\ new.ranges = <<>> /\ new.pending = NoPending
  BY DEF Chunkers, NoPending, Ranges
<1> HIDE DEF size, new
<1>7. \A n \in 1..size : \A c \in V : AddSection(text, c, sections[n]) \in V
  BY <1>3, <1>4, AddedTyped
<1> HIDE DEF V
<1>8. step \in [(1..size) \X V -> V]
  <2>1. \A p \in (1..size) \X V : AddSection(text, p[2], sections[p[1]]) \in V
    BY <1>7
  <2>2. QED
    BY <2>1
<1>9. \A n \in 1..size : \A c \in V : step[n, c] = AddSection(text, c, sections[n])
  OBVIOUS
<1> HIDE DEF step
<1>10. PICK f \in [0..size -> V] : Accumulates(f, new, step, size)
  BY <1>1, <1>6, <1>8, Accumulated
<1>11. \A n \in 0..size : f[n] = IF n = 0 THEN new ELSE AddSection(text, f[n - 1], sections[n])
  <2> SUFFICES ASSUME NEW n \in 0..size
               PROVE  f[n] = IF n = 0 THEN new ELSE AddSection(text, f[n - 1], sections[n])
    OBVIOUS
  <2>1. n = 0 \/ (n \in 1..size /\ n - 1 \in 0..size)
    BY <1>1
  <2>2. f[n] = IF n = 0 THEN new ELSE step[n, f[n - 1]]
    BY <1>10 DEF Accumulates
  <2>3. QED
    BY <1>9, <2>1, <2>2
<1>12. f = Body(f)
  BY <1>10, <1>11
<1>13. gathered = Body(gathered)
  <2> HIDE DEF Body
  <2>1. QED
    BY <1>12, Zenon
<1> HIDE DEF gathered
<1>14. /\ gathered[0] = new
       /\ \A n \in 1..size : gathered[n] = AddSection(text, gathered[n - 1], sections[n])
  <2>1. 0 \in 0..size /\ \A n \in 1..size : n \in 0..size /\ n # 0
    BY <1>1
  <2>2. \A n \in 0..size :
          gathered[n] = IF n = 0 THEN new ELSE AddSection(text, gathered[n - 1], sections[n])
    BY <1>13
  <2>3. QED
    BY <2>1, <2>2
<1> DEFINE end == [n \in 0..size |-> IF n = 0 THEN 0 ELSE sections[n].end]
<1>15. /\ end[0] = 0 /\ end[size] = edge
       /\ \A n \in 1..size : end[n - 1] = sections[n].start /\ end[n] = sections[n].end
  <2>1. 0 \in 0..size /\ size \in 0..size
    BY <1>1
  <2>2. end[0] = 0
    BY <2>1
  <2>3. end[size] = edge
    BY <1>3, <2>1
  <2>4. ASSUME NEW n \in 1..size PROVE end[n - 1] = sections[n].start /\ end[n] = sections[n].end
    <3>1. n \in 0..size /\ n - 1 \in 0..size /\ n # 0 /\ size # 0
      BY <1>1
    <3>2. end[n] = sections[n].end
      BY <3>1
    <3>3. CASE n = 1
      BY <1>3, <3>1, <3>2, <3>3
    <3>4. CASE n # 1
      <4>1. n - 1 \in 1..size - 1 /\ n - 1 # 0 /\ (n - 1) + 1 = n
        BY <1>1, <3>4
      <4>2. end[n - 1] = sections[n - 1].end
        BY <3>1, <4>1
      <4>3. sections[n - 1].end = sections[(n - 1) + 1].start
        BY <1>3, <4>1
      <4>4. QED
        BY <3>2, <4>1, <4>2, <4>3
    <3>5. QED
      BY <3>3, <3>4
  <2>5. QED
    BY <2>2, <2>3, <2>4
<1> HIDE DEF end, Fits
<1> DEFINE Good(n) ==
             /\ gathered[n] \in V /\ Gathering(text, gathered[n], end[n])
             /\ \A k \in 1..n : Fits(k) => Holds(gathered[n], sections[k].start, sections[k].end)
           T == {n \in 0..size : Good(n)}
<1>16. Good(0)
  <2>1. Tiles(<<>>, 0, 0)
    BY DEF Tiles
  <2>2. Bounded(text, <<>>)
    BY DEF Bounded
  <2>3. Gathering(text, new, 0)
    BY <1>6, <2>1, <2>2 DEF Gathering
  <2>4. QED
    BY <1>6, <1>14, <1>15, <2>3
<1>17. ASSUME NEW n \in 1..size, Good(n - 1) PROVE Good(n)
  <2> DEFINE c == gathered[n - 1]
             s == sections[n]
             d == AddSection(text, c, s)
  <2>1. gathered[n] = d
    BY <1>14
  <2>2. /\ s.start \in Nat /\ s.end \in Nat /\ s.start < s.end
        /\ end[n - 1] = s.start /\ end[n] = s.end
    BY <1>3, <1>4, <1>15
  <2>3. c \in Chunkers /\ Gathering(text, c, s.start)
    BY <1>17, <2>2 DEF V
  <2>4. \A k \in 1..n - 1 : Fits(k) => Holds(c, sections[k].start, sections[k].end)
    BY <1>17
  <2>5. Fits(n) <=> Count(text, s.start, s.end) <= MaxTokens
    BY DEF Fits
  <2> HIDE DEF c, s
  <2>6. /\ Gathering(text, d, s.end)
        /\ \A x, y \in Int : Holds(c, x, y) => Holds(d, x, y)
        /\ Fits(n) => Holds(d, s.start, s.end)
    BY <2>2, <2>3, <2>5, SectionAdded
  <2>7. d \in Chunkers
    BY <2>2, <2>3, AddedTyped
  <2> HIDE DEF d
  <2>8. ASSUME NEW k \in 1..n, Fits(k) PROVE Holds(d, sections[k].start, sections[k].end)
    <3>1. CASE k = n
      BY <2>6, <2>8, <3>1 DEF s
    <3>2. CASE k # n
      <4>1. k \in 1..n - 1 /\ k \in 1..size
        BY <1>1, <3>2
      <4>2. sections[k].start \in Int /\ sections[k].end \in Int
        BY <1>4, <4>1
      <4>3. QED
        BY <2>4, <2>6, <2>8, <4>1, <4>2
    <3>3. QED
      BY <3>1, <3>2
  <2>9. QED
    BY <2>1, <2>2, <2>6, <2>7, <2>8 DEF V
<1> HIDE DEF Good
<1>18. \A n \in 0..size : n \in T
  <2>1. 0 \in T /\ \A n \in 1..size : n - 1 \in T => n \in T
    BY <1>1, <1>16, <1>17
  <2> HIDE DEF T
  <2>2. QED
    BY <1>1, <2>1, UpTo
<1>19. Good(size)
  BY <1>1, <1>18
<1> DEFINE last == gathered[size]
<1>20. /\ last \in Chunkers /\ Gathering(text, last, edge)
       /\ \A k \in 1..size : Fits(k) => Holds(last, sections[k].start, sections[k].end)
  BY <1>15, <1>19 DEF Good, V
<1> HIDE DEF last
<1>21. /\ Flush(last) \in Seq(Ranges) /\ Tiles(Flush(last), 0, edge) /\ Bounded(text, Flush(last))
       /\ \A x, y \in Int : Holds(last, x, y) => Inside(Flush(last), x, y)
  BY <1>20, Flushed
<1>22. \A k \in 1..size : Fits(k) => Inside(Flush(last), sections[k].start, sections[k].end)
  BY <1>4, <1>20, <1>21
<1>23. QED
  BY <1>5, <1>21, <1>22 DEF last, Fits, size

\* The spans of a chunk tile it: the sections it touches follow each other, the
\* first one starts no later than the chunk and the last one ends no earlier.
LEMMA SpansTile ==
  ASSUME NEW text, NEW levels, NEW sections \in Seq(SectionsWith(levels)),
         NEW edge \in Int, Tiles(sections, 0, edge),
         NEW range \in Ranges, 0 <= range.start, range.start < range.end, range.end <= edge
  PROVE  Tiles(BuildChunk(text, sections, range).spans, range.start, range.end)
<1> DEFINE S == SectionsWith(levels)
           size == Len(sections)
           a == range.start
           b == range.end
           places == {n \in DOMAIN sections : sections[n].start < b /\ sections[n].end > a}
           touched == Selected(sections, places)
           k == Cardinality(places)
           Span(x) == [start |-> Larger(a, x.start), end |-> Smaller(b, x.end), level |-> x.level]
           spans == [n \in DOMAIN touched |-> Span(touched[n])]
<1>1. size \in Nat /\ DOMAIN sections = 1..size /\ a \in Int /\ b \in Int
  BY DEF Ranges
<1>2. Pieces(S) /\ 0 \in Int
  BY DEF Pieces, SectionsWith
<1>3. \A n \in 1..size : /\ sections[n] \in S /\ sections[n].level \in levels
                         /\ sections[n].start \in Nat /\ sections[n].end \in Nat
  <2>1. \A n \in 1..size : sections[n] \in S
    OBVIOUS
  <2>2. QED
    BY <2>1 DEF SectionsWith
<1>4. BuildChunk(text, sections, range).spans = spans
  BY DEF BuildChunk
<1>5. places \in SUBSET DOMAIN sections
  OBVIOUS
<1>6. \A n \in 1..size : n \in places <=> sections[n].start < b /\ sections[n].end > a
  BY <1>1
<1>7. touched \in Seq(S) /\ Len(touched) = k /\ k \in Nat
  <2> HIDE DEF places
  <2>1. touched \in Seq(S) /\ Len(touched) = k /\ k \in 0..size
    BY <1>5, SelectedFacts
  <2>2. QED
    BY <1>1, <2>1
<1>8. PICK at : Stand(at, sections, places)
  <2> HIDE DEF places
  <2>1. QED
    BY <1>5, SelectionStands
<1> HIDE DEF places
<1>9. /\ at \in [1..k -> places]
      /\ \A n \in 1..k : touched[n] = sections[at[n]]
      /\ \A p \in places : \E n \in 1..k : at[n] = p
      /\ \A m, n \in 1..k : m < n <=> at[m] < at[n]
  BY <1>8 DEF Stand
<1> HIDE DEF S, size, touched, k
<1>10. /\ \A n \in 1..size : 0 <= sections[n].start /\ sections[n].start < sections[n].end
       /\ \A m, n \in 1..size : m < n => sections[m].end <= sections[n].start
  BY <1>2, TilesSpread DEF S, size
<1>11. /\ (size # 0) => (sections[1].start = 0 /\ sections[size].end = edge)
       /\ \A n \in 1..size - 1 : sections[n].end = sections[n + 1].start
  BY <1>2, TilesUnfolded DEF S, size
<1>12. \A n \in 1..k : /\ at[n] \in places /\ at[n] \in 1..size /\ touched[n] = sections[at[n]]
                       /\ sections[at[n]].start < b /\ sections[at[n]].end > a
  <2>1. \A n \in 1..k : at[n] \in places
    BY <1>9
  <2>2. \A n \in 1..k : at[n] \in 1..size
    BY <1>1, <1>5, <2>1
  <2>3. QED
    BY <1>6, <1>9, <2>1, <2>2
<1>13. k # 0 /\ 1 \in 1..k /\ k \in 1..k
  <2>1. \E n \in 1..size : sections[n].start <= a /\ a < sections[n].end
    <3>1. a \in Int /\ 0 <= a /\ a < edge
      BY <1>1
    <3> HIDE DEF a
    <3>2. QED
      BY <1>2, <3>1, TilesCover DEF S, size
  <2>2. PICK n \in 1..size : sections[n].start <= a /\ a < sections[n].end
    BY <2>1
  <2>3. n \in places
    BY <1>1, <1>3, <1>6, <2>2
  <2>4. PICK m \in 1..k : at[m] = n
    BY <1>9, <2>3
  <2>5. QED
    BY <1>7, <2>4
<1>14. /\ spans \in Seq(S) /\ Len(spans) = k
       /\ \A n \in 1..k : /\ spans[n].start = Larger(a, sections[at[n]].start)
                          /\ spans[n].end = Smaller(b, sections[at[n]].end)
  <2>1. DOMAIN touched = 1..k
    BY <1>7 DEF k
  <2>2. \A n \in 1..k : spans[n] = Span(sections[at[n]])
    BY <1>12, <2>1
  <2>3. ASSUME NEW n \in 1..k PROVE Span(sections[at[n]]) \in S
    <3> DEFINE x == sections[at[n]]
    <3>1. x.start \in Nat /\ x.end \in Nat /\ x.level \in levels
      BY <1>3, <1>12
    <3> HIDE DEF x
    <3>2. Larger(a, x.start) \in Nat /\ Smaller(b, x.end) \in Nat
      BY <1>1, <3>1 DEF Larger, Smaller
    <3>3. Span(x) \in S
      BY <3>1, <3>2 DEF S, SectionsWith
    <3>4. QED
      BY <3>3 DEF x
  <2>4. \A n \in 1..k : spans[n] \in S
    BY <2>2, <2>3
  <2>5. DOMAIN spans = 1..k /\ spans = [n \in 1..k |-> spans[n]]
    BY <2>1
  <2> HIDE DEF Span
  <2>6. spans \in [1..k -> S]
    BY <2>4, <2>5
  <2> HIDE DEF spans
  <2>7. spans \in Seq(S) /\ Len(spans) = k
    BY <1>7, <2>5, <2>6
  <2>8. QED
    BY <2>2, <2>7 DEF Span
<1> HIDE DEF spans
<1>15. \A n \in 1..k : spans[n].start < spans[n].end
  <2> SUFFICES ASSUME NEW n \in 1..k PROVE spans[n].start < spans[n].end
    OBVIOUS
  <2> DEFINE x == sections[at[n]]
  <2>1. /\ x.start \in Nat /\ x.end \in Nat /\ x.start < b /\ x.end > a /\ x.start < x.end
        /\ spans[n].start = Larger(a, x.start) /\ spans[n].end = Smaller(b, x.end)
    BY <1>3, <1>10, <1>12, <1>14
  <2> HIDE DEF x
  <2>2. QED
    BY <1>1, <2>1 DEF Larger, Smaller
<1>16. spans[1].start = a
  <2> DEFINE p == at[1]
             x == sections[p]
  <2>1. /\ p \in 1..size /\ x.start \in Nat /\ x.start < b
        /\ spans[1].start = Larger(a, x.start)
    BY <1>3, <1>12, <1>13, <1>14
  <2>2. ASSUME x.start > a PROVE FALSE
    <3>1. p # 1
      BY <1>1, <1>11, <2>1, <2>2
    <3> DEFINE q == p - 1
    <3>2. q \in 1..size - 1 /\ q \in 1..size /\ q + 1 = p /\ q < p
      BY <1>1, <2>1, <3>1
    <3> HIDE DEF q
    <3>3. sections[q].end = x.start
      BY <1>11, <3>2
    <3>4. sections[q].start < sections[q].end
      BY <1>10, <3>2
    <3>5. sections[q].start \in Nat /\ sections[q].start < b /\ sections[q].end > a
      BY <1>1, <1>3, <2>1, <2>2, <3>2, <3>3, <3>4
    <3>6. q \in places
      BY <1>6, <3>2, <3>5
    <3>7. PICK m \in 1..k : at[m] = q
      BY <1>9, <3>6
    <3>8. m < 1
      BY <1>9, <1>13, <3>2, <3>7
    <3>9. QED
      BY <1>7, <3>8
  <2> HIDE DEF p, x
  <2>3. QED
    BY <1>1, <2>1, <2>2 DEF Larger
<1>17. spans[k].end = b
  <2> DEFINE p == at[k]
             x == sections[p]
  <2>1. /\ p \in 1..size /\ x.end \in Nat /\ x.end > a
        /\ spans[k].end = Smaller(b, x.end)
    BY <1>3, <1>12, <1>13, <1>14
  <2>2. ASSUME x.end < b PROVE FALSE
    <3>1. p # size
      BY <1>1, <1>11, <2>1, <2>2
    <3> DEFINE q == p + 1
    <3>2. p \in 1..size - 1 /\ q \in 1..size /\ p < q
      BY <1>1, <2>1, <3>1
    <3>3. x.end = sections[q].start
      BY <1>11, <3>2
    <3> HIDE DEF q
    <3>4. sections[q].start < sections[q].end
      BY <1>10, <3>2
    <3>5. sections[q].end \in Nat /\ sections[q].start < b /\ sections[q].end > a
      BY <1>1, <1>3, <2>1, <2>2, <3>2, <3>3, <3>4
    <3>6. q \in places
      BY <1>6, <3>2, <3>5
    <3>7. PICK m \in 1..k : at[m] = q
      BY <1>9, <3>6
    <3>8. k < m
      BY <1>9, <1>13, <3>2, <3>7
    <3>9. QED
      BY <1>7, <3>8
  <2> HIDE DEF p, x
  <2>3. QED
    BY <1>1, <2>1, <2>2 DEF Smaller
<1>18. ASSUME NEW n \in 1..k - 1 PROVE spans[n].end = spans[n + 1].start
  <2> DEFINE p == at[n]
             q == at[n + 1]
             x == sections[p]
             y == sections[q]
  <2>1. n \in 1..k /\ n + 1 \in 1..k /\ n < n + 1 /\ n \in Int
    BY <1>7
  <2>2. /\ p \in 1..size /\ q \in 1..size /\ p < q
        /\ x.start < b /\ x.end > a /\ y.start < b /\ y.end > a
        /\ spans[n].end = Smaller(b, x.end) /\ spans[n + 1].start = Larger(a, y.start)
        /\ x.end \in Nat /\ y.start \in Nat
    BY <1>3, <1>9, <1>12, <1>14, <2>1
  <2>3. q = p + 1
    <3> SUFFICES ASSUME q # p + 1 PROVE FALSE
      OBVIOUS
    <3> DEFINE i == p + 1
    <3>1. i \in 1..size /\ p < i /\ i < q
      BY <1>1, <2>2
    <3>2. x.end <= sections[i].start /\ sections[i].end <= y.start
      BY <1>10, <2>2, <3>1
    <3> HIDE DEF i, p, q, x, y
    <3>3. /\ sections[i].start < sections[i].end
          /\ sections[i].start \in Nat /\ sections[i].end \in Nat
      BY <1>3, <1>10, <3>1
    <3>4. sections[i].start < b /\ sections[i].end > a
      BY <1>1, <2>2, <3>2, <3>3
    <3>5. i \in places
      BY <1>6, <3>1, <3>4
    <3>6. PICK m \in 1..k : at[m] = i
      BY <1>9, <3>5
    <3>7. n < m /\ m < n + 1
      BY <1>9, <2>1, <3>1, <3>6 DEF p, q
    <3>8. QED
      BY <1>7, <2>1, <3>7
  <2>4. p \in 1..size - 1
    BY <1>1, <2>2, <2>3
  <2>5. x.end = y.start
    BY <1>11, <2>3, <2>4
  <2> HIDE DEF x, y
  <2>6. QED
    BY <1>1, <2>2, <2>5 DEF Larger, Smaller
<1>19. Tiles(spans, a, b)
  BY <1>1, <1>2, <1>13, <1>14, <1>15, <1>16, <1>17, <1>18, TilesUnfolded
<1>20. QED
  BY <1>4, <1>19

\* The chunks of a document, as ChunksAreFaithful has them.
LEMMA DocumentChunks ==
  ASSUME NEW lines, IsDocument(lines)
  PROVE  /\ Tiles(ChunkDocument(lines), 0, Len(Text(lines)))
         /\ \A c \in ToSet(ChunkDocument(lines)) :
              c.tokens <= MaxTokens /\ Tiles(c.spans, c.start, c.end)
         /\ \A s \in ToSet(Parse(lines)) :
              (Count(Text(lines), s.start, s.end) <= MaxTokens) =>
                \E c \in ToSet(ChunkDocument(lines)) : c.start <= s.start /\ s.end <= c.end
         /\ \E size \in Nat : DOMAIN ChunkDocument(lines) = 1..size
<1> DEFINE text == Text(lines)
           edge == Len(text)
           levels == Levels(lines)
           sections == Parse(lines)
           ranges == Gathered(text, sections)
           Chunk(n) == BuildChunk(text, sections, ranges[n])
           chunks == [n \in DOMAIN ranges |-> Chunk(n)]
           size == Len(ranges)
<1>1. sections \in Seq(SectionsWith(levels)) /\ Tiles(sections, 0, edge)
  BY ParseTiles
<1>2. edge \in Int
  <2>1. PICK at : Offsets(at, lines) /\ at[Len(lines)] = edge
    BY TextOffsets
  <2>2. Len(lines) \in Nat
    BY DEF IsDocument
  <2>3. QED
    BY <2>1, <2>2 DEF Offsets
<1>3. ChunkDocument(lines) = chunks
  BY DEF ChunkDocument
<1> HIDE DEF text, edge, levels, sections
<1>4. /\ ranges \in Seq(Ranges) /\ Tiles(ranges, 0, edge) /\ Bounded(text, ranges)
      /\ \A n \in 1..Len(sections) :
           (Count(text, sections[n].start, sections[n].end) <= MaxTokens) =>
             Inside(ranges, sections[n].start, sections[n].end)
  BY <1>1, <1>2, GatheredFacts
<1> HIDE DEF ranges
<1>5. DOMAIN ranges = 1..size /\ size \in Nat
  BY <1>4
<1>6. \A n \in 1..size : ranges[n] \in Ranges /\ ranges[n].start \in Int /\ ranges[n].end \in Int
  <2>1. \A n \in 1..size : ranges[n] \in Ranges
    BY <1>4, <1>5
  <2>2. QED
    BY <2>1 DEF Ranges
<1>7. Pieces(Ranges) /\ 0 \in Int
  BY DEF Pieces, Ranges
<1>8. /\ (size = 0) => (0 = edge)
      /\ (size # 0) => (ranges[1].start = 0 /\ ranges[size].end = edge)
      /\ \A n \in 1..size : ranges[n].start < ranges[n].end
      /\ \A n \in 1..size - 1 : ranges[n].end = ranges[n + 1].start
  BY <1>2, <1>4, <1>7, TilesUnfolded
<1>9. \A n \in 1..size : 0 <= ranges[n].start /\ ranges[n].end <= edge
  BY <1>2, <1>4, <1>7, TilesSpread
<1>10. \A n \in 1..size :
         /\ Chunk(n).start = ranges[n].start /\ Chunk(n).end = ranges[n].end
         /\ Chunk(n).tokens = Count(text, ranges[n].start, ranges[n].end)
  BY DEF BuildChunk
<1>11. ASSUME NEW n \in 1..size PROVE Tiles(Chunk(n).spans, ranges[n].start, ranges[n].end)
  BY <1>1, <1>2, <1>6, <1>8, <1>9, SpansTile
<1> HIDE DEF Chunk
<1>12. DOMAIN chunks = 1..size /\ \A n \in 1..size : chunks[n] = Chunk(n)
  BY <1>5
<1>13. Tiles(chunks, 0, edge)
  <2> DEFINE S == {Chunk(n) : n \in 1..size}
  <2>1. \A n \in 1..size : chunks[n] \in S
    BY <1>12
  <2>2. Pieces(S)
    BY <1>6, <1>10 DEF Pieces
  <2>3. chunks = [n \in 1..size |-> chunks[n]]
    BY <1>5
  <2> HIDE DEF chunks, S
  <2>4. chunks \in Seq(S) /\ Len(chunks) = size
    <3>1. chunks \in [1..size -> S]
      BY <2>1, <2>3
    <3>2. QED
      BY <1>5, <2>3, <3>1
  <2>5. \A n \in 1..size : chunks[n].start = ranges[n].start /\ chunks[n].end = ranges[n].end
    BY <1>10, <1>12
  <2>6. (size # 0) => (chunks[1].start = 0 /\ chunks[size].end = edge)
    <3>1. size # 0 => 1 \in 1..size /\ size \in 1..size
      BY <1>5
    <3>2. QED
      BY <1>8, <2>5, <3>1
  <2>7. \A n \in 1..size : chunks[n].start < chunks[n].end
    BY <1>8, <2>5
  <2>8. \A n \in 1..size - 1 : chunks[n].end = chunks[n + 1].start
    <3>1. \A n \in 1..size - 1 : n \in 1..size /\ n + 1 \in 1..size
      BY <1>5
    <3>2. QED
      BY <1>8, <2>5, <3>1
  <2>9. QED
    BY <1>2, <1>7, <1>8, <2>2, <2>4, <2>6, <2>7, <2>8, TilesUnfolded
<1>14. ASSUME NEW c \in ToSet(chunks) PROVE c.tokens <= MaxTokens /\ Tiles(c.spans, c.start, c.end)
  <2>1. PICK n \in 1..size : c = Chunk(n)
    BY <1>12 DEF ToSet
  <2>2. Count(text, ranges[n].start, ranges[n].end) <= MaxTokens
    BY <1>4 DEF Bounded
  <2>3. QED
    BY <1>10, <1>11, <2>1, <2>2
<1>15. ASSUME NEW s \in ToSet(sections), Count(text, s.start, s.end) <= MaxTokens
       PROVE  \E c \in ToSet(chunks) : c.start <= s.start /\ s.end <= c.end
  <2>1. PICK m \in 1..Len(sections) : s = sections[m]
    BY <1>1 DEF ToSet
  <2>2. PICK n \in 1..size : ranges[n].start <= s.start /\ s.end <= ranges[n].end
    BY <1>4, <1>15, <2>1 DEF Inside
  <2>3. chunks[n] \in ToSet(chunks)
    BY <1>12 DEF ToSet
  <2>4. chunks[n].start <= s.start /\ s.end <= chunks[n].end
    BY <1>10, <1>12, <2>2
  <2>5. QED
    BY <2>3, <2>4
<1>16. QED
  BY <1>3, <1>5, <1>12, <1>13, <1>14, <1>15 DEF text, edge, sections

\* The chunks of a table's completed versions are finitely many.
LEMMA ChunksFinite ==
  ASSUME world \in DOMAIN Worlds, NEW table \in Seq(Rows)
  PROVE  IsFiniteSet(AllChunks(table))
<1> DEFINE S == Completed(table)
           f == [v \in S |-> ChunkIds(table, v)]
           T == {f[v] : v \in S}
<1>1. /\ S \subseteq DOMAIN table /\ IsFiniteSet(S)
      /\ \A v \in DOMAIN table : table[v].lines \in Outside.contents
  BY RowFacts
<1>2. ASSUME NEW v \in S
      PROVE  IsFiniteSet(ChunkIds(table, v))
  <2>1. Outside \in ToSet(Worlds)
    BY DEF Outside, ToSet
  <2>2. IsDocument(table[v].lines)
    BY <1>1, <2>1, RebuildAssumption
  <2>3. PICK size \in Nat : DOMAIN ChunkDocument(table[v].lines) = 1..size
    BY <2>2, DocumentChunks
  <2>4. IsFiniteSet(1..size) /\ IsFiniteSet({v})
    <3>1. 1 \in Int /\ size \in Int
      OBVIOUS
    <3> QED
      BY <3>1, FS_Interval, FS_Singleton, Zenon
  <2>5. ChunkIds(table, v) = {v} \X (1..size)
    BY <2>3 DEF ChunkIds
  <2>6. IsFiniteSet({v} \X (1..size))
    BY <2>4, FS_Product, Zenon
  <2> QED
    BY <2>5, <2>6
<1>3. AllChunks(table) = UNION T
  BY DEF AllChunks
<1>4. \A x \in T : IsFiniteSet(x)
  BY <1>2
<1>5. f \in Surjection(S, T)
  BY DEF Surjection
<1> HIDE DEF S, f, T
<1>6. IsFiniteSet(T)
  BY <1>1, <1>5, FS_Surjection
<1> QED
  BY <1>3, <1>4, <1>6, FS_UNION

-----------------------------------------------------------------------------
(* The invariant, under the exercise *)

\* The steps of the exercise that touch no index.
LEMMA ExerciseMovesOn ==
  ASSUME RecoveryInv, UNCHANGED <<world, rows, cluster, rebuild>>, pending' \subseteq DOMAIN rows,
         DOMAIN exercise' = ExerciseFields, exercise'.dump = exercise.dump,
         exercise'.phase \in BeforeIndex => exercise.phase \in BeforeIndex,
         exercise'.phase = "rebuilding" => exercise.phase = "rebuilding",
         exercise'.phase \in {"restored", "rebuilding", "reported"} =>
           exercise'.dump = exercise'.sums,
         ReportIsTrue'
  PROVE  RecoveryInv'
<1>1. Origin' = Origin /\ Outside' = Outside /\ Rows' = Rows
  BY DEF Origin, Outside, Rows
<1>2. Typed' /\ AliasesSound' /\ EarlyUnserved'
  BY <1>1 DEF RecoveryInv, Typed, AliasesSound, EarlyUnserved, cluster
<1>3. CurrentKnown' /\ CandidateBlank'
  BY <1>1 DEF RecoveryInv, CurrentKnown, CandidateBlank, cluster
<1>4. ServableWhole'
  BY <1>1 DEF RecoveryInv, ServableWhole, Servable, cluster
<1>5. ReplaySound'
  BY <1>1 DEF RecoveryInv, ReplaySound, cluster
<1>6. WrittenSound'
  BY <1>1 DEF RecoveryInv, WrittenSound, cluster
<1>7. ExerciseSound'
  BY <1>1 DEF RecoveryInv, ExerciseSound, cluster
<1>8. TablesSound'
  BY DEF RecoveryInv, TablesSound
<1> QED
  BY <1>2, <1>3, <1>4, <1>5, <1>6, <1>7, <1>8 DEF RecoveryInv

\* A step that only reaches another phase, short of the report.
LEMMA ExerciseReaches ==
  ASSUME RecoveryInv, UNCHANGED <<world, tables, cluster, rebuild>>, NEW phase, Reaches(phase),
         phase \notin {"rebuilding", "reported"},
         phase \in BeforeIndex => exercise.phase \in BeforeIndex,
         phase = "restored" => exercise.dump = exercise.sums
  PROVE  RecoveryInv'
<1>1. DOMAIN exercise = ExerciseFields
  BY DEF RecoveryInv, Typed
<1>2. /\ DOMAIN exercise' = ExerciseFields /\ exercise'.phase = phase
      /\ exercise'.dump = exercise.dump /\ exercise'.sums = exercise.sums
  BY <1>1 DEF Reaches, ExerciseFields
<1>3. ReportIsTrue'
  BY <1>2 DEF ReportIsTrue
<1>4. UNCHANGED rows /\ pending' \subseteq DOMAIN rows
  BY DEF RecoveryInv, Typed, tables
<1> QED
  BY <1>2, <1>3, <1>4, ExerciseMovesOn

\* The dump is taken before there is an index that could disagree with it.
LEMMA DumpKeepsInv ==
  ASSUME RecoveryInv, Dump
  PROVE  RecoveryInv'
<1>1. UNCHANGED <<world, rows, pending, indices, read, write, rebuild>> /\ ~Outside.live
      /\ exercise.phase = "idle"
  BY DEF Dump, vars, tables, cluster, In
<1>2. DOMAIN exercise = ExerciseFields
  BY DEF RecoveryInv, Typed
<1>3. DOMAIN exercise' = ExerciseFields /\ exercise'.dump = rows /\ exercise'.phase = "dumped"
  BY <1>2 DEF Dump, ExerciseFields
<1>4. /\ DOMAIN indices = {}
      /\ \A r \in Rebuilders : rebuild[r].phase = "idle" /\ rebuild[r].previous = None
  BY <1>1 DEF RecoveryInv, ExerciseSound, BeforeIndex
<1>5. Outside' = Outside /\ Rows' = Rows
  BY <1>1 DEF Outside, Rows
<1>6. Typed' /\ AliasesSound' /\ EarlyUnserved'
  BY <1>1, <1>3, <1>5 DEF RecoveryInv, Typed, AliasesSound, EarlyUnserved
<1>7. CurrentKnown' /\ CandidateBlank' /\ ServableWhole'
  BY <1>1, <1>4 DEF CurrentKnown, CandidateBlank, ServableWhole
<1>8. ReplaySound'
  BY <1>1, <1>4 DEF ReplaySound
<1>9. WrittenSound'
  <2>1. rebuild'[Restored].phase = "idle" /\ rebuild'[Restored].written = {}
    BY <1>1, <1>4, Constants DEF RecoveryInv, WrittenSound, Preparing
  <2> QED
    BY <2>1 DEF WrittenSound, Preparing, Built, Validated, Undoing
<1>10. ExerciseSound'
  BY <1>1, <1>3, <1>4 DEF ExerciseSound
<1>11. TablesSound'
  BY <1>1, <1>3 DEF RecoveryInv, TablesSound
<1>12. ReportIsTrue'
  BY <1>3 DEF ReportIsTrue
<1> QED
  BY <1>6, <1>7, <1>8, <1>9, <1>10, <1>11, <1>12 DEF RecoveryInv

\* The index to be replaced is empty, and no rebuild has begun.
LEMMA EnsureIndexKeepsInv ==
  ASSUME RecoveryInv, EnsureIndex
  PROVE  RecoveryInv'
<1>1. /\ UNCHANGED <<world, rows, pending, rebuild>> /\ ~Outside.live
      /\ exercise.phase = "restored"
      /\ indices' = Created(1) /\ read' = {1} /\ write' = {1}
  BY DEF EnsureIndex, In, Ensured, tables
<1>2. DOMAIN exercise = ExerciseFields
  BY DEF RecoveryInv, Typed
<1>3. /\ DOMAIN exercise' = ExerciseFields /\ exercise'.dump = exercise.dump
      /\ exercise'.sums = exercise.sums /\ exercise'.phase = "rebuilding"
  BY <1>2 DEF EnsureIndex, Reaches, ExerciseFields
<1>4. /\ DOMAIN indices = {}
      /\ \A r \in Rebuilders : rebuild[r].phase = "idle" /\ rebuild[r].previous = None
      /\ exercise.dump = exercise.sums
  BY <1>1 DEF RecoveryInv, ExerciseSound, BeforeIndex
<1>5. /\ DOMAIN indices' = {1} /\ indices'[1] = NewIndex /\ DOMAIN NewIndex = IndexFields
      /\ NewIndex.current = {}
  BY <1>1, <1>4, CreatedFacts
<1>6. Outside' = Outside /\ Rows' = Rows
  BY <1>1 DEF Outside, Rows
<1>7. Typed' /\ AliasesSound'
  BY <1>1, <1>3, <1>5, <1>6 DEF RecoveryInv, Typed, AliasesSound
<1>8. EarlyUnserved'
  BY <1>1, Constants DEF RecoveryInv, EarlyUnserved
<1>9. CurrentKnown' /\ CandidateBlank' /\ ServableWhole'
  BY <1>1, <1>4, <1>5 DEF CurrentKnown, Known, CandidateBlank, ServableWhole
<1>10. ReplaySound'
  BY <1>1, <1>4 DEF ReplaySound
<1>11. WrittenSound'
  <2>1. rebuild'[Restored].phase = "idle" /\ rebuild'[Restored].written = {}
    BY <1>1, <1>4, Constants DEF RecoveryInv, WrittenSound, Preparing
  <2> QED
    BY <2>1 DEF WrittenSound, Preparing, Built, Validated, Undoing
<1>12. ExerciseSound'
  BY <1>3, <1>4 DEF ExerciseSound, BeforeIndex
<1>13. TablesSound'
  BY <1>1, <1>3 DEF RecoveryInv, TablesSound
<1>14. ReportIsTrue'
  BY <1>3 DEF ReportIsTrue
<1> QED
  BY <1>7, <1>8, <1>9, <1>10, <1>11, <1>12, <1>13, <1>14 DEF RecoveryInv

\* A report is written only of what the rebuild has written: hits that are as many
\* as the chunks of the dump are those chunks.
LEMMA ReportKeepsInv ==
  ASSUME RecoveryInv, Report
  PROVE  RecoveryInv'
<1> DEFINE all == UNION {indices[i].chunks : i \in read}
           b == rebuild[Restored]
<1>1. /\ UNCHANGED <<world, rows, tables, cluster, rebuild>> /\ ~Outside.live
      /\ exercise.phase = "rebuilding" /\ pending' \subseteq DOMAIN rows
  BY DEF Report, vars, In, tables, cluster, RecoveryInv, Typed
<1>2. DOMAIN exercise = ExerciseFields /\ exercise.dump = exercise.sums
  BY <1>1 DEF RecoveryInv, Typed, ExerciseSound
<1>3. PICK found \in Hits(all, Cardinality(b.written)) :
        \/ Reaches("cleanup")
        \/ /\ b.phase = "done" /\ Cardinality(found) = Cardinality(b.written)
           /\ exercise' = [exercise EXCEPT !.phase = "reported", !.evidence = found]
  BY DEF Report
<1>4. CASE Reaches("cleanup")
  BY <1>1, <1>4, ExerciseReaches DEF BeforeIndex
<1>5. CASE /\ b.phase = "done" /\ Cardinality(found) = Cardinality(b.written)
           /\ exercise' = [exercise EXCEPT !.phase = "reported", !.evidence = found]
  <2>1. /\ b.written = AllChunks(exercise.dump) /\ read = {Restored}
        /\ (Restored \in DOMAIN indices => indices[Restored].chunks = b.written)
    BY <1>1, <1>5 DEF RecoveryInv, WrittenSound, Built, Validated
  <2>2. Restored \in DOMAIN indices
    BY <2>1 DEF RecoveryInv, AliasesSound
  <2>3. all = AllChunks(exercise.dump)
    BY <2>1, <2>2
  <2>4. IsFiniteSet(AllChunks(exercise.dump))
    BY ChunksFinite DEF RecoveryInv, Typed
  <2>5. found \in SUBSET all
    BY DEF Hits
  <2> HIDE DEF all
  <2>6. found = AllChunks(exercise.sums)
    BY <1>2, <1>5, <2>1, <2>3, <2>4, <2>5, FS_Subset
  <2>7. /\ DOMAIN exercise' = ExerciseFields /\ exercise'.dump = exercise.dump
        /\ exercise'.sums = exercise.sums /\ exercise'.phase = "reported"
        /\ exercise'.evidence = found
    BY <1>2, <1>5 DEF ExerciseFields
  <2>8. exercise'.dump = exercise'.sums /\ exercise'.evidence = AllChunks(exercise'.sums)
    BY <1>2, <2>6, <2>7
  <2>9. ReportIsTrue'
    BY <2>8 DEF ReportIsTrue, AllChunks
  <2> QED
    BY <1>1, <1>2, <2>7, <2>9, ExerciseMovesOn DEF BeforeIndex
<1> QED
  BY <1>3, <1>4, <1>5

\* Once the exercise's indexes are deleted nothing is served.
LEMMA CleanUpKeepsInv ==
  ASSUME RecoveryInv, CleanUp
  PROVE  RecoveryInv'
<1>1. /\ UNCHANGED <<world, rows, pending, rebuild>> /\ ~Outside.live
      /\ indices' = <<>> /\ read' = {} /\ write' = {}
  BY DEF CleanUp, In, tables
<1>2. DOMAIN exercise = ExerciseFields
  BY DEF RecoveryInv, Typed
<1>3. /\ DOMAIN exercise' = ExerciseFields /\ exercise'.dump = exercise.dump
      /\ exercise'.phase = "ended"
  BY <1>2 DEF CleanUp, Reaches, ExerciseFields
<1>4. DOMAIN indices' = {}
  BY <1>1
<1>5. Outside' = Outside /\ Rows' = Rows /\ Origin' = Origin
  BY <1>1, <1>3 DEF Outside, Rows, Origin
<1>6. Typed' /\ AliasesSound'
  BY <1>1, <1>3, <1>4, <1>5 DEF RecoveryInv, Typed, AliasesSound
<1>7. EarlyUnserved'
  BY <1>1 DEF RecoveryInv, EarlyUnserved
<1>8. CurrentKnown' /\ CandidateBlank' /\ ServableWhole'
  BY <1>4 DEF CurrentKnown, CandidateBlank, ServableWhole
<1>9. ReplaySound'
  BY <1>1, <1>4, <1>5 DEF RecoveryInv, ReplaySound
<1>10. WrittenSound'
  BY <1>1, <1>3, <1>4, <1>5 DEF RecoveryInv, WrittenSound
<1>11. ExerciseSound'
  BY <1>3 DEF ExerciseSound, BeforeIndex
<1>12. TablesSound'
  BY <1>1, <1>3 DEF RecoveryInv, TablesSound
<1>13. ReportIsTrue'
  BY <1>3 DEF ReportIsTrue
<1> QED
  BY <1>6, <1>7, <1>8, <1>9, <1>10, <1>11, <1>12, <1>13 DEF RecoveryInv

\* Every step of the exercise keeps the invariant.
LEMMA ExerciseKeepsInv ==
  ASSUME RecoveryInv, Exercise
  PROVE  RecoveryInv'
<1>1. CASE SumTables \/ SaveArtifacts
  <2>1. /\ UNCHANGED <<world, rows, tables, cluster, rebuild>>
        /\ exercise.phase \in {"dumped", "summed"} /\ pending' \subseteq DOMAIN rows
    BY <1>1 DEF SumTables, SaveArtifacts, In, vars, tables, cluster, RecoveryInv, Typed
  <2>2. CASE Reaches("ended")
    BY <2>1, <2>2, ExerciseReaches DEF BeforeIndex
  <2>3. CASE ~Reaches("ended")
    <3>1. DOMAIN exercise = ExerciseFields
      BY DEF RecoveryInv, Typed
    <3>2. /\ DOMAIN exercise' = ExerciseFields /\ exercise'.dump = exercise.dump
          /\ exercise'.phase \in {"summed", "saved"}
      BY <1>1, <2>3, <3>1 DEF SumTables, SaveArtifacts, ExerciseFields
    <3>3. ReportIsTrue'
      BY <3>2 DEF ReportIsTrue
    <3> QED
      BY <2>1, <3>2, <3>3, ExerciseMovesOn DEF BeforeIndex
  <2> QED
    BY <2>2, <2>3
<1>2. CASE RestoreTables
  <2>1. UNCHANGED <<world, tables, cluster, rebuild>> /\ exercise.phase = "saved"
    BY <1>2 DEF RestoreTables, In, vars, tables, cluster
  <2>2. CASE exercise.dump = exercise.sums
    BY <1>2, <2>1, <2>2, ExerciseReaches DEF RestoreTables, ChecksumsMatch, BeforeIndex
  <2>3. CASE exercise.dump # exercise.sums
    BY <1>2, <2>1, <2>3, ExerciseReaches DEF RestoreTables, ChecksumsMatch, BeforeIndex
  <2> QED
    BY <2>2, <2>3
<1>3. CASE ExerciseFails
  <2>1. UNCHANGED <<world, tables, cluster, rebuild>> /\ (Reaches("ended") \/ Reaches("cleanup"))
    BY <1>3 DEF ExerciseFails, tables, cluster
  <2> QED
    BY <2>1, ExerciseReaches DEF BeforeIndex
<1> QED
  BY <1>1, <1>2, <1>3, DumpKeepsInv, EnsureIndexKeepsInv, ReportKeepsInv, CleanUpKeepsInv
     DEF Exercise

-----------------------------------------------------------------------------
(* The invariant holds *)

\* At first there is nothing: no row, no index, no alias.
LEMMA InitInv ==
  ASSUME Init
  PROVE  RecoveryInv
<1>1. /\ world \in DOMAIN Worlds /\ rows = <<>> /\ pending = {} /\ indices = <<>> /\ read = {}
      /\ write = {}
      /\ rebuild = [r \in Rebuilders |-> Waiting] /\ exercise = NoExercise
  BY DEF Init, RebuildInit
<1>2. \A r \in Rebuilders :
        /\ DOMAIN rebuild[r] = RebuildFields /\ rebuild[r].phase = "idle"
        /\ rebuild[r].queue = <<>> /\ rebuild[r].previous = None /\ rebuild[r].written = {}
  BY <1>1 DEF Waiting, RebuildFields
<1>3. /\ DOMAIN exercise = ExerciseFields /\ exercise.dump = <<>> /\ exercise.phase = "idle"
  BY <1>1 DEF NoExercise, ExerciseFields
<1>4. DOMAIN indices = {} /\ DOMAIN rows = {} /\ DOMAIN exercise.dump = {}
  BY <1>1, <1>3
<1>5. "idle" \in Phases /\ <<>> \in Seq(Nat) /\ <<>> \in Seq(Rows)
  BY DEF Phases, Early, Preparing
<1>6. Typed
  BY <1>1, <1>2, <1>3, <1>4, <1>5 DEF Typed
<1>7. AliasesSound /\ EarlyUnserved
  BY <1>1, <1>2, Constants DEF AliasesSound, EarlyUnserved
<1>8. CurrentKnown /\ ServableWhole /\ CandidateBlank
  BY <1>4 DEF CurrentKnown, ServableWhole, CandidateBlank
<1>9. ReplaySound
  BY <1>2 DEF ReplaySound
<1>10. WrittenSound
  <2>1. rebuild[Restored].phase = "idle" /\ rebuild[Restored].written = {}
    BY <1>2, Constants
  <2> QED
    BY <2>1 DEF WrittenSound, Preparing, Built, Validated, Undoing
<1>11. ExerciseSound
  BY <1>2, <1>3, <1>4 DEF ExerciseSound
<1>12. TablesSound
  BY <1>4 DEF TablesSound, StampsApart
<1>13. ReportIsTrue
  BY <1>3 DEF ReportIsTrue
<1> QED
  BY <1>6, <1>7, <1>8, <1>9, <1>10, <1>11, <1>12, <1>13 DEF RecoveryInv

\* A step that changes nothing but the artifacts and which versions are pending.
LEMMA NothingMoves ==
  ASSUME RecoveryInv, UNCHANGED <<world, rows, cluster, rebuild, exercise>>,
         pending' \subseteq DOMAIN rows
  PROVE  RecoveryInv'
<1>1. DOMAIN exercise = ExerciseFields /\ ReportIsTrue
  BY DEF RecoveryInv, Typed
<1>2. ReportIsTrue'
  BY <1>1 DEF ReportIsTrue
<1>3. exercise.phase \in {"restored", "rebuilding", "reported"} => exercise.dump = exercise.sums
  BY DEF RecoveryInv, ExerciseSound
<1> QED
  BY <1>1, <1>2, <1>3, ExerciseMovesOn

\* What a rebuild may do, in the terms of its moves.
LEMMA StepMoves ==
  ASSUME RecoveryInv, NEW r \in Rebuilders, NEW table, NEW store, RebuildStep(r, table, store),
         table = Origin, MayRun(r), UNCHANGED exercise
  PROVE  Move(r) /\ Compensated(r)
<1>1. table \in Seq(Rows) /\ StampsApart(table)
  BY OriginSound
<1>2. /\ Only(r) /\ Compensated(r) /\ UNCHANGED <<world, rows, pending>>
      /\ \/ Quiet(r) \/ Creates(r) \/ Selects(r, table) \/ Replays(r, table)
         \/ Breaks(r) \/ Moves(r)
  BY <1>1, RebuildMoves DEF RecoveryInv
<1> QED
  BY <1>2 DEF Move, AnyMove

\* A run up to its commit reaches the index behind the write alias or none.
LEMMA PrepareKeepsInv ==
  ASSUME RecoveryInv, NEW v, Prepare(v), UNCHANGED exercise
  PROVE  RecoveryInv'
<1>1. /\ UNCHANGED <<world, rows, rebuild, exercise>> /\ pending' = pending \cup {v}
      /\ v \in DOMAIN rows
  BY DEF Prepare, Runnable
<1>2. CASE ~Outside.live \/ ChunkIds(rows, v) = {}
  <2>1. UNCHANGED cluster /\ pending' \subseteq DOMAIN rows
    BY <1>1, <1>2 DEF Prepare, RecoveryInv, Typed
  <2> QED
    BY <1>1, <2>1, NothingMoves
<1>3. CASE ~(~Outside.live \/ ChunkIds(rows, v) = {})
  <2>1. /\ Ensures
        /\ read' = IF 1 \in DOMAIN indices THEN read ELSE read \cup {1}
        /\ write' = IF 1 \in DOMAIN indices THEN write ELSE {1}
        /\ indices' = [i \in DOMAIN Ensured |->
             IF i \in write' THEN Touched(Upserted(Ensured[i], rows, v), rows[v].document)
             ELSE Ensured[i]]
    BY <1>3 DEF Prepare
  <2> QED
    BY <1>1, <1>3, <2>1, WrittenKeepsInv
<1> QED
  BY <1>2, <1>3

\* What happens outside the rebuilds keeps the invariant.
LEMMA HappensKeepsInv ==
  ASSUME RecoveryInv, Happens, UNCHANGED exercise
  PROVE  RecoveryInv' /\ UNCHANGED rebuild
<1>1. CASE \E d \in Outside.documents, lines \in Outside.contents, stamp \in 1..Outside.maxRows :
             Submit(d, lines, stamp)
  BY <1>1, SubmitKeepsInv DEF Submit
<1>2. CASE (\E v : Commit(v)) \/ (\E d : Delete(d))
  BY <1>2, RecordedKeepsInv DEF Commit, Delete
<1>3. CASE \E v : Prepare(v)
  BY <1>3, PrepareKeepsInv DEF Prepare
<1>4. CASE \E v : RunFails(v)
  <2>1. UNCHANGED <<world, rows, cluster, rebuild>> /\ pending' \subseteq DOMAIN rows
    BY <1>4 DEF RunFails, RecoveryInv, Typed
  <2> QED
    BY <2>1, NothingMoves
<1>5. CASE \E v, how : Damage(v, how)
  <2>1. UNCHANGED <<world, rows, cluster, rebuild>> /\ pending' \subseteq DOMAIN rows
    BY <1>5 DEF Damage, tables, RecoveryInv, Typed
  <2> QED
    BY <2>1, NothingMoves
<1> QED
  BY <1>1, <1>2, <1>3, <1>4, <1>5 DEF Happens

\* A step is that of a rebuild, or leaves the rebuilds alone.
LEMMA NextMoves ==
  ASSUME RecoveryInv, [Next]_allVars
  PROVE  RecoveryInv' /\ (UNCHANGED rebuild \/ \E r \in Rebuilders : Only(r) /\ Compensated(r))
<1>1. CASE Happens /\ UNCHANGED exercise
  BY <1>1, HappensKeepsInv
<1>2. CASE /\ Outside.live /\ \E r \in Rebuilders : RebuildStep(r, rows, artifacts)
           /\ UNCHANGED exercise
  <2>1. PICK r \in Rebuilders : RebuildStep(r, rows, artifacts)
    BY <1>2
  <2>2. rows = Origin /\ MayRun(r)
    BY <1>2 DEF Origin, MayRun
  <2>3. Move(r) /\ Compensated(r)
    BY <1>2, <2>1, <2>2, StepMoves
  <2> QED
    BY <2>3, MoveKeepsInv DEF Move
<1>3. CASE /\ In("rebuilding") /\ RebuildStep(Restored, exercise.dump, exercise.backup)
           /\ UNCHANGED exercise
  <2>1. exercise.dump = Origin /\ MayRun(Restored) /\ Restored \in Rebuilders
    BY <1>3, Constants DEF Origin, MayRun, In
  <2> DEFINE r == Restored
  <2>2. Move(r) /\ Compensated(r)
    BY <1>3, <2>1, StepMoves
  <2> QED
    BY <2>1, <2>2, MoveKeepsInv DEF Move
<1>4. CASE Exercise
  <2>1. UNCHANGED rebuild
    BY <1>4 DEF Exercise, Dump, SumTables, SaveArtifacts, RestoreTables, EnsureIndex, Report,
                ExerciseFails, CleanUp, vars
  <2> QED
    BY <1>4, <2>1, ExerciseKeepsInv
<1>5. CASE UNCHANGED allVars
  <2>1. UNCHANGED <<world, rows, cluster, rebuild, exercise>> /\ pending' \subseteq DOMAIN rows
    BY <1>5 DEF allVars, vars, tables, cluster, RecoveryInv, Typed
  <2> QED
    BY <2>1, NothingMoves
<1> QED
  BY <1>1, <1>2, <1>3, <1>4, <1>5 DEF Next

\* The inductive invariant: whatever rebuilds, rollbacks, ingestion, failures and
\* the exercise do, and in whichever order, the aliases are on one whole index.
THEOREM RecoverySafety == Spec => []RecoveryInv
<1>1. Init => RecoveryInv
  BY InitInv
<1>2. RecoveryInv /\ [Next]_allVars => RecoveryInv'
  BY NextMoves
<1> QED
  BY <1>1, <1>2, PTL DEF Spec

\* Both aliases are on one and the same index, or on none: switch_aliases, which
\* demands that the aliases be where it expects them, cannot split them.
THEOREM AliasesTogether == Spec => []AliasesAgree
<1>1. RecoveryInv => AliasesAgree
  <2> SUFFICES ASSUME RecoveryInv
               PROVE  AliasesAgree
    OBVIOUS
  <2>1. Cardinality({}) = 0 /\ \A i : Cardinality({i}) = 1
    BY FS_EmptySet, FS_Singleton, Zenon
  <2>2. Cardinality(read) \in {0, 1}
    BY <2>1 DEF RecoveryInv, AliasesSound
  <2>3. Cardinality(read) <= 1
    BY <2>2
  <2> QED
    BY <2>3 DEF AliasesAgree, RecoveryInv, AliasesSound
<1> QED
  BY <1>1, RecoverySafety, PTL

\* An index that was rebuilt and is behind the read alias shows, of every document
\* ingestion has not touched since its rows were selected, all of its current version
\* and nothing else as current, and nothing of a document that is deleted or not
\* completed: a candidate gets the aliases only after a full replay, which comes to
\* the current version of a document last, in whichever order versions completed.
THEOREM ServedWhole == Spec => []ServedIsWhole
<1>1. RecoveryInv => ServedIsWhole
  <2> SUFFICES ASSUME RecoveryInv, NEW i \in read \ {1}, NEW d \in Documents \ indices[i].touched
               PROVE  IF d \in Recorded(Origin)
                      THEN (ChunkIds(Origin, CurrentVersion(Origin, d)) # {}) =>
                             {c \in indices[i].current : Origin[c[1]].document = d}
                               = ChunkIds(Origin, CurrentVersion(Origin, d))
                      ELSE {c \in indices[i].current : Origin[c[1]].document = d} = {}
    BY DEF ServedIsWhole
  <2>1. i \in DOMAIN indices \ {1}
    BY DEF RecoveryInv, AliasesSound
  <2>2. Whole(indices[i], Origin, d)
    BY <2>1 DEF RecoveryInv, ServableWhole, Servable
  <2>3. CASE d \in Recorded(Origin)
    <3>1. PICK u \in Completed(Origin) : Origin[u].document = d
      BY <2>3 DEF Recorded
    <3>2. PICK v \in Completed(Origin) : IsCurrent(Origin, v) /\ Origin[v].document = d
      BY <3>1, OriginSound, CurrentExists
    <3>3. CurrentVersion(Origin, d) = v
      BY <3>2, OriginSound, CurrentChosen
    <3>4. ChunkIds(Origin, v) # {} => Shows(indices[i], Origin, d) = ChunkIds(Origin, v)
      BY <2>2, <3>2 DEF Whole
    <3> QED
      BY <2>3, <3>3, <3>4 DEF Shows
  <2>4. CASE d \notin Recorded(Origin)
    BY <2>2, <2>4 DEF Whole, Shows
  <2> QED
    BY <2>3, <2>4
<1> QED
  BY <1>1, RecoverySafety, PTL

\* A report of success is true: the restored tables are those whose checksums were
\* taken, and the evidence is every chunk of every completed version in them.
THEOREM ReportsTrue == Spec => []ReportIsTrue
<1>1. RecoveryInv => ReportIsTrue
  BY DEF RecoveryInv
<1> QED
  BY <1>1, RecoverySafety, PTL

\* A rebuild that ends in an error has taken its candidate from behind the
\* aliases, also where the switch was applied and its acknowledgement lost,
\* unless the compensation was itself cut off.
THEOREM FailuresCompensated == Spec => FailureIsCompensated
<1>1. ASSUME RecoveryInv, [Next]_allVars, NEW q \in Rebuilders,
             rebuild[q].phase # "raised", rebuild'[q].phase = "raised", ~rebuild'[q].cut
      PROVE  q \notin read'
  <2>1. ~UNCHANGED rebuild
    BY <1>1
  <2>2. PICK r \in Rebuilders : Only(r) /\ Compensated(r)
    BY <1>1, <2>1, NextMoves
  <2>3. q = r
    BY <1>1, <2>2 DEF Only
  <2> QED
    BY <1>1, <2>2, <2>3 DEF Compensated
<1>2. RecoveryInv /\ [Next]_allVars =>
        [\A r \in Rebuilders :
           (rebuild[r].phase # "raised" /\ rebuild'[r].phase = "raised" /\ ~rebuild'[r].cut)
             => r \notin read']_allVars
  BY <1>1
<1> QED
  BY <1>2, RecoverySafety, PTL DEF Spec, FailureIsCompensated

\* Whatever document is ingested, its chunks are its text cut in consecutive
\* pieces of at most MaxTokens words, no section that fits is cut, and the spans
\* of a chunk cover it exactly.
THEOREM ChunksFaithful == Spec => []ChunksAreFaithful
<1>1. RecoveryInv => ChunksAreFaithful
  <2> SUFFICES ASSUME RecoveryInv, rows # <<>>
               PROVE  LET lines == Last(rows).lines
                          chunks == ChunkDocument(lines)
                      IN /\ Tiles(chunks, 0, Len(Text(lines)))
                         /\ \A c \in ToSet(chunks) :
                              c.tokens <= MaxTokens /\ Tiles(c.spans, c.start, c.end)
                         /\ \A s \in ToSet(Parse(lines)) :
                              (Count(Text(lines), s.start, s.end) <= MaxTokens) =>
                                \E c \in ToSet(chunks) : c.start <= s.start /\ s.end <= c.end
    BY DEF ChunksAreFaithful
  <2> DEFINE lines == Last(rows).lines
  <2>1. rows \in Seq(Rows) /\ world \in DOMAIN Worlds
    BY DEF RecoveryInv, Typed
  <2>2. Last(rows) \in Rows
    BY <2>1 DEF Last
  <2>3. lines \in Outside.contents
    BY <2>2 DEF Rows
  <2>4. Outside \in ToSet(Worlds)
    BY <2>1 DEF Outside, ToSet
  <2>5. IsDocument(lines)
    BY <2>3, <2>4, RebuildAssumption
  <2> HIDE DEF lines
  <2>6. /\ Tiles(ChunkDocument(lines), 0, Len(Text(lines)))
        /\ \A c \in ToSet(ChunkDocument(lines)) :
             c.tokens <= MaxTokens /\ Tiles(c.spans, c.start, c.end)
        /\ \A s \in ToSet(Parse(lines)) :
             (Count(Text(lines), s.start, s.end) <= MaxTokens) =>
               \E c \in ToSet(ChunkDocument(lines)) : c.start <= s.start /\ s.end <= c.end
    BY <2>5, DocumentChunks
  <2>7. QED
    BY <2>6, Zenon DEF lines
<1>2. QED
  BY <1>1, RecoverySafety, PTL
=============================================================================
