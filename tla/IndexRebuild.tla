---------------------------- MODULE IndexRebuild ----------------------------
(***************************************************************************)
(* The search index as a projection behind two aliases, rebuilt while      *)
(* reads go on: a candidate index is created without aliases, filled from  *)
(* the completed versions in PostgreSQL and their artifacts, validated,    *)
(* and only then given both aliases. Every request to the cluster is a     *)
(* step of its own, any of them can fail, and rebuilds run side by side.   *)
(* An index is named by its schema version. External: the cluster, which   *)
(* applies one update of the aliases as a whole or not at all.             *)
(***************************************************************************)
EXTENDS Chunking

CONSTANTS
  Rebuilders,  \* rebuilds, each the schema version it builds
  Documents,   \* documents that are ingested, numbered as their ids are ordered
  Worlds,      \* what happens outside, and the bounds on it: a sequence of [live, rebuilds,
               \* documents, contents, maxRows, maxFaults, maxDamage, maxDeletions]
  MaxChunks,   \* the most chunks a validation looks at
  None

ASSUME RebuildAssumption ==
  /\ Rebuilders \subseteq Nat \ {0, 1}
  /\ Documents \subseteq Nat
  /\ None \notin Nat /\ MaxChunks \in Nat
  /\ \A w \in ToSet(Worlds) : /\ w.rebuilds \subseteq Rebuilders /\ w.documents \subseteq Documents
                              /\ {w.maxRows, w.maxFaults, w.maxDamage, w.maxDeletions}
                                   \subseteq Nat
                              /\ \A lines \in w.contents : IsDocument(lines)

VARIABLES
  world,      \* the index in Worlds of the one this behaviour happens in
  rows,       \* PostgreSQL: versions in the order of their submission, each joined with
              \* the state of its job and the deleted flag of its document
  pending,    \* versions a worker has written to the index, and not yet committed
  artifacts,  \* per version: whether its artifacts are whole, corrupt, missing, or none yet
  indices,    \* the indexes that exist: their chunks, the current ones, and (history) the
              \* documents ingestion has touched since the index was created or its rows
              \* selected: with a commit or a deletion, or by writing to this index
  read,       \* the indexes behind the read alias
  write,      \* the indexes behind the write alias
  rebuild,    \* per rebuild: how far it is
  faults      \* requests and runs that failed so far

tables == <<rows, pending>>
cluster == <<indices, read, write>>
vars == <<world, tables, artifacts, cluster, rebuild, faults>>

Outside == Worlds[world]

ChunkIds(table, v) == {v} \X DOMAIN ChunkDocument(table[v].lines)

VersionsOf(table, d) == {v \in DOMAIN table : table[v].document = d}
Completed(table) == {v \in DOMAIN table : table[v].done /\ ~table[v].deleted}
Recorded(table) == {table[v].document : v \in Completed(table)}

\* promote, as a version completes: it takes the place of one that is not newer.
CurrentVersion(table, d) ==
  LET completed == VersionsOf(table, d) \cap Completed(table)
  IN CHOOSE v \in completed : \A u \in completed : table[u].stamp <= table[v].stamp

Waiting == [phase |-> "idle", seen |-> None, previous |-> None, documents |-> 0,
            queue |-> <<>>, written |-> {}, cut |-> FALSE]

NewIndex == [chunks |-> {}, current |-> {}, touched |-> {}]

\* The indexes with index i among them, new if it was not there.
Created(i) ==
  [k \in DOMAIN indices \cup {i} |-> IF k \in DOMAIN indices THEN indices[k] ELSE NewIndex]

RebuildInit ==
  /\ world \in DOMAIN Worlds
  /\ rows = <<>> /\ pending = {} /\ artifacts = <<>>
  /\ indices = <<>> /\ read = {} /\ write = {}
  /\ rebuild = [r \in Rebuilders |-> Waiting]
  /\ faults = 0

-----------------------------------------------------------------------------
(* Ingestion, as far as it bears on a rebuild *)

\* ensure: the index of schema version 1 is there, or is created with both
\* aliases, which the cluster refuses when another index is the write index.
Ensures == 1 \in DOMAIN indices \/ write = {}
Ensured == Created(1)

\* upsert: the chunks of a version are written, the document's other
\* versions cease to be current, its own become current.
Upserted(index, table, v) ==
  LET ids == ChunkIds(table, v)
      others == {c \in index.current : table[c[1]].document = table[v].document}
  IN [index EXCEPT !.chunks = @ \cup ids, !.current = (@ \ others) \cup ids]

Touched(index, d) == [index EXCEPT !.touched = @ \cup {d}]

\* A commit or a deletion. In a world that is not live the indexes are those of
\* the recovery exercise, which ingestion knows nothing of.
Recording(d) ==
  indices' = IF Outside.live THEN [i \in DOMAIN indices |-> Touched(indices[i], d)] ELSE indices

\* A document's lock is held from the beginning of a run to its commit: no other
\* run, submission or deletion of it comes in between.
Locked(d) == \E v \in pending : rows[v].document = d

Deleted(d) == \E v \in VersionsOf(rows, d) : rows[v].deleted

\* submit: timestamps are the sources', and need not come in their order.
Submit(d, lines, stamp) ==
  /\ Len(rows) < Outside.maxRows
  /\ ~Locked(d) /\ \A v \in VersionsOf(rows, d) : rows[v].stamp # stamp
  /\ rows' = Append(rows, [document |-> d, lines |-> lines, stamp |-> stamp, done |-> FALSE,
                           deleted |-> Deleted(d)])
  /\ artifacts' = Append(artifacts, "none")
  /\ UNCHANGED <<world, pending, cluster, rebuild, faults>>

\* put reads back what it has written; a run that resumes at the index puts nothing.
Put(v) == \/ artifacts' = [artifacts EXCEPT ![v] = "whole"]
          \/ artifacts[v] # "none" /\ UNCHANGED artifacts

Runnable(v) == v \in DOMAIN rows /\ ~rows[v].done /\ ~Locked(rows[v].document)

\* A run up to its commit: the artifacts, and the chunks behind the write alias.
\* A version without chunks does not reach the index.
Prepare(v) ==
  /\ Runnable(v)
  /\ Put(v)
  /\ pending' = pending \cup {v}
  /\ IF ~Outside.live \/ ChunkIds(rows, v) = {} THEN UNCHANGED cluster
     ELSE /\ Ensures /\ ~rows[v].deleted
          /\ read' = IF 1 \in DOMAIN indices THEN read ELSE read \cup {1}
          /\ write' = IF 1 \in DOMAIN indices THEN write ELSE {1}
          /\ indices' = [i \in DOMAIN Ensured |->
               IF i \in write' THEN Touched(Upserted(Ensured[i], rows, v), rows[v].document)
               ELSE Ensured[i]]
  /\ UNCHANGED <<world, rows, rebuild, faults>>

\* The run fails before or after it has written to the index: its transaction is
\* rolled back, and the job is run again, or never.
RunFails(v) ==
  /\ faults < Outside.maxFaults
  /\ faults' = faults + 1
  /\ \/ Runnable(v) /\ Put(v) /\ UNCHANGED pending
     \/ v \in pending /\ pending' = pending \ {v} /\ UNCHANGED artifacts
  /\ UNCHANGED <<world, rows, cluster, rebuild>>

Commit(v) ==
  /\ v \in pending
  /\ pending' = pending \ {v}
  /\ rows' = [rows EXCEPT ![v].done = TRUE]
  /\ Recording(rows[v].document)
  /\ UNCHANGED <<world, artifacts, read, write, rebuild, faults>>

\* The source no longer has the document: its row is marked, the index is not told.
Delete(d) ==
  /\ Cardinality({e \in Documents : Deleted(e)}) < Outside.maxDeletions
  /\ ~Locked(d) /\ ~Deleted(d) /\ VersionsOf(rows, d) # {}
  /\ rows' = [v \in DOMAIN rows |->
                IF rows[v].document = d THEN [rows[v] EXCEPT !.deleted = TRUE] ELSE rows[v]]
  /\ Recording(d)
  /\ UNCHANGED <<world, pending, artifacts, read, write, rebuild, faults>>

\* An artifact is lost, or its bytes no longer have their digest.
Damage(v, how) ==
  /\ Cardinality({n \in DOMAIN artifacts : artifacts[n] \in {"corrupt", "missing"}})
       < Outside.maxDamage
  /\ artifacts[v] = "whole"
  /\ artifacts' = [artifacts EXCEPT ![v] = how]
  /\ UNCHANGED <<world, tables, cluster, rebuild, faults>>

-----------------------------------------------------------------------------
(* Steps of a rebuild *)

Goes(r, b) == rebuild' = [rebuild EXCEPT ![r] = b]
At(r, phase) == rebuild[r].phase = phase

Switching == {"guard", "update", "confirm"}
Undoing == {"check", "undo_guard", "undo_update", "undo_confirm"}

\* Fault: an exception out of the switch ends the rebuild at once.
RaisedAtOnce(b) == [b EXCEPT !.phase = "raised", !.seen = None]

\* Where an exception leads: out of the rebuild, or, out of the switch, to
\* the check whether the candidate has the aliases after all. cut: the
\* compensation itself did not get through.
Raised(b) ==
  [b EXCEPT !.phase = IF @ \in Switching THEN "check" ELSE "raised",
            !.seen = None, !.cut = b.phase \in Undoing]

\* Any request to PostgreSQL, to the object store or to the cluster fails.
RequestFails(r) ==
  /\ faults < Outside.maxFaults
  /\ rebuild[r].phase \notin {"idle", "done", "raised", "undone"}
  /\ faults' = faults + 1
  /\ Goes(r, Raised(rebuild[r]))
  /\ UNCHANGED <<world, tables, artifacts, cluster>>

\* active_index asks for one alias, then for the other.
Looking == {"start", "guard", "confirm", "check", "undo_guard", "undo_confirm"}

LookAtRead(r) ==
  /\ rebuild[r].phase \in Looking /\ rebuild[r].seen = None
  /\ Goes(r, [rebuild[r] EXCEPT !.seen = read])
  /\ UNCHANGED <<world, tables, artifacts, cluster, faults>>

\* What follows from the answer of active_index.
Found(r, b, active) ==
  CASE b.phase = "start"                              -> [b EXCEPT !.previous = active,
                                                                   !.phase = "create"]
    [] b.phase = "guard" /\ active = b.previous       -> [b EXCEPT !.phase = "update"]
    [] b.phase = "confirm" /\ active = r              -> [b EXCEPT !.phase = "done"]
    [] b.phase = "check" /\ active = r                -> [b EXCEPT !.phase = "undo_guard"]
    [] b.phase = "check" /\ active # r                -> [b EXCEPT !.phase = "raised"]
    [] b.phase = "undo_guard" /\ active = r           -> [b EXCEPT !.phase = "undo_update"]
    [] b.phase = "undo_confirm" /\ active = b.previous -> [b EXCEPT !.phase = "undone"]
    [] OTHER                                          -> Raised(b)

LookAtWrite(r) ==
  /\ rebuild[r].phase \in Looking /\ rebuild[r].seen # None
  /\ LET b == [rebuild[r] EXCEPT !.seen = None]
         seen == rebuild[r].seen
     IN Goes(r, IF Cardinality(seen) # 1 \/ seen # write THEN Raised(b)
                ELSE Found(r, b, CHOOSE i \in seen : TRUE))
  /\ UNCHANGED <<world, tables, artifacts, cluster, faults>>

Start(r) ==
  /\ r \in Outside.rebuilds /\ At(r, "idle")
  /\ Goes(r, [rebuild[r] EXCEPT !.phase = "start"])
  /\ UNCHANGED <<world, tables, artifacts, cluster, faults>>

CreateCandidate(r) ==
  /\ At(r, "create")
  /\ IF r \in DOMAIN indices
     THEN Goes(r, Raised(rebuild[r])) /\ UNCHANGED indices
     ELSE /\ indices' = Created(r)
          /\ Goes(r, [rebuild[r] EXCEPT !.phase = "count"])
  /\ UNCHANGED <<world, tables, artifacts, read, write, faults>>

-----------------------------------------------------------------------------
(* The replay, from a table of versions and a store of artifacts *)

CountDocuments(r, table) ==
  /\ At(r, "count")
  /\ Goes(r, [rebuild[r] EXCEPT !.phase = "select", !.documents = Cardinality(Recorded(table))])
  /\ UNCHANGED <<world, tables, artifacts, cluster, faults>>

\* Fault: versions are replayed in the order they were submitted in.
ReplayOrderSubmitted(table) == Increasing(Completed(table))

\* ORDER BY document, (version = current version), source timestamp.
Precedes(table, u, v) ==
  \/ table[u].document < table[v].document
  \/ /\ table[u].document = table[v].document
     /\ LET current == CurrentVersion(table, table[u].document)
        IN \/ u # current /\ v = current
           \/ (u = current <=> v = current) /\ table[u].stamp < table[v].stamp

ReplayOrder(table) ==
  LET completed == Completed(table)
  IN Sorted(completed, {p \in completed \X completed : Precedes(table, p[1], p[2])})

\* The rows, in a statement of their own: as many current ones as documents.
SelectRows(r, table) ==
  /\ At(r, "select")
  /\ IF Cardinality(Recorded(table)) # rebuild[r].documents
     THEN Goes(r, Raised(rebuild[r])) /\ UNCHANGED indices
     ELSE /\ Goes(r, [rebuild[r] EXCEPT !.phase = "replay", !.queue = ReplayOrder(table)])
          /\ indices' = [indices EXCEPT ![r].touched = {}]
  /\ UNCHANGED <<world, tables, artifacts, read, write, faults>>

\* get answers with bytes that have the digest of their reference, or raises.
Fetched(store, v) == store[v] = "whole"

\* One version: its artifacts fetched and compared with its row, parsed, chunked,
\* and written to the candidate if it has chunks. The writer refuses a document
\* that has been deleted in the meantime.
ReplayRow(r, table, store) ==
  /\ At(r, "replay") /\ rebuild[r].queue # <<>>
  /\ LET v == Head(rebuild[r].queue)
         ids == ChunkIds(table, v)
     IN IF ~Fetched(store, v) \/ (ids # {} /\ table[v].deleted)
        THEN Goes(r, Raised(rebuild[r])) /\ UNCHANGED indices
        ELSE /\ Goes(r, [rebuild[r] EXCEPT !.queue = Tail(@), !.written = @ \cup ids])
             /\ indices' = IF ids = {} THEN indices
                           ELSE [indices EXCEPT ![r] = Upserted(@, table, v)]
  /\ UNCHANGED <<world, tables, artifacts, read, write, faults>>

\* A bulk request that fails part of the way leaves some chunks behind.
ReplayBreaks(r, table) ==
  /\ At(r, "replay") /\ rebuild[r].queue # <<>> /\ faults < Outside.maxFaults
  /\ faults' = faults + 1
  /\ \E ids \in SUBSET ChunkIds(table, Head(rebuild[r].queue)) :
       indices' = [indices EXCEPT ![r].chunks = @ \cup ids]
  /\ Goes(r, Raised(rebuild[r]))
  /\ UNCHANGED <<world, tables, artifacts, read, write>>

EndReplay(r) ==
  /\ At(r, "replay") /\ rebuild[r].queue = <<>>
  /\ Goes(r, [rebuild[r] EXCEPT !.phase = "validate"])
  /\ UNCHANGED <<world, tables, artifacts, cluster, faults>>

\* What a search for so many hits returns: at least one is asked for.
Hits(chunks, count) ==
  {hits \in SUBSET chunks : Cardinality(hits) = Min({Cardinality(chunks), Max({count, 1})})}

\* The hits are as many as the chunks that were replayed, and the same.
Valid(hits, written) ==
  /\ Cardinality(written) <= MaxChunks
  /\ Cardinality(hits) = Cardinality(written) /\ hits = written

Validate(r) ==
  /\ At(r, "validate")
  /\ \E hits \in Hits(indices[r].chunks, Cardinality(rebuild[r].written)) :
       Goes(r, IF Valid(hits, rebuild[r].written)
               THEN [rebuild[r] EXCEPT !.phase = "guard"] ELSE Raised(rebuild[r]))
  /\ UNCHANGED <<world, tables, artifacts, cluster, faults>>

-----------------------------------------------------------------------------
(* The switch, and its undoing *)

\* Fault: the removal of an alias that is not there is no error.
SwitchableAlways(from, to) == to \in DOMAIN indices

\* must_exist: the aliases to be removed are where they are expected.
Switchable(from, to) == to \in DOMAIN indices /\ from \in read /\ from \in write

Moved(aliases, from, to) == (aliases \ {from}) \cup {to}

\* The update of the aliases: refused, or applied and acknowledged, or
\* applied and its acknowledgement lost.
MoveAliases(r, from, to, next) ==
  IF ~Switchable(from, to)
  THEN /\ Goes(r, Raised(rebuild[r]))
       /\ UNCHANGED <<read, write, faults>>
  ELSE /\ read' = Moved(read, from, to) /\ write' = Moved(write, from, to)
       /\ \/ Goes(r, [rebuild[r] EXCEPT !.phase = next]) /\ UNCHANGED faults
          \/ /\ faults < Outside.maxFaults
             /\ faults' = faults + 1
             /\ Goes(r, Raised(rebuild[r]))

SwitchAliases(r) ==
  /\ At(r, "update")
  /\ MoveAliases(r, rebuild[r].previous, r, "confirm")
  /\ UNCHANGED <<world, tables, artifacts, indices>>

UndoSwitch(r) ==
  /\ At(r, "undo_update")
  /\ MoveAliases(r, r, rebuild[r].previous, "undo_confirm")
  /\ UNCHANGED <<world, tables, artifacts, indices>>

\* An operator takes a rebuild back.
Rollback(r) ==
  /\ Outside.live /\ At(r, "done")
  /\ Goes(r, [rebuild[r] EXCEPT !.phase = "undo_guard"])
  /\ UNCHANGED <<world, tables, artifacts, cluster, faults>>

RebuildStep(r, table, store) ==
  \/ Start(r) \/ LookAtRead(r) \/ LookAtWrite(r) \/ CreateCandidate(r)
  \/ CountDocuments(r, table) \/ SelectRows(r, table)
  \/ ReplayRow(r, table, store) \/ ReplayBreaks(r, table) \/ EndReplay(r)
  \/ Validate(r) \/ SwitchAliases(r) \/ UndoSwitch(r) \/ Rollback(r)
  \/ RequestFails(r)

Happens ==
  \/ \E d \in Outside.documents :
       \/ Delete(d)
       \/ \E lines \in Outside.contents, stamp \in 1..Outside.maxRows : Submit(d, lines, stamp)
  \/ \E v \in DOMAIN rows :
       \/ Prepare(v) \/ RunFails(v) \/ Commit(v)
       \/ \E how \in {"corrupt", "missing"} : Damage(v, how)
=============================================================================
