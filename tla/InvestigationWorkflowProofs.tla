-------------------- MODULE InvestigationWorkflowProofs --------------------
(***************************************************************************)
(* Safety of an investigation, for any number of workers and clients, any  *)
(* plans and any budget.                                                   *)
(***************************************************************************)
EXTENDS InvestigationWorkflow, TLAPS

-----------------------------------------------------------------------------
(* The inductive invariant.                                                *)

Counted(s) ==
  /\ s.tools = s.plan.searches + s.plan.comparisons
  /\ s.retrievals = s.plan.searches

\* How far the requests of the plan are answered when a node is to run.
Progress(s) ==
  /\ s.node \in {"plan", "retrieve"} =>
       s.tools = 0 /\ s.retrievals = 0 /\ s.pending = None
  /\ s.node = "compare" =>
       s.tools = s.plan.searches /\ s.retrievals = s.plan.searches /\ s.pending = None
  /\ s.node = "verify" => s.pending \in {None, "tool_failure"}
  /\ s.node = "verify" /\ s.pending = None => Counted(s)
  /\ s.node = "report" => s.pending # None
  /\ s.node = "report" /\ s.pending = "success" => Counted(s)
  /\ s.node \in {"retrieve", "compare", "verify", "report"} => s.plan # None

\* A record that is not finished is at a node within the budget; a finished one
\* has the status of its reason, and its success is earned.
Sound(s) ==
  /\ s \in State
  /\ s.stop = None =>
       /\ s.node # "done" /\ s.status \in {"queued", "running"}
       /\ s.tokens < MaxTokens
       /\ Progress(s)
       /\ s.status = "running" => s.started # None
  /\ s.stop # None => s.node = "done" /\ s.status = StatusOf(s.stop)
  /\ s.stop = "success" => s.plan # None /\ s.pending = "success" /\ Counted(s)

\* The snapshot s of the record r: never newer, and the same while no one saved.
Behind(s, r) ==
  /\ r \in State /\ Sound(s) /\ s.stop = None
  /\ s.revision <= r.revision
  /\ s.revision = r.revision => s = r

\* The stops that a node, or what comes before it, may reach from the snapshot s.
MayStop(s, d) ==
  \/ /\ d.stop \in {"success", "insufficient_evidence", "tool_failure"}
     /\ s.node = "report" /\ d.steps = s.steps + 1
  \/ d.stop \in {"token_budget", "timeout"} /\ d.steps \in {s.steps, s.steps + 1}
  \/ /\ d.stop \in {"tool_budget", "retrieval_budget"}
     /\ s.node \in {"retrieve", "compare"} /\ d.steps = s.steps + 1
  \/ d.stop = "max_steps" /\ s.steps = MaxSteps /\ d.steps = s.steps
  \/ d.stop \in {"cancelled", "workflow_failure"} /\ d.steps = s.steps

\* From the snapshot s to what is saved over it, d: one node, or one stop.
Moves(s, d) ==
  \/ /\ d.stop = None /\ d.status = "running" /\ d.steps = s.steps + 1
     /\ s.node \in DOMAIN Abstract!Follows /\ d.node \in Abstract!Follows[s.node]
  \/ d.stop # None /\ MayStop(s, d)

\* The copy s of a snapshot, running.
Begun(seen, s) ==
  /\ Sound(s) /\ s.stop = None /\ s.status = "running"
  /\ s = [seen EXCEPT !.status = "running", !.started = s.started]
  /\ s.steps < MaxSteps

\* The copy s of a snapshot in the middle of the tool requests of its node.
InTools(seen, s, calls) ==
  /\ s \in State /\ s.stop = None /\ s.status = "running" /\ s.started # None
  /\ s.node = seen.node /\ s.node \in {"retrieve", "compare"}
  /\ s.steps = seen.steps + 1 /\ s.tokens < MaxTokens
  /\ s.plan # None /\ s.pending = None /\ calls <= Requests(s)
  /\ s.node = "retrieve" => s.tools = calls /\ s.retrievals = calls
  /\ s.node = "compare" => s.tools = s.plan.searches + calls /\ s.retrievals = s.plan.searches

\* What the worker v knows of the record r, in each place of its run.
WorkerSound(v, r) ==
  /\ v.at # "idle" => r # None
  /\ v.at \in {"node", "tools", "save"} => Behind(v.seen, r)
  /\ v.at = "node" => Begun(v.seen, v.draft) /\ v.calls = 0
  /\ v.at = "tools" => InTools(v.seen, v.draft, v.calls)
  /\ v.at = "save" => Sound(v.draft) /\ Moves(v.seen, v.draft)

ClientSound(v, r) ==
  /\ v.at = "enqueue" => r # None
  /\ v.at = "cancel" => Behind(v.seen, r)

WorkerType == [at : {"idle", "read", "node", "tools", "save"},
               seen : State \cup {None}, draft : State \cup {None}, calls : Nat]
ClientType == [at : {"idle", "enqueue", "cancel"}, seen : State \cup {None}]

RecordSound == record # None => Sound(record)
WorkersSound == \A w \in Workers : WorkerSound(worker[w], record)
ClientsSound == \A c \in Clients : ClientSound(client[c], record)
QueueSound == queued => record # None
ToldSound == told # None => record # None /\ record.stop = told

InvestigationInv ==
  /\ TypeOK /\ RecordSound /\ WorkersSound /\ ClientsSound /\ QueueSound /\ ToldSound

-----------------------------------------------------------------------------
(* Facts about records.                                                    *)

\* The budget and the bounds are numbers, and None is none of the other values.
LEMMA Constants ==
  /\ MaxSteps \in Nat /\ MaxTokens \in Nat /\ MaxToolCalls \in Nat /\ MaxRetrievals \in Nat
  /\ MaxDuration \in Nat /\ MaxUse \in Nat /\ MaxTime \in Nat /\ MaxCrashes \in Nat
  /\ 0 < MaxSteps /\ 0 < MaxTokens /\ 0 < MaxToolCalls /\ 0 < MaxRetrievals
  /\ \A p \in Plans : p.searches \in Nat /\ p.comparisons \in Nat
  /\ None \notin Plans /\ None \notin Nat /\ None \notin Reasons /\ None \notin State
<1>1. \A n \in {MaxSteps, MaxDuration, MaxTokens, MaxToolCalls, MaxRetrievals} :
        n \in Nat /\ 0 < n
  BY InvestigationAssumption
<1>2. \A n \in {MaxUse, MaxTime, MaxCrashes} : n \in Nat
  BY InvestigationAssumption
<1>3. \A p \in Plans : p.searches \in Nat /\ p.comparisons \in Nat
  BY InvestigationAssumption
<1>4. QED
  BY <1>1, <1>2, <1>3, InvestigationAssumption, NoneAssumption

\* The fields of a record.
LEMMA Fields ==
  ASSUME NEW s \in State
  PROVE  /\ s.status \in {"queued", "running", "completed", "partial", "failed", "cancelled"}
         /\ s.node \in Nodes /\ s.revision \in Nat /\ s.started \in 0..MaxTime \cup {None}
         /\ s.steps \in 0..MaxSteps /\ s.tokens \in 0..(MaxTokens + MaxUse)
         /\ s.tools \in 0..MaxToolCalls /\ s.retrievals \in 0..MaxRetrievals
         /\ s.plan \in Plans \cup {None}
         /\ s.pending \in {None, "success", "insufficient_evidence", "tool_failure"}
         /\ s.stop \in Reasons \cup {None}
BY DEF State

\* create_investigation: the new record.
LEMMA NewSound == New \in State /\ Sound(New) /\ New # None /\ New.stop = None
<1>1. New \in State
  BY Constants DEF New, State, Nodes
<1>2. QED
  <2>1. /\ New.status = "queued" /\ New.node = "plan" /\ New.tokens = 0 /\ New.tools = 0
        /\ New.retrievals = 0 /\ New.pending = None /\ New.stop = None
    BY DEF New
  <2>2. New # None /\ New.stop # "success"
    BY <1>1, <2>1, Constants DEF Reasons
  <2>3. QED
    BY <1>1, <2>1, <2>2, Constants DEF Sound, Progress

\* _finish: a stopped record, sound if the reason is.
LEMMA StopSound ==
  ASSUME NEW s \in State, NEW reason \in Reasons,
         reason = "success" => s.plan # None /\ s.pending = "success" /\ Counted(s)
  PROVE  /\ Stopped(s, reason) \in State /\ Sound(Stopped(s, reason))
         /\ Stopped(s, reason).stop = reason /\ Stopped(s, reason).steps = s.steps
         /\ Stopped(s, reason).revision = s.revision
<1> DEFINE d == Stopped(s, reason)
<1>1. StatusOf(reason) \in {"completed", "partial", "failed", "cancelled"}
  BY DEF StatusOf
<1>2. d \in State
  BY <1>1 DEF Stopped, State, Nodes
<1>3. /\ d.stop = reason /\ d.node = "done" /\ d.status = StatusOf(reason)
      /\ d.steps = s.steps /\ d.revision = s.revision /\ d.plan = s.plan
      /\ d.pending = s.pending /\ d.tools = s.tools /\ d.retrievals = s.retrievals
  BY DEF Stopped, State
<1>4. reason # None
  BY Constants
<1>5. QED
  BY <1>2, <1>3, <1>4 DEF Sound, Counted

\* _budget_reason: what it may answer.
LEMMA SpentReason ==
  ASSUME NEW s \in State
  PROVE  /\ Spent(s) \in {None, "token_budget", "timeout"}
         /\ Spent(s) = None => s.tokens < MaxTokens
         /\ Exhausted(s) \in {None, "token_budget", "timeout", "max_steps"}
         /\ Exhausted(s) = None => s.tokens < MaxTokens /\ s.steps < MaxSteps
         /\ Exhausted(s) = "max_steps" => s.steps = MaxSteps
<1>1. s.tokens \in Nat /\ s.steps \in 0..MaxSteps
  BY Fields, Constants
<1>2. None \notin {"token_budget", "timeout", "max_steps"}
  BY Constants DEF Reasons
<1>3. QED
  BY <1>1, <1>2, Constants DEF Spent, Exhausted

\* The record that a save writes differs from the worker's copy in its revision.
LEMMA Revised ==
  ASSUME NEW d, Sound(d), NEW s \in State, Moves(s, d), NEW n \in Nat
  PROVE  LET r == [d EXCEPT !.revision = n]
         IN  r \in State /\ Sound(r) /\ Moves(s, r) /\ r.revision = n /\ r.stop = d.stop
<1> DEFINE r == [d EXCEPT !.revision = n]
<1>1. d \in State
  BY DEF Sound
<1>2. r \in State
  BY <1>1 DEF State
<1>3. /\ r.status = d.status /\ r.node = d.node /\ r.started = d.started
      /\ r.steps = d.steps /\ r.tokens = d.tokens /\ r.tools = d.tools
      /\ r.retrievals = d.retrievals /\ r.plan = d.plan /\ r.pending = d.pending
      /\ r.stop = d.stop /\ r.revision = n
  BY <1>1 DEF State
<1> HIDE DEF r
<1>4. Sound(r)
  BY <1>2, <1>3 DEF Sound, Progress, Counted
<1>5. Moves(s, r)
  BY <1>3 DEF Moves, MayStop
<1>6. QED
  BY <1>2, <1>3, <1>4, <1>5 DEF r

\* The copy of a snapshot at the start of a node.
LEMMA StartedSound ==
  ASSUME NEW s \in State, Sound(s), s.stop = None, now \in 0..MaxTime
  PROVE  /\ Started(s) \in State /\ Sound(Started(s))
         /\ Started(s).stop = None /\ Started(s).status = "running"
         /\ Started(s).steps = s.steps
         /\ Started(s) = [s EXCEPT !.status = "running", !.started = Started(s).started]
<1> DEFINE d == Started(s)
<1>1. CASE s.status = "queued"
  <2>1. d = [s EXCEPT !.status = "running", !.started = now]
    BY <1>1 DEF Started
  <2>2. d \in State
    BY <2>1 DEF State
  <2>3. /\ d.status = "running" /\ d.started = now /\ d.node = s.node
        /\ d.steps = s.steps /\ d.tokens = s.tokens /\ d.tools = s.tools
        /\ d.retrievals = s.retrievals /\ d.plan = s.plan /\ d.pending = s.pending
        /\ d.stop = s.stop
    BY <2>1 DEF State
  <2> HIDE DEF d
  <2>4. now # None
    BY Constants
  <2>5. Sound(d)
    BY <2>2, <2>3, <2>4 DEF Sound, Progress, Counted
  <2>6. QED
    BY <2>1, <2>2, <2>3, <2>5 DEF d
<1>2. CASE s.status # "queued"
  <2>1. d = s /\ s.status = "running"
    BY <1>2 DEF Started, Sound
  <2>2. s = [s EXCEPT !.status = "running", !.started = s.started]
    BY <2>1 DEF State
  <2>3. QED
    BY <2>1, <2>2
<1>3. QED
  BY <1>1, <1>2

\* A node that has run and goes on, unless the budget is spent.
LEMMA AfterNodeSound ==
  ASSUME NEW seen \in State, NEW s \in State,
         s.stop = None, s.status = "running", s.started # None,
         s.steps = seen.steps + 1, Progress(s),
         seen.node \in DOMAIN Abstract!Follows, s.node \in Abstract!Follows[seen.node]
  PROVE  Sound(AfterNode(s)) /\ Moves(seen, AfterNode(s))
<1>1. CASE Spent(s) = None
  <2>1. AfterNode(s) = s
    BY <1>1 DEF AfterNode, StoppedIf
  <2>2. s.node # "done"
    BY DEF Abstract!Follows
  <2>3. Sound(s)
    BY <1>1, <2>2, SpentReason, Constants DEF Sound, Reasons
  <2>4. QED
    BY <2>1, <2>3 DEF Moves
<1>2. CASE Spent(s) # None
  <2>1. Spent(s) \in {"token_budget", "timeout"}
    BY <1>2, SpentReason
  <2>2. AfterNode(s) = Stopped(s, Spent(s))
    BY <1>2 DEF AfterNode, StoppedIf
  <2>3. Spent(s) \in Reasons /\ Spent(s) # "success"
    BY <2>1 DEF Reasons
  <2>4. Sound(AfterNode(s)) /\ AfterNode(s).stop = Spent(s) /\ AfterNode(s).steps = s.steps
    BY <2>2, <2>3, StopSound
  <2>5. MayStop(seen, AfterNode(s))
    BY <2>1, <2>4 DEF MayStop
  <2>6. QED
    BY <1>2, <2>4, <2>5 DEF Moves
<1>3. QED
  BY <1>1, <1>2

-----------------------------------------------------------------------------
(* What a save does to the record and to what the others know of it.       *)

\* The record after a save: it was not finished, and has moved on by one.
Saves ==
  /\ record # None /\ record.stop = None
  /\ Sound(record') /\ Moves(record, record')
  /\ record'.revision = record.revision + 1

\* A snapshot falls behind when someone else saves.
LEMMA BehindKept ==
  ASSUME NEW r \in State, NEW q \in State, q.revision = r.revision + 1,
         NEW s, Behind(s, r)
  PROVE  Behind(s, q)
<1>1. s \in State /\ s.revision \in Nat /\ r.revision \in Nat
  BY Fields DEF Behind, Sound
<1>2. QED
  BY <1>1 DEF Behind

\* A snapshot that was just read.
LEMMA BehindItself ==
  ASSUME NEW r \in State, Sound(r), r.stop = None
  PROVE  Behind(r, r)
<1>1. r.revision \in Nat
  BY Fields
<1>2. QED
  BY <1>1 DEF Behind

\* So what the other workers and clients know stays true.
LEMMA OthersKept ==
  ASSUME NEW r \in State, NEW q \in State, q.revision = r.revision + 1, q # None,
         NEW v
  PROVE  /\ WorkerSound(v, r) => WorkerSound(v, q)
         /\ ClientSound(v, r) => ClientSound(v, q)
BY BehindKept DEF WorkerSound, ClientSound

\* A snapshot of the same revision as the record is the record.
LEMMA MatchIsSame ==
  ASSUME NEW s, Behind(s, record), Matches(s)
  PROVE  /\ s = record /\ record \in State /\ record # None /\ Sound(record)
         /\ record.stop = None
BY Constants DEF Behind, Matches

\* InvestigationService.cancel: a cancellation that is accepted is a move.
LEMMA CancelSaves ==
  ASSUME InvestigationInv, NEW c \in Clients, CancelSave(c)
  PROVE  (record' = record /\ told' = told) \/ (Saves /\ told' = record'.stop)
<1> DEFINE seen == client[c].seen
           d == Stopped(seen, "cancelled")
<1>1. Behind(seen, record)
  BY DEF InvestigationInv, ClientsSound, ClientSound, CancelSave
<1>2. CASE ~Matches(seen)
  BY <1>2 DEF CancelSave
<1>3. CASE Matches(seen)
  <2>1. seen = record /\ record \in State /\ record # None /\ record.stop = None
    BY <1>1, <1>3, MatchIsSame
  <2>2. record' = [d EXCEPT !.revision = seen.revision + 1] /\ told' = "cancelled"
    BY <1>3 DEF CancelSave
  <2>3. "cancelled" \in Reasons /\ "cancelled" # None
    BY Constants DEF Reasons
  <2>4. Sound(d) /\ d.stop = "cancelled" /\ d.steps = record.steps
    BY <2>1, <2>3, StopSound
  <2>5. Moves(record, d)
    BY <2>3, <2>4 DEF Moves, MayStop
  <2>6. record.revision + 1 \in Nat
    BY <2>1, Fields
  <2> HIDE DEF d, seen
  <2>7. QED
    BY <2>1, <2>2, <2>4, <2>5, <2>6, Revised DEF Saves
<1>4. QED
  BY <1>2, <1>3

\* _persist: a worker's save is a move, or a conflict that saves nothing.
LEMMA WorkerSaves ==
  ASSUME InvestigationInv, NEW w \in Workers, Save(w)
  PROVE  \/ record' = record /\ worker' = [worker EXCEPT ![w] = Away]
         \/ /\ Saves
            /\ worker' = [worker EXCEPT ![w] = Away]
               \/ worker' = [worker EXCEPT ![w] = [Away EXCEPT !.at = "read"]]
<1> DEFINE seen == worker[w].seen
           d == worker[w].draft
<1>1. Behind(seen, record) /\ Sound(d) /\ Moves(seen, d)
  BY DEF InvestigationInv, WorkersSound, WorkerSound, Save
<1>2. CASE ~Matches(seen)
  BY <1>2 DEF Save
<1>3. CASE Matches(seen)
  <2>1. seen = record /\ record \in State /\ record # None /\ record.stop = None
    BY <1>1, <1>3, MatchIsSame
  <2>2. record' = [d EXCEPT !.revision = seen.revision + 1]
    BY <1>3 DEF Save
  <2>3. worker' = [worker EXCEPT ![w] = Away]
        \/ worker' = [worker EXCEPT ![w] = [Away EXCEPT !.at = "read"]]
    BY <1>3 DEF Save
  <2>4. record.revision + 1 \in Nat
    BY <2>1, Fields
  <2> HIDE DEF d, seen
  <2>5. QED
    BY <1>1, <2>1, <2>2, <2>3, <2>4, Revised DEF Saves
<1>4. QED
  BY <1>2, <1>3

-----------------------------------------------------------------------------
(* Preservation, action by action.                                         *)

\* Nothing is submitted yet.
LEMMA InitSound == Init => InvestigationInv
<1> SUFFICES ASSUME Init PROVE InvestigationInv
  OBVIOUS
<1>1. queued \in BOOLEAN /\ (queued => record # None)
  BY Zenon DEF Init
<1>2. worker \in [Workers -> WorkerType]
  BY DEF Init, Away, WorkerType
<1>3. client \in [Clients -> ClientType]
  BY DEF Init, ClientType
<1>4. /\ record \in State \cup {None} /\ (record # None => WellFormed(record))
      /\ now \in 0..MaxTime /\ crashes \in 0..MaxCrashes /\ executed \in Nat
      /\ told \in Reasons \cup {None}
  BY Constants DEF Init
<1>5. TypeOK
  BY <1>1, <1>2, <1>3, <1>4 DEF TypeOK, WorkerType, ClientType
<1>6. RecordSound /\ ToldSound /\ QueueSound
  BY <1>1 DEF Init, RecordSound, ToldSound, QueueSound
<1>7. WorkersSound /\ ClientsSound
  BY DEF Init, WorkersSound, WorkerSound, ClientsSound, ClientSound, Away
<1>8. QED
  BY <1>5, <1>6, <1>7 DEF InvestigationInv

\* A step of one worker that does not save: only what it knows is to be shown.
LEMMA WorkerStep ==
  ASSUME InvestigationInv, NEW w \in Workers, worker' \in [Workers -> WorkerType],
         \A u \in Workers \ {w} : worker'[u] = worker[u],
         WorkerSound(worker'[w], record),
         UNCHANGED <<record, now, client, told>>,
         queued' \in BOOLEAN, queued' => record # None,
         crashes' \in 0..MaxCrashes, executed' \in Nat
  PROVE  InvestigationInv'
<1>1. TypeOK'
  BY DEF InvestigationInv, TypeOK, WorkerType, WellFormed, Terminal
<1>2. WorkersSound'
  BY DEF InvestigationInv, TypeOK, WorkersSound
<1>3. ClientsSound' /\ RecordSound' /\ ToldSound'
  BY DEF InvestigationInv, ClientsSound, RecordSound, ToldSound
<1>4. QueueSound'
  BY Zenon DEF QueueSound
<1>5. QED
  BY <1>1, <1>2, <1>3, <1>4 DEF InvestigationInv

\* A save keeps the invariant, once the savers' own places are known.
LEMMA SaveStep ==
  ASSUME InvestigationInv, Saves,
         worker' \in [Workers -> WorkerType],
         \A w \in Workers : worker'[w] = worker[w] \/ worker'[w].at \in {"idle", "read"},
         client' \in [Clients -> ClientType],
         \A c \in Clients : client'[c] = client[c] \/ client'[c].at = "idle",
         told' = told \/ told' = record'.stop,
         UNCHANGED <<now, queued, crashes, executed>>
  PROVE  InvestigationInv'
<1>1. /\ record \in State /\ record' \in State /\ record' # None
      /\ record'.revision = record.revision + 1
  BY Constants DEF InvestigationInv, TypeOK, Saves, Sound
<1>2. WellFormed(record')
  <2>1. CASE record'.stop = None
    BY <2>1 DEF Saves, Sound, WellFormed, Terminal
  <2>2. CASE record'.stop # None
    <3>1. record'.node = "done" /\ record'.status = StatusOf(record'.stop)
      BY <2>2 DEF Saves, Sound
    <3>2. QED
      BY <2>2, <3>1 DEF StatusOf, WellFormed, Terminal
  <2>3. QED
    BY <2>1, <2>2
<1>3. told = None
  BY DEF InvestigationInv, ToldSound, Saves
<1>4. TypeOK'
  <2>1. told' \in Reasons \cup {None}
    BY <1>1, <1>3, Fields
  <2>2. queued' \in BOOLEAN
    BY Zenon DEF InvestigationInv, TypeOK
  <2>3. QED
    BY <1>1, <1>2, <2>1, <2>2 DEF InvestigationInv, TypeOK, WorkerType, ClientType
<1>5. WorkersSound'
  <2> SUFFICES ASSUME NEW w \in Workers PROVE WorkerSound(worker'[w], record')
    BY DEF WorkersSound
  <2>1. CASE worker'[w] = worker[w]
    <3>1. WorkerSound(worker[w], record)
      BY DEF InvestigationInv, WorkersSound
    <3>2. QED
      BY <1>1, <2>1, <3>1, OthersKept
  <2>2. CASE worker'[w].at \in {"idle", "read"}
    BY <1>1, <2>2 DEF WorkerSound
  <2>3. QED
    BY <2>1, <2>2
<1>6. ClientsSound'
  <2> SUFFICES ASSUME NEW c \in Clients PROVE ClientSound(client'[c], record')
    BY DEF ClientsSound
  <2>1. CASE client'[c] = client[c]
    <3>1. ClientSound(client[c], record)
      BY DEF InvestigationInv, ClientsSound
    <3>2. QED
      BY <1>1, <2>1, <3>1, OthersKept
  <2>2. CASE client'[c].at = "idle"
    BY <1>1, <2>2 DEF ClientSound
  <2>3. QED
    BY <2>1, <2>2
<1>7. RecordSound' /\ QueueSound' /\ ToldSound'
  BY <1>1, <1>3 DEF Saves, RecordSound, QueueSound, ToldSound
<1>8. QED
  BY <1>4, <1>5, <1>6, <1>7 DEF InvestigationInv

\* The steps of the clients.
LEMMA ClientSteps ==
  ASSUME InvestigationInv, NEW c \in Clients,
         SubmitCreate(c) \/ Enqueue(c) \/ CancelRead(c) \/ CancelSave(c)
           \/ CancelAgain(c) \/ ReadReport(c)
  PROVE  InvestigationInv'
<1>0. /\ client \in [Clients -> ClientType] /\ worker \in [Workers -> WorkerType]
      /\ record \in State \cup {None}
  BY DEF InvestigationInv, TypeOK, ClientType, WorkerType
<1>1. CASE SubmitCreate(c)
  <2>1. record' \in State /\ record' # None /\ Sound(record') /\ (record # None => record' = record)
    BY <1>0, <1>1, NewSound DEF SubmitCreate, InvestigationInv, RecordSound
  <2>2. WellFormed(record')
    <3>1. record = None => record'.stop = None /\ record'.status = "queued"
      BY <1>1 DEF SubmitCreate, New
    <3>2. QED
      BY <2>1, <3>1 DEF WellFormed, Terminal, InvestigationInv, TypeOK
  <2>3. client' \in [Clients -> ClientType]
    BY <1>0, <1>1 DEF SubmitCreate, ClientType
  <2>4. TypeOK'
    BY <1>1, <2>1, <2>2, <2>3 DEF SubmitCreate, InvestigationInv, TypeOK, ClientType
  <2>5. WorkersSound'
    <3>1. ASSUME NEW w \in Workers PROVE WorkerSound(worker[w], record')
      BY <2>1, Constants DEF InvestigationInv, WorkersSound, WorkerSound, Behind
    <3>2. QED
      BY <1>1, <3>1 DEF SubmitCreate, WorkersSound
  <2>6. ClientsSound'
    <3>1. ASSUME NEW e \in Clients PROVE ClientSound(client[e], record')
      BY <2>1, Constants DEF InvestigationInv, ClientsSound, ClientSound, Behind
    <3>2. client'[c].at = "enqueue"
      BY <1>0, <1>1 DEF SubmitCreate, ClientType
    <3>3. ClientSound(client'[c], record')
      BY <2>1, <3>2 DEF ClientSound
    <3>4. \A e \in Clients \ {c} : client'[e] = client[e]
      BY <1>0, <1>1 DEF SubmitCreate
    <3>5. QED
      BY <3>1, <3>3, <3>4 DEF ClientsSound
  <2>7. RecordSound' /\ QueueSound' /\ ToldSound'
    BY <1>1, <2>1 DEF SubmitCreate, InvestigationInv, RecordSound, QueueSound, ToldSound
  <2>8. QED
    BY <2>4, <2>5, <2>6, <2>7 DEF InvestigationInv
<1>2. CASE Enqueue(c)
  <2>1. record # None
    BY <1>2 DEF Enqueue, InvestigationInv, ClientsSound, ClientSound
  <2>2. queued' \in BOOLEAN
    BY <1>2, Zenon DEF Enqueue, InvestigationInv, TypeOK
  <2>3. client' \in [Clients -> ClientType]
    BY <1>0, <1>2 DEF Enqueue, ClientType
  <2>4. TypeOK'
    BY <1>2, <2>2, <2>3 DEF Enqueue, InvestigationInv, TypeOK, ClientType, WellFormed, Terminal
  <2>5. ClientsSound'
    <3>1. ASSUME NEW e \in Clients PROVE client'[e].at = "idle" \/ client'[e] = client[e]
      BY <1>0, <1>2 DEF Enqueue, ClientType
    <3>2. QED
      BY <1>2, <3>1 DEF Enqueue, InvestigationInv, ClientsSound, ClientSound
  <2>6. WorkersSound' /\ RecordSound' /\ ToldSound' /\ QueueSound'
    BY <1>2, <2>1 DEF Enqueue, InvestigationInv, WorkersSound, RecordSound, ToldSound, QueueSound
  <2>7. QED
    BY <2>4, <2>5, <2>6 DEF InvestigationInv
<1>3. CASE CancelRead(c)
  <2> DEFINE v == [at |-> "cancel", seen |-> record]
  <2>1. record \in State /\ Behind(record, record)
    BY <1>0, <1>3, BehindItself DEF CancelRead, InvestigationInv, RecordSound, Terminal
  <2>2. v \in ClientType /\ ClientSound(v, record)
    BY <1>0, <2>1 DEF ClientType, ClientSound
  <2>3. client' = [client EXCEPT ![c] = v]
    BY <1>3 DEF CancelRead
  <2> HIDE DEF v
  <2>4. client' \in [Clients -> ClientType]
    BY <1>0, <2>2, <2>3
  <2>5. TypeOK'
    BY <1>3, <2>4 DEF CancelRead, InvestigationInv, TypeOK, ClientType, WellFormed, Terminal
  <2>6. ClientsSound'
    BY <1>0, <1>3, <2>2, <2>3 DEF CancelRead, InvestigationInv, ClientsSound
  <2>7. WorkersSound' /\ RecordSound' /\ ToldSound' /\ QueueSound'
    BY <1>3 DEF CancelRead, InvestigationInv, WorkersSound, RecordSound, ToldSound, QueueSound
  <2>8. QED
    BY <2>5, <2>6, <2>7 DEF InvestigationInv
<1>4. CASE CancelSave(c)
  <2>1. client' \in [Clients -> ClientType]
    BY <1>0, <1>4 DEF CancelSave, ClientType
  <2>2. \A e \in Clients : client'[e] = client[e] \/ client'[e].at = "idle"
    BY <1>0, <1>4 DEF CancelSave
  <2>3. UNCHANGED <<now, queued, worker, crashes, executed>>
    BY <1>4 DEF CancelSave
  <2>4. CASE Saves /\ told' = record'.stop
    BY <1>0, <2>1, <2>2, <2>3, <2>4, SaveStep
  <2>5. CASE record' = record /\ told' = told
    <3>1. TypeOK'
      BY <2>1, <2>3, <2>5 DEF InvestigationInv, TypeOK, ClientType, WellFormed, Terminal
    <3>2. ClientsSound'
      BY <2>2, <2>5 DEF InvestigationInv, ClientsSound, ClientSound
    <3>3. WorkersSound' /\ RecordSound' /\ ToldSound' /\ QueueSound'
      BY <2>3, <2>5 DEF InvestigationInv, WorkersSound, RecordSound, ToldSound, QueueSound
    <3>4. QED
      BY <3>1, <3>2, <3>3 DEF InvestigationInv
  <2>6. QED
    BY <1>4, <2>4, <2>5, CancelSaves
<1>5. CASE CancelAgain(c) \/ ReadReport(c)
  <2>1. /\ record # None /\ record \in State
        /\ told' = told \/ told' = record.stop
        /\ UNCHANGED <<record, now, queued, worker, client, crashes, executed>>
    BY <1>0, <1>5 DEF CancelAgain, ReadReport, Reported
  <2>2. told' \in Reasons \cup {None}
    BY <2>1, Fields DEF InvestigationInv, TypeOK
  <2>3. TypeOK'
    BY <2>1, <2>2 DEF InvestigationInv, TypeOK, WellFormed, Terminal
  <2>4. WorkersSound' /\ ClientsSound' /\ RecordSound' /\ ToldSound' /\ QueueSound'
    BY <2>1 DEF InvestigationInv, WorkersSound, ClientsSound, RecordSound, ToldSound, QueueSound
  <2>5. QED
    BY <2>3, <2>4 DEF InvestigationInv
<1>6. QED
  BY <1>1, <1>2, <1>3, <1>4, <1>5

\* What the invariant says of the worker w.
LEMMA OfWorker ==
  ASSUME InvestigationInv, NEW w \in Workers
  PROVE  /\ worker \in [Workers -> WorkerType] /\ worker[w] \in WorkerType
         /\ WorkerSound(worker[w], record)
         /\ record \in State \cup {None} /\ now \in 0..MaxTime
         /\ crashes \in 0..MaxCrashes /\ executed \in Nat
BY DEF InvestigationInv, TypeOK, WorkerType, WorkersSound

\* A worker that is somewhere else altogether.
LEMMA Replaced ==
  ASSUME InvestigationInv, NEW w \in Workers, NEW v \in WorkerType,
         worker' = [worker EXCEPT ![w] = v]
  PROVE  /\ worker' \in [Workers -> WorkerType] /\ worker'[w] = v
         /\ \A u \in Workers \ {w} : worker'[u] = worker[u]
BY OfWorker

\* A worker that goes on with another copy.
LEMMA Goes ==
  ASSUME InvestigationInv, NEW w \in Workers,
         NEW at \in {"tools", "save"}, NEW d \in State, Goto(w, at, d)
  PROVE  /\ worker' \in [Workers -> WorkerType]
         /\ worker'[w] = [at |-> at, seen |-> worker[w].seen, draft |-> d,
                          calls |-> worker[w].calls]
         /\ \A u \in Workers \ {w} : worker'[u] = worker[u]
<1>1. worker \in [Workers -> WorkerType] /\ worker[w] \in WorkerType
  BY OfWorker
<1> DEFINE f == [worker EXCEPT ![w].at = at]
<1>2. worker' = [f EXCEPT ![w].draft = d]
  BY DEF Goto
<1>3. /\ f \in [Workers -> WorkerType] /\ f[w].at = at
      /\ f[w].seen = worker[w].seen /\ f[w].calls = worker[w].calls
      /\ \A u \in Workers \ {w} : f[u] = worker[u]
  BY <1>1 DEF WorkerType
<1> HIDE DEF f
<1>4. /\ worker' \in [Workers -> WorkerType] /\ worker'[w].at = at /\ worker'[w].draft = d
      /\ worker'[w].seen = worker[w].seen /\ worker'[w].calls = worker[w].calls
      /\ \A u \in Workers \ {w} : worker'[u] = worker[u]
  BY <1>2, <1>3 DEF WorkerType
<1>5. QED
  BY <1>4 DEF WorkerType

\* A worker whose call was answered.
LEMMA GoesOn ==
  ASSUME InvestigationInv, NEW w \in Workers,
         NEW at \in {"tools", "save"}, NEW d \in State,
         worker' = [worker EXCEPT ![w].draft = d, ![w].calls = @ + 1, ![w].at = at]
  PROVE  /\ worker' \in [Workers -> WorkerType]
         /\ worker'[w] = [at |-> at, seen |-> worker[w].seen, draft |-> d,
                          calls |-> worker[w].calls + 1]
         /\ \A u \in Workers \ {w} : worker'[u] = worker[u]
<1>1. worker \in [Workers -> WorkerType] /\ worker[w] \in WorkerType
  BY OfWorker
<1> DEFINE f == [worker EXCEPT ![w].draft = d]
           g == [f EXCEPT ![w].calls = @ + 1]
<1>2. worker' = [g EXCEPT ![w].at = at]
  OBVIOUS
<1>3. /\ f \in [Workers -> WorkerType] /\ f[w].draft = d
      /\ f[w].seen = worker[w].seen /\ f[w].calls = worker[w].calls
      /\ \A u \in Workers \ {w} : f[u] = worker[u]
  BY <1>1 DEF WorkerType
<1> HIDE DEF f
<1>4. /\ g \in [Workers -> WorkerType] /\ g[w].draft = d
      /\ g[w].seen = worker[w].seen /\ g[w].calls = worker[w].calls + 1
      /\ \A u \in Workers \ {w} : g[u] = worker[u]
  BY <1>3 DEF WorkerType
<1> HIDE DEF g
<1>5. /\ worker' \in [Workers -> WorkerType] /\ worker'[w].at = at /\ worker'[w].draft = d
      /\ worker'[w].seen = worker[w].seen /\ worker'[w].calls = worker[w].calls + 1
      /\ \A u \in Workers \ {w} : worker'[u] = worker[u]
  BY <1>2, <1>4 DEF WorkerType
<1>6. QED
  BY <1>5 DEF WorkerType

\* A worker within a node: its new place is sound if its copy is.
LEMMA Lands ==
  ASSUME InvestigationInv, NEW w \in Workers, worker[w].at \in {"node", "tools"},
         NEW at \in {"tools", "save"}, NEW d \in State, NEW n \in Nat,
         worker' \in [Workers -> WorkerType],
         worker'[w] = [at |-> at, seen |-> worker[w].seen, draft |-> d, calls |-> n],
         \A u \in Workers \ {w} : worker'[u] = worker[u],
         at = "tools" => InTools(worker[w].seen, d, n),
         at = "save" => Sound(d) /\ Moves(worker[w].seen, d),
         UNCHANGED <<record, now, queued, client, crashes, told>>, executed' \in Nat
  PROVE  InvestigationInv'
<1>1. Behind(worker[w].seen, record) /\ record # None
  BY OfWorker DEF WorkerSound
<1>2. WorkerSound(worker'[w], record)
  BY <1>1 DEF WorkerSound
<1>3. queued' \in BOOLEAN /\ (queued' => record # None)
  BY <1>1, Zenon DEF InvestigationInv, TypeOK
<1>4. crashes' \in 0..MaxCrashes
  BY OfWorker
<1>5. QED
  BY <1>2, <1>3, <1>4, WorkerStep

\* A worker that has its result goes to save it.
LEMMA ToSave ==
  ASSUME InvestigationInv, NEW w \in Workers, worker[w].at \in {"node", "tools"},
         NEW d, Goto(w, "save", d), Sound(d), Moves(worker[w].seen, d),
         UNCHANGED <<record, now, queued, client, crashes, told>>, executed' \in Nat
  PROVE  InvestigationInv'
<1>1. d \in State /\ worker[w].calls \in Nat
  BY OfWorker DEF Sound, WorkerType
<1>2. QED
  BY <1>1, Goes, Lands

\* At a node: the copy is the snapshot, running, with a step left.
LEMMA OnNode ==
  ASSUME InvestigationInv, NEW w \in Workers, worker[w].at = "node"
  PROVE  LET s == worker[w].draft
             seen == worker[w].seen
         IN  /\ s \in State /\ seen \in State /\ Sound(s) /\ Sound(seen)
             /\ s.stop = None /\ seen.stop = None /\ s.status = "running" /\ s.started # None
             /\ s.node = seen.node /\ s.steps = seen.steps /\ s.steps < MaxSteps
             /\ s = [seen EXCEPT !.status = "running", !.started = s.started]
             /\ worker[w].calls = 0 /\ record # None /\ Behind(seen, record)
<1> DEFINE s == worker[w].draft
           seen == worker[w].seen
<1>1. /\ Behind(seen, record) /\ Begun(seen, s) /\ worker[w].calls = 0 /\ record # None
  BY OfWorker DEF WorkerSound
<1>2. seen \in State /\ s \in State
  BY <1>1 DEF Behind, Begun, Sound
<1>3. s = [seen EXCEPT !.status = "running", !.started = s.started]
  BY <1>1 DEF Begun
<1> HIDE DEF s, seen
<1>4. s.node = seen.node /\ s.steps = seen.steps
  BY <1>2, <1>3 DEF State
<1>5. QED
  BY <1>1, <1>2, <1>3, <1>4 DEF Behind, Begun, Sound, s, seen

\* A node that has run is counted, with its tokens.
LEMMA RanFields ==
  ASSUME NEW s \in State, s.steps < MaxSteps, s.tokens < MaxTokens, NEW use \in 0..MaxUse
  PROVE  /\ Ran(s, use) \in State
         /\ Ran(s, use).steps = s.steps + 1 /\ Ran(s, use).tokens = s.tokens + use
         /\ Ran(s, use).status = s.status /\ Ran(s, use).node = s.node
         /\ Ran(s, use).started = s.started /\ Ran(s, use).tools = s.tools
         /\ Ran(s, use).retrievals = s.retrievals /\ Ran(s, use).plan = s.plan
         /\ Ran(s, use).pending = s.pending /\ Ran(s, use).stop = s.stop
<1>1. /\ s.steps \in 0..MaxSteps /\ s.tokens \in 0..(MaxTokens + MaxUse)
      /\ MaxSteps \in Nat /\ MaxTokens \in Nat /\ MaxUse \in Nat
  BY Fields, Constants
<1>2. s.steps + 1 \in 0..MaxSteps /\ s.tokens + use \in 0..(MaxTokens + MaxUse)
  BY <1>1
<1>3. QED
  BY <1>2 DEF Ran, State

\* advance, up to the node.
LEMMA ReadStep ==
  ASSUME InvestigationInv, NEW w \in Workers, Read(w)
  PROVE  InvestigationInv'
<1>1. record # None /\ record \in State /\ Sound(record)
  BY OfWorker DEF WorkerSound, Read, InvestigationInv, RecordSound
<1>2. queued' \in BOOLEAN /\ (queued' => record # None)
  BY <1>1, Zenon DEF Read, InvestigationInv, TypeOK
<1>3. /\ crashes' \in 0..MaxCrashes /\ executed' \in Nat
      /\ UNCHANGED <<record, now, client, told>>
  BY OfWorker DEF Read
<1>4. CASE Terminal(record)
  <2>1. worker' = [worker EXCEPT ![w] = Away]
    BY <1>4 DEF Read
  <2>2. Away \in WorkerType /\ WorkerSound(Away, record)
    BY DEF Away, WorkerType, WorkerSound
  <2>3. QED
    BY <1>2, <1>3, <2>1, <2>2, Replaced, WorkerStep
<1>5. CASE ~Terminal(record)
  <2> DEFINE copy == Started(record)
             d == StoppedIf(copy, Exhausted(copy))
             v == [at |-> IF Exhausted(copy) = None THEN "node" ELSE "save",
                   seen |-> record, draft |-> d, calls |-> 0]
  <2>1. worker' = [worker EXCEPT ![w] = v]
    BY <1>5 DEF Read
  <2>2. Behind(record, record) /\ record.stop = None
    BY <1>1, <1>5, BehindItself DEF Terminal
  <2>3. /\ copy \in State /\ Sound(copy) /\ copy.stop = None /\ copy.status = "running"
        /\ copy.steps = record.steps
        /\ copy = [record EXCEPT !.status = "running", !.started = copy.started]
    BY <1>1, <2>2, OfWorker, StartedSound
  <2>4. d \in State /\ WorkerSound(v, record)
    <3> HIDE DEF copy
    <3>1. CASE Exhausted(copy) = None
      <4>1. d = copy /\ v.at = "node" /\ v.seen = record /\ v.draft = copy /\ v.calls = 0
        BY <3>1 DEF StoppedIf
      <4>2. Begun(record, copy)
        BY <2>3, <3>1, SpentReason DEF Begun
      <4>3. QED
        BY <1>1, <2>2, <2>3, <4>1, <4>2 DEF WorkerSound
    <3>2. CASE Exhausted(copy) # None
      <4>1. /\ d = Stopped(copy, Exhausted(copy))
            /\ v.at = "save" /\ v.seen = record /\ v.draft = d
        BY <3>2 DEF StoppedIf
      <4>2. /\ Exhausted(copy) \in {"token_budget", "timeout", "max_steps"}
            /\ Exhausted(copy) = "max_steps" => copy.steps = MaxSteps
        BY <2>3, <3>2, SpentReason
      <4>3. Exhausted(copy) \in Reasons /\ Exhausted(copy) # "success"
        BY <4>2 DEF Reasons
      <4>4. d \in State /\ Sound(d) /\ d.stop = Exhausted(copy) /\ d.steps = record.steps
        BY <2>3, <4>1, <4>3, StopSound
      <4>5. Moves(record, d)
        BY <2>3, <3>2, <4>2, <4>4 DEF Moves, MayStop
      <4>6. QED
        BY <1>1, <2>2, <4>1, <4>4, <4>5 DEF WorkerSound
    <3>3. QED
      BY <3>1, <3>2
  <2>5. v \in WorkerType
    BY <1>1, <2>4 DEF WorkerType
  <2> HIDE DEF v
  <2>6. QED
    BY <1>2, <1>3, <2>1, <2>4, <2>5, Replaced, WorkerStep
<1>6. QED
  BY <1>4, <1>5

\* A message is received; a worker dies.
LEMMA QueueSteps ==
  ASSUME InvestigationInv, NEW w \in Workers, Receive(w) \/ Crash(w)
  PROVE  InvestigationInv'
<1>1. CASE Receive(w)
  <2> DEFINE v == [worker[w] EXCEPT !.at = "read"]
  <2>1. record # None
    BY <1>1 DEF Receive, InvestigationInv, QueueSound
  <2>2. worker' = [worker EXCEPT ![w] = v]
    BY <1>1, OfWorker DEF Receive
  <2>3. v \in WorkerType /\ WorkerSound(v, record)
    BY <2>1, OfWorker DEF WorkerType, WorkerSound
  <2>4. queued' \in BOOLEAN
    BY <1>1 DEF Receive
  <2>5. /\ crashes' \in 0..MaxCrashes /\ executed' \in Nat
        /\ UNCHANGED <<record, now, client, told>>
    BY <1>1, OfWorker DEF Receive
  <2> HIDE DEF v
  <2>6. QED
    BY <2>1, <2>2, <2>3, <2>4, <2>5, Replaced, WorkerStep
<1>2. CASE Crash(w)
  <2>1. record # None
    BY <1>2, OfWorker DEF Crash, WorkerSound
  <2>2. Away \in WorkerType /\ WorkerSound(Away, record)
    BY DEF Away, WorkerType, WorkerSound
  <2>3. crashes' \in 0..MaxCrashes
    BY <1>2, OfWorker, Constants DEF Crash
  <2>4. queued' \in BOOLEAN
    BY <1>2, Zenon DEF Crash
  <2>5. /\ executed' \in Nat /\ UNCHANGED <<record, now, client, told>>
        /\ worker' = [worker EXCEPT ![w] = Away]
    BY <1>2, OfWorker DEF Crash
  <2>6. QED
    BY <2>1, <2>2, <2>3, <2>4, <2>5, Replaced, WorkerStep
<1>3. QED
  BY <1>1, <1>2

\* The nodes that ask the model: plan, verify and report.
LEMMA ModelSteps ==
  ASSUME InvestigationInv, NEW w \in Workers, Plan(w) \/ Verify(w) \/ Report(w)
  PROVE  InvestigationInv'
<1> DEFINE s == worker[w].draft
           seen == worker[w].seen
<1>0. /\ worker[w].at = "node" /\ executed' \in Nat
      /\ UNCHANGED <<record, now, queued, client, crashes, told>>
  BY OfWorker DEF Plan, Verify, Report, AtNode
<1>1. /\ s \in State /\ seen \in State /\ Sound(s)
      /\ s.stop = None /\ s.status = "running" /\ s.started # None
      /\ s.node = seen.node /\ s.steps = seen.steps /\ s.steps < MaxSteps
  BY <1>0, OnNode
<1>2. s.tokens < MaxTokens /\ Progress(s)
  BY <1>1 DEF Sound
<1>3. CASE Plan(w)
  <2>1. PICK p \in Plans, use \in 0..MaxUse :
          Goto(w, "save", AfterNode([Ran(s, use) EXCEPT !.plan = p, !.node = "retrieve"]))
    BY <1>3 DEF Plan
  <2> DEFINE ran == Ran(s, use)
             d == [ran EXCEPT !.plan = p, !.node = "retrieve"]
  <2>2. s.node = "plan"
    BY <1>3 DEF Plan, AtNode
  <2> HIDE DEF s, seen
  <2>3. /\ ran \in State /\ ran.steps = s.steps + 1 /\ ran.status = s.status
        /\ ran.started = s.started /\ ran.tools = s.tools /\ ran.retrievals = s.retrievals
        /\ ran.pending = s.pending /\ ran.stop = s.stop
    BY <1>1, <1>2, RanFields
  <2> HIDE DEF ran
  <2>4. /\ d \in State /\ d.steps = ran.steps /\ d.status = ran.status
        /\ d.started = ran.started /\ d.tools = ran.tools /\ d.retrievals = ran.retrievals
        /\ d.pending = ran.pending /\ d.stop = ran.stop /\ d.plan = p /\ d.node = "retrieve"
    BY <2>3 DEF State, Nodes
  <2> HIDE DEF d
  <2>5. p # None
    BY Constants
  <2>6. Progress(d)
    BY <1>2, <2>2, <2>3, <2>4, <2>5 DEF Progress
  <2>7. seen.node \in DOMAIN Abstract!Follows /\ d.node \in Abstract!Follows[seen.node]
    BY <1>1, <2>2, <2>4 DEF Abstract!Follows
  <2>8. Sound(AfterNode(d)) /\ Moves(seen, AfterNode(d))
    BY <1>1, <2>3, <2>4, <2>6, <2>7, AfterNodeSound
  <2>9. QED
    BY <1>0, <2>1, <2>8, ToSave DEF d, ran, s, seen
<1>4. CASE Verify(w)
  <2>1. PICK sufficient \in BOOLEAN, use \in 0..MaxUse :
          Goto(w, "save", AfterNode([Ran(s, use) EXCEPT
                 !.node = "report", !.pending = Verdict(s.pending, sufficient)]))
    BY <1>4 DEF Verify
  <2> DEFINE ran == Ran(s, use)
             verdict == Verdict(s.pending, sufficient)
             d == [ran EXCEPT !.node = "report", !.pending = verdict]
  <2>2. s.node = "verify"
    BY <1>4 DEF Verify, AtNode
  <2> HIDE DEF s, seen
  <2>3. /\ ran \in State /\ ran.steps = s.steps + 1 /\ ran.status = s.status
        /\ ran.started = s.started /\ ran.tools = s.tools /\ ran.retrievals = s.retrievals
        /\ ran.plan = s.plan /\ ran.stop = s.stop
    BY <1>1, <1>2, RanFields
  <2>4. s.pending \in {None, "tool_failure"} /\ s.plan # None /\ (s.pending = None => Counted(s))
    BY <1>2, <2>2 DEF Progress
  <2>5. /\ verdict \in {"success", "insufficient_evidence", "tool_failure"}
        /\ verdict = "success" => s.pending = None
        /\ verdict # None
    BY <2>4, Constants DEF Verdict, Reasons
  <2> HIDE DEF ran, verdict
  <2>6. /\ d \in State /\ d.steps = ran.steps /\ d.status = ran.status
        /\ d.started = ran.started /\ d.tools = ran.tools /\ d.retrievals = ran.retrievals
        /\ d.plan = ran.plan /\ d.stop = ran.stop /\ d.pending = verdict /\ d.node = "report"
    BY <2>3, <2>5 DEF State, Nodes
  <2> HIDE DEF d
  <2>7. Progress(d)
    BY <2>3, <2>4, <2>5, <2>6 DEF Progress, Counted
  <2>8. seen.node \in DOMAIN Abstract!Follows /\ d.node \in Abstract!Follows[seen.node]
    BY <1>1, <2>2, <2>6 DEF Abstract!Follows
  <2>9. Sound(AfterNode(d)) /\ Moves(seen, AfterNode(d))
    BY <1>1, <2>3, <2>6, <2>7, <2>8, AfterNodeSound
  <2>10. QED
    BY <1>0, <2>1, <2>9, ToSave DEF d, ran, verdict, s, seen
<1>5. CASE Report(w)
  <2>1. PICK use \in 0..MaxUse :
          LET ran == Ran(s, use) IN
          Goto(w, "save", Stopped(ran, IF Spent(ran) = None THEN s.pending ELSE Spent(ran)))
    BY <1>5 DEF Report
  <2> DEFINE ran == Ran(s, use)
             reason == IF Spent(ran) = None THEN s.pending ELSE Spent(ran)
             d == Stopped(ran, reason)
  <2>2. s.node = "report"
    BY <1>5 DEF Report, AtNode
  <2> HIDE DEF s, seen
  <2>3. /\ ran \in State /\ ran.steps = s.steps + 1 /\ ran.tools = s.tools
        /\ ran.retrievals = s.retrievals /\ ran.plan = s.plan /\ ran.pending = s.pending
    BY <1>1, <1>2, RanFields
  <2>4. s.pending # None /\ s.plan # None /\ (s.pending = "success" => Counted(s))
    BY <1>2, <2>2 DEF Progress
  <2>5. s.pending \in {"success", "insufficient_evidence", "tool_failure"}
    BY <1>1, <2>4, Fields
  <2> HIDE DEF ran
  <2>6. Spent(ran) \in {None, "token_budget", "timeout"}
    BY <2>3, SpentReason
  <2>7. /\ reason \in {"success", "insufficient_evidence", "tool_failure",
                       "token_budget", "timeout"}
        /\ reason = "success" => s.pending = "success"
    BY <2>5, <2>6
  <2> HIDE DEF reason
  <2>8. reason \in Reasons /\ reason # None
    BY <2>7, Constants DEF Reasons
  <2>9. reason = "success" => ran.plan # None /\ ran.pending = "success" /\ Counted(ran)
    BY <2>3, <2>4, <2>7 DEF Counted
  <2>10. Sound(d) /\ d.stop = reason /\ d.steps = s.steps + 1
    BY <2>3, <2>8, <2>9, StopSound
  <2> HIDE DEF d
  <2>11. Moves(seen, d)
    BY <1>1, <2>2, <2>7, <2>8, <2>10 DEF Moves, MayStop
  <2>12. QED
    BY <1>0, <2>1, <2>10, <2>11, ToSave DEF d, reason, ran, s, seen
<1>6. QED
  BY <1>3, <1>4, <1>5

\* Whatever a node calls raises: the snapshot is stopped, nothing counted.
LEMMA RaisesStep ==
  ASSUME InvestigationInv, NEW w \in Workers, NodeRaises(w)
  PROVE  InvestigationInv'
<1> DEFINE s == worker[w].draft
           seen == worker[w].seen
           begun == [seen EXCEPT !.status = "running", !.started = s.started]
           d == Stopped(begun, "workflow_failure")
<1>1. /\ worker[w].at \in {"node", "tools"} /\ executed' \in Nat /\ Goto(w, "save", d)
      /\ UNCHANGED <<record, now, queued, client, crashes, told>>
  BY OfWorker DEF NodeRaises
<1>2. seen \in State /\ s \in State
  BY <1>1, OfWorker DEF WorkerSound, Behind, Begun, InTools, Sound
<1> HIDE DEF s, seen
<1>3. s.started \in 0..MaxTime \cup {None}
  BY <1>2, Fields
<1>4. begun \in State /\ begun.steps = seen.steps
  BY <1>2, <1>3 DEF State
<1> HIDE DEF begun
<1>5. "workflow_failure" \in Reasons /\ "workflow_failure" # None
  BY Constants DEF Reasons
<1>6. Sound(d) /\ d.stop = "workflow_failure" /\ d.steps = seen.steps
  BY <1>4, <1>5, StopSound
<1> HIDE DEF d
<1>7. Moves(seen, d)
  BY <1>5, <1>6 DEF Moves, MayStop
<1>8. QED
  BY <1>1, <1>6, <1>7, ToSave DEF seen

\* _run_tools, before the first call.
LEMMA BeginToolsStep ==
  ASSUME InvestigationInv, NEW w \in Workers, BeginTools(w)
  PROVE  InvestigationInv'
<1> DEFINE s == worker[w].draft
           seen == worker[w].seen
           d == Ran(s, 0)
<1>1. /\ worker[w].at = "node" /\ s.node \in {"retrieve", "compare"} /\ executed' \in Nat
      /\ Goto(w, "tools", d)
      /\ UNCHANGED <<record, now, queued, client, crashes, told>>
  BY OfWorker DEF BeginTools, AtNode
<1>2. /\ s \in State /\ seen \in State /\ Sound(s)
      /\ s.stop = None /\ s.status = "running" /\ s.started # None
      /\ s.node = seen.node /\ s.steps = seen.steps /\ s.steps < MaxSteps
      /\ worker[w].calls = 0
  BY <1>1, OnNode
<1>3. s.tokens < MaxTokens /\ Progress(s)
  BY <1>2 DEF Sound
<1>4. 0 \in 0..MaxUse
  BY Constants
<1> HIDE DEF s, seen
<1>5. /\ d \in State /\ d.steps = s.steps + 1 /\ d.tokens = s.tokens + 0
      /\ d.status = s.status /\ d.node = s.node /\ d.started = s.started
      /\ d.tools = s.tools /\ d.retrievals = s.retrievals /\ d.plan = s.plan
      /\ d.pending = s.pending /\ d.stop = s.stop
  BY <1>2, <1>3, <1>4, RanFields
<1> HIDE DEF d
<1>6. d.tokens = s.tokens
  BY <1>2, <1>5, Fields, Constants
<1>7. d.plan # None
  BY <1>1, <1>3, <1>5 DEF Progress
<1>8. d.plan.searches \in Nat /\ d.plan.comparisons \in Nat
  BY <1>5, <1>7, Fields, Constants
<1>9. 0 <= Requests(d)
  BY <1>8 DEF Requests
<1>10. InTools(seen, d, 0)
  BY <1>1, <1>2, <1>3, <1>5, <1>6, <1>7, <1>8, <1>9 DEF InTools, Progress
<1>11. /\ worker' \in [Workers -> WorkerType]
       /\ worker'[w] = [at |-> "tools", seen |-> seen, draft |-> d, calls |-> 0]
       /\ \A u \in Workers \ {w} : worker'[u] = worker[u]
  BY <1>1, <1>2, <1>5, Goes DEF seen
<1>12. QED
  BY <1>1, <1>5, <1>10, <1>11, Lands DEF seen

\* What the invariant says of a worker at its tools.
LEMMA OnTools ==
  ASSUME InvestigationInv, NEW w \in Workers, worker[w].at = "tools"
  PROVE  LET s == worker[w].draft
         IN  /\ s \in State /\ worker[w].seen \in State /\ worker[w].calls \in Nat
             /\ InTools(worker[w].seen, s, worker[w].calls)
             /\ s.plan.searches \in Nat /\ s.plan.comparisons \in Nat
             /\ Requests(s) \in Nat
             /\ s.tools \in 0..MaxToolCalls /\ s.retrievals \in 0..MaxRetrievals
             /\ s.steps \in 0..MaxSteps
<1> DEFINE s == worker[w].draft
           seen == worker[w].seen
<1>1. /\ Behind(seen, record) /\ InTools(seen, s, worker[w].calls) /\ worker[w].calls \in Nat
  BY OfWorker DEF WorkerSound, WorkerType
<1>2. s \in State /\ seen \in State /\ s.plan # None
  BY <1>1 DEF InTools, Behind, Sound
<1> HIDE DEF s, seen
<1>3. s.plan.searches \in Nat /\ s.plan.comparisons \in Nat
  BY <1>2, Fields, Constants
<1>4. Requests(s) \in Nat
  BY <1>3 DEF Requests
<1>5. QED
  BY <1>1, <1>2, <1>3, <1>4, Fields DEF s, seen

\* _tool_budget_reason: what it may answer.
LEMMA ToolsReason ==
  ASSUME NEW s \in State
  PROVE  /\ ToolsSpent(s) \in {None, "tool_budget", "retrieval_budget"}
         /\ ToolsSpent(s) = None => s.tools < MaxToolCalls
         /\ ToolsSpent(s) = None /\ s.node = "retrieve" => s.retrievals < MaxRetrievals
<1>1. s.tools \in 0..MaxToolCalls /\ s.retrievals \in 0..MaxRetrievals
  BY Fields
<1>2. None \notin {"tool_budget", "retrieval_budget"}
  BY Constants DEF Reasons
<1>3. QED
  BY <1>1, <1>2, Constants DEF ToolsSpent

\* The budget refuses a call.
LEMMA RefusedStep ==
  ASSUME InvestigationInv, NEW w \in Workers, CallRefused(w)
  PROVE  InvestigationInv'
<1> DEFINE s == worker[w].draft
           seen == worker[w].seen
           reason == ToolsSpent(s)
           d == Stopped(s, reason)
<1>1. /\ worker[w].at = "tools" /\ reason # None /\ executed' \in Nat /\ Goto(w, "save", d)
      /\ UNCHANGED <<record, now, queued, client, crashes, told>>
  BY OfWorker DEF CallRefused, Calling
<1>2. s \in State /\ InTools(seen, s, worker[w].calls)
  BY <1>1, OnTools
<1> HIDE DEF s, seen
<1>3. reason \in {"tool_budget", "retrieval_budget"}
  BY <1>1, <1>2, ToolsReason
<1> HIDE DEF reason
<1>4. reason \in Reasons /\ reason # "success"
  BY <1>3 DEF Reasons
<1>5. Sound(d) /\ d.stop = reason /\ d.steps = s.steps
  BY <1>2, <1>4, StopSound
<1> HIDE DEF d
<1>6. Moves(seen, d)
  BY <1>1, <1>2, <1>3, <1>5 DEF Moves, MayStop, InTools
<1>7. QED
  BY <1>1, <1>5, <1>6, ToSave DEF seen

\* A call, answered or failed.
LEMMA CallStep ==
  ASSUME InvestigationInv, NEW w \in Workers, Call(w)
  PROVE  InvestigationInv'
<1> DEFINE s == worker[w].draft
           seen == worker[w].seen
           n == worker[w].calls
           counted == [s EXCEPT !.tools = @ + 1,
                                !.retrievals = @ + (IF s.node = "retrieve" THEN 1 ELSE 0)]
           failed == [counted EXCEPT !.node = "verify", !.pending = "tool_failure"]
<1>1. /\ worker[w].at = "tools" /\ n < Requests(s) /\ ToolsSpent(s) = None
      /\ UNCHANGED <<record, now, queued, client, crashes, told>>
  BY DEF Call, Calling
<1>2. \/ worker' = [worker EXCEPT ![w].draft = AfterNode(counted), ![w].calls = @ + 1,
                                  ![w].at = IF Spent(counted) = None THEN "tools" ELSE "save"]
      \/ Goto(w, "save", failed)
  BY DEF Call
<1>3. executed' \in Nat
  BY OfWorker DEF Call
<1>4. /\ s \in State /\ seen \in State /\ n \in Nat /\ InTools(seen, s, n)
      /\ s.plan.searches \in Nat /\ s.plan.comparisons \in Nat /\ Requests(s) \in Nat
      /\ s.tools \in 0..MaxToolCalls /\ s.retrievals \in 0..MaxRetrievals
      /\ s.steps \in 0..MaxSteps
  BY <1>1, OnTools
<1> HIDE DEF s, seen, n
<1>5. /\ s.tools < MaxToolCalls /\ (s.node = "retrieve" => s.retrievals < MaxRetrievals)
  BY <1>1, <1>4, ToolsReason
<1>6. /\ s.tools + 1 \in 0..MaxToolCalls
      /\ s.retrievals + (IF s.node = "retrieve" THEN 1 ELSE 0) \in 0..MaxRetrievals
  BY <1>4, <1>5, Constants
<1>7. /\ counted \in State /\ counted.tools = s.tools + 1
      /\ counted.retrievals = s.retrievals + (IF s.node = "retrieve" THEN 1 ELSE 0)
      /\ counted.steps = s.steps /\ counted.tokens = s.tokens /\ counted.status = s.status
      /\ counted.node = s.node /\ counted.started = s.started /\ counted.plan = s.plan
      /\ counted.pending = s.pending /\ counted.stop = s.stop
  BY <1>4, <1>6 DEF State
<1> HIDE DEF counted
<1>8. InTools(seen, counted, n + 1)
  <2>1. Requests(counted) = Requests(s) /\ n + 1 <= Requests(s)
    BY <1>1, <1>4, <1>7 DEF Requests
  <2>2. CASE s.node = "retrieve"
    BY <1>4, <1>7, <2>1, <2>2 DEF InTools
  <2>3. CASE s.node = "compare"
    BY <1>4, <1>7, <2>1, <2>3 DEF InTools
  <2>4. QED
    BY <1>4, <2>2, <2>3 DEF InTools
<1>9. CASE Goto(w, "save", failed)
  <2>1. /\ failed \in State /\ failed.node = "verify" /\ failed.pending = "tool_failure"
        /\ failed.steps = s.steps /\ failed.tokens = s.tokens /\ failed.status = s.status
        /\ failed.started = s.started /\ failed.plan = s.plan /\ failed.stop = s.stop
    BY <1>7 DEF State, Nodes
  <2> HIDE DEF failed
  <2>2. None \notin {"tool_failure", "success"}
    BY Constants DEF Reasons
  <2>3. Sound(failed)
    BY <1>4, <2>1, <2>2 DEF InTools, Sound, Progress
  <2>4. Moves(seen, failed)
    BY <1>4, <2>1 DEF InTools, Moves, Abstract!Follows
  <2>5. QED
    BY <1>1, <1>3, <1>9, <2>3, <2>4, ToSave DEF seen
<1>10. CASE worker' = [worker EXCEPT ![w].draft = AfterNode(counted), ![w].calls = @ + 1,
                                     ![w].at = IF Spent(counted) = None THEN "tools" ELSE "save"]
  <2> DEFINE d == AfterNode(counted)
             at == IF Spent(counted) = None THEN "tools" ELSE "save"
  <2>1. CASE Spent(counted) = None
    <3>1. d = counted /\ at = "tools"
      BY <2>1 DEF AfterNode, StoppedIf
    <3>2. worker' = [worker EXCEPT ![w].draft = counted, ![w].calls = @ + 1, ![w].at = "tools"]
      BY <1>10, <3>1
    <3>3. /\ worker' \in [Workers -> WorkerType]
          /\ worker'[w] = [at |-> "tools", seen |-> seen, draft |-> counted, calls |-> n + 1]
          /\ \A u \in Workers \ {w} : worker'[u] = worker[u]
      BY <1>7, <3>2, GoesOn DEF seen, n
    <3>4. n + 1 \in Nat
      BY <1>4
    <3>5. QED
      BY <1>1, <1>3, <1>7, <1>8, <3>3, <3>4, Lands DEF seen
  <2>2. CASE Spent(counted) # None
    <3>1. d = Stopped(counted, Spent(counted)) /\ at = "save"
      BY <2>2 DEF AfterNode, StoppedIf
    <3>2. Spent(counted) \in {"token_budget", "timeout"}
      BY <1>7, <2>2, SpentReason
    <3>3. Spent(counted) \in Reasons /\ Spent(counted) # "success"
      BY <3>2 DEF Reasons
    <3>4. d \in State /\ Sound(d) /\ d.stop = Spent(counted) /\ d.steps = s.steps
      BY <1>7, <3>1, <3>3, StopSound
    <3> HIDE DEF d
    <3>5. Moves(seen, d)
      BY <1>4, <2>2, <3>2, <3>4 DEF Moves, MayStop, InTools
    <3>6. worker' = [worker EXCEPT ![w].draft = d, ![w].calls = @ + 1, ![w].at = "save"]
      BY <1>10, <3>1 DEF d
    <3>7. /\ worker' \in [Workers -> WorkerType]
          /\ worker'[w] = [at |-> "save", seen |-> seen, draft |-> d, calls |-> n + 1]
          /\ \A u \in Workers \ {w} : worker'[u] = worker[u]
      BY <3>4, <3>6, GoesOn DEF seen, n
    <3>8. n + 1 \in Nat
      BY <1>4
    <3>9. QED
      BY <1>1, <1>3, <3>4, <3>5, <3>7, <3>8, Lands DEF seen
  <2>3. QED
    BY <2>1, <2>2
<1>11. QED
  BY <1>2, <1>9, <1>10

\* _run_tools, after the last call: the next node.
LEMMA EndToolsStep ==
  ASSUME InvestigationInv, NEW w \in Workers, EndTools(w)
  PROVE  InvestigationInv'
<1> DEFINE s == worker[w].draft
           seen == worker[w].seen
           n == worker[w].calls
           next == IF s.node = "retrieve" THEN "compare" ELSE "verify"
           d == [s EXCEPT !.node = next]
<1>1. /\ worker[w].at = "tools" /\ ~(n < Requests(s)) /\ executed' \in Nat
      /\ Goto(w, "save", d)
      /\ UNCHANGED <<record, now, queued, client, crashes, told>>
  BY OfWorker DEF EndTools, Calling
<1>2. /\ s \in State /\ seen \in State /\ n \in Nat /\ InTools(seen, s, n)
      /\ s.plan.searches \in Nat /\ s.plan.comparisons \in Nat /\ Requests(s) \in Nat
  BY <1>1, OnTools
<1> HIDE DEF s, seen, n
<1>3. n = Requests(s)
  BY <1>1, <1>2 DEF InTools
<1>4. /\ d \in State /\ d.node = next /\ d.steps = s.steps /\ d.tokens = s.tokens
      /\ d.status = s.status /\ d.started = s.started /\ d.tools = s.tools
      /\ d.retrievals = s.retrievals /\ d.plan = s.plan /\ d.pending = s.pending
      /\ d.stop = s.stop
  BY <1>2 DEF State, Nodes
<1> HIDE DEF d
<1>5. Progress(d)
  <2>1. CASE s.node = "retrieve"
    <3>1. /\ d.node = "compare" /\ d.tools = d.plan.searches /\ d.retrievals = d.plan.searches
          /\ d.pending = None /\ d.plan # None
      BY <1>2, <1>3, <1>4, <2>1 DEF InTools, Requests
    <3>2. QED
      BY <3>1 DEF Progress
  <2>2. CASE s.node = "compare"
    <3>1. /\ d.node = "verify" /\ d.tools = d.plan.searches + d.plan.comparisons
          /\ d.retrievals = d.plan.searches /\ d.pending = None /\ d.plan # None
      BY <1>2, <1>3, <1>4, <2>2 DEF InTools, Requests
    <3>2. QED
      BY <3>1 DEF Progress, Counted
  <2>3. QED
    BY <1>2, <2>1, <2>2 DEF InTools
<1>6. None # "success"
  BY Constants DEF Reasons
<1>7. Sound(d)
  BY <1>2, <1>4, <1>5, <1>6 DEF Sound, InTools
<1>8. Moves(seen, d)
  BY <1>2, <1>4 DEF Moves, InTools, Abstract!Follows
<1>9. QED
  BY <1>1, <1>7, <1>8, ToSave DEF seen

\* _persist.
LEMMA SaveSteps ==
  ASSUME InvestigationInv, NEW w \in Workers, Save(w)
  PROVE  InvestigationInv'
<1> DEFINE reading == [Away EXCEPT !.at = "read"]
<1>1. /\ Away \in WorkerType /\ Away.at = "idle" /\ reading \in WorkerType /\ reading.at = "read"
  BY DEF Away, WorkerType
<1>2. UNCHANGED <<now, queued, client, crashes, executed, told>>
  BY DEF Save
<1>3. client \in [Clients -> ClientType]
  BY DEF InvestigationInv, TypeOK, ClientType
<1> HIDE DEF reading
<1>4. CASE record' = record /\ worker' = [worker EXCEPT ![w] = Away]
  <2>1. WorkerSound(Away, record)
    BY DEF WorkerSound, Away
  <2>2. queued' \in BOOLEAN /\ (queued' => record # None)
    BY <1>2, Zenon DEF InvestigationInv, TypeOK, QueueSound
  <2>3. crashes' \in 0..MaxCrashes /\ executed' \in Nat
    BY <1>2, OfWorker
  <2>4. QED
    BY <1>1, <1>2, <1>4, <2>1, <2>2, <2>3, Replaced, WorkerStep
<1>5. CASE /\ Saves
           /\ worker' = [worker EXCEPT ![w] = Away] \/ worker' = [worker EXCEPT ![w] = reading]
  <2>1. /\ worker' \in [Workers -> WorkerType] /\ worker'[w].at \in {"idle", "read"}
        /\ \A u \in Workers \ {w} : worker'[u] = worker[u]
    BY <1>1, <1>5, Replaced
  <2>2. QED
    BY <1>2, <1>3, <1>5, <2>1, SaveStep
<1>6. QED
  BY <1>4, <1>5, WorkerSaves DEF reading

\* The clock.
LEMMA TickStep ==
  ASSUME InvestigationInv, Tick
  PROVE  InvestigationInv'
<1>1. now' \in 0..MaxTime
  BY Constants DEF Tick, InvestigationInv, TypeOK
<1>2. TypeOK'
  BY <1>1 DEF Tick, InvestigationInv, TypeOK, WellFormed, Terminal
<1>3. RecordSound' /\ WorkersSound' /\ ClientsSound' /\ QueueSound' /\ ToldSound'
  BY DEF Tick, InvestigationInv, RecordSound, WorkersSound, ClientsSound, QueueSound, ToldSound
<1>4. QED
  BY <1>2, <1>3 DEF InvestigationInv

-----------------------------------------------------------------------------
(* The theorems.                                                           *)

\* The invariant is inductive.
THEOREM InvestigationStep == InvestigationInv /\ [Next]_vars => InvestigationInv'
<1> SUFFICES ASSUME InvestigationInv, [Next]_vars PROVE InvestigationInv'
  OBVIOUS
<1>1. CASE \E c \in Clients : SubmitCreate(c) \/ Enqueue(c) \/ CancelRead(c) \/ CancelSave(c)
                              \/ CancelAgain(c) \/ ReadReport(c)
  BY <1>1, ClientSteps
<1>2. ASSUME NEW w \in Workers, Work(w) \/ NodeRaises(w) \/ Crash(w)
      PROVE  InvestigationInv'
  BY <1>2, ReadStep, QueueSteps, ModelSteps, RaisesStep, BeginToolsStep, RefusedStep,
     CallStep, EndToolsStep, SaveSteps DEF Work
<1>3. CASE Tick
  BY <1>3, TickStep
<1>4. CASE UNCHANGED vars
  <2>1. TypeOK'
    BY <1>4 DEF vars, InvestigationInv, TypeOK, WellFormed, Terminal
  <2>2. RecordSound' /\ WorkersSound' /\ ClientsSound' /\ QueueSound' /\ ToldSound'
    BY <1>4 DEF vars, InvestigationInv, RecordSound, WorkersSound, ClientsSound,
                QueueSound, ToldSound
  <2>3. QED
    BY <2>1, <2>2 DEF InvestigationInv
<1>5. QED
  BY <1>1, <1>2, <1>3, <1>4 DEF Next

\* Every reachable state satisfies the invariant.
THEOREM InvestigationSafety == Spec => []InvestigationInv
<1>1. QED
  BY InitSound, InvestigationStep, PTL DEF Spec

\* The record and the state of every worker and client keep their types, and a
\* terminal record is one at the node done (__post_init__).
THEOREM InvestigationTypeCorrect == Spec => []TypeOK
<1>1. InvestigationInv => TypeOK
  BY DEF InvestigationInv
<1>2. QED
  BY <1>1, InvestigationSafety, PTL

\* What a client was told of the end, by its own cancellation or by a report, is
\* what the record says ever after.
THEOREM EndIsHeld == Spec => []EndHolds
<1>1. InvestigationInv => EndHolds
  BY DEF InvestigationInv, ToldSound, EndHolds
<1>2. QED
  BY <1>1, InvestigationSafety, PTL

\* However many workers have a part in an investigation, its saved usage is
\* within the budget, and tokens past it end it.
THEOREM UsageIsBounded == Spec => []UsageWithinBudget
<1>1. ASSUME InvestigationInv PROVE UsageWithinBudget
  <2> SUFFICES ASSUME record # None
               PROVE  /\ record.steps <= MaxSteps
                      /\ record.tools <= MaxToolCalls /\ record.retrievals <= MaxRetrievals
                      /\ record.tokens >= MaxTokens => Terminal(record)
    BY DEF UsageWithinBudget
  <2>1. record \in State /\ Sound(record)
    BY <1>1 DEF InvestigationInv, TypeOK, RecordSound
  <2>2. /\ record.steps <= MaxSteps
        /\ record.tools <= MaxToolCalls /\ record.retrievals <= MaxRetrievals
        /\ record.tokens \in Nat
    BY <2>1, Fields, Constants
  <2>3. record.tokens >= MaxTokens => Terminal(record)
    BY <2>1, <2>2, Constants DEF Sound, Terminal
  <2>4. QED
    BY <2>2, <2>3
<1>2. QED
  BY <1>1, InvestigationSafety, PTL

\* An investigation completes only with every request of its plan answered and
\* counted once, and its evidence found sufficient.
THEOREM SuccessEarned == Spec => []SuccessIsEarned
<1>1. InvestigationInv => SuccessIsEarned
  BY DEF InvestigationInv, RecordSound, Sound, Counted, SuccessIsEarned
<1>2. QED
  BY <1>1, InvestigationSafety, PTL

\* The record changes by its creation or by a save, and in no other way.
LEMMA RecordChanges ==
  ASSUME InvestigationInv, [Next]_vars
  PROVE  record' = record \/ (record = None /\ record' = New) \/ Saves
<1>1. ASSUME NEW c \in Clients,
             SubmitCreate(c) \/ Enqueue(c) \/ CancelRead(c) \/ CancelAgain(c) \/ ReadReport(c)
      PROVE  record' = record \/ (record = None /\ record' = New)
  BY <1>1 DEF SubmitCreate, Enqueue, CancelRead, CancelAgain, ReadReport
<1>2. ASSUME NEW w \in Workers,
             Receive(w) \/ Read(w) \/ Plan(w) \/ BeginTools(w) \/ CallRefused(w) \/ Call(w)
               \/ EndTools(w) \/ Verify(w) \/ Report(w) \/ NodeRaises(w) \/ Crash(w)
      PROVE  record' = record
  BY <1>2 DEF Receive, Read, Plan, BeginTools, CallRefused, Call, EndTools, Verify, Report,
              NodeRaises, Crash
<1>3. CASE Tick \/ UNCHANGED vars
  BY <1>3 DEF Tick, vars
<1>4. QED
  BY <1>1, <1>2, <1>3, CancelSaves, WorkerSaves DEF Next, Work

\* A finished investigation never changes: every save goes over a record that
\* was not finished when it was read and has not been saved since.
THEOREM FinishedIsFinal == Spec => TerminalIsFinal
<1>1. ASSUME InvestigationInv, [Next]_vars, record # None, Terminal(record)
      PROVE  record' = record
  BY <1>1, RecordChanges DEF Saves, Terminal
<1>2. InvestigationInv /\ [Next]_vars
        => [record # None /\ Terminal(record) => record' = record]_vars
  BY <1>1
<1>3. QED
  BY <1>2, InvestigationSafety, PTL DEF Spec, TerminalIsFinal

\* A save is a step of the single executor that the owner sees.
LEMMA SavesAsOne ==
  ASSUME InvestigationInv, Saves
  PROVE  Abstract!Next
<1>1. /\ record \in State /\ record # None /\ record' \in State /\ record' # None
      /\ Sound(record) /\ Sound(record') /\ record.stop = None
  BY Constants DEF InvestigationInv, TypeOK, RecordSound, Saves, Sound
<1>2. record.steps \in 0..MaxSteps /\ record'.steps \in 0..MaxSteps /\ MaxSteps \in Nat
  BY <1>1, Fields, Constants
<1>3. record.status \in {"queued", "running"}
  BY <1>1 DEF Sound
<1>4. CASE record'.stop = None
  <2>1. /\ record'.status = "running" /\ record'.steps = record.steps + 1
        /\ record.node \in DOMAIN Abstract!Follows
        /\ record'.node \in Abstract!Follows[record.node]
    BY <1>4 DEF Saves, Moves
  <2>2. Abstract!Advance
    BY <1>1, <1>2, <1>3, <1>4, <2>1 DEF Abstract!Advance
  <2>3. QED
    BY <2>2 DEF Abstract!Next
<1>5. CASE record'.stop # None
  <2>1. MayStop(record, record')
    BY <1>5 DEF Saves, Moves
  <2>2. record'.node = "done" /\ record'.status = StatusOf(record'.stop)
    BY <1>1, <1>5 DEF Sound
  <2>3. record'.steps \in {record.steps, record.steps + 1}
    BY <2>1 DEF MayStop
  <2>4. Abstract!Stop(record'.stop)
    BY <1>1, <1>2, <1>3, <2>2, <2>3 DEF Abstract!Stop, StatusOf, Abstract!StatusOf
  <2>5. Abstract!Stops
    BY <1>1, <2>1, <2>4 DEF Abstract!Stops, MayStop
  <2>6. QED
    BY <2>5 DEF Abstract!Next
<1>6. QED
  BY <1>4, <1>5

\* Workers and clients that race on the record implement the single executor
\* of InvestigationRecord: no node is lost, none is repeated, one stop counts.
THEOREM RaceActsAsOne == Spec => ActsAsOne
<1>1. Init => Abstract!Init
  BY DEF Init, Abstract!Init
<1>2. ASSUME InvestigationInv, [Next]_vars PROVE [Abstract!Next]_(Abstract!vars)
  <2>1. CASE record' = record
    BY <2>1 DEF Abstract!vars
  <2>2. CASE record = None /\ record' = New
    <3>1. /\ New # None /\ New.status = "queued" /\ New.node = "plan" /\ New.steps = 0
          /\ New.stop = None
      BY NewSound DEF New
    <3>2. Abstract!Create
      BY <2>2, <3>1 DEF Abstract!Create
    <3>3. QED
      BY <3>2 DEF Abstract!Next
  <2>3. CASE Saves
    BY <1>2, <2>3, SavesAsOne
  <2>4. QED
    BY <1>2, <2>1, <2>2, <2>3, RecordChanges
<1>3. QED
  BY <1>1, <1>2, InvestigationSafety, PTL DEF Spec, ActsAsOne, Abstract!Spec
=============================================================================
