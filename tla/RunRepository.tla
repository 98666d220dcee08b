---------------------------- MODULE RunRepository ----------------------------
(***************************************************************************)
(* The database side of a run (apps/api/src/runs/run.repository.ts): the   *)
(* rows of agent_runs, the assistant message that carries the draft, and   *)
(* model_transcript_items, as several API instances use them through       *)
(* RunRepository.                                                          *)
(*                                                                         *)
(* PostgreSQL runs the transactions at READ COMMITTED.  A transaction      *)
(* whose first statement is the compare-and-set on the run row holds that  *)
(* row until it commits, so it is one action; one that reads first and     *)
(* writes later is split at that point, and what it read may be stale when *)
(* it writes.  A unique index is checked at the insert.                    *)
(*                                                                         *)
(* The run executor of an instance awaits every call, so a run has at most *)
(* one repository call of its executor in flight; cancel requests,         *)
(* heartbeats, the reconciliation sweep and other instances interleave     *)
(* freely with it.                                                         *)
(***************************************************************************)
EXTENDS Naturals, RunStatus

CONSTANTS
  Runs,           \* run ids, one per accepted or attempted create request
  SessionOf,      \* [Runs -> sessions]: where the request wants to run
  KeyOf,          \* [Runs -> keys]: the idempotency key of the request
  Instances,      \* API processes, each with its own instanceId
  NoInstance,     \* ownerInstanceId of a run nobody has started
  MaxItems,       \* bound: transcript sequence numbers of a session
  MaxSeq          \* bound: event sequence numbers of a run

ASSUME BoundsAreNatural ==
  /\ MaxItems \in Nat \ {0}
  /\ MaxSeq \in Nat

ASSUME NoInstanceIsNoInstance == NoInstance \notin Instances

VARIABLES
  \* agent_runs
  status, lastEventSequence, owner,
  beating,        \* heartbeat_at (created_at before the start) is under 30 s old
  \* metadata of the assistant message
  delivery, draftVersion, draftSequence,
  \* model_transcript_items: records [run, sequence, state]
  transcript,
  \* the processes and the calls they have in flight
  process,        \* [Instances -> {"off", "up", "down"}]
  host,           \* the process that accepted the run and executes it
  createAt,       \* first transcript sequence a create read; 0 when none is open
  appendAt,       \* transcript sequence an append read; 0 when none is open
  flushing,       \* runs whose flush has passed the draft-version check
  callSeq, callDraft,  \* event sequence and draft version the executor wrote last
  cancelPhase, cancelSeq,  \* a cancel request and the snapshot sequence it read
  scanned         \* [Instances -> rows interruptRuns still has to fail]

rowVars == <<status, lastEventSequence, owner, beating>>
messageVars == <<delivery, draftVersion, draftSequence>>
executorVars == <<appendAt, flushing, callSeq, callDraft>>
cancelVars == <<cancelPhase, cancelSeq>>
processVars == <<process, host, createAt, scanned>>
vars == <<rowVars, messageVars, transcript, executorVars, cancelVars, processVars>>

IsActive(r) == status[r] \in ActiveStatuses
ItemsOf(r) == {item \in transcript : item.run = r}
SessionItems(s) == {item \in transcript : SessionOf[item.run] = s}

\* n is one more than the highest sequence of the session, 1 when it is empty.
IsNextSequence(s, n) ==
  /\ \A item \in SessionItems(s) : item.sequence < n
  /\ n = 1 \/ \E item \in SessionItems(s) : item.sequence = n - 1

\* The unique index (session_id, sequence) of model_transcript_items.
SequenceTaken(s, n) == \E item \in SessionItems(s) : item.sequence = n

\* Mutant: an item is written in a state the column does not have.
ActiveItemPending(r, n) == [run |-> r, sequence |-> n, state |-> "pending"]

ActiveItem(r, n) == [run |-> r, sequence |-> n, state |-> "active"]

TypeOK ==
  /\ status \in [Runs -> RunStatuses \cup {"none"}]
  /\ lastEventSequence \in [Runs -> Nat]
  /\ owner \in [Runs -> Instances \cup {NoInstance}]
  /\ beating \in [Runs -> BOOLEAN]
  /\ delivery \in [Runs -> {"none", "streaming"} \cup TerminalStatuses]
  /\ draftVersion \in [Runs -> Nat]
  /\ draftSequence \in [Runs -> Nat]
  /\ transcript \subseteq [run : Runs, sequence : Nat, state : {"active", "committed"}]
  /\ process \in [Instances -> {"off", "up", "down"}]
  /\ host \in [Runs -> Instances \cup {NoInstance}]
  /\ createAt \in [Runs -> Nat]
  /\ appendAt \in [Runs -> Nat]
  /\ flushing \subseteq Runs
  /\ callSeq \in [Runs -> Nat]
  /\ callDraft \in [Runs -> Nat]
  /\ cancelPhase \in [Runs -> {"none", "queued", "running", "detached"}]
  /\ cancelSeq \in [Runs -> Nat]
  /\ scanned \in [Instances -> SUBSET [run : Runs, draft : Nat, seq : Nat]]

Init ==
  /\ status = [r \in Runs |-> "none"]
  /\ lastEventSequence = [r \in Runs |-> 0]
  /\ owner = [r \in Runs |-> NoInstance]
  /\ beating = [r \in Runs |-> FALSE]
  /\ delivery = [r \in Runs |-> "none"]
  /\ draftVersion = [r \in Runs |-> 0]
  /\ draftSequence = [r \in Runs |-> 0]
  /\ transcript = {}
  /\ process = [i \in Instances |-> "off"]
  /\ host = [r \in Runs |-> NoInstance]
  /\ createAt = [r \in Runs |-> 0]
  /\ appendAt = [r \in Runs |-> 0]
  /\ flushing = {}
  /\ callSeq = [r \in Runs |-> 0]
  /\ callDraft = [r \in Runs |-> 0]
  /\ cancelPhase = [r \in Runs |-> "none"]
  /\ cancelSeq = [r \in Runs |-> 0]
  /\ scanned = [i \in Instances |-> {}]

-----------------------------------------------------------------------------
(* Creating a run *)

SameRequest(r, q) == SessionOf[q] = SessionOf[r] /\ KeyOf[q] = KeyOf[r]

\* The reads of create(): neither the same request nor an active run is there.
\* Otherwise the caller gets existing, conflict or busy and nothing changes.
CreateCheck(r, i) ==
  /\ process[i] = "up"
  /\ status[r] = "none" /\ createAt[r] = 0
  /\ \A q \in Runs : SameRequest(r, q) => status[q] = "none"
  /\ \A q \in Runs : SessionOf[q] = SessionOf[r] => ~IsActive(q)
  /\ \E n \in 1..MaxItems :
       /\ IsNextSequence(SessionOf[r], n)
       /\ createAt' = [createAt EXCEPT ![r] = n]
  /\ host' = [host EXCEPT ![r] = i]
  /\ UNCHANGED <<rowVars, messageVars, transcript, executorVars, cancelVars,
                 process, scanned>>

\* The unique indexes the inserts of create() meet: one active run per
\* session, one run per idempotency key, one item per transcript sequence.
CreateConflicts(r) ==
  \/ \E q \in Runs : SessionOf[q] = SessionOf[r] /\ IsActive(q)
  \/ \E q \in Runs : SameRequest(r, q) /\ status[q] # "none"
  \/ SequenceTaken(SessionOf[r], createAt[r])

\* The inserts of create(): the queued run, its two messages, its user item.
CreateInsert(r) ==
  /\ createAt[r] # 0
  /\ ~CreateConflicts(r)
  /\ status' = [status EXCEPT ![r] = "queued"]
  /\ beating' = [beating EXCEPT ![r] = TRUE]
  /\ delivery' = [delivery EXCEPT ![r] = "streaming"]
  /\ transcript' = transcript \cup {ActiveItem(r, createAt[r])}
  /\ createAt' = [createAt EXCEPT ![r] = 0]
  /\ UNCHANGED <<lastEventSequence, owner, draftVersion, draftSequence,
                 executorVars, cancelVars, process, host, scanned>>

\* An insert violates an index: the transaction rolls back (P2002).
CreateRefused(r) ==
  /\ createAt[r] # 0
  /\ CreateConflicts(r)
  /\ createAt' = [createAt EXCEPT ![r] = 0]
  /\ host' = [host EXCEPT ![r] = NoInstance]
  /\ UNCHANGED <<rowVars, messageVars, transcript, executorVars, cancelVars,
                 process, scanned>>

-----------------------------------------------------------------------------
(* The calls of the executor of a run *)

\* The process that hosts the run is alive and its executor awaits no call.
ExecutorIdle(r) ==
  /\ status[r] # "none"
  /\ host[r] \in Instances /\ process[host[r]] = "up"
  /\ appendAt[r] = 0 /\ r \notin flushing

\* An executor that won start() owns the run, whatever happened to it since.
Executing(r) == ExecutorIdle(r) /\ owner[r] = host[r]

\* Mutant: the compare-and-set of start() forgets the status.
StartAcceptsAny(r) == status[r] # "none"

\* The condition of start()'s compare-and-set.
StartAccepts(r) == status[r] = "queued"

\* start(): the compare-and-set queued -> running takes ownership.
Start(r) ==
  /\ ExecutorIdle(r)
  /\ StartAccepts(r)
  /\ status' = [status EXCEPT ![r] = "running"]
  /\ owner' = [owner EXCEPT ![r] = host[r]]
  /\ beating' = [beating EXCEPT ![r] = TRUE]
  /\ UNCHANGED <<lastEventSequence, messageVars, transcript, executorVars,
                 cancelVars, processVars>>

\* heartbeat(): a timer of the executor, so it fires during its calls too.
Heartbeat(r) ==
  /\ host[r] \in Instances /\ process[host[r]] = "up" /\ owner[r] = host[r]
  /\ IsActive(r)
  /\ beating' = [beating EXCEPT ![r] = TRUE]
  /\ UNCHANGED <<status, lastEventSequence, owner, messageVars, transcript,
                 executorVars, cancelVars, processVars>>

\* External: thirty seconds pass in which no write refreshes the row.
HeartbeatAges(r) ==
  /\ IsActive(r) /\ beating[r]
  /\ beating' = [beating EXCEPT ![r] = FALSE]
  /\ UNCHANGED <<status, lastEventSequence, owner, messageVars, transcript,
                 executorVars, cancelVars, processVars>>

\* appendTranscriptItem() and appendTranscriptFact() up to the insert: the run
\* is still active and the highest sequence of the session is read.
AppendCheck(r) ==
  /\ Executing(r)
  /\ IsActive(r)
  /\ \E n \in 1..MaxItems :
       /\ IsNextSequence(SessionOf[r], n)
       /\ appendAt' = [appendAt EXCEPT ![r] = n]
  /\ UNCHANGED <<rowVars, messageVars, transcript, flushing, callSeq, callDraft,
                 cancelVars, processVars>>

\* The insert; a sequence taken meanwhile makes the append throw.
AppendInsert(r) ==
  /\ appendAt[r] # 0
  /\ transcript' = IF SequenceTaken(SessionOf[r], appendAt[r]) THEN transcript
                   ELSE transcript \cup {ActiveItem(r, appendAt[r])}
  /\ appendAt' = [appendAt EXCEPT ![r] = 0]
  /\ UNCHANGED <<rowVars, messageVars, flushing, callSeq, callDraft,
                 cancelVars, processVars>>

\* flush() up to its compare-and-set: a newer draft would end it here.  The
\* caller flushes after an event, so its live sequence and its draft version
\* are both new.
FlushCheck(r, s) ==
  /\ Executing(r)
  /\ s > callSeq[r]
  /\ callSeq' = [callSeq EXCEPT ![r] = s]
  /\ callDraft' = [callDraft EXCEPT ![r] = @ + 1]
  /\ flushing' = IF draftVersion[r] > callDraft[r] + 1 THEN flushing
                 ELSE flushing \cup {r}
  /\ UNCHANGED <<rowVars, messageVars, transcript, appendAt, cancelVars, processVars>>

\* Mutant: the compare-and-set forgets the status.
FlushAcceptsEndedRun(r) == lastEventSequence[r] <= callSeq[r]

\* The condition of flush()'s compare-and-set.
FlushAccepts(r) == IsActive(r) /\ lastEventSequence[r] <= callSeq[r]

\* The compare-and-set of flush() and, when it holds the row, the draft.
FlushCommit(r) ==
  /\ r \in flushing
  /\ flushing' = flushing \ {r}
  /\ IF FlushAccepts(r)
     THEN /\ lastEventSequence' = [lastEventSequence EXCEPT ![r] = callSeq[r]]
          /\ beating' = [beating EXCEPT ![r] = TRUE]
          /\ delivery' = [delivery EXCEPT ![r] = "streaming"]
          /\ draftVersion' = [draftVersion EXCEPT ![r] = callDraft[r]]
          /\ draftSequence' = [draftSequence EXCEPT ![r] = callSeq[r]]
     ELSE UNCHANGED <<lastEventSequence, beating, messageVars>>
  /\ UNCHANGED <<status, owner, transcript, appendAt, callSeq, callDraft,
                 cancelVars, processVars>>

\* Mutant: the items are committed however the run ends.
SettledTranscriptAlwaysCommitted(r, to) ==
  (transcript \ ItemsOf(r)) \cup {[item EXCEPT !.state = "committed"] : item \in ItemsOf(r)}

\* What terminal() does to the transcript items of the run.
SettledTranscript(r, to) ==
  IF to = "completed"
  THEN (transcript \ ItemsOf(r))
         \cup {[item EXCEPT !.state = "committed"] : item \in ItemsOf(r)}
  ELSE {item \in transcript : item.run # r \/ item.state # "active"}

\* Mutant: the compare-and-set forgets the event sequence.
TerminalAcceptsAnySequence(r, to, s) == status[r] \in AllowedFromStatuses(to)

\* The condition of terminal()'s compare-and-set.
TerminalAccepts(r, to, s) ==
  status[r] \in AllowedFromStatuses(to) /\ lastEventSequence[r] <= s

\* The transaction of terminal(), for a caller that passes sequence s and
\* draft version d.  A refused compare-and-set changes nothing.
TerminalCommit(r, to, s, d) ==
  /\ TerminalAccepts(r, to, s)
  /\ status' = [status EXCEPT ![r] = to]
  /\ lastEventSequence' = [lastEventSequence EXCEPT ![r] = s]
  /\ beating' = [beating EXCEPT ![r] = TRUE]
  /\ transcript' = SettledTranscript(r, to)
  /\ delivery' = [delivery EXCEPT ![r] = to]
  /\ draftVersion' = [draftVersion EXCEPT ![r] = d]
  /\ draftSequence' = [draftSequence EXCEPT ![r] = s]
  /\ UNCHANGED owner

Terminal(r, to, s) ==
  /\ Executing(r)
  /\ s > callSeq[r]
  /\ TerminalCommit(r, to, s, callDraft[r] + 1)
  /\ UNCHANGED <<executorVars, cancelVars, processVars>>

\* The writes forceFail() and interruptRuns() share: the run fails, its
\* unfinished transcript goes, and the draft metadata is written back.
FailRow(r, d, s) ==
  /\ IsActive(r)
  /\ status' = [status EXCEPT ![r] = "failed"]
  /\ transcript' = SettledTranscript(r, "failed")
  /\ delivery' = [delivery EXCEPT ![r] = "failed"]
  /\ draftVersion' = [draftVersion EXCEPT ![r] = d]
  /\ draftSequence' = [draftSequence EXCEPT ![r] = s]
  /\ UNCHANGED <<lastEventSequence, owner>>

\* forceFail(): the last resort of an executor, and the exit of a failed MCP
\* latch before the run was started.  It re-reads the draft metadata.
ForceFail(r) ==
  /\ ExecutorIdle(r)
  /\ FailRow(r, draftVersion[r], draftSequence[r])
  /\ beating' = [beating EXCEPT ![r] = TRUE]
  /\ UNCHANGED <<executorVars, cancelVars, processVars>>

-----------------------------------------------------------------------------
(* Cancel requests, from any instance *)

\* cancel() reads a snapshot of a run that has not ended.
CancelRead(r) ==
  /\ \E i \in Instances : process[i] = "up"
  /\ cancelPhase[r] = "none"
  /\ IsActive(r)
  /\ cancelPhase' = [cancelPhase EXCEPT ![r] = "queued"]
  /\ cancelSeq' = [cancelSeq EXCEPT ![r] = lastEventSequence[r]]
  /\ UNCHANGED <<rowVars, messageVars, transcript, executorVars, processVars>>

\* The cancel request is answered; its locals go.
CancelDone(r) ==
  /\ cancelPhase' = [cancelPhase EXCEPT ![r] = "none"]
  /\ cancelSeq' = [cancelSeq EXCEPT ![r] = 0]

\* First transaction of requestCancel(): a queued run is cancelled on the spot.
CancelQueued(r) ==
  /\ cancelPhase[r] = "queued"
  /\ IF status[r] = "queued"
     THEN /\ status' = [status EXCEPT ![r] = "cancelled"]
          /\ delivery' = [delivery EXCEPT ![r] = "cancelled"]
          /\ CancelDone(r)
     ELSE /\ cancelPhase' = [cancelPhase EXCEPT ![r] = "running"]
          /\ UNCHANGED <<status, delivery, cancelSeq>>
  /\ UNCHANGED <<lastEventSequence, owner, beating, draftVersion, draftSequence,
                 transcript, executorVars, processVars>>

\* Second statement of requestCancel(): a running run is asked to stop.  The
\* host aborts its executor; another instance goes on to end the run itself.
CancelRunning(r) ==
  /\ cancelPhase[r] = "running"
  /\ IF status[r] = "running"
     THEN /\ status' = [status EXCEPT ![r] = "cancel_requested"]
          /\ \/ CancelDone(r)
             \/ /\ \E i \in Instances : process[i] = "up" /\ i # host[r]
                /\ cancelPhase' = [cancelPhase EXCEPT ![r] = "detached"]
                /\ UNCHANGED cancelSeq
     ELSE CancelDone(r) /\ UNCHANGED status
  /\ UNCHANGED <<lastEventSequence, owner, beating, messageVars, transcript,
                 executorVars, processVars>>

\* cancel() in a process without the run: terminal() with the sequence of the
\* snapshot it read first and draft version 1.  The outcome is not looked at.
CancelDetached(r) ==
  /\ cancelPhase[r] = "detached"
  /\ CancelDone(r)
  /\ \/ TerminalCommit(r, "cancelled", cancelSeq[r], 1)
     \/ /\ ~TerminalAccepts(r, "cancelled", cancelSeq[r])
        /\ UNCHANGED <<rowVars, messageVars, transcript>>
  /\ UNCHANGED <<executorVars, processVars>>

-----------------------------------------------------------------------------
(* Reconciliation of runs whose process is gone *)

Scanned(rs) == {[run |-> r, draft |-> draftVersion[r], seq |-> draftSequence[r]] : r \in rs}

\* onModuleInit(): a starting instance takes every active run another instance
\* owns.  NOT (owner = me) is not true of a NULL owner, so queued runs stay.
Boot(i) ==
  /\ process[i] = "off"
  /\ process' = [process EXCEPT ![i] = "up"]
  /\ scanned' = [scanned EXCEPT ![i] =
       Scanned({r \in Runs : IsActive(r) /\ owner[r] \notin {NoInstance, i}})]
  /\ UNCHANGED <<rowVars, messageVars, transcript, executorVars, cancelVars,
                 host, createAt>>

\* Mutant: the sweep looks at heartbeat_at only, which a queued run lacks.
StaleHeartbeatOnly(r) == IsActive(r) /\ ~beating[r] /\ owner[r] # NoInstance

\* heartbeat_at, or created_at without one, is older than thirty seconds.
Stale(r) == IsActive(r) /\ ~beating[r]

\* The 30-second sweep, its own runs included, and interruptStaleForSession()
\* before a session is deleted: active runs that no longer beat.
Sweep(i, sessions) ==
  /\ process[i] = "up"
  /\ scanned[i] = {}
  /\ scanned' = [scanned EXCEPT ![i] =
       Scanned({r \in Runs : Stale(r) /\ SessionOf[r] \in sessions})]
  /\ scanned'[i] # {}
  /\ UNCHANGED <<rowVars, messageVars, transcript, executorVars, cancelVars,
                 process, host, createAt>>

\* One iteration of the loop of interruptRuns(): the compare-and-set asks only
\* whether the run is active, and the metadata written is the scanned one.
Interrupt(i, item) ==
  /\ item \in scanned[i]
  /\ scanned' = [scanned EXCEPT ![i] = @ \ {item}]
  /\ \/ FailRow(item.run, item.draft, item.seq) /\ UNCHANGED beating
     \/ ~IsActive(item.run) /\ UNCHANGED <<rowVars, messageVars, transcript>>
  /\ UNCHANGED <<executorVars, cancelVars, process, host, createAt>>

\* External: a process dies.  Its open transactions roll back and its
\* executors, sweeps and unfinished creates are gone.
Crash(i) ==
  /\ process[i] = "up"
  /\ \E j \in Instances \ {i} : process[j] # "down"
  /\ process' = [process EXCEPT ![i] = "down"]
  /\ scanned' = [scanned EXCEPT ![i] = {}]
  /\ createAt' = [r \in Runs |-> IF host[r] = i THEN 0 ELSE createAt[r]]
  /\ host' = [r \in Runs |-> IF host[r] = i /\ createAt[r] # 0 THEN NoInstance
                             ELSE host[r]]
  /\ appendAt' = [r \in Runs |-> IF host[r] = i THEN 0 ELSE appendAt[r]]
  /\ flushing' = {r \in flushing : host[r] # i}
  /\ UNCHANGED <<rowVars, messageVars, transcript, callSeq, callDraft, cancelVars>>

-----------------------------------------------------------------------------

Create(r) == CreateInsert(r) \/ CreateRefused(r) \/ \E i \in Instances : CreateCheck(r, i)

ExecutorStep(r) ==
  \/ Start(r) \/ AppendCheck(r) \/ AppendInsert(r) \/ FlushCommit(r) \/ ForceFail(r)
  \/ \E s \in 0..MaxSeq : FlushCheck(r, s)
  \/ \E s \in 0..MaxSeq, to \in TerminalStatuses : Terminal(r, to, s)

CancelStep(r) == CancelRead(r) \/ CancelQueued(r) \/ CancelRunning(r) \/ CancelDetached(r)

\* Session sets a sweep is asked for: all of them, or the one to be deleted.
SweepScopes == {{SessionOf[r] : r \in Runs}} \cup {{SessionOf[r]} : r \in Runs}

Reconcile(i) ==
  \/ Boot(i)
  \/ \E sessions \in SweepScopes : Sweep(i, sessions)
  \/ \E item \in scanned[i] : Interrupt(i, item)

Next ==
  \/ \E r \in Runs : \/ Create(r) \/ ExecutorStep(r) \/ CancelStep(r)
                     \/ Heartbeat(r) \/ HeartbeatAges(r)
  \/ \E i \in Instances : Reconcile(i) \/ Crash(i)

Spec == Init /\ [][Next]_vars

\* A deployment keeps an instance running; its sweep timer keeps firing and
\* its loop keeps going.  A row that no process refreshes grows old.
HostIsDown(r) == host[r] \in Instances /\ process[host[r]] = "down"

Fairness ==
  /\ \A i \in Instances :
       /\ WF_vars(Boot(i))
       /\ WF_vars(Sweep(i, {SessionOf[r] : r \in Runs}))
       /\ WF_vars(\E item \in scanned[i] : Interrupt(i, item))
  /\ \A r \in Runs : WF_vars(HostIsDown(r) /\ HeartbeatAges(r))

FairSpec == Spec /\ Fairness

-----------------------------------------------------------------------------
(* Properties *)

\* A session never has two unfinished runs, however create, the sweep, cancel
\* requests and executors of several processes interleave (create(), the
\* partial unique index, and every status compare-and-set).
OneActivePerSession ==
  \A r, q \in Runs :
    SessionOf[r] = SessionOf[q] /\ IsActive(r) /\ IsActive(q) => r = q

\* The assistant message never tells another story than the run row: it
\* streams exactly while the run is active and otherwise shows the same end
\* (flush(), terminal(), requestCancel(), forceFail(), interruptRuns()).
DeliveryAgrees ==
  \A r \in Runs :
    /\ IsActive(r) <=> delivery[r] = "streaming"
    /\ status[r] \in TerminalStatuses => delivery[r] = status[r]

\* Only a completed run contributes to the history that later runs of the
\* session replay, and a completed run left nothing of it behind: all its
\* items are committed, its user item among them.  Until then loadTranscript()
\* finds the items of the run (create(), append*(), terminal(), forceFail()).
HistoryIsCompletedRuns ==
  \A r \in Runs :
    /\ status[r] # "completed" => \A item \in ItemsOf(r) : item.state = "active"
    /\ status[r] = "completed" =>
         \A item \in ItemsOf(r) : item.state = "committed"
    /\ IsActive(r) \/ status[r] = "completed" => ItemsOf(r) # {}

\* An end state is final: no late flush, start, cancel, sweep or forced
\* failure of any process changes the status of a run that has ended.
EndsUntouched == \A r \in Runs : status[r] \in TerminalStatuses => status'[r] = status[r]
TerminalIsForever == [][EndsUntouched]_vars

\* Committed history is never rewritten, and the durable event watermark of a
\* run never moves back (flush(), terminal(), the deleteMany calls).
DurableStateOnlyGrows ==
  [][/\ {item \in transcript : item.state = "committed"} \subseteq transcript'
     /\ \A r \in Runs : lastEventSequence'[r] >= lastEventSequence[r]]_vars

\* The store implements DurableRun: committed items are the model history.
published == {item.run : item \in {i \in transcript : i.state = "committed"}}
Abstract == INSTANCE DurableRun WITH history <- published

ImplementsDurableRun == Abstract!Spec

\* A run whose process died does not stay active for ever: the start scan or
\* the sweep of a living instance fails it (onModuleInit(), interruptRuns()).
OrphansAreFailed == \A r \in Runs : (IsActive(r) /\ HostIsDown(r)) ~> ~IsActive(r)

\* docs/27-reasoning-context-transcript.md: the active transcript of a failed
\* or cancelled run is cleared in its terminal or reconciliation transaction.
EndedRunsKeepNoActiveItem ==
  \A r \in Runs : status[r] \in {"failed", "cancelled"} => ItemsOf(r) = {}

==============================================================================
