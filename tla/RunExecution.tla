----------------------------- MODULE RunExecution -----------------------------
(***************************************************************************)
(* One run from its registration to the removal of its in-memory record:   *)
(* the executor (run.executor.ts), the cancel command and the pending-input *)
(* commands that publish from outside it (run-command.service.ts,          *)
(* runs.controller.ts), the event hub, the row of the run, and the web     *)
(* clients that observe it (app.tsx, api/client.ts).                       *)
(*                                                                         *)
(* Node runs one callback at a time: an action is what happens between two *)
(* awaits.  A database call is two actions, the commit and the callback    *)
(* with its result, because other callbacks may run between them.          *)
(***************************************************************************)
EXTENDS RunEventHub, FiniteSets

CONSTANTS
  MaxUpdates,     \* bound: update events of a run
  MaxAttempts,    \* connections observeRun() tries; 5 in the code
  Possible,       \* the troubles that may strike
  MaxTroubles     \* bound: how many different ones do

\* cancel: the user cancels.  post: pending inputs change while the run is
\* active.  latch: the MCP snapshot cannot be bound.  dbError: a database call
\* of the executor throws.  sweep: the sweep finds the heartbeat of an executing
\* run stale.  followUp: creating the follow-up run throws.  stop: the process
\* is shut down or dies.
Troubles == {"cancel", "post", "latch", "dbError", "sweep", "followUp", "stop"}

ASSUME ExecutionBounds ==
  /\ MaxUpdates \in Nat /\ MaxAttempts \in Nat \ {0} /\ MaxTroubles \in Nat
  /\ Possible \subseteq Troubles

VARIABLES
  row,            \* status and lastEventSequence of the run in the database
  hub,            \* its ActiveRun record
  registered,     \* the registry still holds the record
  subs,           \* [Observers -> Subscribers]
  pc,             \* where the executor is
  held,           \* event being persisted and the live snapshot before it
  outcome,        \* the end the catch block of execute() has chosen
  aborted,        \* who has raised the abort signal
  cancelling,     \* what requestCancel() answered and cancel() has not yet seen
  posting,        \* a pending-input command read the run as active
  updates,        \* counts towards MaxUpdates
  met,            \* the troubles that have struck
  client          \* [Observers -> what the web client knows of the run]

executorVars == <<pc, held, outcome>>
commandVars == <<aborted, cancelling, posting>>
counters == <<updates, met>>
vars == <<row, hub, registered, subs, executorVars, commandVars, counters, client>>

ExecutorPoints ==
  {"accepted", "latchFailed", "starting", "startLost", "started", "running", "boundary",
   "flushing", "flushed", "completing", "completed", "completeRefused", "followUp",
   "catching", "ending", "ended", "endRefused", "forcing", "releasing", "closed", "over"}

ClientModes ==
  {"off", "fetch", "subscribe", "streaming", "lastFetch", "done", "gaveUp"}

Snapshots == [status : RunStatuses, seq : Nat]

TypeOK ==
  /\ row \in Snapshots
  /\ hub.nextSequence \in Nat /\ hub.liveSequence \in Nat /\ hub.durable \in Nat
  /\ hub.live \in Snapshots /\ hub.tail \subseteq Events
  /\ registered \in BOOLEAN
  /\ subs \in [Observers -> Subscribers]
  /\ \A c \in Observers : Len(subs[c].queue) <= MaxQueue /\ Len(subs[c].handed) <= 1
  /\ pc \in ExecutorPoints
  /\ held.event \in Events /\ held.before \in Snapshots
  /\ outcome \in {"failed", "cancelled"}
  /\ aborted \in {"no", "user", "shutdown"}
  /\ cancelling \in {"none", "cancelled", "cancel_requested", "detached"}
  /\ posting \in BOOLEAN
  /\ updates \in 0..MaxUpdates /\ met \subseteq Possible
  /\ client \in [Observers -> [mode : ClientModes, cursor : Nat \cup {NoCursor},
                               told : RunStatuses, attempt : 0..MaxAttempts]]

NothingHeld ==
  [event |-> [seq |-> 0, type |-> "update", status |-> "queued"],
   before |-> [status |-> "queued", seq |-> 0]]

\* create() has committed the queued run and registered its snapshot.
Init ==
  /\ row = [status |-> "queued", seq |-> 0]
  /\ hub = Registered(0)
  /\ registered = TRUE
  /\ subs = [c \in Observers |-> NoSubscriber]
  /\ pc = "accepted" /\ held = NothingHeld /\ outcome = "failed"
  /\ aborted = "no" /\ cancelling = "none" /\ posting = FALSE
  /\ updates = 0 /\ met = {}
  /\ client = [c \in Observers |->
       [mode |-> "off", cursor |-> NoCursor, told |-> "queued", attempt |-> 0]]

-----------------------------------------------------------------------------
(* Steps the actions are made of *)

Goto(from, to) == pc = from /\ pc' = to

\* publish(): commit and broadcast in one synchronous call.
PublishAfter(h, s, type) ==
  IF registered
  THEN /\ hub' = Commit(h, type)
       /\ subs' = Broadcast(s, NewEvent(h, type))
  ELSE hub' = h /\ subs' = s

Publish(type) == PublishAfter(hub, subs, type)

\* Mutant: the phase change goes out before the held event.
PublishHeldLast ==
  LET h == CheckpointCommitted(hub, hub.live)
  IN /\ hub' = Commit(h, "update")
     /\ subs' = Broadcast(Broadcast(subs, NewEvent(h, "update")), held.event)

\* After the terminal write: checkpoint of what is live now, broadcast of the
\* held event, and markTerminal(), which publishes the last phase change.
PublishHeld ==
  PublishAfter(CheckpointCommitted(hub, hub.live), Broadcast(subs, held.event), "update")

\* commit() of an event that waits for its row before it is broadcast.
Hold(type) ==
  /\ hub' = Commit(hub, type)
  /\ held' = [event |-> NewEvent(hub, type), before |-> hub.live]

\* The code throws into the catch block, which first reads the abort signal; a
\* signal of onModuleDestroy() means failed.
Throw == pc' = "catching" /\ outcome' = IF aborted = "user" THEN "cancelled" ELSE "failed"

\* A trouble that is possible strikes; bounds: MaxTroubles different ones, and a
\* call throws or the user cancels once.
Strikes(trouble) ==
  /\ trouble \in Possible /\ met' = met \cup {trouble}
  /\ Cardinality(met') <= MaxTroubles
StrikesOnce(trouble) == trouble \notin met /\ Strikes(trouble)
DbError == StrikesOnce("dbError")

\* Mutant: a queued run does not count as active.
RowStarted == row.status \in {"running", "cancel_requested"}

RowActive == row.status \in ActiveStatuses

\* forceFail() and interruptRuns() change the status only.
FailRow == row' = IF RowActive THEN [row EXCEPT !.status = "failed"] ELSE row

\* The compare-and-set of terminal() for the held event.
TerminalAccepted(to) ==
  row.status \in AllowedFromStatuses(to) /\ row.seq <= held.event.seq

-----------------------------------------------------------------------------
(* The executor: execute() *)

LatchSnapshot ==
  /\ Goto("accepted", "starting")
  /\ UNCHANGED <<row, hub, registered, subs, held, outcome, commandVars, counters, client>>

\* The MCP snapshot cannot be bound: run.failed goes out, then the row follows.
LatchFailure ==
  /\ Strikes("latch")
  /\ Goto("accepted", "latchFailed")
  /\ Publish("run.failed")
  /\ UNCHANGED <<row, registered, held, outcome, commandVars, updates, client>>

\* forceFail(); if it throws, so does execute(), and the record stays.
LatchFailureForced ==
  /\ Goto("latchFailed", "over")
  /\ \/ FailRow /\ registered' = FALSE /\ UNCHANGED met
     \/ UNCHANGED <<row, registered>> /\ DbError
  /\ UNCHANGED <<hub, subs, held, outcome, commandVars, updates, client>>

StartWon ==
  /\ Goto("starting", "started")
  /\ row.status = "queued"
  /\ row' = [row EXCEPT !.status = "running"]
  /\ UNCHANGED <<hub, registered, subs, held, outcome, commandVars, counters, client>>

\* Somebody ended the run before it began: the row replaces the live snapshot.
StartLost ==
  /\ Goto("starting", "startLost")
  /\ row.status # "queued"
  /\ UNCHANGED <<row, hub, registered, subs, held, outcome, commandVars, counters, client>>

StartLostSnapshot ==
  /\ Goto("startLost", "releasing")
  /\ hub' = UpdateSnapshot(hub, row)
  /\ UNCHANGED <<row, registered, subs, held, outcome, commandVars, counters, client>>

\* Sandbox lease, model step, then run.started.
Started ==
  /\ Goto("started", "running")
  /\ Publish("run.started")
  /\ UNCHANGED <<row, registered, held, outcome, commandVars, counters, client>>

\* An event of the chat stream; persistSemanticBoundary() is awaited after it.
StreamEvent ==
  /\ Goto("running", "boundary")
  /\ updates < MaxUpdates /\ updates' = updates + 1
  /\ Publish("update")
  /\ UNCHANGED <<row, registered, held, outcome, commandVars, met, client>>

\* What is live by then is captured and flushed, or left to a later flush.
Capture ==
  /\ pc = "boundary"
  /\ \/ pc' = "running" /\ UNCHANGED held
     \/ pc' = "flushing" /\ held' = [held EXCEPT !.before = hub.live]
  /\ UNCHANGED <<row, hub, registered, subs, outcome, commandVars, counters, client>>

\* flush() of the snapshot captured when it was called.
Flush ==
  /\ pc = "flushing"
  /\ IF RowActive /\ row.seq <= held.before.seq
     THEN row' = [row EXCEPT !.seq = held.before.seq] /\ pc' = "flushed"
     ELSE UNCHANGED row /\ pc' = "running"
  /\ UNCHANGED <<hub, registered, subs, held, outcome, commandVars, counters, client>>

Flushed ==
  /\ Goto("flushed", "running")
  /\ hub' = CheckpointCommitted(hub, held.before)
  /\ UNCHANGED <<row, registered, subs, held, outcome, commandVars, counters, client>>

\* The stream ends: run.completed is numbered and held back.
StreamEnds ==
  /\ Goto("running", "completing")
  /\ Hold("run.completed")
  /\ UNCHANGED <<row, registered, subs, outcome, commandVars, counters, client>>

\* The model, a tool or the abort signal throws.
StreamThrows ==
  /\ pc = "running"
  /\ Throw
  /\ UNCHANGED <<row, hub, registered, subs, held, commandVars, counters, client>>

\* A call of the database throws, before its commit or after it.
CallThrows ==
  /\ pc \in {"starting", "started", "boundary", "flushing", "flushed", "completing", "completed"}
  /\ DbError
  /\ Throw
  /\ UNCHANGED <<row, hub, registered, subs, held, commandVars, updates, client>>

\* terminal(completed) commits or its compare-and-set is refused.
CompleteRow ==
  /\ pc = "completing"
  /\ IF TerminalAccepted("completed")
     THEN row' = [status |-> "completed", seq |-> held.event.seq] /\ pc' = "completed"
     ELSE UNCHANGED row /\ pc' = "completeRefused"
  /\ UNCHANGED <<hub, registered, subs, held, outcome, commandVars, counters, client>>

Completed ==
  /\ Goto("completed", "followUp")
  /\ PublishHeld
  /\ UNCHANGED <<row, registered, held, outcome, commandVars, counters, client>>

CompleteRefused ==
  /\ pc = "completeRefused"
  /\ hub' = Rollback(hub, held.event, held.before)
  /\ Throw
  /\ UNCHANGED <<row, registered, subs, held, commandVars, counters, client>>

\* demotePendingSteersAtTerminal() may publish; then the follow-up run starts,
\* or creating it throws into the same catch block.
FollowUp ==
  /\ pc = "followUp"
  /\ \/ "post" \in met /\ updates < MaxUpdates /\ Publish("update") /\ updates' = updates + 1
     \/ UNCHANGED <<hub, subs, updates>>
  /\ \/ pc' = "releasing" /\ UNCHANGED <<outcome, met>>
     \/ Strikes("followUp") /\ Throw
  /\ UNCHANGED <<row, registered, held, commandVars, client>>

\* Mutant: the catch block announces a cancellation whatever it chose.
HoldCancelled ==
  /\ Goto("catching", "ending")
  /\ Hold("run.cancelled")
  /\ UNCHANGED <<row, registered, subs, outcome, commandVars, counters, client>>

\* The catch block numbers and holds the end it chose.
HoldEnd ==
  /\ Goto("catching", "ending")
  /\ Hold(TerminalEvent(outcome))
  /\ UNCHANGED <<row, registered, subs, outcome, commandVars, counters, client>>

EndRow ==
  /\ pc = "ending"
  /\ IF TerminalAccepted(outcome)
     THEN row' = [status |-> outcome, seq |-> held.event.seq] /\ pc' = "ended"
     ELSE UNCHANGED row /\ pc' = "endRefused"
  /\ UNCHANGED <<hub, registered, subs, held, outcome, commandVars, counters, client>>

Ended ==
  /\ Goto("ended", "releasing")
  /\ PublishHeld
  /\ UNCHANGED <<row, registered, held, outcome, commandVars, counters, client>>

\* A refused or failed terminal write is rolled back and the row forced.
EndRefused ==
  /\ \/ pc = "endRefused" /\ UNCHANGED met
     \/ pc \in {"ending", "ended"} /\ DbError
  /\ pc' = "forcing"
  /\ hub' = Rollback(hub, held.event, held.before)
  /\ UNCHANGED <<row, registered, subs, held, outcome, commandVars, updates, client>>

ForceFail ==
  /\ Goto("forcing", "releasing")
  /\ \/ FailRow /\ UNCHANGED met
     \/ UNCHANGED row /\ DbError
  /\ UNCHANGED <<hub, registered, subs, held, outcome, commandVars, updates, client>>

\* finally: the sandbox is released, the streams close, the record lingers.
CloseStreams ==
  /\ Goto("releasing", "closed")
  /\ subs' = Closed(subs)
  /\ UNCHANGED <<row, hub, registered, held, outcome, commandVars, counters, client>>

Unregister ==
  /\ Goto("closed", "over")
  /\ registered' = FALSE
  /\ UNCHANGED <<row, hub, subs, held, outcome, commandVars, counters, client>>

Execute ==
  \/ LatchSnapshot \/ LatchFailure \/ LatchFailureForced
  \/ StartWon \/ StartLost \/ StartLostSnapshot \/ Started
  \/ StreamEvent \/ Capture \/ Flush \/ Flushed \/ StreamEnds \/ StreamThrows \/ CallThrows
  \/ CompleteRow \/ Completed \/ CompleteRefused \/ FollowUp
  \/ HoldEnd \/ EndRow \/ Ended \/ EndRefused \/ ForceFail
  \/ CloseStreams \/ Unregister

-----------------------------------------------------------------------------
(* Commands that reach the run from outside its executor *)

\* cancel() has read the run as unfinished; requestCancel() in the database.
CancelRow ==
  /\ StrikesOnce("cancel")
  /\ cancelling = "none"
  /\ row.status \notin {"completed", "failed"}
  /\ row' = [row EXCEPT !.status =
       CASE @ = "queued" -> "cancelled" [] @ = "running" -> "cancel_requested" [] OTHER -> @]
  /\ cancelling' = row'.status
  /\ UNCHANGED <<hub, registered, subs, executorVars, aborted, posting, updates, client>>

\* The callback of cancel(): announce what the database did, abort the executor.
CancelAnswer ==
  /\ cancelling \in {"cancelled", "cancel_requested"}
  /\ Publish(IF cancelling = "cancelled" THEN "run.cancelled" ELSE "run.cancel_requested")
  /\ cancelling' = IF cancelling = "cancelled" \/ registered THEN "none" ELSE "detached"
  /\ aborted' = IF cancelling = "cancel_requested" /\ registered /\ aborted = "no"
                THEN "user" ELSE aborted
  /\ UNCHANGED <<row, registered, executorVars, posting, counters, client>>

\* Without an executor cancel() writes the end itself, from the snapshot it
\* read, which the row may have left behind.
CancelDetached ==
  /\ cancelling = "detached"
  /\ cancelling' = "none"
  /\ \/ /\ row.status \in AllowedFromStatuses("cancelled")
        /\ row' = [row EXCEPT !.status = "cancelled"]
     \/ UNCHANGED row
  /\ UNCHANGED <<hub, registered, subs, executorVars, aborted, posting, counters, client>>

\* broadcastPending(): find the active run, then publish the input list.
PostRead ==
  /\ Strikes("post") /\ ~posting /\ RowActive /\ updates < MaxUpdates
  /\ posting' = TRUE /\ updates' = updates + 1
  /\ UNCHANGED <<row, hub, registered, subs, executorVars, aborted, cancelling, client>>

PostPublish ==
  /\ posting
  /\ posting' = FALSE
  /\ Publish("update")
  /\ UNCHANGED <<row, registered, executorVars, aborted, cancelling, counters, client>>

Command == CancelRow \/ CancelAnswer \/ CancelDetached \/ PostRead \/ PostPublish

\* interruptRuns() fails a run whose heartbeat is stale: the executor stopped
\* beating, or its process could not reach the database for thirty seconds.
Unwatched == pc \in {"releasing", "closed", "over"}

Sweep ==
  /\ RowActive
  /\ IF Unwatched THEN UNCHANGED met ELSE Strikes("sweep")
  /\ FailRow
  /\ UNCHANGED <<hub, registered, subs, executorVars, commandVars, updates, client>>

\* onModuleDestroy() aborts every registered run.
Shutdown ==
  /\ Strikes("stop") /\ registered /\ aborted # "shutdown"
  /\ aborted' = "shutdown"
  /\ UNCHANGED <<row, hub, registered, subs, executorVars, cancelling, posting, updates,
                 client>>

\* External: the process dies with everything in memory.
Crash ==
  /\ Strikes("stop") /\ registered
  /\ pc' = "over" /\ registered' = FALSE
  /\ subs' = Closed(subs)
  /\ cancelling' = "none" /\ posting' = FALSE
  /\ UNCHANGED <<row, hub, held, outcome, aborted, updates, client>>

-----------------------------------------------------------------------------
(* The web client: observeRun(), applyRunEvent(), applyRunSnapshot() *)

\* What GET /runs/:id answers: the live snapshot, or the row without one.
ServedSnapshot == IF registered THEN hub.live ELSE row

\* The next attempt reads a snapshot first; after the last one a final snapshot
\* is read.
Retry(k) ==
  IF k.attempt < MaxAttempts THEN [k EXCEPT !.mode = "fetch", !.attempt = @ + 1]
  ELSE [k EXCEPT !.mode = "lastFetch"]

\* The sequence number applied so far; a client starts at zero.
Position(k) == IF k.cursor = NoCursor THEN 0 ELSE k.cursor

\* Mutant: an older snapshot overwrites what newer events left.
AppliedAnySnapshot(k, snapshot) ==
  [k EXCEPT !.cursor = snapshot.seq, !.told = snapshot.status]

\* applyRunSnapshot(): full replacement unless the client is already beyond it.
AppliedSnapshot(k, snapshot) ==
  IF snapshot.seq < Position(k) THEN k
  ELSE [k EXCEPT !.cursor = snapshot.seq, !.told = snapshot.status]

\* A terminal status ends the observation, also one the reducer ignored.
Concluded(k, status) ==
  IF status \in TerminalStatuses THEN [k EXCEPT !.mode = "done", !.told = status] ELSE k

\* A new run is subscribed to at once, any other is fetched first.
Observe(c) ==
  /\ client[c].mode = "off"
  /\ \E first \in {"fetch", "subscribe"} :
       client' = [client EXCEPT ![c].mode = first, ![c].attempt = 1]
  /\ UNCHANGED <<row, hub, registered, subs, executorVars, commandVars, counters>>

Fetch(c) ==
  /\ client[c].mode = "fetch"
  /\ client' = [client EXCEPT ![c] =
       Concluded([AppliedSnapshot(@, ServedSnapshot) EXCEPT !.mode = "subscribe"],
                 ServedSnapshot.status)]
  /\ UNCHANGED <<row, hub, registered, subs, executorVars, commandVars, counters>>

LastFetch(c) ==
  /\ client[c].mode = "lastFetch"
  /\ client' = [client EXCEPT ![c] =
       [AppliedSnapshot(@, ServedSnapshot) EXCEPT !.mode = "gaveUp"]]
  /\ UNCHANGED <<row, hub, registered, subs, executorVars, commandVars, counters>>

\* applyRunEvent(): duplicates are ignored, snapshots replace, gaps reconnect.
Applied(k, e) ==
  IF e.seq <= Position(k) THEN k
  ELSE IF e.type = "run.snapshot" THEN AppliedSnapshot(k, e)
  ELSE IF e.seq # Position(k) + 1 THEN Retry(k)
  ELSE [k EXCEPT !.cursor = e.seq, !.told = e.status]

\* GET /runs/:id/events: a hub subscription, or one snapshot of the row.
Subscribe(c) ==
  /\ client[c].mode = "subscribe"
  /\ IF registered
     THEN /\ subs' = [subs EXCEPT ![c] = Subscribed(hub, client[c].cursor)]
          /\ client' = [client EXCEPT ![c].mode = "streaming"]
     ELSE /\ client' = [client EXCEPT ![c] =
               Concluded(Retry(Applied(@, SnapshotEvent(row))), row.status)]
          /\ UNCHANGED subs
  /\ UNCHANGED <<row, hub, registered, executorVars, commandVars, counters>>

\* A connection is over: the server's iterator returns.
Dropped(s) == [s EXCEPT !.closed = TRUE, !.member = FALSE, !.queue = <<>>, !.handed = <<>>]

\* What a terminal event or snapshot says, and the status of the rest.
Announces(e) == e.type \in TerminalEvents \cup {"run.snapshot"}

\* The loop of subscribe() takes the next event and the client applies it.  A
\* terminal event ends the loop; a client that saw a gap starts over.
Deliver(c) ==
  /\ client[c].mode = "streaming"
  /\ Undelivered(subs[c]) # <<>>
  /\ LET e == Head(Undelivered(subs[c]))
         k == Applied(client[c], e)
     IN /\ client' = [client EXCEPT ![c] =
             IF k.mode = "streaming" /\ Announces(e) THEN Concluded(k, e.status) ELSE k]
        /\ subs' = [subs EXCEPT ![c] =
             IF client'[c].mode # "streaming" THEN Dropped(@) ELSE AfterNext(@)]
  /\ UNCHANGED <<row, hub, registered, executorVars, commandVars, counters>>

\* The loop finds nothing queued and waits.
Await(c) ==
  /\ client[c].mode = "streaming"
  /\ Undelivered(subs[c]) = <<>> /\ ~subs[c].closed /\ ~subs[c].waiting
  /\ subs' = [subs EXCEPT ![c] = AfterNext(@)]
  /\ UNCHANGED <<row, hub, registered, executorVars, commandVars, counters, client>>

\* The stream ends without a terminal event: closed, or too slow.
StreamClosed(c) ==
  /\ client[c].mode = "streaming"
  /\ Ends(subs[c])
  /\ client' = [client EXCEPT ![c] = Retry(@)]
  /\ subs' = [subs EXCEPT ![c] = Dropped(@)]
  /\ UNCHANGED <<row, hub, registered, executorVars, commandVars, counters>>

\* External: the network drops the connection.
Disconnect(c) ==
  /\ client[c].mode = "streaming" /\ client[c].attempt < MaxAttempts
  /\ client' = [client EXCEPT ![c] = Retry(@)]
  /\ subs' = [subs EXCEPT ![c] = Dropped(@)]
  /\ UNCHANGED <<row, hub, registered, executorVars, commandVars, counters>>

Observation(c) == Observe(c) \/ Fetch(c) \/ LastFetch(c) \/ Subscribe(c) \/ Deliver(c) \/ Await(c)
                  \/ StreamClosed(c) \/ Disconnect(c)

\* Everything is over when the executor and the observers are at rest.
AllOver ==
  /\ pc = "over" /\ ~RowActive /\ cancelling = "none" /\ ~posting
  /\ \A c \in Observers : client[c].mode \in {"done", "gaveUp", "streaming"}
  /\ UNCHANGED vars

Next ==
  \/ Execute \/ Command \/ Sweep \/ Shutdown \/ Crash \/ AllOver
  \/ \E c \in Observers : Observation(c)

Spec == Init /\ [][Next]_vars

\* Every await of the executor and of a command settles, a stream of events is
\* finite, the sweep timer fires, and a client keeps processing what it gets.
Fairness ==
  /\ WF_vars(Execute) /\ WF_vars(CancelAnswer \/ CancelDetached) /\ WF_vars(PostPublish)
  /\ WF_vars(Unwatched /\ Sweep)
  /\ \A c \in Observers :
       WF_vars(Fetch(c) \/ LastFetch(c) \/ Subscribe(c) \/ Deliver(c) \/ Await(c) \/ StreamClosed(c))

FairSpec == Spec /\ Fairness

-----------------------------------------------------------------------------
(* Properties *)

Seqs(events) == {e.seq : e \in events}

\* The tail holds every event after the durable mark, once: whatever commits,
\* rollbacks, checkpoints and foreign publications interleave, no number is
\* used twice and none is lost (commit(), rollback(), checkpointCommitted()).
TailContinuesDurable ==
  /\ Seqs(hub.tail) = hub.durable + 1 .. hub.nextSequence - 1
  /\ Cardinality(hub.tail) = Cardinality(Seqs(hub.tail))

\* An event waits for its row: in the tail, in no queue yet.
HeldBack == pc \in {"completing", "completed", "completeRefused", "ending", "ended", "endRefused"}

\* An open stream will hand its client every event of the tail the client has
\* not applied: as itself or within a later snapshot (subscribe() prepares the
\* replay and registers in one step, enqueue() closes rather than drops).  Only
\* terminal events, held back or abandoned, may be missing.
OpenStreamMissesNothing ==
  \A c \in Observers :
    client[c].mode = "streaming" /\ ~subs[c].closed =>
      \A e \in hub.tail :
        \/ e.seq <= Position(client[c])
        \/ e.type \in TerminalEvents
        \/ \E i \in DOMAIN Undelivered(subs[c]) :
             LET u == Undelivered(subs[c])[i]
             IN u = e \/ (u.type = "run.snapshot" /\ u.seq >= e.seq)

\* None of the given troubles has struck so far.
Without(troubles) == met \cap troubles = {}

\* The run had to do with changing inputs and a failing latch at most.
Undisturbed == met \subseteq {"post", "latch"}

InOrder ==
  \A c \in Observers :
    LET waiting == Undelivered(subs[c])
    IN \A i, j \in DOMAIN waiting : i < j => waiting[i].seq < waiting[j].seq

\* The live snapshot is what its last event left.
TailYieldsLive ==
  /\ hub.live.seq = hub.liveSequence
  /\ hub.liveSequence = hub.nextSequence - 1
  /\ \A e \in hub.tail : e.seq = hub.liveSequence => e.status = hub.live.status

\* Unless somebody publishes while a terminal event is held back, or a start that was lost to a
\* cancellation replaces the snapshot: the events that wait for a client are in the order of their
\* numbers, so the client, which applies only the next number, sees no gap the server made, and
\* run.types.ts is right that reduce(durableCheckpoint.snapshot, tailEvents) === liveSnapshot.
OrderUndisturbed == Without({"cancel", "post"}) => InOrder /\ TailYieldsLive

ToldTheTruth ==
  \A c \in Observers :
    client[c].told \in TerminalStatuses /\ row.status \in TerminalStatuses =>
      client[c].told = row.status

\* The record that outlives the executor.
FinalSnapshot == registered /\ pc = "closed" => hub.live.status = row.status

\* No client is left with another end than the database has: what an observer was told is what
\* the row says, once the row says anything, and a client that just missed the terminal event
\* reads it in the retained record.
TruthUndisturbed == Undisturbed => ToldTheTruth /\ FinalSnapshot

\* What a client has been told never goes back to an older sequence number,
\* though a snapshot may be older than the events applied before it.
ClientNeverGoesBack ==
  [][ \A c \in Observers : client'[c].cursor >= client[c].cursor ]_vars

\* Every run ends in the database, whatever fails or dies on the way.
RunEnds == <>[](row.status \in TerminalStatuses)

\* Every observer comes to rest: it saw the end, or it used up its attempts.
AtRest(c) == client[c].mode \in {"off", "done", "gaveUp"}

ObserversRest ==
  \A c \in Observers :
    ~AtRest(c) ~> AtRest(c) \/ ~Without({"cancel", "dbError", "sweep", "stop"})

-----------------------------------------------------------------------------
(* What comments and documents promise and the code does not keep *)

\* run.executor.ts: a success is never shown before the compare-and-set of the
\* database has succeeded.
CompletedIsDurable ==
  \A c \in Observers : client[c].told = "completed" => row.status = "completed"

\* run-event-hub.ts: a cursor that is too old gets a full snapshot, so an open
\* stream with nothing to hand over belongs to a client that is up to date.
IdleStreamIsCurrent ==
  \A c \in Observers :
    /\ client[c].mode = "streaming" /\ ~subs[c].closed /\ Undelivered(subs[c]) = <<>>
    /\ ~HeldBack
    => Position(client[c]) >= hub.liveSequence

==============================================================================
