----------------------------- MODULE RunEventHub -----------------------------
(***************************************************************************)
(* The in-memory event stream of one active run:                           *)
(* apps/api/src/runs/run-event-hub.ts over the ActiveRun record of         *)
(* active-run.registry.ts.  Its methods are synchronous, so each is one    *)
(* operator from the record and the subscribers before to those after, and *)
(* a caller composes them into the steps it takes between two awaits.      *)
(*                                                                         *)
(* An event keeps its sequence number, its type and the run status its     *)
(* reducer leaves; text, tools and plans are all "update" events.          *)
(***************************************************************************)
EXTENDS Integers, Sequences, FiniteSets, RunStatus

CONSTANTS
  Observers,      \* SSE connections, at most one open per web client
  MaxQueue        \* MAX_SUBSCRIBER_QUEUE

ASSUME MaxQueueIsPositive == MaxQueue \in Nat \ {0}

TerminalEvent(status) ==
  CASE status = "completed" -> "run.completed"
    [] status = "failed"    -> "run.failed"
    [] status = "cancelled" -> "run.cancelled"

TerminalEvents == {TerminalEvent(status) : status \in TerminalStatuses}

EventTypes ==
  TerminalEvents \cup {"run.snapshot", "run.started", "run.cancel_requested", "update"}

Events == [seq : Nat, type : EventTypes, status : RunStatuses]

-----------------------------------------------------------------------------
(* The ActiveRun record *)

\* register(): live and durable state are the row just created.
Registered(seq) ==
  [nextSequence |-> seq + 1, liveSequence |-> seq,
   live |-> [status |-> "queued", seq |-> seq],
   durable |-> seq, tail |-> {}]

\* Mutant: run.failed leaves the status alone.
ReducedWithoutFailure(status, type) ==
  CASE type = "run.started"          -> "running"
    [] type = "run.cancel_requested" -> "cancel_requested"
    [] type = "run.completed"        -> "completed"
    [] type = "run.cancelled"        -> "cancelled"
    [] OTHER                         -> status

\* reduceSnapshot(): the status an event leaves.
ReducedStatus(status, type) ==
  CASE type = "run.started"          -> "running"
    [] type = "run.cancel_requested" -> "cancel_requested"
    [] type = "run.completed"        -> "completed"
    [] type = "run.failed"           -> "failed"
    [] type = "run.cancelled"        -> "cancelled"
    [] OTHER                         -> status

\* The event commit() builds: the next number and the status it reduces to.
NewEvent(h, type) ==
  [seq |-> h.nextSequence, type |-> type, status |-> ReducedStatus(h.live.status, type)]

\* commit(): number, reduce, advance the live sequence, keep in the tail.
Commit(h, type) ==
  LET e == NewEvent(h, type)
  IN [h EXCEPT !.nextSequence = @ + 1, !.liveSequence = e.seq,
               !.live = [status |-> e.status, seq |-> e.seq], !.tail = @ \cup {e}]

\* Mutant: the number of the event taken back is not given out again.
RollbackKeepsNumber(h, e, snapshot) ==
  IF h.liveSequence # e.seq THEN h
  ELSE [h EXCEPT !.live = snapshot, !.liveSequence = snapshot.seq, !.tail = @ \ {e}]

\* rollback(): takes back event e if nothing was committed after it.
Rollback(h, e, snapshot) ==
  IF h.liveSequence # e.seq THEN h
  ELSE [h EXCEPT !.live = snapshot, !.liveSequence = snapshot.seq,
                 !.nextSequence = e.seq, !.tail = @ \ {e}]

\* updateSnapshot(): the row replaces what the process believed.
UpdateSnapshot(h, snapshot) ==
  [h EXCEPT !.live = snapshot, !.liveSequence = snapshot.seq]

\* Mutant: a checkpoint empties the tail.
CheckpointClearsTail(h, snapshot) ==
  IF snapshot.seq < h.durable THEN h
  ELSE [h EXCEPT !.durable = snapshot.seq, !.tail = {}]

\* checkpointCommitted(): the durable mark moves up and frees the tail below.
CheckpointCommitted(h, snapshot) ==
  IF snapshot.seq < h.durable THEN h
  ELSE [h EXCEPT !.durable = snapshot.seq,
                 !.tail = {e \in @ : e.seq > snapshot.seq}]

-----------------------------------------------------------------------------
(* Subscribers *)

\* A subscriber, whether it is in run.subscribers (member), the event a
\* resolved next() hands over, and whether a next() is pending (waiting).
Subscribers ==
  [member : BOOLEAN, closed : BOOLEAN, waiting : BOOLEAN,
   queue : Seq(Events), handed : Seq(Events)]

NoSubscriber ==
  [member |-> FALSE, closed |-> TRUE, waiting |-> FALSE, queue |-> <<>>, handed |-> <<>>]

\* Mutant: the limit of the queue is not looked at.
EnqueueUnbounded(s, e) ==
  IF s.closed THEN s
  ELSE IF s.waiting THEN [s EXCEPT !.waiting = FALSE, !.handed = Append(@, e)]
  ELSE [s EXCEPT !.queue = Append(@, e)]

\* enqueue(): hand over, queue, or close a subscriber that is too slow.
Enqueue(s, e) ==
  IF s.closed THEN s
  ELSE IF s.waiting THEN [s EXCEPT !.waiting = FALSE, !.handed = Append(@, e)]
  ELSE IF Len(s.queue) >= MaxQueue THEN [s EXCEPT !.closed = TRUE]
  ELSE [s EXCEPT !.queue = Append(@, e)]

\* broadcast(): every subscriber still in the set.
Broadcast(subs, e) ==
  [c \in Observers |-> IF subs[c].member THEN Enqueue(subs[c], e) ELSE subs[c]]

SnapshotEvent(snapshot) ==
  [seq |-> snapshot.seq, type |-> "run.snapshot", status |-> snapshot.status]

\* A connection without a Last-Event-ID.
NoCursor == -1

\* The tail continues what the client has already applied.
CanReplay(h, cursor) ==
  /\ cursor # NoCursor /\ cursor <= h.liveSequence
  /\ \/ h.tail = {}
     \/ \E e \in h.tail : cursor >= e.seq - 1

\* The tail is an array to which commit() appends: its events by their numbers.
ByNumber(events) ==
  [i \in 1..Cardinality(events) |->
     CHOOSE e \in events : Cardinality({d \in events : d.seq < e.seq}) = i - 1]

\* Mutant: the first event after the cursor is skipped.
TailAfterNext(h, cursor) == ByNumber({e \in h.tail : e.seq > cursor + 1})

TailAfter(h, cursor) == ByNumber({e \in h.tail : e.seq > cursor})

\* A new subscriber whose first events are the given ones, as far as they fit.
Preloaded(events) ==
  [member |-> TRUE, closed |-> Len(events) > MaxQueue, waiting |-> FALSE,
   queue |-> IF Len(events) > MaxQueue THEN SubSeq(events, 1, MaxQueue) ELSE events,
   handed |-> <<>>]

\* subscribe(): a terminal snapshot and the end, the tail after the cursor, or
\* a snapshot; with registration and first events in one synchronous step.
Subscribed(h, cursor) ==
  IF h.live.status \in TerminalStatuses
  THEN [Preloaded(<<SnapshotEvent(h.live)>>) EXCEPT !.closed = TRUE, !.member = FALSE]
  ELSE IF CanReplay(h, cursor) THEN Preloaded(TailAfter(h, cursor))
  ELSE Preloaded(<<SnapshotEvent(h.live)>>)

\* close(): every subscriber of the set is closed and leaves it.
Closed(subs) ==
  [c \in Observers |->
     IF subs[c].member THEN [subs[c] EXCEPT !.closed = TRUE, !.member = FALSE]
     ELSE subs[c]]

\* What next() will yield, handed-over event first.
Undelivered(s) == s.handed \o s.queue

\* next(): take the first event; Ends(s) when there is none and none will come.
Ends(s) == Undelivered(s) = <<>> /\ s.closed

\* Mutant: the queue is read without removing its head.
AfterPeek(s) ==
  IF s.handed # <<>> THEN [s EXCEPT !.handed = <<>>]
  ELSE IF s.queue # <<>> THEN s
  ELSE [s EXCEPT !.waiting = TRUE]

AfterNext(s) ==
  IF s.handed # <<>> THEN [s EXCEPT !.handed = <<>>]
  ELSE IF s.queue # <<>> THEN [s EXCEPT !.queue = Tail(@)]
  ELSE [s EXCEPT !.waiting = TRUE]

==============================================================================
