-------------------------- MODULE RunExecutionProofs --------------------------
(***************************************************************************)
(* What holds of one run, its event hub and its observers for every number *)
(* of observers, updates, attempts and troubles and every queue length.    *)
(* The argument has four layers, each inductive given the one before:      *)
(*   IInv      the record of the run: the tail holds exactly the numbers   *)
(*             after the durable mark, and what is held back is in it;     *)
(*   StreamInv what an open stream still has to hand over continues what   *)
(*             its client has applied;                                     *)
(*   CalmInv   numbers only grow while nobody cancels or posts;            *)
(*   PhaseInv  row and live snapshot by where the executor is, and         *)
(*   AgreedInv any end known anywhere is the end of the live snapshot,     *)
(*             while no more than posts and a failing latch happens.       *)
(***************************************************************************)
EXTENDS RunExecution, FiniteSetTheorems, SequenceTheorems, TLAPS

Hubs == [nextSequence : Nat, liveSequence : Nat, live : Snapshots, durable : Nat,
         tail : SUBSET Events]

\* Every number between the durable mark and the next one belongs to one event.
TailShape(h) ==
  /\ h.durable < h.nextSequence
  /\ \A e \in h.tail : h.durable < e.seq /\ e.seq < h.nextSequence
  /\ \A n \in h.durable + 1 .. h.nextSequence - 1 : \E e \in h.tail : e.seq = n
  /\ \A d, e \in h.tail : d.seq = e.seq => d = e

\* The live snapshot is that of the newest event.
LiveIsNewest(h) == h.live.seq = h.liveSequence /\ h.liveSequence = h.nextSequence - 1

SubscriberShape(s) ==
  /\ s \in Subscribers
  /\ Len(s.queue) <= MaxQueue /\ Len(s.handed) <= 1
  /\ s.waiting => s.queue = <<>> /\ s.handed = <<>>

\* Where the executor has nothing left to write.
Finishing == {"releasing", "closed", "over"}

\* What is not about the record of the run.
RestType ==
  /\ row \in Snapshots /\ registered \in BOOLEAN /\ pc \in ExecutorPoints
  /\ outcome \in {"failed", "cancelled"} /\ aborted \in {"no", "user", "shutdown"}
  /\ cancelling \in {"none", "cancelled", "cancel_requested", "detached"}
  /\ posting \in BOOLEAN /\ updates \in 0..MaxUpdates /\ met \subseteq Possible
  /\ client \in [Observers -> [mode : ClientModes, cursor : Nat \cup {NoCursor},
                               told : RunStatuses, attempt : 0..MaxAttempts]]

\* A run that is not started is queued or was ended, and a start that is lost finds it ended.
StartInv ==
  /\ pc \in {"accepted", "starting"} => row.status \in {"queued", "failed", "cancelled"}
  /\ pc = "startLost" => row.status \in {"failed", "cancelled"}

\* The numbers of the record.  Only a lost start leaves a live snapshot older than the events,
\* and it is a terminal one.
HubInv ==
  /\ hub \in Hubs /\ TailShape(hub)
  /\ LiveIsNewest(hub) \/ (pc \in Finishing /\ hub.live.status \in TerminalStatuses)

\* The event that waits for its row is in the tail, above the snapshot that was live before it,
\* and what is being flushed is not ahead of the events.
HeldInv ==
  /\ held \in [event : Events, before : Snapshots]
  /\ HeldBack => held.event \in hub.tail /\ held.before.seq = held.event.seq - 1
  /\ pc \in {"flushing", "flushed"} => held.before.seq < hub.nextSequence

SubsInv == subs \in [Observers -> Subscribers] /\ \A c \in Observers : SubscriberShape(subs[c])

IInv == RestType /\ StartInv /\ HubInv /\ HeldInv /\ SubsInv

-----------------------------------------------------------------------------
(* The hub *)

\* What an event makes of a status is a status, and every end has its event.
LEMMA StatusesAreStatuses ==
  /\ \A s \in RunStatuses, t \in EventTypes : ReducedStatus(s, t) \in RunStatuses
  /\ \A s \in TerminalStatuses : TerminalEvent(s) \in EventTypes
  /\ TerminalStatuses \subseteq RunStatuses
BY DEF ReducedStatus, RunStatuses, ActiveStatuses, TerminalStatuses, TerminalEvent, EventTypes,
       TerminalEvents

\* A new event has the next number and the type it was published with.
LEMMA NewEventType ==
  ASSUME NEW h \in Hubs, NEW type \in EventTypes
  PROVE  /\ NewEvent(h, type) \in Events
         /\ NewEvent(h, type).seq = h.nextSequence /\ NewEvent(h, type).type = type
         /\ NewEvent(h, type).status \in RunStatuses
BY StatusesAreStatuses DEF NewEvent, Events, Hubs, Snapshots

\* A published event ends the tail, and the live snapshot is its own.
LEMMA CommitShape ==
  ASSUME NEW h \in Hubs, TailShape(h), NEW type \in EventTypes
  PROVE  /\ Commit(h, type) \in Hubs /\ TailShape(Commit(h, type))
         /\ LiveIsNewest(Commit(h, type))
         /\ Commit(h, type).nextSequence = h.nextSequence + 1
         /\ Commit(h, type).durable = h.durable
         /\ Commit(h, type).tail = h.tail \cup {NewEvent(h, type)}
<1> DEFINE e == NewEvent(h, type)
           g == Commit(h, type)
<1>1. e \in Events /\ e.seq = h.nextSequence /\ e.status \in RunStatuses
  BY NewEventType
<1>2. g = [nextSequence |-> h.nextSequence + 1, liveSequence |-> e.seq,
           live |-> [status |-> e.status, seq |-> e.seq], durable |-> h.durable,
           tail |-> h.tail \cup {e}]
  <2>1. g = [h EXCEPT !.nextSequence = h.nextSequence + 1, !.liveSequence = e.seq,
                      !.live = [status |-> e.status, seq |-> e.seq], !.tail = h.tail \cup {e}]
    BY DEF Commit
  <2> HIDE DEF e, g
  <2> QED BY <2>1 DEF Hubs
<1>3. h.nextSequence \in Nat /\ h.durable \in Nat /\ h.tail \subseteq Events
  BY DEF Hubs
<1> HIDE DEF e, g
<1>4. g \in Hubs /\ LiveIsNewest(g)
  BY <1>1, <1>2, <1>3 DEF Hubs, Snapshots, LiveIsNewest
<1>5. TailShape(g)
  BY <1>1, <1>2, <1>3 DEF TailShape, Events
<1> QED BY <1>2, <1>4, <1>5 DEF e, g

\* An event that is rolled back leaves the tail as it was before it.
LEMMA RollbackShape ==
  ASSUME NEW h \in Hubs, TailShape(h), LiveIsNewest(h), NEW e \in Events, NEW snapshot \in Snapshots,
         h.durable < e.seq, e \in h.tail, snapshot.seq = e.seq - 1
  PROVE  /\ Rollback(h, e, snapshot) \in Hubs /\ TailShape(Rollback(h, e, snapshot))
         /\ LiveIsNewest(Rollback(h, e, snapshot))
<1>1. CASE h.liveSequence # e.seq
  BY <1>1 DEF Rollback
<1>2. CASE h.liveSequence = e.seq
  <2> DEFINE g == Rollback(h, e, snapshot)
  <2>1. g = [nextSequence |-> e.seq, liveSequence |-> snapshot.seq, live |-> snapshot,
             durable |-> h.durable, tail |-> h.tail \ {e}]
    BY <1>2 DEF Rollback, Hubs
  <2>2. h.nextSequence \in Nat /\ h.durable \in Nat /\ h.tail \subseteq Events
        /\ e.seq \in Nat /\ snapshot.seq \in Nat /\ h.nextSequence = e.seq + 1
    BY <1>2 DEF Hubs, Events, Snapshots, LiveIsNewest
  <2> HIDE DEF g
  <2>3. g \in Hubs /\ LiveIsNewest(g)
    BY <2>1, <2>2 DEF Hubs, LiveIsNewest
  <2>4. TailShape(g)
    BY <2>1, <2>2 DEF TailShape, Events
  <2> QED BY <2>3, <2>4 DEF g
<1> QED BY <1>1, <1>2

\* A checkpoint moves the durable mark and cuts the tail there.
LEMMA CheckpointShape ==
  ASSUME NEW h \in Hubs, TailShape(h), NEW snapshot \in Snapshots, snapshot.seq < h.nextSequence
  PROVE  /\ CheckpointCommitted(h, snapshot) \in Hubs /\ TailShape(CheckpointCommitted(h, snapshot))
         /\ LiveIsNewest(h) => LiveIsNewest(CheckpointCommitted(h, snapshot))
         /\ CheckpointCommitted(h, snapshot).nextSequence = h.nextSequence
         /\ CheckpointCommitted(h, snapshot).live = h.live
         /\ CheckpointCommitted(h, snapshot).tail \subseteq h.tail
<1>1. CASE snapshot.seq < h.durable
  BY <1>1 DEF CheckpointCommitted
<1>2. CASE ~(snapshot.seq < h.durable)
  <2> DEFINE g == CheckpointCommitted(h, snapshot)
  <2>1. g = [nextSequence |-> h.nextSequence, liveSequence |-> h.liveSequence, live |-> h.live,
             durable |-> snapshot.seq, tail |-> {e \in h.tail : e.seq > snapshot.seq}]
    BY <1>2 DEF CheckpointCommitted, Hubs
  <2>2. h.nextSequence \in Nat /\ h.durable \in Nat /\ h.tail \subseteq Events /\ snapshot.seq \in Nat
        /\ \A e \in h.tail : e.seq \in Nat
    BY DEF Hubs, Events, Snapshots
  <2> HIDE DEF g
  <2>3. g \in Hubs /\ (LiveIsNewest(h) => LiveIsNewest(g))
    BY <2>1, <2>2 DEF Hubs, LiveIsNewest
  <2>4. TailShape(g)
    BY <1>2, <2>1, <2>2 DEF TailShape
  <2> QED BY <2>1, <2>3, <2>4 DEF g
<1> QED BY <1>1, <1>2

\* Events whose numbers are those from a + 1 to b, once each, are put in that order.
LEMMA ByNumberIsSorted ==
  ASSUME NEW a \in Nat, NEW b \in Nat, a <= b, NEW E \in SUBSET Events,
         \A e \in E : a < e.seq /\ e.seq <= b,
         \A n \in a + 1 .. b : \E e \in E : e.seq = n,
         \A d, e \in E : d.seq = e.seq => d = e
  PROVE  /\ IsFiniteSet(E) /\ Cardinality(E) = b - a
         /\ ByNumber(E) \in Seq(E) /\ Len(ByNumber(E)) = b - a
         /\ \A i \in 1 .. b - a : ByNumber(E)[i] \in E /\ ByNumber(E)[i].seq = a + i
<1>0. \A e \in E : e.seq \in Nat
  BY DEF Events
<1>1. ASSUME NEW n \in a .. b
      PROVE  LET B == {e \in E : e.seq <= n} IN IsFiniteSet(B) /\ Cardinality(B) = n - a
  <2> DEFINE B == {e \in E : e.seq <= n}
             at == [k \in a + 1 .. n |-> CHOOSE e \in E : e.seq = k]
  <2>1. \A k \in a + 1 .. n : at[k] \in B /\ at[k].seq = k
    BY <1>0
  <2>2. at \in Bijection(a + 1 .. n, B)
    <3>1. at \in [a + 1 .. n -> B]
      BY <2>1
    <3>2. \A e \in B : e.seq \in a + 1 .. n /\ at[e.seq] = e
      BY <1>0, <2>1
    <3> HIDE DEF at, B
    <3> QED BY <2>1, <3>1, <3>2 DEF Bijection, Injection, Surjection, IsInjective
  <2>3. IsFiniteSet(a + 1 .. n) /\ Cardinality(a + 1 .. n) = n - a
    <3>1. a + 1 \in Int /\ n \in Int /\ (a + 1 > n <=> n - a = 0) /\ n - (a + 1) + 1 = n - a
      OBVIOUS
    <3>2. Cardinality(a + 1 .. n) = IF a + 1 > n THEN 0 ELSE n - (a + 1) + 1
      BY <3>1, FS_Interval
    <3> QED BY <3>1, <3>2, FS_Interval
  <2> QED BY <2>2, <2>3, FS_Bijection DEF ExistsBijection
<1>2. IsFiniteSet(E) /\ Cardinality(E) = b - a
  <2>1. {e \in E : e.seq <= b} = E
    OBVIOUS
  <2> QED BY <1>1, <2>1
<1>3. ASSUME NEW i \in 1 .. b - a
      PROVE  ByNumber(E)[i] \in E /\ ByNumber(E)[i].seq = a + i
  <2> DEFINE Rank(e) == Cardinality({d \in E : d.seq < e.seq})
  <2>1. \A e \in E : Rank(e) = e.seq - 1 - a
    <3> TAKE e \in E
    <3>1. {d \in E : d.seq < e.seq} = {d \in E : d.seq <= e.seq - 1}
      BY <1>0
    <3>2. e.seq - 1 \in a .. b
      BY <1>0
    <3> QED BY <1>1, <3>1, <3>2
  <2> HIDE DEF Rank
  <2>2. PICK e \in E : e.seq = a + i
    OBVIOUS
  <2>3. Rank(e) = i - 1
    BY <2>1, <2>2
  <2>4. ByNumber(E)[i] = CHOOSE x \in E : Rank(x) = i - 1
    BY <1>2 DEF ByNumber, Rank
  <2>5. ByNumber(E)[i] \in E /\ Rank(ByNumber(E)[i]) = i - 1
    BY <2>3, <2>4
  <2> QED BY <1>0, <2>1, <2>5
<1>4. ByNumber(E) \in [1 .. b - a -> E]
  <2> DEFINE At(i) == CHOOSE e \in E : Cardinality({d \in E : d.seq < e.seq}) = i - 1
  <2>1. ByNumber(E) = [i \in 1 .. b - a |-> At(i)]
    BY <1>2 DEF ByNumber
  <2> HIDE DEF At
  <2>2. \A i \in 1 .. b - a : At(i) \in E
    BY <1>3, <2>1
  <2> QED BY <2>1, <2>2
<1> QED BY <1>2, <1>3, <1>4

\* The replay of a cursor: the events of the tail after it, in order and without a gap.
LEMMA TailAfterIsSeq ==
  ASSUME NEW h \in Hubs, TailShape(h), NEW cursor \in Nat
  PROVE  /\ TailAfter(h, cursor) \in Seq(Events)
         /\ \A e \in h.tail : e.seq > cursor =>
              \E i \in DOMAIN TailAfter(h, cursor) : TailAfter(h, cursor)[i] = e
         /\ \A i \in DOMAIN TailAfter(h, cursor) :
              TailAfter(h, cursor)[i] \in h.tail /\ TailAfter(h, cursor)[i].seq > cursor
         /\ \A i, j \in DOMAIN TailAfter(h, cursor) :
              i < j => TailAfter(h, cursor)[i].seq < TailAfter(h, cursor)[j].seq
<1> DEFINE E == {e \in h.tail : e.seq > cursor}
           b == h.nextSequence - 1
<1>1. h.durable \in Nat /\ h.nextSequence \in Nat /\ b \in Nat /\ h.durable <= b
      /\ h.tail \subseteq Events /\ \A e \in h.tail : e.seq \in Nat
  BY DEF Hubs, TailShape, Events
<1>2. PICK a \in Nat : a <= b /\ (\A e \in E : a < e.seq) /\ (\A n \in a + 1 .. b : n > cursor /\ n > h.durable)
  <2>1. CASE cursor >= b
    BY <1>1, <2>1 DEF TailShape
  <2>2. CASE cursor < b /\ cursor >= h.durable
    BY <1>1, <2>2
  <2>3. CASE cursor < h.durable
    BY <1>1, <2>3 DEF TailShape
  <2> QED BY <1>1, <2>1, <2>2, <2>3
<1>3. \A e \in E : a < e.seq /\ e.seq <= b
  BY <1>1, <1>2 DEF TailShape
<1>4. \A n \in a + 1 .. b : \E e \in E : e.seq = n
  BY <1>1, <1>2 DEF TailShape
<1>5. \A d, e \in E : d.seq = e.seq => d = e
  BY DEF TailShape
<1>6. E \in SUBSET Events
  BY <1>1
<1>7. TailAfter(h, cursor) = ByNumber(E)
  BY DEF TailAfter
<1> HIDE DEF E, b
<1>8. /\ ByNumber(E) \in Seq(E) /\ Len(ByNumber(E)) = b - a
      /\ \A i \in 1 .. b - a : ByNumber(E)[i] \in E /\ ByNumber(E)[i].seq = a + i
  BY <1>1, <1>2, <1>3, <1>4, <1>5, <1>6, ByNumberIsSorted
<1> DEFINE q == ByNumber(E)
<1>9. DOMAIN q = 1 .. b - a
  BY <1>8
<1> HIDE DEF q
<1>10. q \in Seq(Events)
  BY <1>6, <1>8 DEF q
<1>11. \A e \in E : \E i \in DOMAIN q : q[i] = e
  <2> TAKE e \in E
  <2>1. e.seq \in Nat /\ e.seq - a \in 1 .. b - a
    BY <1>1, <1>2, <1>3, <1>6 DEF Events
  <2>2. q[e.seq - a] \in E /\ q[e.seq - a].seq = e.seq
    BY <1>2, <1>8, <2>1 DEF q
  <2> QED BY <1>5, <1>9, <2>1, <2>2
<1>12. \A i \in DOMAIN q : q[i] \in E
  BY <1>8, <1>9 DEF q
<1>13. \A i, j \in DOMAIN q : i < j => q[i].seq < q[j].seq
  BY <1>1, <1>2, <1>8, <1>9 DEF q
<1> QED BY <1>7, <1>10, <1>11, <1>12, <1>13 DEF q, E

-----------------------------------------------------------------------------
(* Subscribers *)

\* What SubscriberShape says of the fields.
LEMMA FieldsOf ==
  ASSUME NEW s, SubscriberShape(s)
  PROVE  /\ s \in [member : BOOLEAN, closed : BOOLEAN, waiting : BOOLEAN,
                   queue : Seq(Events), handed : Seq(Events)]
         /\ Len(s.queue) \in Nat /\ Len(s.queue) <= MaxQueue
         /\ Len(s.handed) \in Nat /\ Len(s.handed) <= 1
         /\ s.waiting => s.queue = <<>> /\ s.handed = <<>>
         /\ MaxQueue \in Nat \ {0} /\ <<>> \in Seq(Events) /\ Len(<<>>) = 0
BY MaxQueueIsPositive, EmptySeq DEF SubscriberShape, Subscribers

\* What a subscriber has not delivered is a sequence of events.
LEMMA UndeliveredType ==
  ASSUME NEW s, SubscriberShape(s)
  PROVE  Undelivered(s) \in Seq(Events)
BY ConcatProperties DEF SubscriberShape, Subscribers, Undelivered

\* An event joins the end of a queue, or the full queue is closed.
LEMMA EnqueueShape ==
  ASSUME NEW s, SubscriberShape(s), NEW e \in Events
  PROVE  /\ SubscriberShape(Enqueue(s, e))
         /\ Enqueue(s, e).member = s.member
         /\ s.closed => Enqueue(s, e).closed
         /\ ~Enqueue(s, e).closed => Undelivered(Enqueue(s, e)) = Append(Undelivered(s), e)
<1>0. /\ s \in [member : BOOLEAN, closed : BOOLEAN, waiting : BOOLEAN,
                queue : Seq(Events), handed : Seq(Events)]
      /\ Len(s.queue) \in Nat /\ Len(s.queue) <= MaxQueue
      /\ Len(s.handed) \in Nat /\ Len(s.handed) <= 1
      /\ s.waiting => s.queue = <<>> /\ s.handed = <<>>
      /\ MaxQueue \in Nat \ {0} /\ <<>> \in Seq(Events) /\ Len(<<>>) = 0
  BY FieldsOf
<1> USE <1>0
<1> DEFINE t == Enqueue(s, e)
<1>1. CASE s.closed
  BY <1>1 DEF Enqueue
<1>2. CASE ~s.closed /\ s.waiting
  <2>1. t = [member |-> s.member, closed |-> FALSE, waiting |-> FALSE, queue |-> <<>>,
             handed |-> Append(<<>>, e)]
    BY <1>2 DEF Enqueue
  <2>2. Append(<<>>, e) \in Seq(Events) /\ Len(Append(<<>>, e)) = 1
    BY AppendProperties
  <2> HIDE DEF t
  <2>3. SubscriberShape(t) /\ t.member = s.member /\ t.queue = <<>> /\ t.handed = Append(<<>>, e)
    BY <2>1, <2>2 DEF SubscriberShape, Subscribers
  <2>4. Undelivered(t) = Append(Undelivered(s), e)
    BY <1>2, <2>2, <2>3, ConcatEmptySeq DEF Undelivered
  <2> QED BY <1>2, <2>3, <2>4 DEF t
<1>3. CASE ~s.closed /\ ~s.waiting /\ Len(s.queue) >= MaxQueue
  <2>1. t = [member |-> s.member, closed |-> TRUE, waiting |-> s.waiting, queue |-> s.queue,
             handed |-> s.handed]
    BY <1>3 DEF Enqueue
  <2> HIDE DEF t
  <2>2. SubscriberShape(t) /\ t.member = s.member /\ t.closed
    BY <2>1 DEF SubscriberShape, Subscribers
  <2> QED BY <2>2 DEF t
<1>4. CASE ~s.closed /\ ~s.waiting /\ ~(Len(s.queue) >= MaxQueue)
  <2>1. t = [member |-> s.member, closed |-> s.closed, waiting |-> FALSE,
             queue |-> Append(s.queue, e), handed |-> s.handed]
    BY <1>4 DEF Enqueue
  <2>2. Append(s.queue, e) \in Seq(Events) /\ Len(Append(s.queue, e)) = Len(s.queue) + 1
    BY AppendProperties
  <2> HIDE DEF t
  <2>3. SubscriberShape(t) /\ t.member = s.member /\ t.handed = s.handed
        /\ t.queue = Append(s.queue, e)
    BY <1>4, <2>1, <2>2 DEF SubscriberShape, Subscribers
  <2>4. s.handed \o Append(s.queue, e) = Append(s.handed \o s.queue, e)
    <3>1. <<e>> \in Seq(Events) /\ s.handed \o s.queue \in Seq(Events)
      BY ConcatProperties
    <3> QED BY <3>1, AppendIsConcat, ConcatAssociative
  <2> QED BY <1>4, <2>3, <2>4 DEF t, Undelivered
<1> QED BY <1>1, <1>2, <1>3, <1>4

\* A delivery takes the first event of a queue.
LEMMA AfterNextShape ==
  ASSUME NEW s, SubscriberShape(s)
  PROVE  /\ SubscriberShape(AfterNext(s))
         /\ AfterNext(s).member = s.member /\ AfterNext(s).closed = s.closed
         /\ Undelivered(s) # <<>> => Undelivered(AfterNext(s)) = Tail(Undelivered(s))
         /\ Undelivered(s) = <<>> => Undelivered(AfterNext(s)) = <<>>
<1>0. /\ s \in [member : BOOLEAN, closed : BOOLEAN, waiting : BOOLEAN,
                queue : Seq(Events), handed : Seq(Events)]
      /\ Len(s.queue) \in Nat /\ Len(s.queue) <= MaxQueue
      /\ Len(s.handed) \in Nat /\ Len(s.handed) <= 1
      /\ s.waiting => s.queue = <<>> /\ s.handed = <<>>
      /\ MaxQueue \in Nat \ {0} /\ <<>> \in Seq(Events) /\ Len(<<>>) = 0
  BY FieldsOf
<1> USE <1>0
<1> DEFINE t == AfterNext(s)
<1>1. CASE s.handed # <<>>
  <2>1. t = [member |-> s.member, closed |-> s.closed, waiting |-> s.waiting, queue |-> s.queue,
             handed |-> <<>>]
    BY <1>1 DEF AfterNext
  <2>2. PICK e \in Events : s.handed = <<e>>
    <3>1. Len(s.handed) = 1 /\ s.handed[1] \in Events
      <4>1. Len(s.handed) \in Nat \ {0}
        BY <1>1, EmptySeq
      <4>2. \A n \in Nat \ {0} : n <= 1 => n = 1
        OBVIOUS
      <4>3. Len(s.handed) = 1
        BY <4>1, <4>2, Zenon
      <4> QED BY <4>3
    <3> QED BY <3>1
  <2>3. <<e>> \o s.queue # <<>> /\ Tail(<<e>> \o s.queue) = s.queue
    OBVIOUS
  <2> HIDE DEF t
  <2>4. SubscriberShape(t) /\ t.member = s.member /\ t.closed = s.closed /\ t.queue = s.queue
        /\ t.handed = <<>>
    BY <1>1, <2>1 DEF SubscriberShape, Subscribers
  <2>5. Undelivered(t) = s.queue
    BY <2>4, ConcatEmptySeq DEF Undelivered
  <2> QED BY <2>2, <2>3, <2>4, <2>5 DEF t, Undelivered
<1>2. CASE s.handed = <<>> /\ s.queue # <<>>
  <2>1. t = [member |-> s.member, closed |-> s.closed, waiting |-> FALSE,
             queue |-> Tail(s.queue), handed |-> <<>>]
    BY <1>2 DEF AfterNext
  <2>2. Tail(s.queue) \in Seq(Events) /\ Len(Tail(s.queue)) = Len(s.queue) - 1
    BY <1>2, HeadTailProperties
  <2> HIDE DEF t
  <2>3. SubscriberShape(t) /\ t.member = s.member /\ t.closed = s.closed /\ t.handed = <<>>
        /\ t.queue = Tail(s.queue)
    BY <2>1, <2>2 DEF SubscriberShape, Subscribers
  <2>4. Undelivered(t) = Tail(s.queue) /\ Undelivered(s) = s.queue
    BY <1>2, <2>2, <2>3, ConcatEmptySeq DEF Undelivered
  <2> QED BY <1>2, <2>3, <2>4 DEF t
<1>3. CASE s.handed = <<>> /\ s.queue = <<>>
  <2>1. t = [member |-> s.member, closed |-> s.closed, waiting |-> TRUE, queue |-> <<>>,
             handed |-> <<>>]
    BY <1>3 DEF AfterNext
  <2> HIDE DEF t
  <2>2. SubscriberShape(t) /\ t.member = s.member /\ t.closed = s.closed /\ t.queue = <<>>
        /\ t.handed = <<>>
    BY <2>1 DEF SubscriberShape, Subscribers
  <2>3. Undelivered(t) = <<>> /\ Undelivered(s) = <<>>
    BY <1>3, <2>2, ConcatEmptySeq DEF Undelivered
  <2> QED BY <2>2, <2>3 DEF t
<1> QED BY <1>1, <1>2, <1>3

\* A new subscriber holds the events it was preloaded with, or is closed.
LEMMA PreloadedShape ==
  ASSUME NEW events \in Seq(Events)
  PROVE  /\ SubscriberShape(Preloaded(events))
         /\ ~Preloaded(events).closed => Undelivered(Preloaded(events)) = events
         /\ Preloaded(events).member
<1>1. Len(events) \in Nat /\ MaxQueue \in Nat \ {0} /\ <<>> \in Seq(Events) /\ Len(<<>>) = 0
  BY MaxQueueIsPositive, EmptySeq
<1> DEFINE t == Preloaded(events)
<1>2. CASE Len(events) > MaxQueue
  <2>1. SubSeq(events, 1, MaxQueue) \in Seq(Events) /\ Len(SubSeq(events, 1, MaxQueue)) = MaxQueue
    BY <1>1, <1>2, SubSeqProperties, ElementOfSeq
  <2>2. t = [member |-> TRUE, closed |-> TRUE, waiting |-> FALSE,
             queue |-> SubSeq(events, 1, MaxQueue), handed |-> <<>>]
    BY <1>2 DEF Preloaded
  <2> HIDE DEF t
  <2> QED BY <1>1, <2>1, <2>2 DEF t, SubscriberShape, Subscribers
<1>3. CASE ~(Len(events) > MaxQueue)
  <2>1. (Len(events) > MaxQueue) = FALSE
    BY <1>1, <1>3
  <2>2. t = [member |-> TRUE, closed |-> FALSE, waiting |-> FALSE, queue |-> events,
             handed |-> <<>>]
    BY <1>3, <2>1, Zenon DEF Preloaded
  <2> HIDE DEF t
  <2> QED BY <1>1, <1>3, <2>2, ConcatEmptySeq DEF t, Undelivered, SubscriberShape, Subscribers
<1> QED BY <1>2, <1>3

\* A connection that is over, and the end of the streams.
LEMMA DroppedShape ==
  ASSUME NEW s, SubscriberShape(s)
  PROVE  SubscriberShape(Dropped(s)) /\ Dropped(s).closed /\ ~Dropped(s).member
<1>0. /\ s \in [member : BOOLEAN, closed : BOOLEAN, waiting : BOOLEAN,
                queue : Seq(Events), handed : Seq(Events)]
      /\ Len(s.queue) \in Nat /\ Len(s.queue) <= MaxQueue
      /\ Len(s.handed) \in Nat /\ Len(s.handed) <= 1
      /\ s.waiting => s.queue = <<>> /\ s.handed = <<>>
      /\ MaxQueue \in Nat \ {0} /\ <<>> \in Seq(Events) /\ Len(<<>>) = 0
  BY FieldsOf
<1> USE <1>0
<1>1. /\ Dropped(s) \in [member : BOOLEAN, closed : BOOLEAN, waiting : BOOLEAN,
                         queue : Seq(Events), handed : Seq(Events)]
      /\ Dropped(s).closed /\ ~Dropped(s).member
      /\ Dropped(s).queue = <<>> /\ Dropped(s).handed = <<>>
  BY DEF Dropped
<1> HIDE DEF Dropped
<1> QED BY <1>1 DEF SubscriberShape, Subscribers

\* A subscriber that is closed keeps what it has not delivered.
LEMMA ClosedShape ==
  ASSUME NEW s, SubscriberShape(s)
  PROVE  LET t == [s EXCEPT !.closed = TRUE, !.member = FALSE]
         IN  SubscriberShape(t) /\ t.closed /\ ~t.member /\ Undelivered(t) = Undelivered(s)
<1>0. /\ s \in [member : BOOLEAN, closed : BOOLEAN, waiting : BOOLEAN,
                queue : Seq(Events), handed : Seq(Events)]
      /\ Len(s.queue) \in Nat /\ Len(s.queue) <= MaxQueue
      /\ Len(s.handed) \in Nat /\ Len(s.handed) <= 1
      /\ s.waiting => s.queue = <<>> /\ s.handed = <<>>
      /\ MaxQueue \in Nat \ {0} /\ <<>> \in Seq(Events) /\ Len(<<>>) = 0
  BY FieldsOf
<1> USE <1>0
<1> DEFINE t == [s EXCEPT !.closed = TRUE, !.member = FALSE]
<1>1. /\ t \in [member : BOOLEAN, closed : BOOLEAN, waiting : BOOLEAN,
               queue : Seq(Events), handed : Seq(Events)]
      /\ t.closed /\ ~t.member /\ t.waiting = s.waiting
      /\ t.queue = s.queue /\ t.handed = s.handed
  OBVIOUS
<1> HIDE DEF t
<1>2. SubscriberShape(t) /\ t.closed /\ ~t.member /\ t.queue = s.queue /\ t.handed = s.handed
  BY <1>1 DEF SubscriberShape, Subscribers
<1> QED BY <1>2 DEF t, Undelivered

\* What subscribe() gives a new subscriber.  One that stays open has a snapshot of everything,
\* or every event of the tail after its cursor.
LEMMA SubscribedShape ==
  ASSUME NEW h \in Hubs, TailShape(h), NEW cursor \in Nat \cup {NoCursor},
         LiveIsNewest(h) \/ h.live.status \in TerminalStatuses
  PROVE  /\ SubscriberShape(Subscribed(h, cursor))
         /\ ~Subscribed(h, cursor).closed =>
              /\ Subscribed(h, cursor).member /\ LiveIsNewest(h)
              /\ h.live.status \notin TerminalStatuses
              /\ \/ Undelivered(Subscribed(h, cursor)) = <<SnapshotEvent(h.live)>>
                 \/ /\ cursor # NoCursor /\ cursor <= h.liveSequence
                    /\ Undelivered(Subscribed(h, cursor)) = TailAfter(h, cursor)
<1> DEFINE t == Subscribed(h, cursor)
<1>1. SnapshotEvent(h.live) \in Events /\ <<SnapshotEvent(h.live)>> \in Seq(Events)
  BY DEF SnapshotEvent, Events, EventTypes, Hubs, Snapshots
<1>2. SubscriberShape(Preloaded(<<SnapshotEvent(h.live)>>))
  BY <1>1, PreloadedShape
<1>3. CASE h.live.status \in TerminalStatuses
  <2> DEFINE s == Preloaded(<<SnapshotEvent(h.live)>>)
  <2>1. t = [s EXCEPT !.closed = TRUE, !.member = FALSE]
    BY <1>3 DEF Subscribed
  <2> HIDE DEF s, t
  <2>2. SubscriberShape(t) /\ t.closed
    BY <1>2, <2>1, ClosedShape DEF s
  <2> QED BY <2>2 DEF t
<1>4. CASE h.live.status \notin TerminalStatuses /\ CanReplay(h, cursor)
  <2>1. TailAfter(h, cursor) \in Seq(Events)
    <3>1. cursor \in Nat
      BY <1>4 DEF CanReplay
    <3> QED BY <3>1, TailAfterIsSeq
  <2>2. t = Preloaded(TailAfter(h, cursor)) /\ cursor # NoCursor /\ cursor <= h.liveSequence
    BY <1>4 DEF Subscribed, CanReplay
  <2> HIDE DEF t
  <2> QED BY <1>4, <2>1, <2>2, PreloadedShape DEF t
<1>5. CASE h.live.status \notin TerminalStatuses /\ ~CanReplay(h, cursor)
  <2>1. t = Preloaded(<<SnapshotEvent(h.live)>>)
    BY <1>5 DEF Subscribed
  <2> HIDE DEF t
  <2> QED BY <1>1, <1>5, <2>1, PreloadedShape DEF t
<1> QED BY <1>3, <1>4, <1>5

-----------------------------------------------------------------------------
(* The kinds of steps *)

FlushPoints == {"flushing", "flushed"}

Unstarted == {"accepted", "starting", "startLost"}

\* The executor holds back or captures nothing new, and does not come back from its end.
Onward ==
  /\ held' = held
  /\ HeldBack' => HeldBack
  /\ pc' \in FlushPoints => pc \in FlushPoints
  /\ pc \in Finishing => pc' \in Finishing
  /\ pc' \in Unstarted => pc \in Unstarted

QuietStep == Onward /\ UNCHANGED <<hub, subs, client>>

\* An event goes out at once; one that meets a held event comes from a command.
PublishStep ==
  /\ Onward /\ UNCHANGED client
  /\ \E type \in EventTypes \ {"run.snapshot"} : Publish(type)
  /\ HeldBack \/ pc' \in Unstarted => cancelling # "none" \/ posting

HoldStep ==
  /\ pc \in {"running", "catching"} /\ HeldBack' /\ pc' \notin FlushPoints
  /\ UNCHANGED <<subs, client>>
  /\ \E type \in TerminalEvents : Hold(type)

CaptureStep ==
  /\ pc = "boundary" /\ pc' = "flushing" /\ held' = [held EXCEPT !.before = hub.live]
  /\ UNCHANGED <<hub, subs, client>>

FlushStep ==
  /\ pc = "flushed" /\ pc' = "running" /\ hub' = CheckpointCommitted(hub, held.before)
  /\ UNCHANGED <<held, subs, client>>

RollbackStep ==
  /\ HeldBack /\ ~HeldBack' /\ pc' \notin FlushPoints \cup Unstarted
  /\ hub' = Rollback(hub, held.event, held.before)
  /\ UNCHANGED <<held, subs, client>>

PublishHeldStep ==
  /\ pc \in {"completed", "ended"} /\ ~HeldBack' /\ pc' \notin FlushPoints \cup Unstarted
  /\ PublishHeld
  /\ UNCHANGED <<held, client>>

LostStartStep ==
  /\ pc = "startLost" /\ pc' = "releasing" /\ hub' = UpdateSnapshot(hub, row)
  /\ UNCHANGED <<held, subs, client>>

CloseStep == Onward /\ UNCHANGED <<hub, client>> /\ subs' = Closed(subs)

ObserverStep(c) ==
  Observation(c) /\ UNCHANGED <<row, hub, registered, executorVars, commandVars, counters>>

RunStep ==
  QuietStep \/ PublishStep \/ HoldStep \/ CaptureStep \/ FlushStep \/ RollbackStep
  \/ PublishHeldStep \/ LostStartStep \/ CloseStep

\* Every step is of one of these kinds.
LEMMA StepKinds ==
  ASSUME RestType, [Next]_vars
  PROVE  RunStep \/ \E c \in Observers : ObserverStep(c)
<1>0. /\ HeldBack = (pc \in {"completing", "completed", "completeRefused", "ending", "ended", "endRefused"})
      /\ HeldBack' = (pc' \in {"completing", "completed", "completeRefused", "ending", "ended", "endRefused"})
      /\ pc \in ExecutorPoints
  BY DEF HeldBack, RestType
<1> USE <1>0 DEF Goto, FlushPoints, Finishing, Unstarted
<1> USE DEF Onward
<1>1. CASE UNCHANGED vars
  BY <1>1 DEF vars, executorVars, QuietStep, RunStep
<1>2. ASSUME Execute PROVE RunStep
  <2>1. CASE LatchSnapshot \/ LatchFailureForced \/ StartWon \/ StartLost \/ StreamThrows \/ CallThrows
             \/ CompleteRow \/ EndRow \/ ForceFail \/ Unregister \/ Flush
    <3>1. ASSUME LatchSnapshot \/ LatchFailureForced \/ StartWon \/ StartLost PROVE QuietStep
      BY <3>1 DEF LatchSnapshot, LatchFailureForced, StartWon, StartLost, QuietStep
    <3>2. ASSUME StreamThrows \/ CallThrows PROVE QuietStep
      BY <3>2 DEF StreamThrows, CallThrows, Throw, QuietStep
    <3>3. ASSUME CompleteRow \/ EndRow PROVE QuietStep
      BY <3>3 DEF CompleteRow, EndRow, QuietStep
    <3>4. ASSUME ForceFail \/ Unregister \/ Flush PROVE QuietStep
      BY <3>4 DEF ForceFail, Unregister, Flush, QuietStep
    <3> QED BY <2>1, <3>1, <3>2, <3>3, <3>4 DEF RunStep
  <2>2. ASSUME LatchFailure \/ Started \/ StreamEvent PROVE PublishStep
    <3>1. {"run.failed", "run.started", "update"} \subseteq EventTypes \ {"run.snapshot"}
      BY DEF EventTypes, TerminalEvents, TerminalStatuses, TerminalEvent
    <3> QED BY <2>2, <3>1 DEF LatchFailure, Started, StreamEvent, PublishStep
  <2>3. ASSUME FollowUp PROVE QuietStep \/ PublishStep
    <3>1. "update" \in EventTypes \ {"run.snapshot"}
      BY DEF EventTypes
    <3> QED BY <2>3, <3>1 DEF FollowUp, Throw, QuietStep, PublishStep
  <2>4. ASSUME StreamEnds \/ HoldEnd PROVE HoldStep
    <3>1. "run.completed" \in TerminalEvents /\ TerminalEvent(outcome) \in TerminalEvents
      BY DEF RestType, TerminalEvents, TerminalStatuses, TerminalEvent
    <3> QED BY <2>4, <3>1 DEF StreamEnds, HoldEnd, HoldStep
  <2>5. ASSUME Capture PROVE QuietStep \/ CaptureStep
    BY <2>5 DEF Capture, QuietStep, CaptureStep
  <2>6. ASSUME Flushed PROVE FlushStep
    BY <2>6 DEF Flushed, FlushStep
  <2>7. ASSUME CompleteRefused \/ EndRefused PROVE RollbackStep
    BY <2>7 DEF CompleteRefused, EndRefused, Throw, RollbackStep
  <2>8. ASSUME Completed \/ Ended PROVE PublishHeldStep
    BY <2>8 DEF Completed, Ended, PublishHeldStep
  <2>9. ASSUME StartLostSnapshot PROVE LostStartStep
    BY <2>9 DEF StartLostSnapshot, LostStartStep
  <2>10. ASSUME CloseStreams PROVE CloseStep
    BY <2>10 DEF CloseStreams, CloseStep
  <2> QED BY <1>2, <2>1, <2>2, <2>3, <2>4, <2>5, <2>6, <2>7, <2>8, <2>9, <2>10 DEF Execute, RunStep
<1>3. ASSUME Command PROVE QuietStep \/ PublishStep
  <2>1. ASSUME CancelRow \/ CancelDetached \/ PostRead PROVE QuietStep
    BY <2>1 DEF CancelRow, CancelDetached, PostRead, executorVars, QuietStep
  <2>2. ASSUME CancelAnswer \/ PostPublish PROVE PublishStep
    <3>1. {"run.cancelled", "run.cancel_requested", "update"} \subseteq EventTypes \ {"run.snapshot"}
      BY DEF EventTypes, TerminalEvents, TerminalStatuses, TerminalEvent
    <3> QED BY <2>2, <3>1 DEF CancelAnswer, PostPublish, executorVars, PublishStep
  <2> QED BY <1>3, <2>1, <2>2 DEF Command
<1>4. ASSUME Sweep \/ Shutdown \/ AllOver PROVE QuietStep
  BY <1>4 DEF Sweep, Shutdown, AllOver, vars, executorVars, QuietStep
<1>5. ASSUME Crash PROVE CloseStep
  BY <1>5 DEF Crash, CloseStep
<1>6. ASSUME NEW c \in Observers, Observation(c) PROVE ObserverStep(c)
  BY <1>6 DEF Observation, Observe, Fetch, LastFetch, Subscribe, Deliver, Await, StreamClosed,
              Disconnect, ObserverStep
<1> QED BY <1>1, <1>2, <1>3, <1>4, <1>5, <1>6 DEF Next, RunStep

-----------------------------------------------------------------------------
(* The inductive invariant *)

SubsShape(s) == s \in [Observers -> Subscribers] /\ \A c \in Observers : SubscriberShape(s[c])

\* Every queue keeps its bound when an event is broadcast.
LEMMA BroadcastShape ==
  ASSUME NEW s, SubsShape(s), NEW e \in Events
  PROVE  SubsShape(Broadcast(s, e))
<1>1. \A c \in Observers : SubscriberShape(IF s[c].member THEN Enqueue(s[c], e) ELSE s[c])
  BY EnqueueShape DEF SubsShape
<1> QED BY <1>1 DEF SubsShape, Broadcast, SubscriberShape

\* Every queue keeps its bound when the hub closes.
LEMMA ClosedSubsShape ==
  ASSUME NEW s, SubsShape(s)
  PROVE  SubsShape(Closed(s))
<1>1. \A c \in Observers :
        SubscriberShape(IF s[c].member THEN [s[c] EXCEPT !.closed = TRUE, !.member = FALSE] ELSE s[c])
  BY ClosedShape DEF SubsShape
<1> QED BY <1>1 DEF SubsShape, Closed, SubscriberShape

\* To publish, or to find the hub closed, keeps the hub and the queues in shape.
LEMMA PublishShape ==
  ASSUME NEW h \in Hubs, TailShape(h), NEW s, SubsShape(s), NEW type \in EventTypes,
         PublishAfter(h, s, type)
  PROVE  /\ hub' \in Hubs /\ TailShape(hub')
         /\ hub' = h \/ LiveIsNewest(hub')
         /\ h.nextSequence <= hub'.nextSequence /\ h.tail \subseteq hub'.tail
         /\ SubsShape(subs')
<1>1. h.nextSequence \in Nat
  BY DEF Hubs
<1>2. CASE registered
  <2>1. hub' = Commit(h, type) /\ subs' = Broadcast(s, NewEvent(h, type))
    BY <1>2 DEF PublishAfter
  <2>2. SubsShape(Broadcast(s, NewEvent(h, type)))
    BY NewEventType, BroadcastShape
  <2>3. /\ Commit(h, type) \in Hubs /\ TailShape(Commit(h, type)) /\ LiveIsNewest(Commit(h, type))
        /\ Commit(h, type).nextSequence = h.nextSequence + 1
        /\ h.tail \subseteq Commit(h, type).tail
    BY CommitShape
  <2> HIDE DEF Hubs
  <2> QED BY <1>1, <2>1, <2>2, <2>3
<1>3. CASE ~registered
  BY <1>1, <1>3 DEF PublishAfter
<1> QED BY <1>2, <1>3

\* The record of the run after any step.
LEMMA HubSteps ==
  ASSUME IInv, [Next]_vars
  PROVE  HubInv' /\ HeldInv'
<1>0. /\ hub \in Hubs /\ TailShape(hub) /\ SubsShape(subs)
      /\ hub.nextSequence \in Nat /\ hub.live \in Snapshots /\ hub.live.seq \in Nat
      /\ held \in [event : Events, before : Snapshots] /\ row \in Snapshots
  BY DEF IInv, HubInv, SubsInv, SubsShape, Hubs, HeldInv, RestType, Snapshots
<1>1. RunStep \/ \E c \in Observers : ObserverStep(c)
  BY StepKinds DEF IInv
<1>2. CASE \E c \in Observers : ObserverStep(c)
  BY <1>0, <1>2 DEF IInv, HubInv, HeldInv, HeldBack, ObserverStep, executorVars, FlushPoints
<1>3. CASE QuietStep \/ CloseStep
  BY <1>0, <1>3 DEF IInv, HubInv, HeldInv, QuietStep, CloseStep, Onward, FlushPoints
<1>4. CASE PublishStep
  <2>1. PICK type \in EventTypes : PublishAfter(hub, subs, type)
    BY <1>4 DEF PublishStep, Publish
  <2>2. /\ hub' \in Hubs /\ TailShape(hub')
        /\ hub' = hub \/ LiveIsNewest(hub')
        /\ hub.nextSequence <= hub'.nextSequence /\ hub.tail \subseteq hub'.tail
    BY <1>0, <2>1, PublishShape
  <2>3. held.before.seq \in Nat /\ hub'.nextSequence \in Nat
    BY <1>0, <2>2 DEF Hubs, Snapshots
  <2> QED BY <1>0, <1>4, <2>2, <2>3 DEF IInv, HubInv, HeldInv, PublishStep, Onward, FlushPoints
<1>5. CASE HoldStep
  <2>1. PICK type \in EventTypes : Hold(type)
    BY <1>5 DEF HoldStep, EventTypes
  <2>2. hub' = Commit(hub, type) /\ held' = [event |-> NewEvent(hub, type), before |-> hub.live]
        /\ LiveIsNewest(hub)
    BY <1>5, <2>1 DEF Hold, HoldStep, IInv, HubInv, Finishing
  <2>3. /\ Commit(hub, type) \in Hubs /\ TailShape(Commit(hub, type))
        /\ LiveIsNewest(Commit(hub, type)) /\ NewEvent(hub, type) \in Commit(hub, type).tail
        /\ NewEvent(hub, type) \in Events /\ NewEvent(hub, type).seq = hub.nextSequence
    BY <1>0, CommitShape, NewEventType
  <2>4. hub.live.seq = hub.nextSequence - 1
    BY <2>2 DEF LiveIsNewest
  <2> QED BY <1>0, <1>5, <2>2, <2>3, <2>4 DEF HubInv, HeldInv, HoldStep, FlushPoints
<1>6. CASE CaptureStep
  <2>1. LiveIsNewest(hub) /\ held' = [event |-> held.event, before |-> hub.live]
    BY <1>0, <1>6 DEF CaptureStep, IInv, HubInv, Finishing
  <2>2. hub.live.seq = hub.nextSequence - 1
    BY <2>1 DEF LiveIsNewest
  <2> QED BY <1>0, <1>6, <2>1, <2>2 DEF HubInv, HeldInv, HeldBack, CaptureStep
<1>7. CASE FlushStep
  <2>1. held.before.seq < hub.nextSequence /\ LiveIsNewest(hub)
    BY <1>7 DEF FlushStep, IInv, HubInv, HeldInv, Finishing
  <2>2. hub' \in Hubs /\ TailShape(hub') /\ LiveIsNewest(hub')
    BY <1>0, <1>7, <2>1, CheckpointShape DEF FlushStep
  <2> QED BY <1>0, <1>7, <2>2 DEF HubInv, HeldInv, HeldBack, FlushStep
<1>8. CASE RollbackStep
  <2>1. held.event \in hub.tail /\ held.before.seq = held.event.seq - 1 /\ LiveIsNewest(hub)
        /\ hub.durable < held.event.seq
    BY <1>0, <1>8 DEF RollbackStep, IInv, HubInv, HeldInv, HeldBack, Finishing, TailShape
  <2>2. hub' \in Hubs /\ TailShape(hub') /\ LiveIsNewest(hub')
    BY <1>0, <1>8, <2>1, RollbackShape DEF RollbackStep
  <2> QED BY <1>0, <1>8, <2>2 DEF HubInv, HeldInv, RollbackStep, FlushPoints
<1>9. CASE PublishHeldStep
  <2> DEFINE h == CheckpointCommitted(hub, hub.live)
  <2>1. LiveIsNewest(hub) /\ hub.live.seq < hub.nextSequence /\ held.event \in Events
    BY <1>0, <1>9 DEF PublishHeldStep, IInv, HubInv, Finishing, LiveIsNewest
  <2>2. h \in Hubs /\ TailShape(h) /\ LiveIsNewest(h)
    BY <1>0, <2>1, CheckpointShape
  <2>3. SubsShape(Broadcast(subs, held.event))
    BY <1>0, <2>1, BroadcastShape
  <2>4. PublishAfter(h, Broadcast(subs, held.event), "update") /\ "update" \in EventTypes
    BY <1>9 DEF PublishHeldStep, PublishHeld, EventTypes
  <2> HIDE DEF h
  <2>5. hub' \in Hubs /\ TailShape(hub') /\ LiveIsNewest(hub')
    BY <2>2, <2>3, <2>4, PublishShape
  <2> QED BY <1>0, <1>9, <2>5 DEF HubInv, HeldInv, PublishHeldStep, FlushPoints
<1>10. CASE LostStartStep
  <2>1. hub' = [nextSequence |-> hub.nextSequence, liveSequence |-> row.seq, live |-> row,
                durable |-> hub.durable, tail |-> hub.tail]
    BY <1>0, <1>10 DEF LostStartStep, UpdateSnapshot, Hubs
  <2>2. row.status \in TerminalStatuses /\ row.seq \in Nat
    BY <1>0, <1>10 DEF LostStartStep, IInv, StartInv, TerminalStatuses, Snapshots
  <2>3. hub' \in Hubs /\ hub'.live.status \in TerminalStatuses
    BY <1>0, <2>1, <2>2 DEF Hubs
  <2>4. TailShape(hub')
    BY <1>0, <2>1 DEF TailShape
  <2> QED BY <1>0, <1>10, <2>3, <2>4 DEF HubInv, HeldInv, HeldBack, LostStartStep, Finishing
<1> QED BY <1>1, <1>2, <1>3, <1>4, <1>5, <1>6, <1>7, <1>8, <1>9, <1>10 DEF RunStep

\* The subscribers after any step.
LEMMA SubsSteps ==
  ASSUME IInv, [Next]_vars
  PROVE  SubsInv'
<1>0. /\ hub \in Hubs /\ TailShape(hub) /\ SubsShape(subs) /\ held.event \in Events
      /\ LiveIsNewest(hub) \/ hub.live.status \in TerminalStatuses
      /\ client \in [Observers -> [mode : ClientModes, cursor : Nat \cup {NoCursor},
                                   told : RunStatuses, attempt : 0..MaxAttempts]]
  BY DEF IInv, HubInv, SubsInv, SubsShape, HeldInv, RestType
<1>1. SUFFICES SubsShape(subs)'
  BY DEF SubsShape, SubsInv
<1>2. RunStep \/ \E c \in Observers : ObserverStep(c)
  BY StepKinds DEF IInv
<1>3. ASSUME UNCHANGED subs PROVE SubsShape(subs)'
  BY <1>0, <1>3 DEF SubsShape
<1>4. CASE QuietStep \/ HoldStep \/ CaptureStep \/ FlushStep \/ RollbackStep \/ LostStartStep
  BY <1>3, <1>4 DEF QuietStep, HoldStep, CaptureStep, FlushStep, RollbackStep, LostStartStep
<1>5. CASE CloseStep
  BY <1>0, <1>5, ClosedSubsShape DEF CloseStep
<1>6. CASE PublishStep
  <2>1. PICK type \in EventTypes : PublishAfter(hub, subs, type)
    BY <1>6 DEF PublishStep, Publish
  <2> QED BY <1>0, <2>1, PublishShape
<1>7. CASE PublishHeldStep
  <2> DEFINE s == Broadcast(subs, held.event)
  <2>1. SubsShape(s)
    BY <1>0, BroadcastShape
  <2>2. subs' = s \/ \E e \in Events : subs' = Broadcast(s, e)
    <3>1. LiveIsNewest(hub) /\ hub.live.seq < hub.nextSequence /\ hub.live \in Snapshots
      BY <1>0, <1>7 DEF PublishHeldStep, IInv, HubInv, Finishing, LiveIsNewest, Hubs
    <3>2. CheckpointCommitted(hub, hub.live) \in Hubs
      BY <1>0, <3>1, CheckpointShape
    <3>3. NewEvent(CheckpointCommitted(hub, hub.live), "update") \in Events
      BY <3>2, NewEventType DEF EventTypes
    <3> QED BY <1>7, <3>3 DEF PublishHeldStep, PublishHeld, PublishAfter
  <2> HIDE DEF s
  <2> QED BY <2>1, <2>2, BroadcastShape
<1>8. ASSUME NEW c \in Observers, ObserverStep(c) PROVE SubsShape(subs)'
  <2>1. ASSUME NEW t, SubscriberShape(t), subs' = [subs EXCEPT ![c] = t] PROVE SubsShape(subs)'
    BY <1>0, <2>1 DEF SubsShape, SubscriberShape
  <2>2. client[c].cursor \in Nat \cup {NoCursor} /\ SubscriberShape(subs[c])
    BY <1>0 DEF SubsShape
  <2>3. SubscriberShape(Subscribed(hub, client[c].cursor))
    BY <1>0, <2>2, SubscribedShape
  <2>4. SubscriberShape(Dropped(subs[c])) /\ SubscriberShape(AfterNext(subs[c]))
    BY <2>2, DroppedShape, AfterNextShape
  <2>5. CASE Observe(c) \/ Fetch(c) \/ LastFetch(c)
    BY <1>3, <2>5 DEF Observe, Fetch, LastFetch
  <2>6. CASE Subscribe(c)
    BY <1>3, <2>1, <2>3, <2>6 DEF Subscribe
  <2>7. CASE Deliver(c) \/ StreamClosed(c) \/ Disconnect(c) \/ Await(c)
    <3>1. subs' = [subs EXCEPT ![c] = Dropped(subs[c])] \/ subs' = [subs EXCEPT ![c] = AfterNext(subs[c])]
      BY <2>7 DEF Deliver, StreamClosed, Disconnect, Await
    <3> QED BY <2>1, <2>4, <3>1
  <2> QED BY <1>8, <2>5, <2>6, <2>7 DEF ObserverStep, Observation
<1> QED BY <1>2, <1>4, <1>5, <1>6, <1>7, <1>8 DEF RunStep

Clients == [mode : ClientModes, cursor : Nat \cup {NoCursor}, told : RunStatuses,
            attempt : 0..MaxAttempts]

\* What a client makes of a snapshot, an event and a lost connection: it is never set back.
LEMMA ClientShape ==
  ASSUME NEW k \in Clients, NEW x, x.seq \in Nat, x.status \in RunStatuses
  PROVE  /\ AppliedSnapshot(k, x) \in Clients /\ AppliedSnapshot(k, x).cursor >= k.cursor
         /\ Retry(k) \in Clients /\ Retry(k).cursor = k.cursor
         /\ Applied(k, x) \in Clients /\ Applied(k, x).cursor >= k.cursor
         /\ Concluded(k, x.status) \in Clients /\ Concluded(k, x.status).cursor = k.cursor
<1>0. MaxAttempts \in Nat /\ k.cursor \in Nat \cup {NoCursor} /\ k.attempt \in 0..MaxAttempts
      /\ Position(k) \in Nat /\ Position(k) >= k.cursor /\ NoCursor \in Int
  BY ExecutionBounds DEF Clients, Position, NoCursor
<1> DEFINE t == [k EXCEPT !.cursor = x.seq, !.told = x.status]
<1>1. t \in Clients /\ t.cursor = x.seq
  BY DEF Clients
<1>2. {"fetch", "lastFetch", "done"} \subseteq ClientModes
  BY DEF ClientModes
<1>3. Retry(k) \in Clients /\ Retry(k).cursor = k.cursor
  <2>1. CASE k.attempt < MaxAttempts
    <3> DEFINE u == [k EXCEPT !.mode = "fetch", !.attempt = k.attempt + 1]
    <3>1. k.attempt + 1 \in 0..MaxAttempts
      BY <1>0, <2>1
    <3>2. u \in Clients /\ u.cursor = k.cursor
      BY <1>2, <3>1 DEF Clients
    <3>3. Retry(k) = u
      BY <2>1 DEF Retry
    <3> QED BY <3>2, <3>3, Zenon
  <2>2. CASE ~(k.attempt < MaxAttempts)
    BY <1>2, <2>2 DEF Retry, Clients
  <2> QED BY <2>1, <2>2
<1>4. Concluded(k, x.status) \in Clients /\ Concluded(k, x.status).cursor = k.cursor
  <2> DEFINE u == [k EXCEPT !.mode = "done", !.told = x.status]
  <2>1. u \in Clients /\ u.cursor = k.cursor
    BY <1>2 DEF Clients
  <2>2. Concluded(k, x.status) = IF x.status \in TerminalStatuses THEN u ELSE k
    BY DEF Concluded
  <2> HIDE DEF u
  <2> QED BY <2>1, <2>2
<1>5. x.seq >= Position(k) => x.seq >= k.cursor
  BY <1>0
<1>6. k.cursor >= k.cursor
  BY <1>0
<1>7. AppliedSnapshot(k, x) = k \/ (AppliedSnapshot(k, x) = t /\ x.seq >= Position(k))
  BY <1>0 DEF AppliedSnapshot
<1>8. Applied(k, x) = k \/ Applied(k, x) = AppliedSnapshot(k, x) \/ Applied(k, x) = Retry(k)
      \/ (Applied(k, x) = t /\ x.seq >= Position(k))
  BY <1>0 DEF Applied
<1> HIDE DEF t
<1>9. AppliedSnapshot(k, x) \in Clients /\ AppliedSnapshot(k, x).cursor >= k.cursor
  BY <1>1, <1>5, <1>6, <1>7
<1>10. Applied(k, x) \in Clients /\ Applied(k, x).cursor >= k.cursor
  BY <1>1, <1>3, <1>5, <1>6, <1>8, <1>9
<1> QED BY <1>3, <1>4, <1>9, <1>10

\* What one client makes of an observation; no client is set back.
LEMMA ClientSteps ==
  ASSUME IInv, NEW c \in Observers, Observation(c)
  PROVE  client' \in [Observers -> Clients]
         /\ \A d \in Observers : client'[d].cursor >= client[d].cursor
<1>0. /\ client \in [Observers -> Clients] /\ SubscriberShape(subs[c])
      /\ row \in Snapshots /\ hub.live \in Snapshots /\ MaxAttempts \in Nat \ {0}
      /\ \A d \in Observers : client[d].cursor \in Int
  BY ExecutionBounds DEF IInv, RestType, HubInv, Hubs, SubsInv, Clients, NoCursor
<1> DEFINE k == client[c]
<1>1. k \in Clients
  BY <1>0
<1>2. SUFFICES \E t \in Clients : client' = [client EXCEPT ![c] = t] /\ t.cursor >= k.cursor
  <2>1. PICK t \in Clients : client' = [client EXCEPT ![c] = t] /\ t.cursor >= k.cursor
    BY <1>2
  <2>2. client' \in [Observers -> Clients]
    BY <1>0, <2>1
  <2>3. \A d \in Observers : d # c => client'[d] = client[d]
    BY <1>0, <2>1
  <2>4. client'[c] = t
    BY <1>0, <2>1
  <2> QED BY <1>0, <2>1, <2>2, <2>3, <2>4
<1>3. k.cursor >= k.cursor
  BY <1>0
<1>4. \A x : x.seq \in Nat /\ x.status \in RunStatuses =>
        /\ AppliedSnapshot(k, x) \in Clients /\ AppliedSnapshot(k, x).cursor >= k.cursor
        /\ Applied(k, x) \in Clients /\ Applied(k, x).cursor >= k.cursor
  BY <1>1, ClientShape
<1>5. Retry(k) \in Clients /\ Retry(k).cursor = k.cursor
  <2>1. row.seq \in Nat /\ row.status \in RunStatuses
    BY <1>0 DEF Snapshots
  <2> QED BY <1>1, <2>1, ClientShape
<1>6. \A t \in Clients, status \in RunStatuses :
         Concluded(t, status) \in Clients /\ Concluded(t, status).cursor = t.cursor
  <2> TAKE t \in Clients, status \in RunStatuses
  <2> DEFINE x == [seq |-> 0, status |-> status]
  <2>1. x.seq \in Nat /\ x.status = status
    OBVIOUS
  <2> HIDE DEF x
  <2> QED BY <2>1, ClientShape
<1>7. \A t \in Clients, m \in ClientModes :
         [t EXCEPT !.mode = m] \in Clients /\ [t EXCEPT !.mode = m].cursor = t.cursor
  BY DEF Clients
<1>8. \A m \in {"off", "fetch", "subscribe", "streaming", "lastFetch", "done", "gaveUp"} : m \in ClientModes
  BY DEF ClientModes
<1>9. ServedSnapshot \in Snapshots
  BY <1>0 DEF ServedSnapshot
<1>10. ServedSnapshot.seq \in Nat /\ ServedSnapshot.status \in RunStatuses
  BY <1>9 DEF Snapshots
<1> HIDE DEF Clients
<1>11. CASE Observe(c)
  <2>1. PICK first \in {"fetch", "subscribe"} :
          client' = [client EXCEPT ![c].mode = first, ![c].attempt = 1]
    BY <1>11 DEF Observe
  <2> DEFINE t == [k EXCEPT !.mode = first, !.attempt = 1]
  <2>2. 1 \in 0..MaxAttempts /\ first \in ClientModes
    BY <1>0, <1>8
  <2>3. t \in Clients /\ t.cursor = k.cursor
    BY <1>1, <2>2 DEF Clients
  <2>4. client' = [client EXCEPT ![c] = t]
    BY <1>0, <2>1, Zenon
  <2> HIDE DEF t
  <2> QED BY <1>3, <2>3, <2>4
<1>12. CASE Fetch(c)
  <2> DEFINE a == AppliedSnapshot(k, ServedSnapshot)
             t == Concluded([a EXCEPT !.mode = "subscribe"], ServedSnapshot.status)
  <2>1. client' = [client EXCEPT ![c] = t]
    BY <1>12 DEF Fetch
  <2>2. a \in Clients /\ a.cursor >= k.cursor
    BY <1>4, <1>10
  <2> HIDE DEF a
  <2>3. t \in Clients /\ t.cursor = a.cursor
    <3>1. [a EXCEPT !.mode = "subscribe"] \in Clients /\ [a EXCEPT !.mode = "subscribe"].cursor = a.cursor
      BY <1>7, <1>8, <2>2
    <3> QED BY <1>6, <1>10, <3>1
  <2> HIDE DEF t
  <2> QED BY <2>1, <2>2, <2>3
<1>13. CASE LastFetch(c)
  <2> DEFINE a == AppliedSnapshot(k, ServedSnapshot)
             t == [a EXCEPT !.mode = "gaveUp"]
  <2>1. client' = [client EXCEPT ![c] = t]
    BY <1>13 DEF LastFetch
  <2>2. a \in Clients /\ a.cursor >= k.cursor
    BY <1>4, <1>10
  <2> HIDE DEF a
  <2>3. t \in Clients /\ t.cursor = a.cursor
    BY <1>7, <1>8, <2>2
  <2> HIDE DEF t
  <2> QED BY <2>1, <2>2, <2>3
<1>14. CASE Subscribe(c)
  <2>1. CASE registered
    <3> DEFINE t == [k EXCEPT !.mode = "streaming"]
    <3>1. client' = [client EXCEPT ![c] = t]
      BY <1>0, <1>14, <2>1 DEF Subscribe
    <3>2. t \in Clients /\ t.cursor = k.cursor
      BY <1>1, <1>7, <1>8
    <3> HIDE DEF t
    <3> QED BY <1>3, <3>1, <3>2
  <2>2. CASE ~registered
    <3> DEFINE a == Applied(k, SnapshotEvent(row))
               t == Concluded(Retry(a), row.status)
    <3>1. client' = [client EXCEPT ![c] = t]
      BY <1>14, <2>2 DEF Subscribe
    <3>2. SnapshotEvent(row).seq \in Nat /\ SnapshotEvent(row).status \in RunStatuses
          /\ row.status \in RunStatuses /\ row.seq \in Nat
      BY <1>0 DEF SnapshotEvent, Snapshots
    <3>3. a \in Clients /\ a.cursor >= k.cursor
      BY <1>4, <3>2
    <3> HIDE DEF a
    <3>4. Retry(a) \in Clients /\ Retry(a).cursor = a.cursor
      BY <3>2, <3>3, ClientShape
    <3>5. t \in Clients /\ t.cursor = a.cursor
      BY <1>6, <3>2, <3>4
    <3> HIDE DEF t
    <3> QED BY <3>1, <3>3, <3>5
  <2> QED BY <2>1, <2>2
<1>15. CASE Deliver(c)
  <2> DEFINE e == Head(Undelivered(subs[c]))
             a == Applied(k, e)
             t == IF a.mode = "streaming" /\ Announces(e) THEN Concluded(a, e.status) ELSE a
  <2>1. client' = [client EXCEPT ![c] = t]
    BY <1>15 DEF Deliver
  <2>2. e \in Events
    <3>1. Undelivered(subs[c]) \in Seq(Events) /\ Undelivered(subs[c]) # <<>>
      BY <1>0, <1>15, UndeliveredType DEF Deliver
    <3> QED BY <3>1, HeadTailProperties
  <2>3. e.seq \in Nat /\ e.status \in RunStatuses
    BY <2>2 DEF Events
  <2> HIDE DEF e
  <2>4. a \in Clients /\ a.cursor >= k.cursor
    BY <1>4, <2>3
  <2> HIDE DEF a
  <2>5. t \in Clients /\ t.cursor = a.cursor
    BY <1>6, <2>3, <2>4
  <2> HIDE DEF t
  <2> QED BY <2>1, <2>4, <2>5
<1>16. CASE StreamClosed(c) \/ Disconnect(c)
  <2>1. client' = [client EXCEPT ![c] = Retry(k)]
    BY <1>16 DEF StreamClosed, Disconnect
  <2> QED BY <1>3, <1>5, <2>1
<1>17. CASE Await(c)
  <2>1. client' = [client EXCEPT ![c] = k]
    BY <1>0, <1>17 DEF Await
  <2> QED BY <1>1, <1>3, <2>1
<1> QED BY <1>11, <1>12, <1>13, <1>14, <1>15, <1>16, <1>17 DEF Observation

\* The variables besides the hub and the queues have their types.
LEMMA ClientsAreClients ==
  RestType <=> /\ row \in Snapshots /\ registered \in BOOLEAN /\ pc \in ExecutorPoints
               /\ outcome \in {"failed", "cancelled"} /\ aborted \in {"no", "user", "shutdown"}
               /\ cancelling \in {"none", "cancelled", "cancel_requested", "detached"}
               /\ posting \in BOOLEAN /\ updates \in 0..MaxUpdates /\ met \subseteq Possible
               /\ client \in [Observers -> Clients]
BY DEF RestType, Clients

\* The row, the commands and the counters after any step.
LEMMA RestSteps ==
  ASSUME IInv, [Next]_vars
  PROVE  RestType' /\ StartInv'
<1>0. /\ row \in Snapshots /\ registered \in BOOLEAN /\ pc \in ExecutorPoints
      /\ outcome \in {"failed", "cancelled"} /\ aborted \in {"no", "user", "shutdown"}
      /\ cancelling \in {"none", "cancelled", "cancel_requested", "detached"}
      /\ posting \in BOOLEAN /\ updates \in 0..MaxUpdates /\ met \subseteq Possible
      /\ client \in [Observers -> Clients] /\ MaxUpdates \in Nat
      /\ held.event.seq \in Nat /\ held.before.seq \in Nat
  BY ExecutionBounds, ClientsAreClients DEF IInv, HeldInv, Events, Snapshots
<1>1. \A n \in Nat, status \in RunStatuses :
         /\ [status |-> status, seq |-> n] \in Snapshots
         /\ [row EXCEPT !.status = status] \in Snapshots /\ [row EXCEPT !.status = status].status = status
         /\ [row EXCEPT !.seq = n] \in Snapshots /\ [row EXCEPT !.seq = n].status = row.status
  BY <1>0 DEF Snapshots
<1>2. FailRow => row' \in Snapshots /\ row'.status \in {row.status, "failed"}
  <2>1. FailRow => row' = row \/ row' = [row EXCEPT !.status = "failed"]
    BY DEF FailRow
  <2>2. "failed" \in RunStatuses /\ row.seq \in Nat
    BY <1>0 DEF RunStatuses, TerminalStatuses, Snapshots
  <2>3. [row EXCEPT !.status = "failed"] \in Snapshots /\ [row EXCEPT !.status = "failed"].status = "failed"
    BY <1>1, <2>2
  <2> QED BY <1>0, <2>1, <2>3
<1>3. \A trouble : Strikes(trouble) => met' \subseteq Possible
  BY <1>0 DEF Strikes
<1>4. /\ DbError => met' \subseteq Possible
      /\ \A trouble : StrikesOnce(trouble) => met' \subseteq Possible
      /\ UNCHANGED met => met' \subseteq Possible
  BY <1>0, <1>3 DEF DbError, StrikesOnce
<1>5. updates < MaxUpdates => updates + 1 \in 0..MaxUpdates
  BY <1>0
<1>6. \A status : status \in {"completed", "failed", "cancelled"} => status \in RunStatuses
  BY DEF RunStatuses, TerminalStatuses
<1>7. StartInv
  BY DEF IInv
<1>8. RestType' <=>
        /\ row' \in Snapshots /\ registered' \in BOOLEAN /\ pc' \in ExecutorPoints
        /\ outcome' \in {"failed", "cancelled"} /\ aborted' \in {"no", "user", "shutdown"}
        /\ cancelling' \in {"none", "cancelled", "cancel_requested", "detached"}
        /\ posting' \in BOOLEAN /\ updates' \in 0..MaxUpdates /\ met' \subseteq Possible
        /\ client' \in [Observers -> Clients]
  BY DEF RestType, Clients
<1>9. \A p \in {"accepted", "latchFailed", "starting", "startLost", "started", "running", "boundary",
                "flushing", "flushed", "completing", "completed", "completeRefused", "followUp",
                "catching", "ending", "ended", "endRefused", "forcing", "releasing", "closed", "over"} :
        p \in ExecutorPoints
  BY DEF ExecutorPoints
<1>10. \A p : p \notin {"accepted", "starting", "startLost"} /\ pc' = p => StartInv'
  BY DEF StartInv
<1> HIDE DEF Snapshots, Clients
<1> USE DEF Goto, commandVars, counters
<1>11. CASE UNCHANGED vars
  BY <1>0, <1>7, <1>8, <1>11 DEF vars, executorVars, StartInv
<1>12. CASE LatchSnapshot \/ LatchFailure \/ LatchFailureForced
  <2>1. CASE LatchSnapshot
    BY <1>0, <1>7, <1>8, <1>9, <2>1 DEF LatchSnapshot, StartInv
  <2>2. CASE LatchFailure
    BY <1>0, <1>3, <1>8, <1>9, <1>10, <2>2 DEF LatchFailure
  <2>3. CASE LatchFailureForced
    <3>1. row' \in Snapshots /\ registered' \in BOOLEAN /\ met' \subseteq Possible
      BY <1>0, <1>2, <1>4, <2>3 DEF LatchFailureForced
    <3> QED BY <1>0, <1>8, <1>9, <1>10, <2>3, <3>1 DEF LatchFailureForced
  <2> QED BY <1>12, <2>1, <2>2, <2>3
<1>13. CASE StartWon \/ StartLost \/ StartLostSnapshot \/ Started
  <2>1. CASE StartWon
    BY <1>0, <1>1, <1>8, <1>9, <1>10, <2>1, ZenonT(40) DEF StartWon, RunStatuses, ActiveStatuses
  <2>2. CASE StartLost
    BY <1>0, <1>7, <1>8, <1>9, <2>2 DEF StartLost, StartInv
  <2>3. CASE StartLostSnapshot \/ Started
    BY <1>0, <1>8, <1>9, <1>10, <2>3 DEF StartLostSnapshot, Started
  <2> QED BY <1>13, <2>1, <2>2, <2>3
<1>14. CASE StreamEvent \/ Capture \/ Flush \/ Flushed \/ StreamEnds
  <2>1. CASE StreamEvent
    BY <1>0, <1>5, <1>8, <1>9, <1>10, <2>1 DEF StreamEvent
  <2>2. CASE Capture \/ Flushed \/ StreamEnds
    BY <1>0, <1>8, <1>9, <1>10, <2>2 DEF Capture, Flushed, StreamEnds
  <2>3. CASE Flush
    <3>1. pc' \in {"flushed", "running"}
          /\ (row' = row \/ row' = [row EXCEPT !.seq = held.before.seq])
      BY <2>3 DEF Flush
    <3>2. row.status \in RunStatuses
      BY <1>0 DEF Snapshots
    <3>3. row' \in Snapshots
      BY <1>0, <1>1, <3>1, <3>2
    <3> QED BY <1>0, <1>8, <1>9, <1>10, <2>3, <3>1, <3>3 DEF Flush
  <2> QED BY <1>14, <2>1, <2>2, <2>3
<1>15. CASE StreamThrows \/ CallThrows
  <2>1. pc' = "catching" /\ outcome' \in {"failed", "cancelled"}
    BY <1>15 DEF StreamThrows, CallThrows, Throw
  <2> QED BY <1>0, <1>4, <1>8, <1>9, <1>10, <1>15, <2>1 DEF StreamThrows, CallThrows
<1>16. CASE CompleteRow \/ EndRow
  <2>1. row' \in Snapshots
    <3>1. \/ row' = row \/ row' = [status |-> "completed", seq |-> held.event.seq]
          \/ row' = [status |-> outcome, seq |-> held.event.seq]
      BY <1>16 DEF CompleteRow, EndRow
    <3>2. {"completed", outcome} \subseteq RunStatuses
      BY <1>0, <1>6
    <3> QED BY <1>0, <3>1, <3>2 DEF Snapshots
  <2>2. pc' \in {"completed", "completeRefused", "ended", "endRefused"}
    BY <1>16 DEF CompleteRow, EndRow
  <2> QED BY <1>0, <1>8, <1>9, <1>10, <1>16, <2>1, <2>2 DEF CompleteRow, EndRow
<1>17. CASE Completed \/ CompleteRefused
  BY <1>0, <1>8, <1>9, <1>10, <1>17 DEF Completed, CompleteRefused, Throw
<1>18. CASE FollowUp
  <2>1. pc' \in {"releasing", "catching"} /\ outcome' \in {"failed", "cancelled"}
    BY <1>0, <1>18 DEF FollowUp, Throw
  <2>2. updates' \in 0..MaxUpdates /\ met' \subseteq Possible
    BY <1>0, <1>3, <1>5, <1>18 DEF FollowUp
  <2> QED BY <1>0, <1>8, <1>9, <1>10, <1>18, <2>1, <2>2 DEF FollowUp
<1>19. CASE HoldEnd \/ Ended \/ EndRefused
  BY <1>0, <1>4, <1>8, <1>9, <1>10, <1>19 DEF HoldEnd, Ended, EndRefused
<1>20. CASE ForceFail \/ CloseStreams \/ Unregister
  BY <1>0, <1>2, <1>4, <1>8, <1>9, <1>10, <1>20 DEF ForceFail, CloseStreams, Unregister
<1>21. CASE CancelRow
  <2> DEFINE status == CASE row.status = "queued" -> "cancelled"
                         [] row.status = "running" -> "cancel_requested" [] OTHER -> row.status
  <2>1. row' = [row EXCEPT !.status = status] /\ row.status \in RunStatuses
        /\ row.status \notin {"completed", "failed"}
    BY <1>0, <1>21 DEF CancelRow, Snapshots
  <2>2. status \in RunStatuses /\ status \in {"cancelled", "cancel_requested"}
        /\ (row.status \in {"queued", "failed", "cancelled"} => status = "cancelled")
    BY <2>1 DEF RunStatuses, ActiveStatuses, TerminalStatuses
  <2> HIDE DEF status
  <2>3. row' \in Snapshots /\ row'.status = status
    BY <1>1, <2>1, <2>2
  <2>4. cancelling' \in {"none", "cancelled", "cancel_requested", "detached"}
    BY <1>21, <2>2, <2>3 DEF CancelRow
  <2>5. RestType'
    BY <1>0, <1>4, <1>8, <1>21, <2>3, <2>4 DEF CancelRow, executorVars
  <2>6. StartInv'
    BY <1>7, <1>21, <2>2, <2>3 DEF CancelRow, executorVars, StartInv
  <2> QED BY <2>5, <2>6
<1>22. CASE CancelAnswer \/ PostRead \/ PostPublish
  BY <1>0, <1>3, <1>5, <1>7, <1>8, <1>22 DEF CancelAnswer, PostRead, PostPublish, executorVars, StartInv
<1>23. CASE CancelDetached
  <2>1. row' \in Snapshots /\ (row'.status = row.status \/ row'.status = "cancelled")
    BY <1>0, <1>1, <1>6, <1>23 DEF CancelDetached
  <2> QED BY <1>0, <1>7, <1>8, <1>23, <2>1 DEF CancelDetached, executorVars, StartInv
<1>24. CASE Sweep
  <2>1. row' \in Snapshots /\ row'.status \in {row.status, "failed"} /\ met' \subseteq Possible
    BY <1>2, <1>3, <1>4, <1>24 DEF Sweep
  <2> QED BY <1>0, <1>7, <1>8, <1>24, <2>1 DEF Sweep, executorVars, StartInv
<1>25. CASE Shutdown \/ Crash
  <2>1. met' \subseteq Possible
    BY <1>3, <1>25 DEF Shutdown, Crash
  <2> QED BY <1>0, <1>7, <1>8, <1>9, <1>25, <2>1 DEF Shutdown, Crash, executorVars, StartInv
<1>26. CASE \E c \in Observers : Observation(c)
  <2>1. PICK c \in Observers : Observation(c)
    BY <1>26
  <2>2. UNCHANGED <<row, hub, registered, executorVars, commandVars, counters>>
    BY <2>1 DEF Observation, Observe, Fetch, LastFetch, Subscribe, Deliver, Await, StreamClosed, Disconnect
  <2>3. client' \in [Observers -> Clients]
    BY <2>1, ClientSteps
  <2> QED BY <1>0, <1>7, <1>8, <2>2, <2>3 DEF executorVars, StartInv
<1>27. CASE AllOver
  BY <1>11, <1>27 DEF AllOver
<1> QED BY <1>11, <1>12, <1>13, <1>14, <1>15, <1>16, <1>17, <1>18, <1>19, <1>20, <1>21, <1>22,
           <1>23, <1>24, <1>25, <1>26, <1>27 DEF Next, Execute, Command

\* A run that is created meets the invariant.
LEMMA InvariantAtFirst == Init => IInv
<1> SUFFICES ASSUME Init PROVE IInv
  OBVIOUS
<1> USE DEF Init
<1>0. MaxUpdates \in Nat /\ MaxAttempts \in Nat \ {0} /\ MaxQueue \in Nat \ {0}
  BY ExecutionBounds, MaxQueueIsPositive
<1>1. "queued" \in RunStatuses /\ [status |-> "queued", seq |-> 0] \in Snapshots
  BY DEF RunStatuses, ActiveStatuses, Snapshots
<1>2. RestType
  <2>1. client \in [Observers -> Clients]
    BY <1>0, <1>1 DEF Clients, ClientModes
  <2>2. updates \in 0..MaxUpdates /\ met \subseteq Possible
    BY <1>0
  <2>3. posting \in BOOLEAN /\ registered \in BOOLEAN
    BY Zenon
  <2> QED BY <1>1, <2>1, <2>2, <2>3, ClientsAreClients DEF ExecutorPoints
<1>3. StartInv
  BY DEF StartInv
<1>4. hub = [nextSequence |-> 1, liveSequence |-> 0, live |-> [status |-> "queued", seq |-> 0],
             durable |-> 0, tail |-> {}]
  BY DEF Registered
<1>5. HubInv
  BY <1>1, <1>4 DEF HubInv, Hubs, TailShape, LiveIsNewest
<1>6. HeldInv
  BY <1>1 DEF HeldInv, HeldBack, NothingHeld, Events, EventTypes
<1>7. NoSubscriber \in Subscribers /\ SubscriberShape(NoSubscriber)
  BY <1>0, EmptySeq DEF NoSubscriber, Subscribers, SubscriberShape
<1>8. SubsInv
  BY <1>7 DEF SubsInv
<1> QED BY <1>2, <1>3, <1>5, <1>6, <1>8 DEF IInv

\* The inductive invariant: what the record, the subscribers, the held event and the row keep
\* to through every interleaving of the executor, the commands, the sweep and the clients.
THEOREM RunKeepsItsShape == Spec => []IInv
<1>1. IInv /\ [Next]_vars => IInv'
  BY HubSteps, SubsSteps, RestSteps DEF IInv
<1> QED BY InvariantAtFirst, <1>1, PTL DEF Spec

\* Type correctness of the execution of a run: the queue of a subscriber never holds more than
\* MAX_SUBSCRIBER_QUEUE events, and a resolved next() hands over one event at most.
THEOREM ExecutionTypes == Spec => []TypeOK
<1>1. IInv => TypeOK
  BY DEF IInv, RestType, HubInv, Hubs, HeldInv, SubsInv, SubscriberShape, TypeOK
<1> QED BY <1>1, RunKeepsItsShape, PTL

\* The tail holds every event after the durable mark, once.
THEOREM TailIsContiguous == Spec => []TailContinuesDurable
<1>1. ASSUME IInv PROVE TailContinuesDurable
  <2> DEFINE E == hub.tail
             a == hub.durable
             b == hub.nextSequence - 1
  <2>1. a \in Nat /\ b \in Nat /\ a <= b /\ E \in SUBSET Events /\ TailShape(hub)
        /\ hub.nextSequence \in Nat /\ \A e \in E : e.seq \in Nat
    BY <1>1 DEF IInv, HubInv, Hubs, TailShape, Events
  <2>2. \A e \in E : a < e.seq /\ e.seq <= b
    BY <2>1 DEF TailShape
  <2>3. (\A n \in a + 1 .. b : \E e \in E : e.seq = n) /\ (\A d, e \in E : d.seq = e.seq => d = e)
    BY <2>1 DEF TailShape
  <2>4. Seqs(E) = a + 1 .. b
    BY <2>1, <2>2, <2>3 DEF Seqs
  <2>5. IsFiniteSet(E) /\ Cardinality(E) = b - a
    <3> HIDE DEF E, a, b
    <3> QED BY <2>1, <2>2, <2>3, ByNumberIsSorted
  <2>6. Cardinality(a + 1 .. b) = b - a
    <3>1. a + 1 \in Int /\ b \in Int /\ (a + 1 > b => 0 = b - a) /\ b - (a + 1) + 1 = b - a
      BY <2>1
    <3> HIDE DEF a, b
    <3>2. Cardinality(a + 1 .. b) = IF a + 1 > b THEN 0 ELSE b - (a + 1) + 1
      BY <3>1, FS_Interval
    <3> QED BY <3>1, <3>2
  <2> QED BY <2>4, <2>5, <2>6 DEF TailContinuesDurable
<1> QED BY <1>1, RunKeepsItsShape, PTL

\* No step sets back what a client has been told.
THEOREM ClientsOnlyAdvance == Spec => ClientNeverGoesBack
<1> DEFINE Advance == \A c \in Observers : client'[c].cursor >= client[c].cursor
<1>1. ASSUME IInv, [Next]_vars PROVE Advance
  <2>1. \A c \in Observers : client[c].cursor \in Int
    BY <1>1 DEF IInv, RestType, NoCursor
  <2>2. CASE \E c \in Observers : ObserverStep(c)
    BY <1>1, <2>2, ClientSteps DEF ObserverStep
  <2>3. CASE RunStep
    <3>1. UNCHANGED client
      BY <2>3 DEF RunStep, QuietStep, PublishStep, HoldStep, CaptureStep, FlushStep, RollbackStep,
                  PublishHeldStep, LostStartStep, CloseStep
    <3> QED BY <2>1, <3>1
  <2> QED BY <1>1, <2>2, <2>3, StepKinds DEF IInv
<1>2. IInv /\ [Next]_vars => [Advance]_vars
  BY <1>1
<1> QED BY <1>2, RunKeepsItsShape, PTL DEF Spec, ClientNeverGoesBack

-----------------------------------------------------------------------------
(* What an open stream hands over *)

\* A client at the given position that is handed the given events misses no event of the set.
Covers(position, waiting, events) ==
  \A e \in events :
    \/ e.seq <= position
    \/ e.type \in TerminalEvents
    \/ \E i \in DOMAIN waiting :
         waiting[i] = e \/ (waiting[i].type = "run.snapshot" /\ waiting[i].seq >= e.seq)

Open(c) == client[c].mode = "streaming" /\ ~subs[c].closed

\* An open stream belongs to a subscriber that broadcast() reaches.
StreamInv ==
  \A c \in Observers :
    Open(c) => /\ subs[c].member
               /\ Covers(Position(client[c]), Undelivered(subs[c]), hub.tail)

\* An event that is broadcast is covered by every stream that stays open.
LEMMA BroadcastCovers ==
  ASSUME NEW s, SubsShape(s), NEW x \in Events, NEW c \in Observers, NEW position,
         NEW events, s[c].member, ~Broadcast(s, x)[c].closed,
         Covers(position, Undelivered(s[c]), events)
  PROVE  /\ ~s[c].closed /\ Broadcast(s, x)[c].member
         /\ Undelivered(Broadcast(s, x)[c]) = Append(Undelivered(s[c]), x)
         /\ Covers(position, Undelivered(Broadcast(s, x)[c]), events \cup {x})
<1> DEFINE q == Undelivered(s[c])
           p == Append(q, x)
<1>1. Broadcast(s, x)[c] = Enqueue(s[c], x) /\ SubscriberShape(s[c])
  BY DEF Broadcast, SubsShape
<1>2. Broadcast(s, x)[c].member /\ ~s[c].closed /\ Undelivered(Broadcast(s, x)[c]) = p
  BY <1>1, EnqueueShape
<1>3. q \in Seq(Events)
  BY <1>1, UndeliveredType
<1> HIDE DEF q
<1>4. /\ Len(q) \in Nat /\ DOMAIN q = 1..Len(q) /\ DOMAIN p = 1..Len(q) + 1
      /\ \A i \in DOMAIN q : i \in DOMAIN p /\ p[i] = q[i]
      /\ Len(q) + 1 \in DOMAIN p /\ p[Len(q) + 1] = x
  BY <1>3, AppendProperties
<1> HIDE DEF p
<1>5. Covers(position, q, events)
  BY DEF q
<1>6. Covers(position, p, events \cup {x})
  BY <1>4, <1>5 DEF Covers
<1> QED BY <1>2, <1>6 DEF p, q

\* Taking the head off, a client that stays in the stream has it behind itself.
LEMMA DeliveryCovers ==
  ASSUME NEW k \in Clients, NEW q \in Seq(Events), q # <<>>, NEW events \in SUBSET Events,
         Covers(Position(k), q, events), Applied(k, Head(q)).mode = "streaming"
  PROVE  Covers(Position(Applied(k, Head(q))), Tail(q), events)
<1> DEFINE x == Head(q)
           a == Applied(k, x)
<1>0. /\ x \in Events /\ x = q[1] /\ x.seq \in Nat /\ Position(k) \in Nat
      /\ \A e \in events : e.seq \in Nat
      /\ k.cursor \in Nat \cup {NoCursor}
  <2>1. x \in Events /\ x = q[1]
    BY HeadTailProperties
  <2>2. k.cursor \in Nat \cup {NoCursor}
    BY DEF Clients
  <2>3. Position(k) \in Nat
    BY <2>2 DEF Position
  <2> HIDE DEF x
  <2>4. x.seq \in Nat /\ \A e \in events : e.seq \in Nat
    BY <2>1 DEF Events
  <2> QED BY <2>1, <2>2, <2>3, <2>4
<1>1. \A i \in DOMAIN q : i = 1 \/ (i - 1 \in DOMAIN Tail(q) /\ Tail(q)[i - 1] = q[i])
  OBVIOUS
<1>2. x.seq <= Position(a) /\ Position(k) <= Position(a) /\ Position(a) \in Nat
  <2>1. \A t : t.cursor = x.seq => Position(t) = x.seq
    BY <1>0 DEF Position, NoCursor
  <2>2. CASE x.seq <= Position(k)
    BY <1>0, <2>2 DEF Applied
  <2>3. CASE x.seq > Position(k) /\ x.type = "run.snapshot"
    <3>1. a = [k EXCEPT !.cursor = x.seq, !.told = x.status]
      BY <1>0, <2>3 DEF Applied, AppliedSnapshot
    <3>2. a.cursor = x.seq
      BY <3>1 DEF Clients
    <3> QED BY <1>0, <2>1, <2>3, <3>2
  <2>4. CASE x.seq > Position(k) /\ x.type # "run.snapshot" /\ x.seq = Position(k) + 1
    <3>1. a = [k EXCEPT !.cursor = x.seq, !.told = x.status]
      BY <1>0, <2>4 DEF Applied
    <3>2. a.cursor = x.seq
      BY <3>1 DEF Clients
    <3> QED BY <1>0, <2>1, <2>4, <3>2
  <2>5. CASE x.seq > Position(k) /\ x.type # "run.snapshot" /\ x.seq # Position(k) + 1
    <3>1. a = Retry(k)
      BY <1>0, <2>5 DEF Applied
    <3>2. a.mode # "streaming"
      <4>1. CASE k.attempt < MaxAttempts
        <5>1. a = [k EXCEPT !.mode = "fetch", !.attempt = k.attempt + 1]
          BY <3>1, <4>1 DEF Retry
        <5> HIDE DEF a
        <5> QED BY <5>1 DEF Clients
      <4>2. CASE ~(k.attempt < MaxAttempts)
        <5>1. a = [k EXCEPT !.mode = "lastFetch"]
          BY <3>1, <4>2 DEF Retry
        <5> HIDE DEF a
        <5> QED BY <5>1 DEF Clients
      <4> QED BY <4>1, <4>2
    <3> QED BY <3>2
  <2> QED BY <1>0, <2>2, <2>3, <2>4, <2>5
<1> HIDE DEF x, a
<1>3. SUFFICES ASSUME NEW e \in events
      PROVE  \/ e.seq <= Position(a) \/ e.type \in TerminalEvents
             \/ \E i \in DOMAIN Tail(q) : \/ Tail(q)[i] = e
                                          \/ Tail(q)[i].type = "run.snapshot" /\ Tail(q)[i].seq >= e.seq
  BY DEF Covers, a, x
<1>4. CASE e.seq <= Position(k) \/ e.type \in TerminalEvents
  BY <1>0, <1>2, <1>4
<1>5. ASSUME NEW i \in DOMAIN q, q[i] = e \/ (q[i].type = "run.snapshot" /\ q[i].seq >= e.seq)
      PROVE  \/ e.seq <= Position(a)
             \/ \E j \in DOMAIN Tail(q) : \/ Tail(q)[j] = e
                                          \/ Tail(q)[j].type = "run.snapshot" /\ Tail(q)[j].seq >= e.seq
  <2>1. CASE i = 1
    BY <1>0, <1>2, <1>5, <2>1
  <2>2. CASE i # 1
    BY <1>1, <1>5, <2>2
  <2> QED BY <2>1, <2>2
<1> QED BY <1>4, <1>5 DEF Covers

\* A client that retries or concludes is not streaming.
LEMMA ModesOf ==
  ASSUME NEW k \in Clients
  PROVE  /\ Retry(k).mode # "streaming"
         /\ \A status : k.mode # "streaming" => Concluded(k, status).mode # "streaming"
         /\ \A m : [k EXCEPT !.mode = m].mode = m
<1>1. Retry(k).mode # "streaming"
  <2>1. CASE k.attempt < MaxAttempts
    <3> DEFINE t == [k EXCEPT !.mode = "fetch", !.attempt = k.attempt + 1]
    <3>1. t.mode = "fetch"
      BY DEF Clients
    <3>2. Retry(k) = t
      BY <2>1 DEF Retry
    <3> HIDE DEF t
    <3> QED BY <3>1, <3>2
  <2>2. CASE ~(k.attempt < MaxAttempts)
    BY <2>2 DEF Retry, Clients
  <2> QED BY <2>1, <2>2
<1>2. ASSUME NEW status, k.mode # "streaming" PROVE Concluded(k, status).mode # "streaming"
  <2> DEFINE t == [k EXCEPT !.mode = "done", !.told = status]
  <2>1. t.mode = "done"
    BY DEF Clients
  <2>2. Concluded(k, status) = t \/ Concluded(k, status) = k
    BY DEF Concluded
  <2> HIDE DEF t
  <2> QED BY <1>2, <2>1, <2>2
<1>3. \A m : [k EXCEPT !.mode = m].mode = m
  BY DEF Clients
<1> QED BY <1>1, <1>2, <1>3

\* A step of a client that does not leave it in the stream.
LEMMA NotStreaming ==
  ASSUME IInv, NEW c \in Observers,
         \/ Observe(c) \/ Fetch(c) \/ LastFetch(c) \/ StreamClosed(c) \/ Disconnect(c)
         \/ Subscribe(c) /\ ~registered
  PROVE  client'[c].mode # "streaming"
<1> DEFINE k == client[c]
<1>0. /\ client \in [Observers -> Clients] /\ k \in Clients
      /\ row \in Snapshots /\ hub.live \in Snapshots
  BY ClientsAreClients DEF IInv, HubInv, Hubs
<1>1. ServedSnapshot.seq \in Nat /\ ServedSnapshot.status \in RunStatuses
  BY <1>0 DEF ServedSnapshot, Snapshots
<1>2. SnapshotEvent(row).seq \in Nat /\ SnapshotEvent(row).status \in RunStatuses
  BY <1>0 DEF SnapshotEvent, Snapshots
<1>3. AppliedSnapshot(k, ServedSnapshot) \in Clients /\ Applied(k, SnapshotEvent(row)) \in Clients
  BY <1>0, <1>1, <1>2, ClientShape
<1>4. \A t \in Clients : Retry(t) \in Clients
  BY <1>2, ClientShape
<1>5. \A t \in Clients, m \in ClientModes : [t EXCEPT !.mode = m] \in Clients
  BY DEF Clients
<1>6. \A m \in {"subscribe", "gaveUp"} : m \in ClientModes
  BY DEF ClientModes
<1>7. CASE Observe(c)
  <2>1. PICK first \in {"fetch", "subscribe"} :
          client' = [client EXCEPT ![c].mode = first, ![c].attempt = 1]
    BY <1>7 DEF Observe
  <2> DEFINE t == [k EXCEPT !.mode = first, !.attempt = 1]
  <2>2. t.mode = first
    BY <1>0 DEF Clients
  <2>3. client'[c] = t
    BY <1>0, <2>1, Zenon
  <2> HIDE DEF t
  <2> QED BY <2>2, <2>3
<1> HIDE DEF k, Clients
<1>8. CASE Fetch(c)
  <2> DEFINE a == AppliedSnapshot(k, ServedSnapshot)
             b == [a EXCEPT !.mode = "subscribe"]
  <2>1. client'[c] = Concluded(b, ServedSnapshot.status)
    BY <1>0, <1>8 DEF Fetch, k
  <2> HIDE DEF a
  <2>2. b \in Clients /\ b.mode = "subscribe"
    BY <1>3, <1>5, <1>6, ModesOf DEF a
  <2> HIDE DEF b
  <2> QED BY <2>1, <2>2, ModesOf
<1>9. CASE LastFetch(c)
  <2> DEFINE a == AppliedSnapshot(k, ServedSnapshot)
  <2>1. client'[c] = [a EXCEPT !.mode = "gaveUp"]
    BY <1>0, <1>9 DEF LastFetch, k
  <2> HIDE DEF a
  <2> QED BY <1>3, <2>1, ModesOf DEF a
<1>10. CASE StreamClosed(c) \/ Disconnect(c)
  <2>1. client'[c] = Retry(k)
    BY <1>0, <1>10 DEF StreamClosed, Disconnect, k
  <2> QED BY <1>0, <2>1, ModesOf
<1>11. CASE Subscribe(c) /\ ~registered
  <2> DEFINE a == Applied(k, SnapshotEvent(row))
  <2>1. client'[c] = Concluded(Retry(a), row.status)
    BY <1>0, <1>11 DEF Subscribe, k
  <2> HIDE DEF a
  <2>2. Retry(a) \in Clients /\ Retry(a).mode # "streaming"
    BY <1>3, <1>4, ModesOf DEF a
  <2> QED BY <2>1, <2>2, ModesOf
<1> QED BY <1>7, <1>8, <1>9, <1>10, <1>11

\* No step makes an open stream miss an event.
LEMMA StreamSteps ==
  ASSUME IInv, StreamInv, [Next]_vars
  PROVE  StreamInv'
<1>0. /\ hub \in Hubs /\ TailShape(hub) /\ SubsShape(subs) /\ held.event \in Events
      /\ hub.tail \subseteq Events /\ client \in [Observers -> Clients]
      /\ LiveIsNewest(hub) \/ hub.live.status \in TerminalStatuses
  BY ClientsAreClients DEF IInv, HubInv, Hubs, SubsInv, SubsShape, HeldInv
<1>1. ASSUME NEW c \in Observers, NEW position, NEW q, NEW events,
             Covers(position, q, events), NEW fewer \in SUBSET events
      PROVE  Covers(position, q, fewer)
  BY <1>1 DEF Covers
<1>2. RunStep \/ \E c \in Observers : ObserverStep(c)
  BY StepKinds DEF IInv
<1>3. ASSUME UNCHANGED <<subs, client>>, hub'.tail \subseteq hub.tail
      PROVE  StreamInv'
  BY <1>1, <1>3 DEF StreamInv, Open
<1>4. CASE QuietStep \/ CaptureStep
  BY <1>3, <1>4 DEF QuietStep, CaptureStep
<1>5. CASE LostStartStep
  <2>1. hub'.tail = hub.tail
    BY <1>0, <1>5 DEF LostStartStep, UpdateSnapshot, Hubs
  <2> QED BY <1>3, <1>5, <2>1 DEF LostStartStep
<1>6. CASE FlushStep
  <2>1. hub'.tail \subseteq hub.tail
    BY <1>0, <1>6 DEF FlushStep, CheckpointCommitted, Hubs
  <2> QED BY <1>3, <1>6, <2>1 DEF FlushStep
<1>7. CASE RollbackStep
  <2>1. hub'.tail \subseteq hub.tail
    BY <1>0, <1>7 DEF RollbackStep, Rollback, Hubs
  <2> QED BY <1>3, <1>7, <2>1 DEF RollbackStep
<1>8. CASE HoldStep
  <2>1. PICK type \in TerminalEvents : hub' = Commit(hub, type)
    BY <1>8 DEF HoldStep, Hold
  <2>2. type \in EventTypes
    BY DEF EventTypes
  <2>3. hub'.tail = hub.tail \cup {NewEvent(hub, type)} /\ NewEvent(hub, type).type = type
    BY <1>0, <2>1, <2>2, CommitShape, NewEventType
  <2>4. \A position, q : Covers(position, q, hub.tail) => Covers(position, q, hub'.tail)
    BY <2>3 DEF Covers
  <2> QED BY <1>8, <2>4 DEF HoldStep, StreamInv, Open
<1>9. CASE CloseStep
  <2>1. ASSUME NEW c \in Observers PROVE ~Open(c)'
    <3>1. subs'[c] = IF subs[c].member THEN [subs[c] EXCEPT !.closed = TRUE, !.member = FALSE] ELSE subs[c]
      BY <1>9 DEF CloseStep, Closed
    <3>2. subs[c].member => subs'[c].closed
      BY <1>0, <3>1, ClosedShape DEF SubsShape
    <3> QED BY <1>9, <3>1, <3>2 DEF CloseStep, StreamInv, Open
  <2> QED BY <2>1 DEF StreamInv
<1>10. ASSUME NEW s, SubsShape(s), UNCHANGED client, NEW h \in Hubs, h.tail \subseteq hub.tail,
              NEW type \in EventTypes, PublishAfter(h, s, type), TailShape(h),
              \A c \in Observers :
                client[c].mode = "streaming" /\ ~s[c].closed =>
                  s[c].member /\ Covers(Position(client[c]), Undelivered(s[c]), hub.tail)
       PROVE  StreamInv'
  <2> DEFINE x == NewEvent(h, type)
  <2>1. x \in Events
    BY NewEventType
  <2>2. CASE ~registered
    BY <1>1, <1>10, <2>2 DEF PublishAfter, StreamInv, Open
  <2>3. CASE registered
    <3>1. subs' = Broadcast(s, x) /\ hub'.tail \subseteq hub.tail \cup {x}
      BY <1>10, <2>3, CommitShape DEF PublishAfter
    <3> HIDE DEF x
    <3>2. ASSUME NEW c \in Observers, Open(c)'
          PROVE  subs'[c].member /\ Covers(Position(client[c]), Undelivered(subs'[c]), hub'.tail)
      <4>1. client[c].mode = "streaming" /\ ~Broadcast(s, x)[c].closed
        BY <1>10, <3>1, <3>2 DEF Open
      <4>2. ~s[c].closed
        <5>1. SubscriberShape(s[c])
          BY <1>10 DEF SubsShape
        <5>2. Broadcast(s, x)[c] = s[c] \/ Broadcast(s, x)[c] = Enqueue(s[c], x)
          BY DEF Broadcast
        <5> QED BY <2>1, <4>1, <5>1, <5>2, EnqueueShape
      <4>3. s[c].member /\ Covers(Position(client[c]), Undelivered(s[c]), hub.tail)
        BY <1>10, <4>1, <4>2
      <4>4. Broadcast(s, x)[c].member
            /\ Covers(Position(client[c]), Undelivered(Broadcast(s, x)[c]), hub.tail \cup {x})
        BY <1>10, <2>1, <4>1, <4>3, BroadcastCovers
      <4> QED BY <1>1, <3>1, <4>4
    <3> QED BY <1>10, <3>2 DEF StreamInv
  <2> QED BY <2>2, <2>3
<1>11. CASE PublishStep
  <2>1. PICK type \in EventTypes : PublishAfter(hub, subs, type)
    BY <1>11 DEF PublishStep, Publish
  <2>2. \A c \in Observers :
          client[c].mode = "streaming" /\ ~subs[c].closed =>
            subs[c].member /\ Covers(Position(client[c]), Undelivered(subs[c]), hub.tail)
    BY DEF StreamInv, Open
  <2>3. UNCHANGED client
    BY <1>11 DEF PublishStep
  <2> QED BY <1>0, <1>10, <2>1, <2>2, <2>3
<1>12. CASE PublishHeldStep
  <2> DEFINE h == CheckpointCommitted(hub, hub.live)
             s == Broadcast(subs, held.event)
  <2>1. LiveIsNewest(hub) /\ hub.live.seq < hub.nextSequence /\ hub.live \in Snapshots
    BY <1>0, <1>12 DEF PublishHeldStep, IInv, HubInv, Finishing, LiveIsNewest, Hubs
  <2>2. h \in Hubs /\ TailShape(h) /\ h.tail \subseteq hub.tail
    BY <1>0, <2>1, CheckpointShape
  <2>3. SubsShape(s)
    BY <1>0, BroadcastShape
  <2>4. PublishAfter(h, s, "update") /\ UNCHANGED client
    BY <1>12 DEF PublishHeldStep, PublishHeld
  <2>5. ASSUME NEW c \in Observers, client[c].mode = "streaming", ~s[c].closed
        PROVE  s[c].member /\ Covers(Position(client[c]), Undelivered(s[c]), hub.tail)
    <3>1. ~subs[c].closed
      <4>1. SubscriberShape(subs[c])
        BY <1>0 DEF SubsShape
      <4>2. s[c] = subs[c] \/ s[c] = Enqueue(subs[c], held.event)
        BY DEF Broadcast
      <4> QED BY <1>0, <2>5, <4>1, <4>2, EnqueueShape
    <3>2. subs[c].member /\ Covers(Position(client[c]), Undelivered(subs[c]), hub.tail)
      BY <2>5, <3>1 DEF StreamInv, Open
    <3>3. s[c].member /\ Covers(Position(client[c]), Undelivered(s[c]), hub.tail \cup {held.event})
      BY <1>0, <2>5, <3>2, BroadcastCovers
    <3> QED BY <1>1, <3>3
  <2>6. "update" \in EventTypes
    BY DEF EventTypes
  <2> HIDE DEF h, s
  <2> QED BY <1>10, <2>2, <2>3, <2>4, <2>5, <2>6
<1>13. ASSUME NEW c \in Observers, ObserverStep(c) PROVE StreamInv'
  <2> DEFINE k == client[c]
  <2>1. UNCHANGED hub /\ Observation(c) /\ k \in Clients /\ SubscriberShape(subs[c])
    BY <1>0, <1>13 DEF ObserverStep, SubsShape
  <2>2. ASSUME NEW d \in Observers, d # c, Open(d)'
        PROVE  subs'[d].member /\ Covers(Position(client'[d]), Undelivered(subs'[d]), hub'.tail)
    <3>1. client'[d] = client[d]
      BY <1>0, <2>1, <2>2 DEF Observation, Observe, Fetch, LastFetch, Subscribe, Deliver, Await, StreamClosed, Disconnect
    <3>2. subs'[d] = subs[d]
      BY <1>0, <2>1, <2>2 DEF SubsShape, Observation, Observe, Fetch, LastFetch, Subscribe, Deliver, Await, StreamClosed, Disconnect
    <3> QED BY <2>1, <2>2, <3>1, <3>2 DEF StreamInv, Open
  <2>3. ASSUME Open(c)'
        PROVE  subs'[c].member /\ Covers(Position(client'[c]), Undelivered(subs'[c]), hub'.tail)
    <3>1. CASE Observe(c) \/ Fetch(c) \/ LastFetch(c) \/ StreamClosed(c) \/ Disconnect(c)
               \/ (Subscribe(c) /\ ~registered)
      BY <2>3, <3>1, NotStreaming DEF Open
    <3>2. CASE Subscribe(c) /\ registered
      <4> DEFINE t == Subscribed(hub, k.cursor)
                 q == Undelivered(t)
      <4>1. subs'[c] = t /\ client'[c] = [k EXCEPT !.mode = "streaming"]
        BY <1>0, <3>2 DEF Subscribe, SubsShape
      <4>2. k.cursor \in Nat \cup {NoCursor} /\ Position(client'[c]) = Position(k)
        BY <2>1, <4>1 DEF Clients, Position
      <4>3. ~t.closed
        BY <2>3, <4>1 DEF Open
      <4>4. /\ t.member /\ LiveIsNewest(hub)
            /\ \/ q = <<SnapshotEvent(hub.live)>>
               \/ k.cursor # NoCursor /\ q = TailAfter(hub, k.cursor)
        <5> HIDE DEF k
        <5> QED BY <1>0, <4>2, <4>3, SubscribedShape
      <4>5. Covers(Position(k), q, hub.tail)
        <5>1. CASE q = <<SnapshotEvent(hub.live)>>
          <6>1. 1 \in DOMAIN q /\ q[1].type = "run.snapshot" /\ q[1].seq = hub.live.seq
            BY <5>1 DEF SnapshotEvent
          <6>2. \A e \in hub.tail : hub.live.seq >= e.seq
            BY <1>0, <4>4 DEF LiveIsNewest, TailShape, Hubs, Events
          <6> HIDE DEF q
          <6> QED BY <6>1, <6>2 DEF Covers
        <5>2. CASE k.cursor # NoCursor /\ q = TailAfter(hub, k.cursor)
          <6>1. k.cursor \in Nat /\ Position(k) = k.cursor
            BY <4>2, <5>2 DEF Position
          <6>2. \A e \in hub.tail : e.seq > k.cursor => \E i \in DOMAIN q : q[i] = e
            <7> HIDE DEF k
            <7> QED BY <1>0, <5>2, <6>1, TailAfterIsSeq
          <6>3. \A e \in hub.tail : e.seq \in Nat
            BY <1>0 DEF Events
          <6> HIDE DEF q, k
          <6> QED BY <6>1, <6>2, <6>3 DEF Covers
        <5> QED BY <4>4, <5>1, <5>2
      <4> QED BY <2>1, <4>1, <4>2, <4>4, <4>5
    <3>3. CASE Deliver(c)
      <4> DEFINE q == Undelivered(subs[c])
                 a == Applied(k, Head(q))
      <4>1. q \in Seq(Events) /\ q # <<>> /\ Head(q) \in Events
        BY <2>1, <3>3, UndeliveredType, HeadTailProperties DEF Deliver
      <4>2. client'[c] = IF a.mode = "streaming" /\ Announces(Head(q))
                         THEN Concluded(a, Head(q).status) ELSE a
        BY <1>0, <3>3 DEF Deliver
      <4>3. subs'[c] = AfterNext(subs[c])
        BY <1>0, <2>3, <3>3 DEF Deliver, Open, SubsShape
      <4>4. a \in Clients
        <5>1. Head(q).seq \in Nat /\ Head(q).status \in RunStatuses
          BY <4>1 DEF Events
        <5> HIDE DEF q, k
        <5> QED BY <2>1, <5>1, ClientShape
      <4>5. client'[c].mode = "streaming"
        BY <2>3 DEF Open
      <4> HIDE DEF a
      <4>6. client'[c] = a
        <5>1. client'[c] = Concluded(a, Head(q).status) => client'[c] = a
          <6> DEFINE u == [a EXCEPT !.mode = "done", !.told = Head(q).status]
          <6>1. u.mode = "done"
            BY <4>4 DEF Clients
          <6>2. Concluded(a, Head(q).status) = u \/ Concluded(a, Head(q).status) = a
            BY DEF Concluded
          <6> HIDE DEF u, q
          <6> QED BY <4>5, <6>1, <6>2
        <5> HIDE DEF q
        <5> QED BY <4>2, <5>1
      <4>7. ~subs[c].closed /\ subs'[c].member = subs[c].member /\ Undelivered(subs'[c]) = Tail(q)
        BY <2>1, <2>3, <4>1, <4>3, AfterNextShape DEF Open
      <4>8. subs[c].member /\ Covers(Position(k), q, hub.tail)
        BY <3>3, <4>7 DEF StreamInv, Open, Deliver
      <4>9. Covers(Position(a), Tail(q), hub.tail)
        <5> HIDE DEF q, k
        <5> QED BY <1>0, <2>1, <4>1, <4>5, <4>6, <4>8, DeliveryCovers DEF a
      <4> QED BY <2>1, <4>6, <4>7, <4>8, <4>9
    <3>4. CASE Await(c)
      <4>1. subs'[c] = AfterNext(subs[c]) /\ client'[c] = client[c] /\ Undelivered(subs[c]) = <<>>
        BY <1>0, <3>4 DEF Await, SubsShape
      <4>2. ~subs[c].closed /\ subs'[c].member = subs[c].member /\ Undelivered(subs'[c]) = <<>>
        BY <2>1, <2>3, <4>1, AfterNextShape DEF Open
      <4> QED BY <2>1, <3>4, <4>1, <4>2 DEF StreamInv, Open, Await
    <3> QED BY <2>1, <3>1, <3>2, <3>3, <3>4 DEF Observation
  <2> QED BY <2>2, <2>3 DEF StreamInv
<1> QED BY <1>2, <1>4, <1>5, <1>6, <1>7, <1>8, <1>9, <1>11, <1>12, <1>13 DEF RunStep

\* An open stream will hand its client every event of the tail, whatever is published, held back
\* and taken back meanwhile, and however clients come, go and lag.
THEOREM OpenStreamsMissNothing == Spec => []OpenStreamMissesNothing
<1>1. Init => StreamInv
  BY DEF Init, StreamInv, Open, NoSubscriber
<1>2. IInv /\ StreamInv /\ [Next]_vars => StreamInv'
  BY StreamSteps
<1>3. StreamInv => OpenStreamMissesNothing
  BY DEF StreamInv, Open, Covers, OpenStreamMissesNothing
<1> QED BY <1>1, <1>2, <1>3, RunKeepsItsShape, PTL DEF Spec

-----------------------------------------------------------------------------
(* Order *)

Calm == Without({"cancel", "post"})

Increasing(q) == \A i, j \in DOMAIN q : i < j => q[i].seq < q[j].seq
Below(q, n) == \A i \in DOMAIN q : q[i].seq < n

\* The number the next event that is broadcast will have.
NextOut == IF HeldBack THEN held.event.seq ELSE hub.nextSequence

\* In a run that is neither cancelled nor posted to: no command publishes, a held event is the
\* newest one, and what waits for a client is in order and older than what will follow.
CalmInv ==
  /\ cancelling = "none" /\ ~posting
  /\ pc \in Unstarted => row.seq = 0 /\ hub.nextSequence = 1
  /\ LiveIsNewest(hub)
  /\ \A e \in hub.tail : e.seq = hub.live.seq => e.status = hub.live.status
  /\ HeldBack => /\ hub.live.seq = held.event.seq /\ hub.live.status \in TerminalStatuses
                 /\ \A e \in hub.tail : e.seq = held.before.seq => e.status = held.before.status
  /\ \A c \in Observers : /\ Increasing(Undelivered(subs[c]))
                          /\ ~subs[c].closed => Below(Undelivered(subs[c]), NextOut)

\* Troubles are remembered, and without them the commands stay out.
LEMMA CalmSteps ==
  ASSUME RestType, [Next]_vars, Calm'
  PROVE  /\ Calm
         /\ cancelling = "none" /\ ~posting => cancelling' = "none" /\ ~posting'
         /\ row'.seq = row.seq \/ pc' \notin Unstarted
<1>0. row \in Snapshots
  BY DEF RestType
<1> USE DEF Goto, counters, commandVars, executorVars
<1>1. \A trouble : Strikes(trouble) \/ StrikesOnce(trouble) => met' = met \cup {trouble}
  BY DEF Strikes, StrikesOnce
<1>2. DbError => met \subseteq met'
  BY <1>1 DEF DbError
<1>3. \A status : [row EXCEPT !.status = status].seq = row.seq
  BY <1>0 DEF Snapshots
<1>4. FailRow => row'.seq = row.seq
  <2>1. FailRow => row' = row \/ row' = [row EXCEPT !.status = "failed"]
    BY DEF FailRow
  <2> QED BY <1>3, <2>1
<1> DEFINE Fine == /\ met \subseteq met'
                   /\ cancelling = "none" /\ ~posting => cancelling' = "none" /\ ~posting'
                   /\ row'.seq = row.seq \/ pc' \notin Unstarted
<1>5. ASSUME UNCHANGED vars PROVE Fine
  BY <1>5 DEF vars
<1>6. ASSUME Execute PROVE Fine
  <2>1. CASE LatchSnapshot \/ StartLost \/ StartLostSnapshot \/ Started \/ StreamEvent \/ Capture
             \/ Flushed \/ StreamEnds \/ StreamThrows \/ Completed \/ CompleteRefused \/ HoldEnd
             \/ Ended \/ CloseStreams \/ Unregister
    BY <2>1 DEF LatchSnapshot, StartLost, StartLostSnapshot, Started, StreamEvent, Capture, Flushed,
                StreamEnds, StreamThrows, Completed, CompleteRefused, HoldEnd, Ended, CloseStreams,
                Unregister
  <2>2. CASE LatchFailure \/ LatchFailureForced \/ CallThrows \/ FollowUp \/ EndRefused \/ ForceFail
    BY <1>1, <1>2, <1>4, <2>2
       DEF LatchFailure, LatchFailureForced, CallThrows, FollowUp, EndRefused, ForceFail
  <2>3. CASE StartWon
    BY <1>3, <2>3 DEF StartWon
  <2>4. CASE Flush \/ CompleteRow \/ EndRow
    BY <2>4 DEF Flush, CompleteRow, EndRow, Unstarted
  <2> QED BY <1>6, <2>1, <2>2, <2>3, <2>4 DEF Execute
<1>7. CASE CancelRow \/ PostRead
  <2>1. ~Calm'
    BY <1>1, <1>7 DEF CancelRow, PostRead, Calm, Without
  <2> QED BY <2>1
<1>8. CASE CancelAnswer \/ CancelDetached \/ PostPublish
  <2>1. row'.seq = row.seq
    BY <1>3, <1>8 DEF CancelAnswer, CancelDetached, PostPublish
  <2> QED BY <1>8, <2>1 DEF CancelAnswer, CancelDetached, PostPublish, Calm, Without
<1>9. ASSUME Sweep \/ Shutdown \/ Crash PROVE Fine
  BY <1>1, <1>4, <1>9 DEF Sweep, Shutdown, Crash
<1>10. ASSUME NEW c \in Observers, Observation(c) PROVE Fine
  BY <1>10 DEF Observation, Observe, Fetch, LastFetch, Subscribe, Deliver, Await, StreamClosed, Disconnect
<1>11. Fine => Calm
  BY DEF Calm, Without
<1> QED BY <1>5, <1>6, <1>7, <1>8, <1>9, <1>10, <1>11 DEF Next, Command, AllOver, vars, Calm

\* A newer event at its end keeps a queue in order.
LEMMA AppendInOrder ==
  ASSUME NEW q \in Seq(Events), NEW x \in Events, Increasing(q), Below(q, x.seq)
  PROVE  Increasing(Append(q, x)) /\ \A n \in Nat : x.seq < n => Below(Append(q, x), n)
<1> DEFINE p == Append(q, x)
<1>1. /\ Len(q) \in Nat /\ DOMAIN q = 1..Len(q) /\ DOMAIN p = 1..Len(q) + 1
      /\ (\A i \in 1..Len(q) : p[i] = q[i]) /\ p[Len(q) + 1] = x
      /\ x.seq \in Nat /\ \A i \in 1..Len(q) : q[i].seq \in Nat
  <2>1. /\ Len(q) \in Nat /\ DOMAIN q = 1..Len(q) /\ DOMAIN p = 1..Len(q) + 1
        /\ (\A i \in 1..Len(q) : p[i] = q[i] /\ q[i] \in Events) /\ p[Len(q) + 1] = x
    BY AppendProperties
  <2> HIDE DEF p
  <2> QED BY <2>1 DEF Events
<1> HIDE DEF p
<1> QED BY <1>1 DEF Increasing, Below, p

\* A queue stays in order when its first event is taken.
LEMMA TailInOrder ==
  ASSUME NEW q \in Seq(Events), q # <<>>, Increasing(q)
  PROVE  Increasing(Tail(q)) /\ \A n \in Nat : Below(q, n) => Below(Tail(q), n)
<1> DEFINE p == Tail(q)
<1>1. /\ Len(q) \in Nat \ {0} /\ DOMAIN q = 1..Len(q) /\ DOMAIN p = 1..Len(q) - 1
      /\ (\A i \in 1..Len(q) - 1 : p[i] = q[i + 1])
  BY HeadTailProperties, EmptySeq
<1> HIDE DEF p
<1> QED BY <1>1 DEF Increasing, Below, p

\* A broadcast adds its event to a queue, or nothing.
LEMMA BroadcastQueues ==
  ASSUME NEW s, SubsShape(s), NEW x \in Events, NEW c \in Observers
  PROVE  LET t == Broadcast(s, x)[c]
         IN  \/ Undelivered(t) = Undelivered(s[c]) /\ (~t.closed => ~s[c].closed /\ ~s[c].member)
             \/ Undelivered(t) = Append(Undelivered(s[c]), x) /\ ~s[c].closed
<1> DEFINE t == Broadcast(s, x)[c]
           u == s[c]
<1>1. SubscriberShape(u)
  BY DEF SubsShape
<1>2. t = IF u.member THEN Enqueue(u, x) ELSE u
  BY DEF Broadcast
<1>3. Enqueue(u, x).closed => Undelivered(Enqueue(u, x)) = Undelivered(u)
  <2>1. u \in [member : BOOLEAN, closed : BOOLEAN, waiting : BOOLEAN,
               queue : Seq(Events), handed : Seq(Events)]
    BY <1>1, FieldsOf
  <2> HIDE DEF u
  <2>2. CASE u.closed
    BY <2>2 DEF Enqueue
  <2>3. CASE ~u.closed /\ u.waiting
    BY <2>1, <2>3 DEF Enqueue
  <2>4. CASE ~u.closed /\ ~u.waiting /\ Len(u.queue) >= MaxQueue
    <3> DEFINE v == [u EXCEPT !.closed = TRUE]
    <3>1. v.handed = u.handed /\ v.queue = u.queue
      BY <2>1
    <3>2. Enqueue(u, x) = v
      BY <2>4 DEF Enqueue
    <3> HIDE DEF v
    <3> QED BY <3>1, <3>2 DEF Undelivered
  <2>5. CASE ~u.closed /\ ~u.waiting /\ ~(Len(u.queue) >= MaxQueue)
    <3> DEFINE v == [u EXCEPT !.queue = Append(u.queue, x)]
    <3>1. v.closed = u.closed
      BY <2>1
    <3>2. Enqueue(u, x) = v
      BY <2>5 DEF Enqueue
    <3> HIDE DEF v
    <3> QED BY <2>5, <3>1, <3>2
  <2> QED BY <2>2, <2>3, <2>4, <2>5
<1> HIDE DEF t, u
<1>4. CASE u.member /\ ~Enqueue(u, x).closed
  <2>1. ~u.closed /\ Undelivered(t) = Append(Undelivered(u), x)
    BY <1>1, <1>2, <1>4, EnqueueShape
  <2> QED BY <2>1 DEF t, u
<1>5. CASE u.member /\ Enqueue(u, x).closed
  BY <1>2, <1>3, <1>5 DEF t, u
<1>6. CASE ~u.member
  BY <1>2, <1>6 DEF t, u
<1> QED BY <1>4, <1>5, <1>6

\* A broadcast of a number above those that wait keeps them in order.
LEMMA BroadcastInOrder ==
  ASSUME NEW s, SubsShape(s), NEW x \in Events, NEW c \in Observers,
         Increasing(Undelivered(s[c])), ~s[c].closed => Below(Undelivered(s[c]), x.seq)
  PROVE  LET t == Broadcast(s, x)[c]
         IN  /\ Increasing(Undelivered(t))
             /\ \A n \in Nat : x.seq < n /\ ~t.closed => Below(Undelivered(t), n)
<1> DEFINE t == Broadcast(s, x)[c]
           u == s[c]
<1>1. SubscriberShape(u) /\ x.seq \in Nat
  BY DEF SubsShape, Events
<1>2. Undelivered(u) \in Seq(Events)
  BY <1>1, UndeliveredType
<1>3. \A i \in DOMAIN Undelivered(u) : Undelivered(u)[i].seq \in Nat
  <2> DEFINE q == Undelivered(u)
  <2> HIDE DEF q
  <2>1. q \in Seq(Events)
    BY <1>2 DEF q
  <2>2. \A i \in DOMAIN q : q[i] \in Events
    BY <2>1
  <2> QED BY <2>2 DEF Events, q
<1>4. \/ Undelivered(t) = Undelivered(u) /\ (~t.closed => ~u.closed)
      \/ Undelivered(t) = Append(Undelivered(u), x) /\ ~u.closed
  BY BroadcastQueues
<1> HIDE DEF t, u
<1>5. CASE Undelivered(t) = Append(Undelivered(u), x) /\ ~u.closed
  BY <1>2, <1>5, AppendInOrder DEF t, u
<1>6. CASE Undelivered(t) = Undelivered(u) /\ (~t.closed => ~u.closed)
  BY <1>1, <1>3, <1>6 DEF Below, t, u
<1> QED BY <1>4, <1>5, <1>6

\* A new subscriber starts in order.
LEMMA SubscribedInOrder ==
  ASSUME NEW h \in Hubs, TailShape(h), NEW cursor \in Nat \cup {NoCursor}, LiveIsNewest(h)
  PROVE  LET t == Subscribed(h, cursor)
         IN  Increasing(Undelivered(t)) /\ (~t.closed => Below(Undelivered(t), h.nextSequence))
<1> DEFINE t == Subscribed(h, cursor)
           one == <<SnapshotEvent(h.live)>>
           many == TailAfter(h, cursor)
<1>0. /\ SubscriberShape(t) /\ one \in Seq(Events) /\ h.nextSequence \in Nat /\ h.live.seq < h.nextSequence
      /\ MaxQueue \in Nat \ {0}
  <2>1. SnapshotEvent(h.live) \in Events
    BY DEF SnapshotEvent, Events, EventTypes, Hubs, Snapshots
  <2>2. h.nextSequence \in Nat /\ h.live.seq < h.nextSequence
    BY DEF Hubs, LiveIsNewest
  <2> QED BY <2>1, <2>2, SubscribedShape, MaxQueueIsPositive
<1>1. Increasing(one) /\ Below(one, h.nextSequence)
  BY <1>0 DEF Increasing, Below, SnapshotEvent
<1>2. ASSUME NEW q \in Seq(Events), Increasing(q) PROVE Increasing(Undelivered(Preloaded(q)))
  <2>1. CASE Len(q) > MaxQueue
    <3> DEFINE p == SubSeq(q, 1, MaxQueue)
    <3>1. Undelivered(Preloaded(q)) = p
      <4>1. p \in Seq(Events)
        BY <1>0, <2>1, SubSeqProperties, ElementOfSeq
      <4>2. Preloaded(q).queue = p /\ Preloaded(q).handed = <<>>
        BY <2>1 DEF Preloaded
      <4> QED BY <4>1, <4>2, ConcatEmptySeq DEF Undelivered
    <3>2. DOMAIN p = 1..MaxQueue /\ \A i \in 1..MaxQueue : p[i] = q[i] /\ i \in DOMAIN q
      BY <1>0, <2>1, SubSeqProperties, ElementOfSeq
    <3> HIDE DEF p
    <3> QED BY <1>2, <3>1, <3>2 DEF Increasing
  <2>2. CASE ~(Len(q) > MaxQueue)
    <3>1. Preloaded(q).queue = q /\ Preloaded(q).handed = <<>>
      BY <2>2 DEF Preloaded
    <3> QED BY <1>2, <3>1, ConcatEmptySeq DEF Undelivered
  <2> QED BY <2>1, <2>2
<1>3. CASE h.live.status \in TerminalStatuses
  <2> DEFINE s == Preloaded(one)
  <2>1. t = [s EXCEPT !.closed = TRUE, !.member = FALSE] /\ SubscriberShape(s)
    BY <1>0, <1>3, PreloadedShape DEF Subscribed
  <2>2. Increasing(Undelivered(s))
    BY <1>0, <1>1, <1>2
  <2> HIDE DEF s, t
  <2>3. Undelivered(t) = Undelivered(s) /\ t.closed
    BY <2>1, ClosedShape
  <2> QED BY <2>2, <2>3 DEF t
<1>4. CASE h.live.status \notin TerminalStatuses /\ CanReplay(h, cursor)
  <2>1. cursor \in Nat /\ t = Preloaded(many)
    BY <1>4 DEF CanReplay, Subscribed
  <2>2. many \in Seq(Events) /\ Increasing(many) /\ \A i \in DOMAIN many : many[i] \in h.tail
    <3> HIDE DEF many
    <3> QED BY <2>1, TailAfterIsSeq DEF Increasing, many
  <2>3. Below(many, h.nextSequence)
    BY <2>2 DEF Below, TailShape
  <2> HIDE DEF many, t
  <2> QED BY <1>2, <2>1, <2>2, <2>3, PreloadedShape DEF t
<1>5. CASE h.live.status \notin TerminalStatuses /\ ~CanReplay(h, cursor)
  <2>1. t = Preloaded(one)
    BY <1>5 DEF Subscribed
  <2> HIDE DEF one, t
  <2> QED BY <1>0, <1>1, <1>2, <2>1, PreloadedShape DEF t
<1> QED BY <1>3, <1>4, <1>5

\* The live snapshot, the held event and the subscribers of a calm run, as CalmInv has them.
CalmHub ==
  /\ LiveIsNewest(hub)
  /\ \A e \in hub.tail : e.seq = hub.live.seq => e.status = hub.live.status
  /\ HeldBack => /\ hub.live.seq = held.event.seq /\ hub.live.status \in TerminalStatuses
                 /\ \A e \in hub.tail : e.seq = held.before.seq => e.status = held.before.status
CalmSubs ==
  \A c \in Observers : /\ Increasing(Undelivered(subs[c]))
                       /\ ~subs[c].closed => Below(Undelivered(subs[c]), NextOut)

\* The event commit() adds carries the status of the snapshot it leaves.
LEMMA CommitYields ==
  ASSUME NEW h \in Hubs, TailShape(h), NEW type \in EventTypes
  PROVE  /\ Commit(h, type).live.seq = h.nextSequence
         /\ Commit(h, type).live.status = NewEvent(h, type).status
         /\ \A e \in Commit(h, type).tail :
              e.seq = Commit(h, type).live.seq => e.status = Commit(h, type).live.status
         /\ \A e \in Commit(h, type).tail : e.seq < h.nextSequence => e \in h.tail
         /\ type \in TerminalEvents => NewEvent(h, type).status \in TerminalStatuses
<1> DEFINE x == NewEvent(h, type)
           g == Commit(h, type)
<1>1. x.seq = h.nextSequence /\ h.nextSequence \in Nat
  BY NewEventType DEF Hubs
<1>2. g.live = [status |-> x.status, seq |-> x.seq] /\ g.tail = h.tail \cup {x}
  BY CommitShape DEF Commit, Hubs
<1>3. \A e \in h.tail : e.seq < h.nextSequence
  BY DEF TailShape
<1>4. \A e \in h.tail : e.seq \in Nat
  BY DEF Hubs, Events
<1>5. type \in TerminalEvents => x.status \in TerminalStatuses
  BY DEF NewEvent, ReducedStatus, TerminalEvents, TerminalEvent, TerminalStatuses
<1> HIDE DEF x, g
<1>6. \A e \in g.tail : e.seq = g.live.seq => e.status = g.live.status
  BY <1>1, <1>2, <1>3, <1>4
<1>7. \A e \in g.tail : e.seq < h.nextSequence => e \in h.tail
  BY <1>1, <1>2
<1> QED BY <1>1, <1>2, <1>5, <1>6, <1>7 DEF x, g

\* In a calm run no step disturbs the order of the hub.
LEMMA CalmHubSteps ==
  ASSUME IInv, CalmInv, [Next]_vars, Calm'
  PROVE  CalmHub'
<1>0. /\ hub \in Hubs /\ TailShape(hub) /\ LiveIsNewest(hub)
      /\ hub.nextSequence \in Nat /\ hub.live \in Snapshots /\ hub.live.seq \in Nat
      /\ hub.tail \subseteq Events /\ \A e \in hub.tail : e.seq \in Nat
      /\ held \in [event : Events, before : Snapshots] /\ row \in Snapshots
      /\ cancelling = "none" /\ ~posting
  BY DEF IInv, CalmInv, HubInv, Hubs, HeldInv, RestType, Snapshots, Events
<1>1. CalmHub
  BY DEF CalmInv, CalmHub
<1>2. ASSUME UNCHANGED hub, HeldBack' => HeldBack /\ UNCHANGED held
      PROVE  CalmHub'
  BY <1>1, <1>2 DEF CalmHub
<1>3. ASSUME LiveIsNewest(hub'), ~HeldBack',
             \A e \in hub'.tail : e.seq = hub'.live.seq => e.status = hub'.live.status
      PROVE  CalmHub'
  BY <1>3 DEF CalmHub
<1>4. RunStep \/ \E c \in Observers : ObserverStep(c)
  BY StepKinds DEF IInv
<1>5. CASE QuietStep \/ CloseStep
  BY <1>2, <1>5 DEF QuietStep, CloseStep, Onward
<1>6. CASE CaptureStep
  BY <1>2, <1>6 DEF CaptureStep, HeldBack
<1>7. CASE PublishStep
  <2>1. PICK type \in EventTypes : PublishAfter(hub, subs, type)
    BY <1>7 DEF PublishStep, Publish
  <2>2. ~HeldBack'
    BY <1>0, <1>7 DEF PublishStep, Onward
  <2>3. CASE registered
    BY <1>0, <1>3, <2>1, <2>2, <2>3, CommitShape, CommitYields DEF PublishAfter
  <2>4. CASE ~registered
    BY <1>2, <2>1, <2>2, <2>4 DEF PublishAfter
  <2> QED BY <2>3, <2>4
<1>8. CASE HoldStep
  <2>1. PICK type \in TerminalEvents : Hold(type)
    BY <1>8 DEF HoldStep
  <2> DEFINE g == Commit(hub, type)
             x == NewEvent(hub, type)
  <2>2. type \in EventTypes /\ hub' = g /\ held' = [event |-> x, before |-> hub.live]
    BY <2>1 DEF Hold, EventTypes
  <2>3. LiveIsNewest(g) /\ x.seq = hub.nextSequence
    BY <1>0, <2>2, CommitShape, NewEventType
  <2>4. /\ g.live.seq = hub.nextSequence
        /\ g.live.status \in TerminalStatuses
        /\ \A e \in g.tail : e.seq = g.live.seq => e.status = g.live.status
        /\ \A e \in g.tail : e.seq < hub.nextSequence => e \in hub.tail
    BY <1>0, <2>2, CommitYields
  <2> HIDE DEF g, x
  <2>5. \A e \in g.tail : e.seq = hub.live.seq => e.status = hub.live.status
    BY <1>0, <1>1, <2>4 DEF CalmHub, LiveIsNewest
  <2> QED BY <2>2, <2>3, <2>4, <2>5 DEF CalmHub
<1>9. CASE FlushStep
  <2>1. held.before.seq < hub.nextSequence /\ hub' = CheckpointCommitted(hub, held.before) /\ ~HeldBack'
    BY <1>9 DEF FlushStep, IInv, HeldInv, HeldBack
  <2>2. LiveIsNewest(hub') /\ hub'.live = hub.live /\ hub'.tail \subseteq hub.tail
    BY <1>0, <2>1, CheckpointShape
  <2> QED BY <1>1, <1>3, <2>1, <2>2 DEF CalmHub
<1>10. CASE RollbackStep
  <2>1. /\ held.event \in hub.tail /\ held.before.seq = held.event.seq - 1
        /\ hub.durable < held.event.seq /\ HeldBack /\ ~HeldBack'
        /\ hub' = Rollback(hub, held.event, held.before)
    BY <1>0, <1>10 DEF RollbackStep, IInv, HeldInv, TailShape
  <2>2. LiveIsNewest(hub')
    BY <1>0, <2>1, RollbackShape
  <2>3. hub.liveSequence = held.event.seq
    BY <1>0, <1>1, <2>1 DEF CalmHub, LiveIsNewest
  <2>4. hub'.live = held.before /\ hub'.tail \subseteq hub.tail
    BY <1>0, <2>1, <2>3 DEF Rollback, Hubs
  <2> QED BY <1>1, <1>3, <2>1, <2>2, <2>4 DEF CalmHub
<1>11. CASE PublishHeldStep
  <2> DEFINE h == CheckpointCommitted(hub, hub.live)
  <2>1. hub.live.seq < hub.nextSequence /\ ~HeldBack'
    BY <1>0, <1>11 DEF PublishHeldStep, LiveIsNewest
  <2>2. h \in Hubs /\ TailShape(h) /\ LiveIsNewest(h) /\ h.live = hub.live /\ h.tail \subseteq hub.tail
    BY <1>0, <2>1, CheckpointShape
  <2>3. PublishAfter(h, Broadcast(subs, held.event), "update") /\ "update" \in EventTypes
    BY <1>11 DEF PublishHeldStep, PublishHeld, EventTypes
  <2> HIDE DEF h
  <2>4. CASE registered
    BY <1>3, <2>1, <2>2, <2>3, <2>4, CommitShape, CommitYields DEF PublishAfter
  <2>5. CASE ~registered
    BY <1>1, <1>3, <2>1, <2>2, <2>3, <2>5 DEF PublishAfter, CalmHub
  <2> QED BY <2>4, <2>5
<1>12. CASE LostStartStep
  <2>1. hub' = [nextSequence |-> hub.nextSequence, liveSequence |-> row.seq, live |-> row,
                durable |-> hub.durable, tail |-> hub.tail]
    BY <1>0, <1>12 DEF LostStartStep, UpdateSnapshot, Hubs
  <2>2. row.seq = 0 /\ hub.nextSequence = 1 /\ ~HeldBack'
    BY <1>12 DEF LostStartStep, CalmInv, Unstarted, HeldBack
  <2>3. hub.tail = {}
    BY <1>0, <2>2 DEF TailShape, Hubs
  <2> QED BY <1>3, <2>1, <2>2, <2>3 DEF LiveIsNewest
<1>13. ASSUME NEW c \in Observers, ObserverStep(c) PROVE CalmHub'
  BY <1>2, <1>13 DEF ObserverStep, executorVars, HeldBack
<1> QED BY <1>4, <1>5, <1>6, <1>7, <1>8, <1>9, <1>10, <1>11, <1>12, <1>13 DEF RunStep

\* In a calm run no step disturbs the order of a queue.
LEMMA CalmSubsSteps ==
  ASSUME IInv, CalmInv, [Next]_vars, Calm'
  PROVE  CalmSubs'
<1>0. /\ hub \in Hubs /\ TailShape(hub) /\ LiveIsNewest(hub) /\ SubsShape(subs)
      /\ hub.nextSequence \in Nat /\ hub.live \in Snapshots /\ hub.live.seq = hub.nextSequence - 1
      /\ held.event \in Events /\ held.event.seq \in Nat
      /\ cancelling = "none" /\ ~posting /\ client \in [Observers -> Clients]
  BY ClientsAreClients DEF IInv, CalmInv, HubInv, Hubs, HeldInv, RestType, Snapshots, Events, LiveIsNewest,
                           SubsInv, SubsShape
<1>1. CalmSubs
  BY DEF CalmInv, CalmSubs
<1>2. NextOut \in Nat /\ NextOut <= hub.nextSequence /\ (HeldBack => held.event.seq = hub.nextSequence - 1)
  BY <1>0 DEF NextOut, CalmInv
<1>3. hub' \in Hubs /\ hub'.nextSequence \in Nat /\ NextOut' \in Nat
  <2>1. HubInv' /\ HeldInv'
    BY HubSteps
  <2>2. hub' \in Hubs /\ held'.event.seq \in Nat
    BY <2>1 DEF HubInv, HeldInv, Events
  <2> QED BY <2>2 DEF Hubs, NextOut
<1>4. \A c \in Observers : \A i \in DOMAIN Undelivered(subs[c]) : Undelivered(subs[c])[i].seq \in Nat
  <2> TAKE c \in Observers
  <2> DEFINE q == Undelivered(subs[c])
  <2>1. q \in Seq(Events)
    BY <1>0, UndeliveredType DEF SubsShape
  <2> HIDE DEF q
  <2>2. \A i \in DOMAIN q : q[i] \in Events
    BY <2>1
  <2> QED BY <2>2 DEF q, Events
<1>5. ASSUME UNCHANGED subs, NextOut <= NextOut' PROVE CalmSubs'
  <2>1. \A c \in Observers : Below(Undelivered(subs[c]), NextOut) => Below(Undelivered(subs[c]), NextOut')
    BY <1>2, <1>3, <1>4, <1>5 DEF Below
  <2> QED BY <1>1, <1>5, <2>1 DEF CalmSubs
<1>6. ASSUME UNCHANGED hub, Onward PROVE NextOut <= NextOut'
  BY <1>0, <1>2, <1>6 DEF NextOut, Onward
<1>7. RunStep \/ \E c \in Observers : ObserverStep(c)
  BY StepKinds DEF IInv
<1>8. CASE QuietStep
  BY <1>5, <1>6, <1>8 DEF QuietStep
<1>9. CASE CaptureStep
  BY <1>0, <1>5, <1>9 DEF CaptureStep, NextOut, HeldBack
<1>10. CASE FlushStep
  <2>1. held.before.seq < hub.nextSequence /\ hub' = CheckpointCommitted(hub, held.before)
        /\ ~HeldBack /\ ~HeldBack' /\ held.before \in Snapshots
    BY <1>10 DEF FlushStep, IInv, HeldInv, HeldBack
  <2>2. hub'.nextSequence = hub.nextSequence
    BY <1>0, <2>1, CheckpointShape
  <2> QED BY <1>0, <1>5, <1>10, <2>1, <2>2 DEF FlushStep, NextOut
<1>11. CASE LostStartStep
  <2>1. hub'.nextSequence = hub.nextSequence
    BY <1>0, <1>11 DEF LostStartStep, UpdateSnapshot, Hubs
  <2> QED BY <1>0, <1>5, <1>11, <2>1 DEF LostStartStep, NextOut, HeldBack
<1>12. CASE HoldStep
  <2>1. PICK type \in EventTypes : Hold(type)
    BY <1>12 DEF HoldStep, EventTypes
  <2>2. held'.event.seq = hub.nextSequence
    BY <1>0, <2>1, NewEventType DEF Hold
  <2> QED BY <1>2, <1>5, <1>12, <2>2 DEF HoldStep, NextOut
<1>13. CASE RollbackStep
  <2>1. hub' = Rollback(hub, held.event, held.before) /\ HeldBack /\ ~HeldBack'
    BY <1>13 DEF RollbackStep
  <2>2. hub.liveSequence = held.event.seq
    BY <1>0, <2>1 DEF CalmInv, LiveIsNewest
  <2>3. hub'.nextSequence = held.event.seq
    BY <1>0, <2>1, <2>2 DEF Rollback, Hubs
  <2> QED BY <1>0, <1>5, <1>13, <2>1, <2>3 DEF RollbackStep, NextOut
<1>14. CASE CloseStep
  <2>1. ASSUME NEW c \in Observers
        PROVE  /\ Undelivered(subs'[c]) = Undelivered(subs[c])
               /\ ~subs'[c].closed => ~subs[c].closed
    <3>1. subs'[c] = IF subs[c].member THEN [subs[c] EXCEPT !.closed = TRUE, !.member = FALSE] ELSE subs[c]
      BY <1>14 DEF CloseStep, Closed
    <3> QED BY <1>0, <3>1, ClosedShape DEF SubsShape
  <2>2. NextOut <= NextOut'
    BY <1>6, <1>14 DEF CloseStep
  <2>3. \A c \in Observers : Below(Undelivered(subs[c]), NextOut) => Below(Undelivered(subs[c]), NextOut')
    BY <1>2, <1>3, <1>4, <2>2 DEF Below
  <2> QED BY <1>1, <2>1, <2>3 DEF CalmSubs
\* A broadcast into queues that are in order.
<1>15. ASSUME NEW s, SubsShape(s), NEW h \in Hubs, h.nextSequence = hub.nextSequence, TailShape(h),
              NEW type \in EventTypes, PublishAfter(h, s, type), ~HeldBack',
              \A c \in Observers : /\ Increasing(Undelivered(s[c]))
                                   /\ ~s[c].closed => Below(Undelivered(s[c]), hub.nextSequence)
       PROVE  CalmSubs'
  <2>1. CASE ~registered
    BY <1>15, <2>1 DEF PublishAfter, CalmSubs, NextOut
  <2>2. CASE registered
    <3> DEFINE x == NewEvent(h, type)
    <3>1. x \in Events /\ x.seq = hub.nextSequence
      BY <1>15, NewEventType
    <3>2. subs' = Broadcast(s, x) /\ hub'.nextSequence = hub.nextSequence + 1
      BY <1>15, <2>2, CommitShape DEF PublishAfter
    <3> HIDE DEF x
    <3>3. NextOut' = hub.nextSequence + 1 /\ x.seq < NextOut'
      BY <1>0, <1>15, <3>1, <3>2 DEF NextOut
    <3>4. ASSUME NEW c \in Observers
          PROVE  /\ Increasing(Undelivered(Broadcast(s, x)[c]))
                 /\ ~Broadcast(s, x)[c].closed => Below(Undelivered(Broadcast(s, x)[c]), NextOut')
      BY <1>3, <1>15, <3>1, <3>3, BroadcastInOrder
    <3> QED BY <3>2, <3>4 DEF CalmSubs
  <2> QED BY <2>1, <2>2
<1>16. CASE PublishStep
  <2>1. PICK type \in EventTypes : PublishAfter(hub, subs, type)
    BY <1>16 DEF PublishStep, Publish
  <2>2. ~HeldBack /\ ~HeldBack'
    BY <1>0, <1>16 DEF PublishStep, Onward
  <2>3. \A c \in Observers : /\ Increasing(Undelivered(subs[c]))
                             /\ ~subs[c].closed => Below(Undelivered(subs[c]), hub.nextSequence)
    BY <1>1, <2>2 DEF CalmSubs, NextOut
  <2> QED BY <1>0, <1>15, <2>1, <2>2, <2>3
<1>17. CASE PublishHeldStep
  <2> DEFINE h == CheckpointCommitted(hub, hub.live)
             s == Broadcast(subs, held.event)
  <2>1. HeldBack /\ ~HeldBack' /\ hub.live.seq < hub.nextSequence
        /\ PublishAfter(h, s, "update") /\ "update" \in EventTypes
    BY <1>0, <1>17 DEF PublishHeldStep, PublishHeld, HeldBack, EventTypes
  <2>2. h \in Hubs /\ TailShape(h) /\ h.nextSequence = hub.nextSequence
    BY <1>0, <2>1, CheckpointShape
  <2>3. SubsShape(s)
    BY <1>0, BroadcastShape
  <2>4. held.event.seq < hub.nextSequence
    BY <1>0, <1>2, <2>1
  <2>5. ASSUME NEW c \in Observers
        PROVE  Increasing(Undelivered(s[c])) /\ (~s[c].closed => Below(Undelivered(s[c]), hub.nextSequence))
    <3>1. Increasing(Undelivered(subs[c]))
          /\ (~subs[c].closed => Below(Undelivered(subs[c]), held.event.seq))
      BY <1>1, <2>1 DEF CalmSubs, NextOut
    <3> QED BY <1>0, <2>4, <3>1, BroadcastInOrder
  <2> HIDE DEF h, s
  <2> QED BY <1>15, <2>1, <2>2, <2>3, <2>5
<1>18. ASSUME NEW c \in Observers, ObserverStep(c) PROVE CalmSubs'
  <2>1. NextOut' = NextOut /\ SubscriberShape(subs[c]) /\ Observation(c) /\ client[c] \in Clients
    BY <1>0, <1>18 DEF ObserverStep, executorVars, NextOut, HeldBack, SubsShape
  <2>2. ASSUME NEW t, subs' = [subs EXCEPT ![c] = t],
               Increasing(Undelivered(t)), ~t.closed => Below(Undelivered(t), NextOut)
        PROVE  CalmSubs'
    BY <1>0, <1>1, <2>1, <2>2 DEF CalmSubs, SubsShape
  <2>3. CASE UNCHANGED subs
    BY <1>1, <2>1, <2>3 DEF CalmSubs
  <2>4. CASE subs' = [subs EXCEPT ![c] = Dropped(subs[c])]
    <3> DEFINE t == Dropped(subs[c])
    <3>1. subs[c] \in [member : BOOLEAN, closed : BOOLEAN, waiting : BOOLEAN,
                       queue : Seq(Events), handed : Seq(Events)]
      BY <2>1, FieldsOf
    <3>2. t.queue = <<>> /\ t.handed = <<>> /\ t.closed
      BY <3>1 DEF Dropped
    <3> HIDE DEF t
    <3>3. Undelivered(t) = <<>>
      BY <3>2, EmptySeq, ConcatEmptySeq DEF Undelivered
    <3>4. Increasing(Undelivered(t))
      BY <3>3 DEF Increasing
    <3> QED BY <2>2, <2>4, <3>2, <3>4 DEF t
  <2>5. CASE subs' = [subs EXCEPT ![c] = AfterNext(subs[c])]
    <3> DEFINE t == AfterNext(subs[c])
               q == Undelivered(subs[c])
    <3>1. q \in Seq(Events) /\ t.closed = subs[c].closed
          /\ (q # <<>> => Undelivered(t) = Tail(q)) /\ (q = <<>> => Undelivered(t) = q)
      BY <2>1, UndeliveredType, AfterNextShape
    <3>2. Increasing(q) /\ (~subs[c].closed => Below(q, NextOut))
      BY <1>1 DEF CalmSubs
    <3> HIDE DEF t, q
    <3>3. Increasing(Undelivered(t)) /\ (~t.closed => Below(Undelivered(t), NextOut))
      BY <1>2, <3>1, <3>2, TailInOrder
    <3> QED BY <2>2, <2>5, <3>3 DEF t
  <2>6. CASE subs' = [subs EXCEPT ![c] = Subscribed(hub, client[c].cursor)]
    <3> DEFINE t == Subscribed(hub, client[c].cursor)
    <3>1. client[c].cursor \in Nat \cup {NoCursor}
      BY <2>1 DEF Clients
    <3>2. Increasing(Undelivered(t)) /\ (~t.closed => Below(Undelivered(t), hub.nextSequence))
      BY <1>0, <3>1, SubscribedInOrder
    <3>3. ~t.closed => ~HeldBack
      BY <1>0, <3>1, SubscribedShape DEF CalmInv
    <3> HIDE DEF t
    <3>4. ~t.closed => Below(Undelivered(t), NextOut)
      BY <3>2, <3>3 DEF NextOut
    <3> QED BY <2>2, <2>6, <3>2, <3>4 DEF t
  <2> QED BY <2>1, <2>3, <2>4, <2>5, <2>6
      DEF Observation, Observe, Fetch, LastFetch, Subscribe, Deliver, Await, StreamClosed, Disconnect
<1> QED BY <1>7, <1>8, <1>9, <1>10, <1>11, <1>12, <1>13, <1>14, <1>16, <1>17, <1>18 DEF RunStep

\* In a run without cancellation and posted inputs, what waits for a client is in the order of its
\* numbers and the tail yields the live snapshot.
THEOREM CalmRunsAreOrdered == Spec => []OrderUndisturbed
<1>1. Init => CalmInv
  <2> SUFFICES ASSUME Init PROVE CalmInv
    OBVIOUS
  <2>1. hub = [nextSequence |-> 1, liveSequence |-> 0, live |-> [status |-> "queued", seq |-> 0],
               durable |-> 0, tail |-> {}]
    BY DEF Init, Registered
  <2>2. \A c \in Observers : subs[c].closed /\ Undelivered(subs[c]) = <<>>
    BY EmptySeq, ConcatEmptySeq DEF Init, NoSubscriber, Undelivered
  <2>3. \A c \in Observers : Increasing(Undelivered(subs[c]))
    BY <2>2 DEF Increasing
  <2>4. ~HeldBack /\ cancelling = "none" /\ ~posting /\ row.seq = 0
    BY DEF Init, HeldBack
  <2> QED BY <2>1, <2>2, <2>3, <2>4 DEF CalmInv, LiveIsNewest
<1>2. ASSUME IInv, Calm => CalmInv, [Next]_vars PROVE (Calm => CalmInv)'
  <2> SUFFICES ASSUME Calm' PROVE CalmInv'
    OBVIOUS
  <2>1. Calm /\ (cancelling = "none" /\ ~posting => cancelling' = "none" /\ ~posting')
        /\ (row'.seq = row.seq \/ pc' \notin Unstarted)
    BY <1>2, CalmSteps DEF IInv
  <2>2. CalmInv
    BY <1>2, <2>1
  <2>3. CalmHub' /\ CalmSubs'
    BY <1>2, <2>2, CalmHubSteps, CalmSubsSteps
  <2>4. pc' \in Unstarted => pc \in Unstarted /\ hub'.nextSequence = hub.nextSequence
    <3>1. RunStep \/ \E c \in Observers : ObserverStep(c)
      BY <1>2, StepKinds DEF IInv
    <3>2. CASE QuietStep \/ CloseStep \/ PublishStep
      BY <2>2, <3>2 DEF QuietStep, CloseStep, PublishStep, Onward, CalmInv
    <3>3. CASE HoldStep \/ CaptureStep \/ FlushStep \/ RollbackStep \/ PublishHeldStep \/ LostStartStep
      <4>1. pc' \notin Unstarted
        BY <3>3 DEF HoldStep, CaptureStep, FlushStep, RollbackStep, PublishHeldStep, LostStartStep,
                    HeldBack, Unstarted
      <4> QED BY <4>1
    <3>4. CASE \E c \in Observers : ObserverStep(c)
      BY <3>4 DEF ObserverStep, executorVars
    <3> QED BY <3>1, <3>2, <3>3, <3>4 DEF RunStep
  <2> QED BY <2>1, <2>2, <2>3, <2>4 DEF CalmInv, CalmHub, CalmSubs
<1>3. ASSUME IInv, Calm => CalmInv PROVE OrderUndisturbed
  <2>1. ASSUME CalmInv PROVE InOrder /\ TailYieldsLive
    BY <2>1 DEF CalmInv, InOrder, TailYieldsLive, Increasing, LiveIsNewest
  <2> QED BY <1>3, <2>1 DEF OrderUndisturbed, Calm
<1> QED BY <1>1, <1>2, <1>3, RunKeepsItsShape, PTL DEF Spec

-----------------------------------------------------------------------------
(* Truth *)

\* Row and live snapshot of an undisturbed run, by where its executor is.
PhaseInv ==
  /\ aborted = "no" /\ cancelling = "none" /\ (registered \/ pc = "over")
  /\ pc \notin {"startLost", "completeRefused", "endRefused", "forcing"}
  /\ pc \in {"accepted", "latchFailed", "starting"} => row.status = "queued"
  /\ pc \in {"started", "running", "boundary", "flushing", "flushed", "completing", "catching", "ending"}
       => row.status = "running"
  /\ pc \in {"completed", "followUp", "ended", "releasing", "closed", "over"}
       => row.status \in TerminalStatuses /\ row.status = hub.live.status
  /\ pc \in {"accepted", "starting", "started"} => hub.live.status = "queued"
  /\ pc \in {"running", "boundary", "flushing", "flushed", "catching"} => hub.live.status = "running"
  /\ pc \in {"latchFailed", "ending"} => hub.live.status = "failed"
  /\ pc = "completing" => hub.live.status = "completed"
  /\ pc \in {"catching", "ending", "ended"} => outcome = "failed"
  /\ pc \in {"completing", "ending"} => row.seq <= held.event.seq
  /\ row.seq < hub.nextSequence

\* A status that is an end is the given one.
OneEnd(status, end) == status \in TerminalStatuses => status = end

AllOneEnd(q, end) == \A i \in DOMAIN q : OneEnd(q[i].status, end)

EndsAgree(events, s, k, end) ==
  /\ \A e \in events : OneEnd(e.status, end)
  /\ \A c \in Observers : OneEnd(k[c].told, end) /\ AllOneEnd(Undelivered(s[c]), end)

\* An end that is known anywhere is the end of the live snapshot.
AgreedInv == EndsAgree(hub.tail, subs, client, hub.live.status)

\* The live status a publication leaves.
LEMMA PublishedStatus ==
  ASSUME NEW h \in Hubs, NEW s, NEW type \in EventTypes, PublishAfter(h, s, type)
  PROVE  /\ registered => hub'.live.status = ReducedStatus(h.live.status, type)
                          /\ hub'.nextSequence = h.nextSequence + 1
         /\ ~registered => hub' = h
<1>1. Commit(h, type).live.status = ReducedStatus(h.live.status, type)
      /\ Commit(h, type).nextSequence = h.nextSequence + 1
  BY DEF Commit, NewEvent, Hubs
<1> QED BY <1>1 DEF PublishAfter

\* A step of an undisturbed run is none of the troubles it excludes.
LEMMA UndisturbedSteps ==
  ASSUME RestType, [Next]_vars, Undisturbed'
  PROVE  Undisturbed /\ \A trouble \in Troubles \ {"post", "latch"} : ~Strikes(trouble)
<1> USE DEF Goto, counters, commandVars, executorVars
<1>1. \A trouble : Strikes(trouble) \/ StrikesOnce(trouble) => met' = met \cup {trouble}
  BY DEF Strikes, StrikesOnce
<1>2. DbError => met \subseteq met'
  BY <1>1 DEF DbError
<1>3. met \subseteq met'
  <2>1. ASSUME UNCHANGED vars PROVE met \subseteq met'
    BY <2>1 DEF vars
  <2>2. ASSUME Execute PROVE met \subseteq met'
    BY <1>1, <1>2, <2>2
       DEF Execute, LatchSnapshot, StartLost, StartLostSnapshot, Started, StreamEvent, Capture,
           Flushed, StreamEnds, StreamThrows, Completed, CompleteRefused, HoldEnd, Ended,
           CloseStreams, Unregister, LatchFailure, LatchFailureForced, CallThrows, FollowUp,
           EndRefused, ForceFail, StartWon, Flush, CompleteRow, EndRow
  <2>3. ASSUME Command \/ Sweep \/ Shutdown \/ Crash PROVE met \subseteq met'
    BY <1>1, <2>3 DEF Command, CancelRow, PostRead, CancelAnswer, CancelDetached, PostPublish, Sweep,
                      Shutdown, Crash
  <2>4. ASSUME NEW c \in Observers, Observation(c) PROVE met \subseteq met'
    BY <2>4 DEF Observation, Observe, Fetch, LastFetch, Subscribe, Deliver, Await, StreamClosed, Disconnect
  <2> QED BY <2>1, <2>2, <2>3, <2>4 DEF Next, AllOver
<1> QED BY <1>1, <1>3 DEF Undisturbed

\* In an undisturbed run the executor's place, the row and the hub stay in phase.
LEMMA PhaseSteps ==
  ASSUME IInv, PhaseInv, [Next]_vars, Undisturbed'
  PROVE  PhaseInv' /\ (hub'.live.status = hub.live.status \/ hub.live.status \notin TerminalStatuses)
<1> DEFINE Fine == PhaseInv' /\ (hub'.live.status = hub.live.status \/ hub.live.status \notin TerminalStatuses)
<1>0. /\ hub \in Hubs /\ hub.nextSequence \in Nat /\ hub.live.status \in RunStatuses /\ hub.live.seq \in Nat
      /\ row \in Snapshots /\ row.seq \in Nat /\ row.status \in RunStatuses /\ pc \in ExecutorPoints
      /\ held.event.seq \in Nat /\ held.before.seq \in Nat /\ TailShape(hub)
      /\ LiveIsNewest(hub) \/ pc \in Finishing
  BY DEF IInv, HubInv, HeldInv, Hubs, RestType, Events, Snapshots
<1>1. \A trouble \in {"cancel", "dbError", "sweep", "followUp", "stop"} : ~Strikes(trouble)
  BY UndisturbedSteps DEF IInv, Troubles
<1>2. ~DbError /\ \A trouble \in {"cancel", "dbError", "sweep", "followUp", "stop"} : ~StrikesOnce(trouble)
  BY <1>1 DEF DbError, StrikesOnce
<1>3. ASSUME NEW type \in EventTypes, Publish(type)
      PROVE  /\ registered => hub'.live.status = ReducedStatus(hub.live.status, type)
                              /\ hub'.nextSequence = hub.nextSequence + 1
             /\ ~registered => hub' = hub
  BY <1>0, <1>3, PublishedStatus DEF Publish
<1>4. ASSUME NEW type \in EventTypes, Hold(type)
      PROVE  /\ hub'.live.status = ReducedStatus(hub.live.status, type)
             /\ hub'.nextSequence = hub.nextSequence + 1 /\ held'.event.seq = hub.nextSequence
  <2>1. Commit(hub, type).live.status = ReducedStatus(hub.live.status, type)
        /\ Commit(hub, type).nextSequence = hub.nextSequence + 1
    BY <1>0 DEF Commit, NewEvent, Hubs
  <2> QED BY <1>0, <1>4, <2>1, NewEventType DEF Hold
<1>5. \A status : /\ ReducedStatus(status, "run.started") = "running"
                  /\ ReducedStatus(status, "run.completed") = "completed"
                  /\ ReducedStatus(status, "run.failed") = "failed"
                  /\ ReducedStatus(status, "update") = status
  BY DEF ReducedStatus
<1>6. /\ {"run.started", "run.completed", "run.failed", "update"} \subseteq EventTypes
      /\ TerminalEvent("failed") = "run.failed"
  BY DEF EventTypes, TerminalEvents, TerminalEvent, TerminalStatuses
<1>7. {"completed", "failed"} \subseteq TerminalStatuses /\ "running" \notin TerminalStatuses
      /\ "queued" \notin TerminalStatuses
  BY DEF TerminalStatuses
<1>8. \A n \in Nat : n < hub.nextSequence => n < hub.nextSequence + 1
  BY <1>0
<1>9. row.seq < hub.nextSequence
  BY DEF PhaseInv
<1> USE DEF Goto, counters, commandVars, executorVars
<1>10. CASE UNCHANGED vars
  BY <1>10 DEF vars, PhaseInv
<1>11. CASE LatchSnapshot \/ CloseStreams \/ Unregister \/ Capture
  BY <1>11 DEF LatchSnapshot, CloseStreams, Unregister, Capture, PhaseInv
<1>12. CASE LatchFailure
  <2>1. registered /\ Publish("run.failed")
    BY <1>12 DEF LatchFailure, PhaseInv
  <2>2. hub'.live.status = "failed" /\ hub'.nextSequence = hub.nextSequence + 1
    BY <1>3, <1>5, <1>6, <2>1
  <2> QED BY <1>0, <1>7, <1>8, <1>12, <2>2 DEF LatchFailure, PhaseInv
<1>13. CASE LatchFailureForced
  <2>1. RowActive
    BY <1>13 DEF LatchFailureForced, PhaseInv, RowActive, ActiveStatuses
  <2>2. row' = [row EXCEPT !.status = "failed"] /\ registered' = FALSE
    BY <1>2, <1>13, <2>1 DEF LatchFailureForced, FailRow
  <2>3. row'.status = "failed" /\ row'.seq = row.seq
    BY <1>0, <2>2 DEF Snapshots
  <2> QED BY <1>7, <1>13, <2>2, <2>3 DEF LatchFailureForced, PhaseInv
<1>14. CASE StartWon
  <2>1. row'.status = "running" /\ row'.seq = row.seq
    BY <1>0, <1>14 DEF StartWon, Snapshots
  <2> QED BY <1>14, <2>1 DEF StartWon, PhaseInv
<1>15. CASE StartLost \/ StartLostSnapshot \/ CallThrows \/ CompleteRefused \/ EndRefused \/ ForceFail
            \/ CancelRow \/ CancelAnswer \/ CancelDetached \/ Shutdown \/ Crash
  <2>1. FALSE
    BY <1>1, <1>2, <1>15 DEF StartLost, StartLostSnapshot, CallThrows, CompleteRefused, EndRefused, ForceFail,
                      CancelRow, CancelAnswer, CancelDetached, Shutdown, Crash, PhaseInv
  <2> QED BY <2>1
<1>16. CASE Started
  <2>1. registered /\ Publish("run.started")
    BY <1>16 DEF Started, PhaseInv
  <2>2. hub'.live.status = "running" /\ hub'.nextSequence = hub.nextSequence + 1
    BY <1>3, <1>5, <1>6, <2>1
  <2> QED BY <1>0, <1>7, <1>8, <1>16, <2>2 DEF Started, PhaseInv
<1>17. ASSUME Publish("update"), UNCHANGED <<row, registered, held, outcome, aborted, cancelling>>,
              pc' = pc \/ (pc = "running" /\ pc' = "boundary") \/ (pc = "followUp" /\ pc' = "releasing")
       PROVE  Fine
  <2>1. hub'.live.status = hub.live.status
        /\ (hub'.nextSequence = hub.nextSequence \/ hub'.nextSequence = hub.nextSequence + 1)
    BY <1>3, <1>5, <1>6, <1>17
  <2>2. row'.seq < hub'.nextSequence
    BY <1>0, <1>8, <1>9, <1>17, <2>1
  <2> QED BY <1>17, <2>1, <2>2 DEF PhaseInv
<1>18. CASE StreamEvent \/ PostPublish
  BY <1>17, <1>18 DEF StreamEvent, PostPublish
<1>19. CASE FollowUp
  <2>1. pc' = "releasing" /\ UNCHANGED outcome
    BY <1>1, <1>19 DEF FollowUp
  <2>2. CASE Publish("update")
    BY <1>17, <1>19, <2>1, <2>2 DEF FollowUp
  <2>3. CASE UNCHANGED hub
    BY <1>19, <2>1, <2>3 DEF FollowUp, PhaseInv
  <2> QED BY <1>19, <2>2, <2>3 DEF FollowUp
<1>20. CASE Flush
  <2>1. held.before.seq < hub.nextSequence
    BY <1>20 DEF Flush, IInv, HeldInv
  <2>2. row'.status = row.status /\ row'.seq < hub.nextSequence
    <3>1. row' = row \/ row' = [row EXCEPT !.seq = held.before.seq]
      BY <1>20 DEF Flush
    <3> QED BY <1>0, <1>9, <2>1, <3>1 DEF Snapshots
  <2>3. pc = "flushing" /\ pc' \in {"flushed", "running"} /\ UNCHANGED <<hub, registered, outcome, aborted, cancelling>>
    BY <1>20 DEF Flush
  <2> QED BY <2>2, <2>3 DEF PhaseInv
<1>21. CASE Flushed
  <2>1. held.before \in Snapshots /\ held.before.seq < hub.nextSequence
    BY <1>21 DEF Flushed, IInv, HeldInv
  <2>2. hub'.live = hub.live /\ hub'.nextSequence = hub.nextSequence
    BY <1>0, <1>21, <2>1, CheckpointShape DEF Flushed
  <2> QED BY <1>21, <2>2 DEF Flushed, PhaseInv
<1>22. CASE StreamEnds
  <2>1. hub'.live.status = "completed" /\ hub'.nextSequence = hub.nextSequence + 1
        /\ held'.event.seq = hub.nextSequence
    BY <1>4, <1>5, <1>6, <1>22 DEF StreamEnds
  <2>2. row.seq < hub'.nextSequence /\ row.seq <= held'.event.seq
    BY <1>0, <1>9, <2>1
  <2> QED BY <1>7, <1>22, <2>1, <2>2 DEF StreamEnds, PhaseInv
<1>23. CASE StreamThrows
  BY <1>23 DEF StreamThrows, Throw, PhaseInv
<1>24. CASE CompleteRow
  <2>1. TerminalAccepted("completed")
    BY <1>24 DEF CompleteRow, PhaseInv, TerminalAccepted, AllowedFromStatuses
  <2>2. row' = [status |-> "completed", seq |-> held.event.seq] /\ pc' = "completed"
    BY <1>24, <2>1 DEF CompleteRow
  <2>3. held.event.seq < hub.nextSequence
    BY <1>0, <1>24 DEF CompleteRow, IInv, HeldInv, HeldBack, TailShape
  <2> QED BY <1>7, <1>24, <2>2, <2>3 DEF CompleteRow, PhaseInv
<1>25. CASE EndRow
  <2>1. TerminalAccepted(outcome) /\ outcome = "failed"
    BY <1>25 DEF EndRow, PhaseInv, TerminalAccepted, AllowedFromStatuses
  <2>2. row' = [status |-> "failed", seq |-> held.event.seq] /\ pc' = "ended"
    BY <1>25, <2>1 DEF EndRow
  <2>3. held.event.seq < hub.nextSequence
    BY <1>0, <1>25 DEF EndRow, IInv, HeldInv, HeldBack, TailShape
  <2> QED BY <1>7, <1>25, <2>1, <2>2, <2>3 DEF EndRow, PhaseInv
<1>26. CASE Completed \/ Ended
  <2> DEFINE h == CheckpointCommitted(hub, hub.live)
  <2>1. hub.live.seq < hub.nextSequence /\ hub.live \in Snapshots
    BY <1>0, <1>26 DEF Completed, Ended, Finishing, LiveIsNewest, Hubs
  <2>2. h \in Hubs /\ h.live = hub.live /\ h.nextSequence = hub.nextSequence
    BY <1>0, <2>1, CheckpointShape
  <2>3. PublishAfter(h, Broadcast(subs, held.event), "update") /\ registered
    BY <1>26 DEF Completed, Ended, PublishHeld, PhaseInv
  <2> HIDE DEF h
  <2>4. hub'.live.status = hub.live.status /\ hub'.nextSequence = hub.nextSequence + 1
    BY <1>5, <1>6, <2>2, <2>3, PublishedStatus
  <2>5. row.seq < hub'.nextSequence
    BY <1>0, <1>8, <1>9, <2>4
  <2> QED BY <1>26, <2>4, <2>5 DEF Completed, Ended, PhaseInv
<1>27. CASE HoldEnd
  <2>1. outcome = "failed"
    BY <1>27 DEF HoldEnd, PhaseInv
  <2>2. hub'.live.status = "failed" /\ hub'.nextSequence = hub.nextSequence + 1
        /\ held'.event.seq = hub.nextSequence
    BY <1>4, <1>5, <1>6, <1>27, <2>1 DEF HoldEnd
  <2>3. row.seq < hub'.nextSequence /\ row.seq <= held'.event.seq
    BY <1>0, <1>9, <2>2
  <2> QED BY <1>7, <1>27, <2>1, <2>2, <2>3 DEF HoldEnd, PhaseInv
<1>28. CASE PostRead
  BY <1>28 DEF PostRead, PhaseInv
<1>29. CASE Sweep
  <2>1. Unwatched /\ RowActive
    BY <1>1, <1>29 DEF Sweep
  <2>2. FALSE
    BY <2>1 DEF Unwatched, RowActive, PhaseInv, ActiveStatuses, TerminalStatuses
  <2> QED BY <2>2
<1>30. ASSUME NEW c \in Observers, Observation(c) PROVE Fine
  <2>1. UNCHANGED <<row, hub, registered, executorVars, commandVars, counters>>
    BY <1>30 DEF Observation, Observe, Fetch, LastFetch, Subscribe, Deliver, Await, StreamClosed, Disconnect
  <2> QED BY <2>1 DEF PhaseInv
<1> QED BY <1>10, <1>11, <1>12, <1>13, <1>14, <1>15, <1>16, <1>18, <1>19, <1>20, <1>21, <1>22, <1>23,
           <1>24, <1>25, <1>26, <1>27, <1>28, <1>29, <1>30 DEF Next, Execute, Command, AllOver

\* What a new subscriber is handed first is the live snapshot or comes from the tail.
LEMMA SubscribedFrom ==
  ASSUME NEW h \in Hubs, TailShape(h), NEW cursor \in Nat \cup {NoCursor}
  PROVE  \A i \in DOMAIN Undelivered(Subscribed(h, cursor)) :
            \/ Undelivered(Subscribed(h, cursor))[i] = SnapshotEvent(h.live)
            \/ Undelivered(Subscribed(h, cursor))[i] \in h.tail
<1> DEFINE t == Subscribed(h, cursor)
           one == <<SnapshotEvent(h.live)>>
           many == TailAfter(h, cursor)
           From(q) == \A i \in DOMAIN q : q[i] = SnapshotEvent(h.live) \/ q[i] \in h.tail
<1>0. one \in Seq(Events) /\ MaxQueue \in Nat \ {0}
  <2>1. SnapshotEvent(h.live) \in Events
    BY DEF SnapshotEvent, Events, EventTypes, Hubs, Snapshots
  <2> QED BY <2>1, MaxQueueIsPositive
<1>1. From(one)
  OBVIOUS
<1>2. ASSUME NEW q \in Seq(Events), From(q) PROVE From(Undelivered(Preloaded(q)))
  <2>1. CASE Len(q) > MaxQueue
    <3> DEFINE p == SubSeq(q, 1, MaxQueue)
    <3>1. Undelivered(Preloaded(q)) = p
      <4>1. p \in Seq(Events)
        BY <1>0, <2>1, SubSeqProperties, ElementOfSeq
      <4>2. Preloaded(q).queue = p /\ Preloaded(q).handed = <<>>
        BY <2>1 DEF Preloaded
      <4> QED BY <4>1, <4>2, ConcatEmptySeq DEF Undelivered
    <3>2. DOMAIN p = 1..MaxQueue /\ \A i \in 1..MaxQueue : p[i] = q[i] /\ i \in DOMAIN q
      BY <1>0, <2>1, SubSeqProperties, ElementOfSeq
    <3> HIDE DEF p
    <3> QED BY <1>2, <3>1, <3>2
  <2>2. CASE ~(Len(q) > MaxQueue)
    <3>1. Preloaded(q).queue = q /\ Preloaded(q).handed = <<>>
      BY <2>2 DEF Preloaded
    <3> QED BY <1>2, <3>1, ConcatEmptySeq DEF Undelivered
  <2> QED BY <2>1, <2>2
<1> HIDE DEF From
<1>3. CASE h.live.status \in TerminalStatuses
  <2> DEFINE s == Preloaded(one)
  <2>1. t = [s EXCEPT !.closed = TRUE, !.member = FALSE] /\ SubscriberShape(s)
    BY <1>0, <1>3, PreloadedShape DEF Subscribed
  <2>2. From(Undelivered(s))
    BY <1>0, <1>1, <1>2
  <2> HIDE DEF s, t
  <2>3. Undelivered(t) = Undelivered(s)
    BY <2>1, ClosedShape
  <2> QED BY <2>2, <2>3 DEF t, From
<1>4. CASE h.live.status \notin TerminalStatuses /\ CanReplay(h, cursor)
  <2>1. cursor \in Nat /\ t = Preloaded(many)
    BY <1>4 DEF CanReplay, Subscribed
  <2>2. many \in Seq(Events) /\ \A i \in DOMAIN many : many[i] \in h.tail
    <3> HIDE DEF many
    <3> QED BY <2>1, TailAfterIsSeq DEF many
  <2>3. From(many)
    BY <2>2 DEF From
  <2> HIDE DEF many, t
  <2> QED BY <1>2, <2>1, <2>2, <2>3 DEF t, From
<1>5. CASE h.live.status \notin TerminalStatuses /\ ~CanReplay(h, cursor)
  <2>1. t = Preloaded(one)
    BY <1>5 DEF Subscribed
  <2> HIDE DEF t
  <2> QED BY <1>0, <1>1, <1>2, <2>1 DEF t, From
<1> QED BY <1>3, <1>4, <1>5

\* What a client is told comes from what it is shown.
LEMMA ToldFrom ==
  ASSUME NEW k \in Clients, NEW x
  PROVE  /\ AppliedSnapshot(k, x).told \in {k.told, x.status}
         /\ Applied(k, x).told \in {k.told, x.status}
         /\ Retry(k).told = k.told
         /\ \A status : Concluded(k, status).told \in {k.told, status}
         /\ \A m : [k EXCEPT !.mode = m].told = k.told
<1>1. [k EXCEPT !.cursor = x.seq, !.told = x.status].told = x.status
  BY DEF Clients
<1>2. AppliedSnapshot(k, x) = k \/ AppliedSnapshot(k, x) = [k EXCEPT !.cursor = x.seq, !.told = x.status]
  BY DEF AppliedSnapshot
<1>3. AppliedSnapshot(k, x).told \in {k.told, x.status}
  <2> DEFINE t == [k EXCEPT !.cursor = x.seq, !.told = x.status]
  <2> HIDE DEF t
  <2> QED BY <1>1, <1>2 DEF t
<1>4. Retry(k).told = k.told
  <2>1. CASE k.attempt < MaxAttempts
    <3> DEFINE t == [k EXCEPT !.mode = "fetch", !.attempt = k.attempt + 1]
    <3>1. t.told = k.told
      BY DEF Clients
    <3>2. Retry(k) = t
      BY <2>1 DEF Retry
    <3> HIDE DEF t
    <3> QED BY <3>1, <3>2
  <2>2. CASE ~(k.attempt < MaxAttempts)
    BY <2>2 DEF Retry, Clients
  <2> QED BY <2>1, <2>2
<1>5. Applied(k, x).told \in {k.told, x.status}
  <2> DEFINE t == [k EXCEPT !.cursor = x.seq, !.told = x.status]
  <2>1. t.told = x.status
    BY <1>1
  <2>2. Applied(k, x) = k \/ Applied(k, x) = AppliedSnapshot(k, x) \/ Applied(k, x) = Retry(k)
        \/ Applied(k, x) = t
    BY DEF Applied
  <2> HIDE DEF t
  <2> QED BY <1>3, <1>4, <2>1, <2>2
<1>6. ASSUME NEW status PROVE Concluded(k, status).told \in {k.told, status}
  <2> DEFINE t == [k EXCEPT !.mode = "done", !.told = status]
  <2>1. t.told = status
    BY DEF Clients
  <2>2. Concluded(k, status) = t \/ Concluded(k, status) = k
    BY DEF Concluded
  <2> HIDE DEF t
  <2> QED BY <2>1, <2>2
<1>7. \A m : [k EXCEPT !.mode = m].told = k.told
  BY DEF Clients
<1> QED BY <1>3, <1>4, <1>5, <1>6, <1>7

\* A queue that knows of one end still does with an event that tells the same.
LEMMA AppendOneEnd ==
  ASSUME NEW q \in Seq(Events), NEW x \in Events, NEW end, AllOneEnd(q, end), OneEnd(x.status, end)
  PROVE  AllOneEnd(Append(q, x), end)
<1> DEFINE p == Append(q, x)
<1>1. /\ DOMAIN q = 1..Len(q) /\ DOMAIN p = 1..Len(q) + 1 /\ Len(q) \in Nat
      /\ (\A i \in 1..Len(q) : p[i] = q[i]) /\ p[Len(q) + 1] = x
  BY AppendProperties
<1> HIDE DEF p
<1>2. \A i \in DOMAIN p : OneEnd(p[i].status, end)
  BY <1>1 DEF AllOneEnd
<1> QED BY <1>2 DEF AllOneEnd, p

\* A queue that knows of one end still does when its first event is taken.
LEMMA TailOneEnd ==
  ASSUME NEW q \in Seq(Events), q # <<>>, NEW end, AllOneEnd(q, end)
  PROVE  AllOneEnd(Tail(q), end) /\ OneEnd(Head(q).status, end)
<1> DEFINE p == Tail(q)
<1>1. /\ DOMAIN q = 1..Len(q) /\ DOMAIN p = 1..Len(q) - 1 /\ Len(q) \in Nat \ {0}
      /\ (\A i \in 1..Len(q) - 1 : p[i] = q[i + 1]) /\ Head(q) = q[1]
  BY HeadTailProperties, EmptySeq
<1> HIDE DEF p
<1>2. \A i \in DOMAIN p : OneEnd(p[i].status, end)
  BY <1>1 DEF AllOneEnd
<1>3. OneEnd(q[1].status, end)
  BY <1>1 DEF AllOneEnd
<1> QED BY <1>1, <1>2, <1>3 DEF AllOneEnd, p

\* Every queue that knows of one end still does when an event that tells the same is broadcast.
LEMMA BroadcastOneEnd ==
  ASSUME NEW s, SubsShape(s), NEW x \in Events, NEW end, OneEnd(x.status, end),
         \A c \in Observers : AllOneEnd(Undelivered(s[c]), end)
  PROVE  \A c \in Observers : AllOneEnd(Undelivered(Broadcast(s, x)[c]), end)
<1> TAKE c \in Observers
<1>1. Undelivered(s[c]) \in Seq(Events)
  BY UndeliveredType DEF SubsShape
<1>2. AllOneEnd(Undelivered(s[c]), end)
  OBVIOUS
<1>3. AllOneEnd(Append(Undelivered(s[c]), x), end)
  BY <1>1, <1>2, AppendOneEnd
<1>4. \/ Undelivered(Broadcast(s, x)[c]) = Undelivered(s[c])
      \/ Undelivered(Broadcast(s, x)[c]) = Append(Undelivered(s[c]), x)
  BY BroadcastQueues
<1> QED BY <1>2, <1>3, <1>4

\* An observer's step: told and shown only what agrees.
LEMMA ObserverAgrees ==
  ASSUME IInv, PhaseInv, AgreedInv, NEW c \in Observers, Observation(c)
  PROVE  EndsAgree(hub.tail, subs', client', hub.live.status)
<1> DEFINE k == client[c]
           end == hub.live.status
<1>0. /\ hub \in Hubs /\ TailShape(hub) /\ subs \in [Observers -> Subscribers] /\ SubscriberShape(subs[c])
      /\ client \in [Observers -> Clients] /\ k \in Clients
  BY ClientsAreClients DEF IInv, HubInv, SubsInv, SubsShape
<1>1. OneEnd(k.told, end) /\ AllOneEnd(Undelivered(subs[c]), end)
      /\ Undelivered(subs[c]) \in Seq(Events)
  BY <1>0, UndeliveredType DEF AgreedInv, EndsAgree
<1>2. OneEnd(end, end) /\ OneEnd(row.status, end) /\ OneEnd(ServedSnapshot.status, end)
  <2>1. OneEnd(row.status, end)
    BY DEF OneEnd, PhaseInv, IInv, RestType, ExecutorPoints, TerminalStatuses
  <2> QED BY <2>1 DEF OneEnd, ServedSnapshot
<1>3. ASSUME NEW t, NEW u, subs' = subs \/ subs' = [subs EXCEPT ![c] = t],
             client' = client \/ client' = [client EXCEPT ![c] = u],
             AllOneEnd(Undelivered(t), end), OneEnd(u.told, end)
      PROVE  EndsAgree(hub.tail, subs', client', end)
  <2> HIDE DEF end
  <2>1. EndsAgree(hub.tail, subs, client, end)
    BY DEF AgreedInv, end
  <2>2. \A d \in Observers : OneEnd(client'[d].told, end)
    BY <1>0, <1>3, <2>1 DEF EndsAgree
  <2>3. \A d \in Observers : AllOneEnd(Undelivered(subs'[d]), end)
    BY <1>0, <1>3, <2>1 DEF EndsAgree
  <2> QED BY <2>1, <2>2, <2>3 DEF EndsAgree
<1>4. AllOneEnd(Undelivered(AfterNext(subs[c])), end)
  <2>1. \/ Undelivered(AfterNext(subs[c])) = Undelivered(subs[c])
        \/ Undelivered(subs[c]) # <<>> /\ Undelivered(AfterNext(subs[c])) = Tail(Undelivered(subs[c]))
    BY <1>0, AfterNextShape
  <2> HIDE DEF end
  <2> QED BY <1>1, <2>1, TailOneEnd
<1>5. AllOneEnd(Undelivered(Dropped(subs[c])), end)
  <2> DEFINE t == Dropped(subs[c])
  <2>1. subs[c] \in [member : BOOLEAN, closed : BOOLEAN, waiting : BOOLEAN,
                     queue : Seq(Events), handed : Seq(Events)]
    BY <1>0, FieldsOf
  <2>2. t.queue = <<>> /\ t.handed = <<>>
    BY <2>1 DEF Dropped
  <2> HIDE DEF t
  <2>3. Undelivered(t) = <<>>
    BY <2>2, EmptySeq, ConcatEmptySeq DEF Undelivered
  <2>4. AllOneEnd(Undelivered(t), end)
    BY <2>3 DEF AllOneEnd
  <2> QED BY <2>4 DEF t
<1>6. AllOneEnd(Undelivered(Subscribed(hub, k.cursor)), end)
  <2> DEFINE t == Subscribed(hub, k.cursor)
             q == Undelivered(t)
  <2>1. k.cursor \in Nat \cup {NoCursor}
    BY <1>0 DEF Clients
  <2>2. \A i \in DOMAIN q : q[i] = SnapshotEvent(hub.live) \/ q[i] \in hub.tail
    BY <1>0, <2>1, SubscribedFrom
  <2>3. OneEnd(SnapshotEvent(hub.live).status, end)
    BY DEF SnapshotEvent, OneEnd
  <2>4. \A e \in hub.tail : OneEnd(e.status, end)
    BY DEF AgreedInv, EndsAgree
  <2> HIDE DEF q, end
  <2>5. \A i \in DOMAIN q : OneEnd(q[i].status, end)
    BY <2>2, <2>3, <2>4
  <2> QED BY <2>5 DEF AllOneEnd, q
<1>7. \/ subs' = subs \/ subs' = [subs EXCEPT ![c] = AfterNext(subs[c])]
      \/ subs' = [subs EXCEPT ![c] = Dropped(subs[c])]
      \/ subs' = [subs EXCEPT ![c] = Subscribed(hub, k.cursor)]
  BY DEF Observation, Observe, Fetch, LastFetch, Subscribe, Deliver, Await, StreamClosed, Disconnect
<1>8. ASSUME NEW x, OneEnd(x.status, end), NEW t \in Clients, OneEnd(t.told, end)
      PROVE  /\ OneEnd(AppliedSnapshot(t, x).told, end) /\ OneEnd(Applied(t, x).told, end)
             /\ OneEnd(Retry(t).told, end) /\ OneEnd(Concluded(t, x.status).told, end)
             /\ \A m : OneEnd([t EXCEPT !.mode = m].told, end)
  <2>1. /\ AppliedSnapshot(t, x).told \in {t.told, x.status} /\ Applied(t, x).told \in {t.told, x.status}
        /\ Retry(t).told = t.told /\ Concluded(t, x.status).told \in {t.told, x.status}
        /\ \A m : [t EXCEPT !.mode = m].told = t.told
    BY <1>8, ToldFrom
  <2> HIDE DEF end
  <2> QED BY <1>8, <2>1
<1>9. ServedSnapshot.seq \in Nat /\ ServedSnapshot.status \in RunStatuses
      /\ SnapshotEvent(row).seq \in Nat /\ SnapshotEvent(row).status \in RunStatuses
      /\ SnapshotEvent(row).status = row.status /\ row.status \in RunStatuses /\ row.seq \in Nat
  BY <1>0 DEF ServedSnapshot, SnapshotEvent, IInv, RestType, Hubs, Snapshots
<1>10. \A x : x.seq \in Nat /\ x.status \in RunStatuses =>
         \A t \in Clients : /\ AppliedSnapshot(t, x) \in Clients /\ Applied(t, x) \in Clients
                            /\ Retry(t) \in Clients
  BY ClientShape
<1>11. \A t \in Clients, m \in ClientModes : [t EXCEPT !.mode = m] \in Clients
  BY DEF Clients
<1>12. \A m \in {"subscribe", "streaming", "gaveUp"} : m \in ClientModes
  BY DEF ClientModes
<1>13. \E u : (client' = client \/ client' = [client EXCEPT ![c] = u]) /\ OneEnd(u.told, end)
  <2> HIDE DEF end
  <2>1. CASE Observe(c)
    <3>1. PICK first : client' = [client EXCEPT ![c].mode = first, ![c].attempt = 1]
      BY <2>1 DEF Observe
    <3> DEFINE u == [k EXCEPT !.mode = first, !.attempt = 1]
    <3>2. client' = [client EXCEPT ![c] = u]
      BY <1>0, <3>1, Zenon
    <3>3. u.told = k.told
      BY <1>0 DEF Clients
    <3> HIDE DEF u, k
    <3> QED BY <1>1, <3>2, <3>3
  <2>2. CASE Fetch(c)
    <3> DEFINE a == AppliedSnapshot(k, ServedSnapshot)
               b == [a EXCEPT !.mode = "subscribe"]
               u == Concluded(b, ServedSnapshot.status)
    <3>1. client' = [client EXCEPT ![c] = u]
      BY <2>2 DEF Fetch
    <3>2. a \in Clients /\ OneEnd(a.told, end)
      BY <1>0, <1>1, <1>2, <1>8, <1>9, <1>10
    <3> HIDE DEF a
    <3>3. b \in Clients /\ OneEnd(b.told, end)
      BY <1>2, <1>8, <1>11, <1>12, <3>2
    <3> HIDE DEF b
    <3>4. OneEnd(u.told, end)
      BY <1>2, <1>8, <3>3
    <3> HIDE DEF u
    <3> QED BY <3>1, <3>4
  <2>3. CASE LastFetch(c)
    <3> DEFINE a == AppliedSnapshot(k, ServedSnapshot)
               u == [a EXCEPT !.mode = "gaveUp"]
    <3>1. client' = [client EXCEPT ![c] = u]
      BY <2>3 DEF LastFetch
    <3>2. a \in Clients /\ OneEnd(a.told, end)
      BY <1>0, <1>1, <1>2, <1>8, <1>9, <1>10
    <3> HIDE DEF a
    <3>3. OneEnd(u.told, end)
      BY <1>2, <1>8, <3>2
    <3> HIDE DEF u
    <3> QED BY <3>1, <3>3
  <2>4. CASE Subscribe(c)
    <3>1. CASE registered
      <4> DEFINE u == [k EXCEPT !.mode = "streaming"]
      <4>1. client' = [client EXCEPT ![c] = u]
        BY <1>0, <2>4, <3>1 DEF Subscribe
      <4>2. OneEnd(u.told, end)
        BY <1>0, <1>1, <1>2, <1>8
      <4> HIDE DEF u
      <4> QED BY <4>1, <4>2
    <3>2. CASE ~registered
      <4> DEFINE a == Applied(k, SnapshotEvent(row))
                 b == Retry(a)
                 u == Concluded(b, row.status)
      <4>1. client' = [client EXCEPT ![c] = u]
        BY <2>4, <3>2 DEF Subscribe
      <4>2. a \in Clients /\ OneEnd(a.told, end)
        BY <1>0, <1>1, <1>2, <1>8, <1>9, <1>10
      <4> HIDE DEF a
      <4>3. b \in Clients /\ OneEnd(b.told, end)
        BY <1>2, <1>8, <1>9, <1>10, <4>2
      <4> HIDE DEF b
      <4>4. OneEnd(u.told, end)
        BY <1>2, <1>8, <4>3
      <4> HIDE DEF u
      <4> QED BY <4>1, <4>4
    <3> QED BY <3>1, <3>2
  <2>5. CASE Deliver(c)
    <3> DEFINE e == Head(Undelivered(subs[c]))
               a == Applied(k, e)
               u == IF a.mode = "streaming" /\ Announces(e) THEN Concluded(a, e.status) ELSE a
    <3>1. client' = [client EXCEPT ![c] = u]
      BY <2>5 DEF Deliver
    <3>2. Undelivered(subs[c]) # <<>> /\ e \in Events
      BY <1>1, <2>5, HeadTailProperties DEF Deliver
    <3>3. OneEnd(e.status, end)
      BY <1>1, <3>2, TailOneEnd
    <3> HIDE DEF e
    <3>4. e.seq \in Nat /\ e.status \in RunStatuses
      BY <3>2 DEF Events
    <3>5. a \in Clients /\ OneEnd(a.told, end)
      BY <1>0, <1>1, <1>8, <1>10, <3>3, <3>4
    <3> HIDE DEF a
    <3>6. OneEnd(u.told, end)
      BY <1>8, <3>3, <3>5
    <3> HIDE DEF u
    <3> QED BY <3>1, <3>6
  <2>6. CASE StreamClosed(c) \/ Disconnect(c)
    <3> DEFINE u == Retry(k)
    <3>1. client' = [client EXCEPT ![c] = u]
      BY <2>6 DEF StreamClosed, Disconnect
    <3>2. OneEnd(u.told, end)
      BY <1>0, <1>1, <1>2, <1>8
    <3> HIDE DEF u
    <3> QED BY <3>1, <3>2
  <2>7. CASE Await(c)
    <3>1. client' = client
      BY <2>7 DEF Await
    <3> HIDE DEF k
    <3> QED BY <1>1, <3>1
  <2> QED BY <2>1, <2>2, <2>3, <2>4, <2>5, <2>6, <2>7 DEF Observation
<1>14. PICK u : (client' = client \/ client' = [client EXCEPT ![c] = u]) /\ OneEnd(u.told, end)
  BY <1>13
<1> HIDE DEF end, k
<1>15. CASE subs' = subs \/ subs' = [subs EXCEPT ![c] = AfterNext(subs[c])]
  BY <1>3, <1>4, <1>14, <1>15 DEF end
<1>16. CASE subs' = [subs EXCEPT ![c] = Dropped(subs[c])]
  BY <1>3, <1>5, <1>14, <1>16 DEF end
<1>17. CASE subs' = [subs EXCEPT ![c] = Subscribed(hub, k.cursor)]
  BY <1>3, <1>6, <1>14, <1>17 DEF end
<1> QED BY <1>7, <1>15, <1>16, <1>17

\* In an undisturbed run what clients, queues and the retained record say of the end stays agreed.
LEMMA AgreedSteps ==
  ASSUME IInv, PhaseInv, AgreedInv, [Next]_vars, Undisturbed'
  PROVE  AgreedInv'
<1> DEFINE old == hub.live.status
           new == hub'.live.status
<1>0. /\ hub \in Hubs /\ TailShape(hub) /\ SubsShape(subs) /\ hub.tail \subseteq Events
      /\ hub.live \in Snapshots /\ hub.nextSequence \in Nat /\ hub.live.status \in RunStatuses
      /\ held.event \in Events /\ held \in [event : Events, before : Snapshots]
      /\ row \in Snapshots
      /\ LiveIsNewest(hub) \/ pc \in Finishing
  BY DEF IInv, HubInv, Hubs, SubsInv, SubsShape, HeldInv, RestType, Snapshots
<1>1. new = old \/ old \notin TerminalStatuses
  BY PhaseSteps
<1> HIDE DEF old
<1>2. \A status : OneEnd(status, old) => OneEnd(status, new)
  <2> HIDE DEF new
  <2> QED BY <1>1 DEF OneEnd
<1> HIDE DEF new
<1>3. \A q : AllOneEnd(q, old) => AllOneEnd(q, new)
  BY <1>2 DEF AllOneEnd
<1>4. EndsAgree(hub.tail, subs, client, old)
  BY DEF AgreedInv, old
<1>5. EndsAgree(hub.tail, subs, client, new)
  BY <1>2, <1>3, <1>4 DEF EndsAgree
<1>6. SUFFICES EndsAgree(hub'.tail, subs', client', new)
  BY <1>6 DEF AgreedInv, new
<1>7. RunStep \/ \E c \in Observers : ObserverStep(c)
  BY StepKinds DEF IInv
<1>8. ASSUME UNCHANGED <<subs, client>>, \A e \in hub'.tail : e \in hub.tail \/ OneEnd(e.status, new)
      PROVE  EndsAgree(hub'.tail, subs', client', new)
  BY <1>5, <1>8 DEF EndsAgree
<1>9. CASE QuietStep \/ CaptureStep
  <2>1. UNCHANGED <<hub, subs, client>>
    BY <1>9 DEF QuietStep, CaptureStep
  <2> QED BY <1>8, <2>1
<1>10. CASE FlushStep
  <2>1. held.before.seq < hub.nextSequence /\ hub' = CheckpointCommitted(hub, held.before)
        /\ held.before \in Snapshots /\ UNCHANGED <<subs, client>>
    BY <1>0, <1>10 DEF FlushStep, IInv, HeldInv
  <2>2. hub'.tail \subseteq hub.tail
    BY <1>0, <2>1, CheckpointShape
  <2> QED BY <1>8, <2>1, <2>2
<1>11. CASE HoldStep
  <2>1. PICK type \in EventTypes : hub' = Commit(hub, type)
    BY <1>11 DEF HoldStep, Hold, EventTypes
  <2>2. hub'.tail = hub.tail \cup {NewEvent(hub, type)} /\ new = NewEvent(hub, type).status
        /\ UNCHANGED <<subs, client>>
    BY <1>0, <1>11, <2>1, CommitShape, CommitYields DEF HoldStep, new
  <2> QED BY <1>8, <2>2 DEF OneEnd
<1>12. CASE RollbackStep
  <2>1. hub'.tail \subseteq hub.tail /\ UNCHANGED <<subs, client>>
    BY <1>0, <1>12 DEF RollbackStep, Rollback, Hubs
  <2> QED BY <1>8, <2>1
<1>13. CASE LostStartStep
  BY <1>13 DEF LostStartStep, PhaseInv
<1>14. CASE CloseStep
  <2>1. ASSUME NEW c \in Observers PROVE Undelivered(subs'[c]) = Undelivered(subs[c])
    <3>1. subs'[c] = IF subs[c].member THEN [subs[c] EXCEPT !.closed = TRUE, !.member = FALSE] ELSE subs[c]
      BY <1>14 DEF CloseStep, Closed
    <3> QED BY <1>0, <3>1, ClosedShape DEF SubsShape
  <2>2. UNCHANGED <<hub, client>>
    BY <1>14 DEF CloseStep
  <2> QED BY <1>5, <2>1, <2>2 DEF EndsAgree
\* A publication over an agreed state.
<1>15. ASSUME NEW h \in Hubs, TailShape(h), h.tail \subseteq hub.tail, NEW s, SubsShape(s), UNCHANGED client,
              NEW type \in EventTypes, PublishAfter(h, s, type),
              \A c \in Observers : AllOneEnd(Undelivered(s[c]), new)
       PROVE  EndsAgree(hub'.tail, subs', client', new)
  <2>1. CASE ~registered
    <3>1. hub'.tail \subseteq hub.tail /\ subs' = s
      BY <1>15, <2>1 DEF PublishAfter
    <3> QED BY <1>5, <1>15, <3>1 DEF EndsAgree
  <2>2. CASE registered
    <3> DEFINE x == NewEvent(h, type)
    <3>1. x \in Events /\ subs' = Broadcast(s, x) /\ hub'.tail = h.tail \cup {x} /\ new = x.status
      BY <1>15, <2>2, NewEventType, CommitShape, CommitYields DEF PublishAfter, new
    <3> HIDE DEF x
    <3>2. OneEnd(x.status, new)
      BY <3>1 DEF OneEnd
    <3>3. \A c \in Observers : AllOneEnd(Undelivered(subs'[c]), new)
      BY <1>15, <3>1, <3>2, BroadcastOneEnd
    <3>4. \A e \in hub'.tail : OneEnd(e.status, new)
      BY <1>5, <1>15, <3>1, <3>2 DEF EndsAgree
    <3> QED BY <1>5, <1>15, <3>3, <3>4 DEF EndsAgree
  <2> QED BY <2>1, <2>2
<1>16. \A c \in Observers : AllOneEnd(Undelivered(subs[c]), new)
  BY <1>5 DEF EndsAgree
<1>17. CASE PublishStep
  <2>1. PICK type \in EventTypes : PublishAfter(hub, subs, type)
    BY <1>17 DEF PublishStep, Publish
  <2>2. UNCHANGED client
    BY <1>17 DEF PublishStep
  <2> QED BY <1>0, <1>15, <1>16, <2>1, <2>2
<1>18. CASE PublishHeldStep
  <2> DEFINE h == CheckpointCommitted(hub, hub.live)
             s == Broadcast(subs, held.event)
  <2>1. hub.live.seq < hub.nextSequence /\ UNCHANGED client
        /\ PublishAfter(h, s, "update") /\ "update" \in EventTypes
    BY <1>0, <1>18 DEF PublishHeldStep, PublishHeld, EventTypes, Finishing, LiveIsNewest
  <2>2. h \in Hubs /\ TailShape(h) /\ h.tail \subseteq hub.tail
    BY <1>0, <2>1, CheckpointShape
  <2>3. SubsShape(s)
    BY <1>0, BroadcastShape
  <2>4. OneEnd(held.event.status, new)
    <3>1. held.event \in hub.tail
      BY <1>18 DEF PublishHeldStep, IInv, HeldInv, HeldBack
    <3> QED BY <1>5, <3>1 DEF EndsAgree
  <2>5. \A c \in Observers : AllOneEnd(Undelivered(s[c]), new)
    BY <1>0, <1>16, <2>4, BroadcastOneEnd
  <2> HIDE DEF h, s
  <2> QED BY <1>15, <2>1, <2>2, <2>3, <2>5
<1>19. ASSUME NEW c \in Observers, ObserverStep(c) PROVE EndsAgree(hub'.tail, subs', client', new)
  <2>1. UNCHANGED hub /\ Observation(c)
    BY <1>19 DEF ObserverStep
  <2>2. EndsAgree(hub.tail, subs', client', hub.live.status)
    BY <2>1, ObserverAgrees
  <2>3. hub'.tail = hub.tail /\ new = hub.live.status
    BY <2>1 DEF new
  <2> QED BY <2>2, <2>3
<1> QED BY <1>7, <1>9, <1>10, <1>11, <1>12, <1>13, <1>14, <1>17, <1>18, <1>19 DEF RunStep

\* In a run that nothing but posted inputs and a failing latch disturbs, no client is left with
\* another end than the row has, and the retained record says what the row says.
THEOREM ClientsLearnTheTruth == Spec => []TruthUndisturbed
<1> DEFINE Inv == Undisturbed => PhaseInv /\ AgreedInv
<1>1. Init => Inv
  <2> SUFFICES ASSUME Init PROVE PhaseInv /\ AgreedInv
    OBVIOUS
  <2>1. hub = [nextSequence |-> 1, liveSequence |-> 0, live |-> [status |-> "queued", seq |-> 0],
               durable |-> 0, tail |-> {}]
    BY DEF Init, Registered
  <2>2. PhaseInv
    BY <2>1 DEF Init, PhaseInv
  <2>3. ASSUME NEW c \in Observers
        PROVE  OneEnd(client[c].told, "queued") /\ AllOneEnd(Undelivered(subs[c]), "queued")
    <3>1. client[c].told = "queued"
      BY DEF Init
    <3>2. Undelivered(subs[c]) = <<>>
      BY EmptySeq, ConcatEmptySeq DEF Init, NoSubscriber, Undelivered
    <3> QED BY <3>1, <3>2 DEF OneEnd, AllOneEnd
  <2>4. AgreedInv
    BY <2>1, <2>3 DEF AgreedInv, EndsAgree
  <2> QED BY <2>2, <2>4
<1>2. ASSUME IInv, Inv, [Next]_vars PROVE Inv'
  <2> SUFFICES ASSUME Undisturbed' PROVE PhaseInv' /\ AgreedInv'
    OBVIOUS
  <2>1. Undisturbed
    BY <1>2, UndisturbedSteps DEF IInv
  <2> QED BY <1>2, <2>1, PhaseSteps, AgreedSteps
<1>3. ASSUME IInv, Inv PROVE TruthUndisturbed
  <2> SUFFICES ASSUME Undisturbed PROVE ToldTheTruth /\ FinalSnapshot
    BY DEF TruthUndisturbed
  <2>1. row.status \in TerminalStatuses => row.status = hub.live.status
    BY <1>3 DEF PhaseInv, IInv, RestType, ExecutorPoints, TerminalStatuses
  <2>2. \A c \in Observers : OneEnd(client[c].told, hub.live.status)
    BY <1>3 DEF AgreedInv, EndsAgree
  <2>3. ToldTheTruth
    BY <2>1, <2>2 DEF ToldTheTruth, OneEnd
  <2>4. FinalSnapshot
    BY <1>3 DEF PhaseInv, FinalSnapshot
  <2> QED BY <2>3, <2>4
<1> QED BY <1>1, <1>2, <1>3, RunKeepsItsShape, PTL DEF Spec

===============================================================================
