------------------------- MODULE RunRepositoryProofs -------------------------
(***************************************************************************)
(* What holds of the durable run store for every set of requests, sessions *)
(* and processes.  The inductive invariant IInv joins the invariants that  *)
(* TLC checks to the one fact they need of a call in flight: an append     *)
(* that has looked at its run keeps the executor of that run from          *)
(* completing it, so its insert never adds to published history.           *)
(***************************************************************************)
EXTENDS RunRepository, TLAPS

\* An append between its read and its insert belongs to a run that has not
\* completed: only the executor completes a run, and it awaits its append.
OpenAppendsAreUnpublished ==
  \A r \in Runs : appendAt[r] # 0 => status[r] # "completed"

IInv ==
  /\ TypeOK
  /\ OneActivePerSession
  /\ DeliveryAgrees
  /\ HistoryIsCompletedRuns
  /\ OpenAppendsAreUnpublished

-----------------------------------------------------------------------------
(* The steps, one by one *)

Items == [run : Runs, sequence : Nat, state : {"active", "committed"}]

\* terminal() on the items of a run keeps them well-formed.
LEMMA SettledTranscriptType ==
  ASSUME transcript \subseteq Items, NEW r \in Runs, NEW to
  PROVE  SettledTranscript(r, to) \subseteq Items
BY DEF SettledTranscript, ItemsOf, Items

\* An item that was written has a place in the session and is active.
LEMMA ActiveItemType ==
  ASSUME NEW r \in Runs, NEW n \in Nat
  PROVE  ActiveItem(r, n) \in Items
BY DEF ActiveItem, Items

\* The creation of a run keeps every type.
LEMMA CreateType ==
  ASSUME TypeOK, NEW r \in Runs, Create(r)
  PROVE  TypeOK'
<1> USE BoundsAreNatural, NoInstanceIsNoInstance
<1>1. CASE CreateInsert(r)
  BY <1>1, ActiveItemType
     DEF TypeOK, CreateInsert, RunStatuses, ActiveStatuses, Items, executorVars, cancelVars
<1>2. CASE CreateRefused(r)
  BY <1>2 DEF TypeOK, CreateRefused, rowVars, messageVars, executorVars, cancelVars
<1>3. ASSUME NEW i \in Instances, CreateCheck(r, i) PROVE TypeOK'
  BY <1>3 DEF TypeOK, CreateCheck, rowVars, messageVars, executorVars, cancelVars
<1> QED BY <1>1, <1>2, <1>3 DEF Create

\* The row a compare-and-set of terminal() writes.
LEMMA TerminalCommitType ==
  ASSUME TypeOK, NEW r \in Runs, NEW to \in TerminalStatuses, NEW s \in Nat, NEW d \in Nat,
         TerminalCommit(r, to, s, d), UNCHANGED <<executorVars, processVars>>,
         cancelPhase' \in [Runs -> {"none", "queued", "running", "detached"}],
         cancelSeq' \in [Runs -> Nat]
  PROVE  TypeOK'
<1>1. transcript' \subseteq Items
  BY SettledTranscriptType DEF TypeOK, TerminalCommit, Items
<1> QED BY <1>1 DEF TypeOK, TerminalCommit, Items, RunStatuses, TerminalStatuses,
             executorVars, processVars

\* A row that is failed keeps every type.
LEMMA FailRowType ==
  ASSUME TypeOK, NEW r \in Runs, NEW d \in Nat, NEW s \in Nat, FailRow(r, d, s),
         UNCHANGED <<executorVars, cancelVars, process, host, createAt>>,
         beating' \in [Runs -> BOOLEAN],
         scanned' \in [Instances -> SUBSET [run : Runs, draft : Nat, seq : Nat]]
  PROVE  TypeOK'
<1>1. transcript' \subseteq Items
  BY SettledTranscriptType DEF TypeOK, FailRow, Items
<1> QED BY <1>1 DEF TypeOK, FailRow, Items, RunStatuses, TerminalStatuses,
             executorVars, cancelVars

\* A step of an executor keeps every type.
LEMMA ExecutorType ==
  ASSUME TypeOK, NEW r \in Runs, ExecutorStep(r)
  PROVE  TypeOK'
<1> USE BoundsAreNatural
<1>1. CASE Start(r)
  BY <1>1 DEF TypeOK, Start, StartAccepts, ExecutorIdle, RunStatuses, ActiveStatuses, messageVars,
     executorVars, cancelVars, processVars
<1>2. CASE AppendCheck(r)
  BY <1>2 DEF TypeOK, AppendCheck, rowVars, messageVars, cancelVars, processVars
<1>3. CASE AppendInsert(r)
  <2>1. transcript' \subseteq Items
    BY <1>3, ActiveItemType DEF TypeOK, AppendInsert, Items
  <2> QED BY <1>3, <2>1 DEF TypeOK, AppendInsert, Items, rowVars, messageVars, cancelVars,
             processVars
<1>4. CASE FlushCommit(r)
  <2>1. CASE FlushAccepts(r)
    <3>1. /\ lastEventSequence' \in [Runs -> Nat] /\ beating' \in [Runs -> BOOLEAN]
          /\ draftVersion' \in [Runs -> Nat] /\ draftSequence' \in [Runs -> Nat]
          /\ delivery' \in [Runs -> {"none", "streaming"} \cup TerminalStatuses]
      <4>1. /\ lastEventSequence' = [lastEventSequence EXCEPT ![r] = callSeq[r]]
            /\ beating' = [beating EXCEPT ![r] = TRUE]
            /\ delivery' = [delivery EXCEPT ![r] = "streaming"]
            /\ draftVersion' = [draftVersion EXCEPT ![r] = callDraft[r]]
            /\ draftSequence' = [draftSequence EXCEPT ![r] = callSeq[r]]
        BY <1>4, <2>1, Zenon DEF FlushCommit
      <4> QED BY <4>1 DEF TypeOK
    <3>2. /\ flushing' \subseteq Runs
          /\ UNCHANGED <<status, owner, transcript, appendAt, callSeq, callDraft,
                         cancelVars, processVars>>
      BY <1>4 DEF TypeOK, FlushCommit
    <3> QED BY <3>1, <3>2 DEF TypeOK, cancelVars, processVars
  <2>2. CASE ~FlushAccepts(r)
    BY <1>4, <2>2 DEF TypeOK, FlushCommit, messageVars, cancelVars, processVars
  <2> QED BY <2>1, <2>2
<1>5. CASE ForceFail(r)
  BY <1>5, FailRowType DEF TypeOK, ForceFail, processVars
<1>6. ASSUME NEW s \in 0..MaxSeq, FlushCheck(r, s) PROVE TypeOK'
  BY <1>6 DEF TypeOK, FlushCheck, rowVars, messageVars, cancelVars, processVars
<1>7. ASSUME NEW s \in 0..MaxSeq, NEW to \in TerminalStatuses, Terminal(r, to, s)
      PROVE  TypeOK'
  <2>1. s \in Nat /\ callDraft[r] + 1 \in Nat
    BY DEF TypeOK
  <2>2. /\ TerminalCommit(r, to, s, callDraft[r] + 1)
        /\ UNCHANGED <<executorVars, processVars>>
        /\ UNCHANGED cancelVars
    BY <1>7 DEF Terminal
  <2>3. /\ cancelPhase' \in [Runs -> {"none", "queued", "running", "detached"}]
        /\ cancelSeq' \in [Runs -> Nat]
    BY <2>2 DEF TypeOK, cancelVars
  <2> QED BY <2>1, <2>2, <2>3, TerminalCommitType
<1> QED BY <1>1, <1>2, <1>3, <1>4, <1>5, <1>6, <1>7 DEF ExecutorStep

\* A step of a cancellation keeps every type.
LEMMA CancelType ==
  ASSUME TypeOK, NEW r \in Runs, CancelStep(r)
  PROVE  TypeOK'
<1>1. CASE CancelRead(r)
  BY <1>1 DEF TypeOK, CancelRead, rowVars, messageVars, executorVars, processVars
<1>2. CASE CancelQueued(r)
  <2>1. CASE status[r] = "queued"
    BY <1>2, <2>1 DEF TypeOK, CancelQueued, CancelDone, RunStatuses, TerminalStatuses,
       executorVars, processVars
  <2>2. CASE status[r] # "queued"
    BY <1>2, <2>2 DEF TypeOK, CancelQueued, executorVars, processVars
  <2> QED BY <2>1, <2>2
<1>3. CASE CancelRunning(r)
  BY <1>3 DEF TypeOK, CancelRunning, CancelDone, RunStatuses, ActiveStatuses, messageVars,
     executorVars, processVars
<1>4. CASE CancelDetached(r)
  <2>1. /\ cancelPhase' \in [Runs -> {"none", "queued", "running", "detached"}]
        /\ cancelSeq' \in [Runs -> Nat]
    BY <1>4 DEF TypeOK, CancelDetached, CancelDone
  <2>2. CASE TerminalCommit(r, "cancelled", cancelSeq[r], 1)
    BY <1>4, <2>1, <2>2, TerminalCommitType DEF TypeOK, CancelDetached, TerminalStatuses
  <2>3. CASE UNCHANGED <<rowVars, messageVars, transcript>>
    BY <1>4, <2>1, <2>3 DEF TypeOK, CancelDetached, rowVars, messageVars, executorVars,
       processVars
  <2> QED BY <1>4, <2>2, <2>3 DEF CancelDetached
<1> QED BY <1>1, <1>2, <1>3, <1>4 DEF CancelStep

\* A start, a sweep and a crash keep every type.
LEMMA ReconcileType ==
  ASSUME TypeOK, NEW i \in Instances, Reconcile(i) \/ Crash(i)
  PROVE  TypeOK'
<1>0. \A rs \in SUBSET Runs : Scanned(rs) \subseteq [run : Runs, draft : Nat, seq : Nat]
  BY DEF TypeOK, Scanned
<1>1. CASE Boot(i)
  BY <1>0, <1>1 DEF TypeOK, Boot, rowVars, messageVars, executorVars, cancelVars
<1>2. ASSUME NEW sessions, Sweep(i, sessions) PROVE TypeOK'
  BY <1>0, <1>2 DEF TypeOK, Sweep, rowVars, messageVars, executorVars, cancelVars
<1>3. ASSUME NEW item \in scanned[i], Interrupt(i, item) PROVE TypeOK'
  <2>1. item \in [run : Runs, draft : Nat, seq : Nat]
    BY <1>3 DEF TypeOK
  <2>2. scanned' \in [Instances -> SUBSET [run : Runs, draft : Nat, seq : Nat]]
    BY <1>3 DEF TypeOK, Interrupt
  <2>3. CASE FailRow(item.run, item.draft, item.seq) /\ UNCHANGED beating
    BY <1>3, <2>1, <2>2, <2>3, FailRowType DEF TypeOK, Interrupt
  <2>4. CASE UNCHANGED <<rowVars, messageVars, transcript>>
    BY <1>3, <2>2, <2>4 DEF TypeOK, Interrupt, rowVars, messageVars, executorVars, cancelVars
  <2> QED BY <1>3, <2>3, <2>4 DEF Interrupt
<1>4. CASE Crash(i)
  BY <1>4 DEF TypeOK, Crash, rowVars, messageVars, cancelVars
<1> QED BY <1>1, <1>2, <1>3, <1>4 DEF Reconcile

\* Every variable has its type, in every reachable state.
LEMMA StepType == TypeOK /\ [Next]_vars => TypeOK'
<1> SUFFICES ASSUME TypeOK, [Next]_vars PROVE TypeOK' OBVIOUS
<1>1. ASSUME NEW r \in Runs, Heartbeat(r) \/ HeartbeatAges(r) PROVE TypeOK'
  BY <1>1 DEF TypeOK, Heartbeat, HeartbeatAges, messageVars, executorVars, cancelVars,
     processVars
<1>2. CASE UNCHANGED vars
  BY <1>2 DEF TypeOK, vars, rowVars, messageVars, executorVars, cancelVars, processVars
<1> QED BY <1>1, <1>2, CreateType, ExecutorType, CancelType, ReconcileType DEF Next

-----------------------------------------------------------------------------
(* What a step does to the rows and items that the properties speak of *)

\* No row, message or item changes, and an append opens for no completed run.
\* A flush is calm as well: the message it rewrites is streaming already.
Calm ==
  /\ UNCHANGED <<status, delivery, transcript>>
  /\ \A q \in Runs : appendAt'[q] # 0 => appendAt[q] # 0 \/ status[q] # "completed"

\* A run is started or asked to cancel.
Moves(r) ==
  /\ \/ status[r] = "queued" /\ status' = [status EXCEPT ![r] = "running"]
     \/ status[r] = "running" /\ status' = [status EXCEPT ![r] = "cancel_requested"]
  /\ UNCHANGED <<delivery, transcript, appendAt>>

\* A queued run is cancelled and its items stay.
Withdraws(r) ==
  /\ status[r] = "queued"
  /\ status' = [status EXCEPT ![r] = "cancelled"]
  /\ delivery' = [delivery EXCEPT ![r] = "cancelled"]
  /\ UNCHANGED <<transcript, appendAt>>

\* The item of an open append is inserted.
Appends(r) ==
  /\ appendAt[r] # 0
  /\ transcript' = transcript \cup {ActiveItem(r, appendAt[r])}
  /\ appendAt' = [appendAt EXCEPT ![r] = 0]
  /\ UNCHANGED <<status, delivery>>

\* An active run ends.
Ends(r, to) ==
  /\ IsActive(r)
  /\ to = "completed" => status[r] = "running" /\ appendAt[r] = 0
  /\ to = "cancelled" => status[r] = "cancel_requested"
  /\ status' = [status EXCEPT ![r] = to]
  /\ delivery' = [delivery EXCEPT ![r] = to]
  /\ transcript' = SettledTranscript(r, to)
  /\ UNCHANGED appendAt

Effect(r) ==
  \/ CreateInsert(r) \/ Moves(r) \/ Withdraws(r) \/ Appends(r)
  \/ \E to \in TerminalStatuses : Ends(r, to)

\* A commit of a terminal status ends its run.
LEMMA CommitEnds ==
  ASSUME NEW r \in Runs, NEW to \in TerminalStatuses, NEW s, NEW d,
         TerminalCommit(r, to, s, d), to = "completed" => appendAt[r] = 0,
         UNCHANGED appendAt
  PROVE  Ends(r, to)
BY DEF TerminalCommit, TerminalAccepts, Ends, IsActive, ActiveStatuses, TerminalStatuses,
   AllowedFromStatuses

\* A step of an executor leaves rows and messages alone or has an effect on its own run.
LEMMA ExecutorEffect ==
  ASSUME IInv, NEW r \in Runs, ExecutorStep(r)
  PROVE  Calm \/ Effect(r)
<1>1. CASE Start(r)
  BY <1>1 DEF Start, StartAccepts, Effect, Moves, messageVars, executorVars
<1>2. CASE AppendCheck(r)
  BY <1>2 DEF AppendCheck, Calm, IInv, TypeOK, IsActive, ActiveStatuses, rowVars, messageVars
<1>3. CASE AppendInsert(r)
  BY <1>3 DEF AppendInsert, Calm, Effect, Appends, IInv, TypeOK, rowVars, messageVars
<1>4. CASE FlushCommit(r)
  <2>1. delivery' = delivery
    <3>1. CASE FlushAccepts(r)
      <4>1. delivery' = [delivery EXCEPT ![r] = "streaming"]
        BY <1>4, <3>1, Zenon DEF FlushCommit
      <4>2. delivery[r] = "streaming"
        BY <3>1 DEF FlushAccepts, IInv, DeliveryAgrees
      <4> QED BY <4>1, <4>2 DEF IInv, TypeOK
    <3>2. CASE ~FlushAccepts(r)
      BY <1>4, <3>2 DEF FlushCommit, messageVars
    <3> QED BY <3>1, <3>2
  <2> QED BY <1>4, <2>1 DEF FlushCommit, Calm
<1>5. CASE ForceFail(r)
  BY <1>5 DEF ForceFail, FailRow, Effect, Ends, TerminalStatuses, executorVars
<1>6. ASSUME NEW s \in 0..MaxSeq, FlushCheck(r, s) PROVE Calm \/ Effect(r)
  BY <1>6 DEF FlushCheck, Calm, rowVars, messageVars
<1>7. ASSUME NEW s \in 0..MaxSeq, NEW to \in TerminalStatuses, Terminal(r, to, s)
      PROVE  Calm \/ Effect(r)
  BY <1>7, CommitEnds DEF Terminal, Executing, ExecutorIdle, Effect, executorVars
<1> QED BY <1>1, <1>2, <1>3, <1>4, <1>5, <1>6, <1>7 DEF ExecutorStep

\* A step of a cancellation leaves rows and messages alone or has an effect on its own run.
LEMMA CancelEffect ==
  ASSUME NEW r \in Runs, CancelStep(r)
  PROVE  Calm \/ Effect(r)
<1>1. CASE CancelRead(r)
  BY <1>1 DEF CancelRead, Calm, rowVars, messageVars, executorVars
<1>2. CASE CancelQueued(r)
  BY <1>2 DEF CancelQueued, Calm, Effect, Withdraws, executorVars
<1>3. CASE CancelRunning(r)
  BY <1>3 DEF CancelRunning, Calm, Effect, Moves, messageVars, executorVars
<1>4. CASE CancelDetached(r)
  BY <1>4, CommitEnds
     DEF CancelDetached, Calm, Effect, TerminalStatuses, rowVars, messageVars, executorVars
<1> QED BY <1>1, <1>2, <1>3, <1>4 DEF CancelStep

\* A start, a sweep or a crash leaves rows and messages alone or has an effect on one run.
LEMMA ReconcileEffect ==
  ASSUME IInv, NEW i \in Instances, Reconcile(i) \/ Crash(i)
  PROVE  Calm \/ \E r \in Runs : Effect(r)
<1>1. CASE Boot(i)
  BY <1>1 DEF Boot, Calm, rowVars, messageVars, executorVars
<1>2. ASSUME NEW sessions, Sweep(i, sessions) PROVE Calm
  BY <1>2 DEF Sweep, Calm, rowVars, messageVars, executorVars
<1>3. ASSUME NEW item \in scanned[i], Interrupt(i, item)
      PROVE  Calm \/ \E r \in Runs : Effect(r)
  <2>1. item.run \in Runs
    BY <1>3 DEF IInv, TypeOK
  <2>2. CASE FailRow(item.run, item.draft, item.seq)
    <3>1. Ends(item.run, "failed")
      BY <1>3, <2>2 DEF Interrupt, FailRow, Ends, executorVars
    <3> QED BY <2>1, <3>1 DEF Effect, TerminalStatuses
  <2>3. CASE UNCHANGED <<rowVars, messageVars, transcript>>
    BY <1>3, <2>3 DEF Interrupt, Calm, rowVars, messageVars, executorVars
  <2> QED BY <1>3, <2>2, <2>3 DEF Interrupt
<1>4. CASE Crash(i)
  BY <1>4 DEF Crash, Calm, IInv, TypeOK, rowVars, messageVars
<1> QED BY <1>1, <1>2, <1>3, <1>4 DEF Reconcile

\* Every step is calm, or has one effect on one run.
LEMMA StepEffect ==
  ASSUME IInv, [Next]_vars
  PROVE  Calm \/ \E r \in Runs : Effect(r)
<1>1. ASSUME NEW r \in Runs, Create(r) PROVE Calm \/ Effect(r)
  BY <1>1 DEF Create, CreateRefused, CreateCheck, Calm, Effect, rowVars, messageVars,
     executorVars
<1>2. ASSUME NEW r \in Runs, Heartbeat(r) \/ HeartbeatAges(r) PROVE Calm
  BY <1>2 DEF Heartbeat, HeartbeatAges, Calm, messageVars, executorVars
<1>3. CASE UNCHANGED vars
  BY <1>3 DEF Calm, vars, rowVars, messageVars, executorVars
<1> QED BY <1>1, <1>2, <1>3, ExecutorEffect, CancelEffect, ReconcileEffect DEF Next

-----------------------------------------------------------------------------
(* The effects keep the invariant *)

\* A step that leaves rows and messages alone keeps the invariants.
LEMMA CalmKeeps ==
  ASSUME IInv, Calm
  PROVE  /\ OneActivePerSession' /\ DeliveryAgrees'
         /\ HistoryIsCompletedRuns' /\ OpenAppendsAreUnpublished'
BY DEF IInv, Calm, OneActivePerSession, DeliveryAgrees, HistoryIsCompletedRuns,
   OpenAppendsAreUnpublished, IsActive, ItemsOf

\* An effect on a run keeps one active run per session, and message and row in agreement.
LEMMA EffectKeepsRows ==
  ASSUME IInv, NEW r \in Runs, Effect(r)
  PROVE  OneActivePerSession' /\ DeliveryAgrees' /\ OpenAppendsAreUnpublished'
<1> USE DEF IInv, TypeOK, OneActivePerSession, DeliveryAgrees, OpenAppendsAreUnpublished,
        IsActive, ActiveStatuses, TerminalStatuses
<1>1. CASE CreateInsert(r)
  BY <1>1 DEF CreateInsert, CreateConflicts, SameRequest, executorVars
<1>2. CASE Moves(r)
  BY <1>2 DEF Moves
<1>3. CASE Withdraws(r)
  BY <1>3 DEF Withdraws
<1>4. CASE Appends(r)
  BY <1>4 DEF Appends
<1>5. ASSUME NEW to \in TerminalStatuses, Ends(r, to)
      PROVE  OneActivePerSession' /\ DeliveryAgrees' /\ OpenAppendsAreUnpublished'
  BY <1>5 DEF Ends
<1> QED BY <1>1, <1>2, <1>3, <1>4, <1>5 DEF Effect

\* An effect on a run keeps the history that of the completed runs.
LEMMA EffectKeepsHistory ==
  ASSUME IInv, NEW r \in Runs, Effect(r)
  PROVE  HistoryIsCompletedRuns'
<1> USE DEF IInv, TypeOK, HistoryIsCompletedRuns, ItemsOf, IsActive, ActiveStatuses,
        TerminalStatuses
<1>1. CASE CreateInsert(r)
  <2>1. status[r] = "none"
    BY <1>1 DEF CreateInsert, CreateConflicts, SameRequest
  <2>2. /\ status' = [status EXCEPT ![r] = "queued"]
        /\ transcript' = transcript \cup {ActiveItem(r, createAt[r])}
    BY <1>1 DEF CreateInsert
  <2>3. ActiveItem(r, createAt[r]).run = r /\ ActiveItem(r, createAt[r]).state = "active"
    BY DEF ActiveItem
  <2> QED BY <2>1, <2>2, <2>3
<1>2. CASE Moves(r)
  BY <1>2 DEF Moves
<1>3. CASE Withdraws(r)
  BY <1>3 DEF Withdraws
<1>4. CASE Appends(r)
  BY <1>4 DEF Appends, ActiveItem, OpenAppendsAreUnpublished
<1>5. ASSUME NEW to \in TerminalStatuses, Ends(r, to)
      PROVE  HistoryIsCompletedRuns'
  <2>1. CASE to = "completed"
    <3>1. /\ status' = [status EXCEPT ![r] = "completed"]
          /\ transcript' = (transcript \ ItemsOf(r))
               \cup {[item EXCEPT !.state = "committed"] : item \in ItemsOf(r)}
      BY <1>5, <2>1 DEF Ends, SettledTranscript
    <3>2. \A item \in ItemsOf(r) :
             /\ [item EXCEPT !.state = "committed"].run = r
             /\ [item EXCEPT !.state = "committed"].state = "committed"
      OBVIOUS
    <3>3. ItemsOf(r) # {}
      BY <1>5 DEF Ends
    <3>4. ASSUME NEW q \in Runs, q # r
          PROVE  /\ status'[q] = status[q]
                 /\ ItemsOf(q)' = ItemsOf(q)
      BY <3>1, <3>2, <3>4
    <3>5. /\ status'[r] = "completed"
          /\ ItemsOf(r)' = {[item EXCEPT !.state = "committed"] : item \in ItemsOf(r)}
      BY <3>1, <3>2
    <3> HIDE DEF ItemsOf
    <3>6. ASSUME NEW item \in ItemsOf(r)' PROVE item.state = "committed"
      <4>1. PICK old \in ItemsOf(r) : item = [old EXCEPT !.state = "committed"]
        BY <3>5, <3>6, Zenon
      <4> QED BY <3>2, <4>1, Zenon
    <3>7. ItemsOf(r)' # {}
      <4>1. PICK old \in ItemsOf(r) : TRUE
        BY <3>3, Zenon
      <4>2. [old EXCEPT !.state = "committed"] \in ItemsOf(r)'
        BY <3>5, Zenon
      <4> QED BY <4>2, Zenon
    <3>8. \A q \in Runs : q # r => status'[q] = status[q] /\ ItemsOf(q)' = ItemsOf(q)
      BY <3>4
    <3> QED
      BY <3>5, <3>6, <3>7, <3>8
  <2>2. CASE to # "completed"
    BY <1>5, <2>2 DEF Ends, SettledTranscript
  <2> QED BY <2>1, <2>2
<1> QED BY <1>1, <1>2, <1>3, <1>4, <1>5 DEF Effect

\* The empty store meets the invariant.
LEMMA InitIInv == Init => IInv
BY NoInstanceIsNoInstance
   DEF Init, IInv, TypeOK, OneActivePerSession, DeliveryAgrees, HistoryIsCompletedRuns,
       OpenAppendsAreUnpublished, IsActive, ItemsOf, ActiveStatuses, TerminalStatuses,
       RunStatuses

\* Every step keeps the invariant.
LEMMA StepIInv == IInv /\ [Next]_vars => IInv'
<1> SUFFICES ASSUME IInv, [Next]_vars PROVE IInv' OBVIOUS
<1>1. TypeOK'
  BY StepType DEF IInv
<1>2. CASE Calm
  BY <1>1, <1>2, CalmKeeps DEF IInv
<1>3. ASSUME NEW r \in Runs, Effect(r) PROVE IInv'
  BY <1>1, <1>3, EffectKeepsRows, EffectKeepsHistory DEF IInv
<1> QED BY <1>2, <1>3, StepEffect

\* The durable watermark of a run never moves back: flush() and terminal() ask
\* for it in their compare-and-set.
LEMMA WatermarkGrows ==
  ASSUME IInv, [Next]_vars
  PROVE  \A q \in Runs : lastEventSequence'[q] >= lastEventSequence[q]
<1> USE BoundsAreNatural DEF IInv, TypeOK
<1> DEFINE Grows == \A q \in Runs : lastEventSequence'[q] >= lastEventSequence[q]
<1>0. ASSUME UNCHANGED lastEventSequence PROVE Grows
  BY <1>0
<1>1. ASSUME NEW r \in Runs, NEW to, NEW s \in Nat, NEW d, TerminalCommit(r, to, s, d)
      PROVE  Grows
  BY <1>1 DEF TerminalCommit, TerminalAccepts
<1>2. ASSUME NEW r \in Runs, Create(r) \/ Heartbeat(r) \/ HeartbeatAges(r) PROVE Grows
  BY <1>0, <1>2 DEF Create, CreateInsert, CreateRefused, CreateCheck, Heartbeat,
     HeartbeatAges, rowVars
<1>3. ASSUME NEW r \in Runs, ExecutorStep(r) PROVE Grows
  <2>1. ASSUME FlushCommit(r) PROVE Grows
    <3>1. CASE FlushAccepts(r)
      BY <2>1, <3>1 DEF FlushCommit, FlushAccepts
    <3>2. CASE ~FlushAccepts(r)
      BY <1>0, <2>1, <3>2 DEF FlushCommit
    <3> QED BY <3>1, <3>2
  <2>2. ASSUME NEW s \in 0..MaxSeq, NEW to \in TerminalStatuses, Terminal(r, to, s)
        PROVE  Grows
    BY <1>1, <2>2 DEF Terminal
  <2> QED BY <1>0, <1>3, <2>1, <2>2 DEF ExecutorStep, Start, AppendCheck, AppendInsert,
             ForceFail, FailRow, FlushCheck, rowVars
<1>4. ASSUME NEW r \in Runs, CancelStep(r) PROVE Grows
  <2>1. ASSUME CancelDetached(r) PROVE Grows
    BY <1>0, <1>1, <2>1 DEF CancelDetached, rowVars
  <2> QED BY <1>0, <1>4, <2>1 DEF CancelStep, CancelRead, CancelQueued, CancelRunning, rowVars
<1>5. ASSUME NEW i \in Instances, Reconcile(i) \/ Crash(i) PROVE Grows
  BY <1>0, <1>5 DEF Reconcile, Boot, Sweep, Interrupt, FailRow, Crash, rowVars
<1> QED BY <1>0, <1>2, <1>3, <1>4, <1>5 DEF Next, vars, rowVars

\* The inductive invariant holds of every reachable state.
THEOREM Invariance == Spec => []IInv
<1> QED BY InitIInv, StepIInv, PTL DEF Spec

-----------------------------------------------------------------------------
(* The invariants *)

\* Every column, item and call in flight has its type.
THEOREM TypeCorrect == Spec => []TypeOK
<1>1. IInv => TypeOK BY DEF IInv
<1> QED BY <1>1, Invariance, PTL

\* A session never has two unfinished runs, whatever the number of requests
\* and processes: the indexes of create() and the compare-and-sets suffice.
THEOREM SessionsRunOneAtATime == Spec => []OneActivePerSession
<1>1. IInv => OneActivePerSession BY DEF IInv
<1> QED BY <1>1, Invariance, PTL

\* Run row and assistant message always tell the same story.
THEOREM MessagesAgreeWithRuns == Spec => []DeliveryAgrees
<1>1. IInv => DeliveryAgrees BY DEF IInv
<1> QED BY <1>1, Invariance, PTL

\* The history a later run replays is made of completed runs, each whole.
THEOREM HistoryIsPublishedWhole == Spec => []HistoryIsCompletedRuns
<1>1. IInv => HistoryIsCompletedRuns BY DEF IInv
<1> QED BY <1>1, Invariance, PTL

-----------------------------------------------------------------------------
(* The action properties *)

\* An ended run keeps its status whatever call arrives late.
THEOREM EndsAreFinal == Spec => TerminalIsForever
<1>1. IInv /\ [Next]_vars => [EndsUntouched]_vars
  <2> SUFFICES ASSUME IInv, [Next]_vars
               PROVE  \A q \in Runs :
                        status[q] \in TerminalStatuses => status'[q] = status[q]
    BY DEF EndsUntouched
  <2>1. ASSUME NEW r \in Runs, Effect(r)
        PROVE  \A q \in Runs : status[q] \in TerminalStatuses => status'[q] = status[q]
    BY <2>1 DEF IInv, TypeOK, Effect, CreateInsert, CreateConflicts, SameRequest, Moves,
       Withdraws, Appends, Ends, IsActive, ActiveStatuses, TerminalStatuses
  <2> QED BY <2>1, StepEffect DEF Calm
<1> QED BY <1>1, Invariance, PTL DEF Spec, TerminalIsForever

\* Published history and the durable watermark only grow.
THEOREM DurableStateGrows == Spec => DurableStateOnlyGrows
<1> DEFINE Published == {item \in transcript : item.state = "committed"}
<1>1. ASSUME IInv, [Next]_vars PROVE Published \subseteq transcript'
  <2>1. ASSUME NEW r \in Runs, NEW to \in TerminalStatuses, Ends(r, to)
        PROVE  Published \subseteq transcript'
    <3>1. CASE to = "completed"
      <4>1. \A item \in Published : [item EXCEPT !.state = "committed"] = item
        BY <1>1 DEF IInv, TypeOK
      <4> QED BY <2>1, <3>1, <4>1 DEF Ends, SettledTranscript
    <3>2. CASE to # "completed"
      BY <2>1, <3>2 DEF Ends, SettledTranscript
    <3> QED BY <3>1, <3>2
  <2>2. ASSUME NEW r \in Runs, Effect(r) PROVE Published \subseteq transcript'
    BY <2>1, <2>2 DEF Effect, CreateInsert, Moves, Withdraws, Appends
  <2> QED BY <1>1, <2>2, StepEffect DEF Calm
<1>2. ASSUME IInv, [Next]_vars
      PROVE  \A q \in Runs : lastEventSequence'[q] >= lastEventSequence[q]
  BY <1>2, WatermarkGrows
<1>3. IInv /\ [Next]_vars
        => [/\ {item \in transcript : item.state = "committed"} \subseteq transcript'
            /\ \A r \in Runs : lastEventSequence'[r] >= lastEventSequence[r]]_vars
  BY <1>1, <1>2
<1> QED BY <1>3, Invariance, PTL DEF Spec, DurableStateOnlyGrows

-----------------------------------------------------------------------------
(* Refinement *)

\* Only a completed run has published items, so the history is known by status.
Completed == {q \in Runs : status[q] = "completed"}

\* The runs with published items are the completed ones.
LEMMA PublishedIsCompleted == IInv => published = Completed
<1> SUFFICES ASSUME IInv PROVE published = Completed OBVIOUS
<1>1. ASSUME NEW r \in published PROVE r \in Completed
  <2>1. PICK item \in transcript : item.state = "committed" /\ item.run = r
    BY <1>1 DEF published
  <2>2. r \in Runs /\ item \in ItemsOf(r)
    BY <2>1 DEF IInv, TypeOK, ItemsOf
  <2> QED BY <2>1, <2>2 DEF IInv, HistoryIsCompletedRuns, Completed
<1>2. ASSUME NEW r \in Completed PROVE r \in published
  <2>1. PICK item \in ItemsOf(r) : item.state = "committed"
    BY <1>2 DEF IInv, HistoryIsCompletedRuns, Completed
  <2> QED BY <2>1 DEF published, ItemsOf
<1> QED BY <1>1, <1>2

\* An effect on one run is a step of DurableRun on that run, or invisible.
LEMMA EffectIsAbstractStep ==
  ASSUME IInv, NEW r \in Runs, Effect(r), published = Completed, published' = Completed'
  PROVE  [Abstract!Next]_(Abstract!vars)
<1> USE DEF IInv, TypeOK, Completed, ActiveStatuses, TerminalStatuses
<1>1. CASE CreateInsert(r)
  <2>1. /\ status[r] = "none"
        /\ ~Abstract!Busy(SessionOf[r])
        /\ status' = [status EXCEPT ![r] = "queued"]
    BY <1>1 DEF CreateInsert, CreateConflicts, SameRequest, IsActive, Abstract!Busy,
       Abstract!ActiveStatuses
  <2>2. published' = published
    BY <2>1
  <2> QED BY <2>1, <2>2 DEF Abstract!Next, Abstract!Accept
<1>2. CASE Moves(r)
  <2>1. published' = published
    BY <1>2 DEF Moves
  <2> QED BY <1>2, <2>1 DEF Moves, Abstract!Next, Abstract!Begin, Abstract!AskCancel,
             Abstract!Move
<1>3. CASE Withdraws(r)
  <2>1. published' = published
    BY <1>3 DEF Withdraws
  <2> QED BY <1>3, <2>1 DEF Withdraws, Abstract!Next, Abstract!Cancel, Abstract!Move
<1>4. CASE Appends(r)
  <2>1. status' = status
    BY <1>4 DEF Appends
  <2> QED BY <2>1 DEF Abstract!vars
<1>5. ASSUME NEW to \in TerminalStatuses, Ends(r, to)
      PROVE  [Abstract!Next]_(Abstract!vars)
  <2>1. CASE to = "completed"
    <3>1. status[r] = "running" /\ status' = [status EXCEPT ![r] = "completed"]
      BY <1>5, <2>1 DEF Ends
    <3>2. published' = published \cup {r}
      BY <3>1
    <3> QED BY <3>1, <3>2 DEF Abstract!Next, Abstract!Complete
  <2>2. CASE to = "cancelled"
    <3>1. status[r] = "cancel_requested" /\ status' = [status EXCEPT ![r] = "cancelled"]
      BY <1>5, <2>2 DEF Ends
    <3>2. published' = published
      BY <3>1
    <3> QED BY <3>1, <3>2 DEF Abstract!Next, Abstract!Cancel, Abstract!Move
  <2>3. CASE to = "failed"
    <3>1. IsActive(r) /\ status' = [status EXCEPT ![r] = "failed"]
      BY <1>5, <2>3 DEF Ends
    <3>2. published' = published
      BY <3>1 DEF IsActive
    <3> QED BY <3>1, <3>2 DEF IsActive, Abstract!Next, Abstract!Fail, Abstract!Move,
               Abstract!ActiveStatuses
  <2> QED BY <2>1, <2>2, <2>3
<1> QED BY <1>1, <1>2, <1>3, <1>4, <1>5 DEF Effect

\* The store implements what DurableRun promises: a step of the store accepts,
\* moves or ends one run and publishes exactly the runs that complete, or is
\* invisible.
THEOREM StoreImplementsDurableRun == Spec => ImplementsDurableRun
<1>1. Init => Abstract!Init
  BY DEF Init, Abstract!Init, published, ItemsOf
<1>2. IInv => published = Completed
  BY PublishedIsCompleted
<1>3. IInv /\ published = Completed /\ (published = Completed)' /\ [Next]_vars
        => [Abstract!Next]_(Abstract!vars)
  <2> SUFFICES ASSUME IInv, published = Completed, published' = Completed', [Next]_vars
               PROVE  [Abstract!Next]_(Abstract!vars)
    OBVIOUS
  <2>1. CASE Calm
    <3>1. status' = status /\ published' = published
      BY <2>1 DEF Calm, Completed
    <3> QED BY <3>1 DEF Abstract!vars
  <2> QED BY <2>1, StepEffect, EffectIsAbstractStep
<1> QED BY <1>1, <1>2, <1>3, Invariance, PTL DEF Spec, ImplementsDurableRun, Abstract!Spec

==============================================================================
