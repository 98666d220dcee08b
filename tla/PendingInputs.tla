---------------------------- MODULE PendingInputs ----------------------------
(***************************************************************************)
(* What a user types while a run is active: the pending inputs of one      *)
(* session (pending-user-input.service.ts), the executor that applies      *)
(* steers and starts follow-ups (run.executor.ts) and the requests that    *)
(* submit, promote, demote, cancel, resume and send                        *)
(* (runs.controller.ts, run-command.service.ts).                           *)
(*                                                                         *)
(* PostgreSQL runs at READ COMMITTED, so a transaction that reads rows and *)
(* then updates them is two steps here: others may commit in between, and  *)
(* the update looks at the rows as they are then.  create() of a run is    *)
(* one step, its unique indexes decide (RunRepository).                    *)
(***************************************************************************)
EXTENDS Integers, FiniteSets, FiniteSetsExt

CONSTANTS
  Inputs,         \* submitted texts, each with its idempotency key
  MaxPending,     \* MAX_PENDING
  MaxRuns,        \* bound: runs of the session
  Overlaps,       \* requests may land inside a transaction or after the run
  Creates,        \* other runs of the session may be created
  Fails,          \* runs may fail or be cancelled
  Crashes         \* the process may die and restart

ASSUME PendingBounds ==
  /\ IsFiniteSet(Inputs)
  /\ MaxPending \in Nat /\ MaxRuns \in Nat
  /\ {Overlaps, Creates, Fails, Crashes} \subseteq BOOLEAN

Runs == 1..MaxRuns

\* Whoever takes follow-ups: the executor of a run that completed, and the
\* user's request to resume the queue.
User == 0
Claimants == Runs \cup {User}

VARIABLES
  status, kind, seq,     \* [Inputs -> columns of pending_user_inputs]
  submitting,            \* inputs checked by submit() and not yet inserted
  given,                 \* [Inputs -> the sequence submit() computed]
  active,                \* the session's unfinished run, 0 without one
  last,                  \* number of the newest run
  ended,                 \* [Runs -> how it ended]
  pc,                    \* [Claimants -> where it is]
  batch,                 \* [Claimants -> rows it has read or holds]
  applied,               \* [Inputs -> runs that took it as a steer]
  launched               \* [Inputs -> how often it became a run]

rows == <<status, kind, seq>>
session == <<active, last, ended>>
uses == <<applied, launched>>
vars == <<rows, submitting, given, session, pc, batch, uses>>

Statuses == {"none", "pending", "consumed", "cancelled"}
Kinds == {"follow_up", "steer"}
Points == {"off", "loop", "steersRead", "applying", "finalRead", "answering",
           "ended", "demoteRead", "claim", "claimRead", "launch", "over"}

TypeOK ==
  /\ status \in [Inputs -> Statuses]
  /\ kind \in [Inputs -> Kinds]
  /\ seq \in [Inputs -> Nat] /\ given \in [Inputs -> Nat]
  /\ submitting \subseteq Inputs
  /\ active \in Runs \cup {0} /\ last \in Runs \cup {0}
  /\ ended \in [Runs -> {"no", "completed", "failed"}]
  /\ pc \in [Claimants -> Points]
  /\ batch \in [Claimants -> SUBSET Inputs]
  /\ applied \in [Inputs -> SUBSET Runs]
  /\ launched \in [Inputs -> Nat]

Init ==
  /\ status = [i \in Inputs |-> "none"]
  /\ kind = [i \in Inputs |-> "follow_up"]
  /\ seq = [i \in Inputs |-> 0] /\ given = [i \in Inputs |-> 0]
  /\ submitting = {}
  /\ active = 0 /\ last = 0
  /\ ended = [r \in Runs |-> "no"]
  /\ pc = [c \in Claimants |-> IF c = User THEN "over" ELSE "off"]
  /\ batch = [c \in Claimants |-> {}]
  /\ applied = [i \in Inputs |-> {}]
  /\ launched = [i \in Inputs |-> 0]

-----------------------------------------------------------------------------
(* Rows *)

Pending(k) == {i \in Inputs : status[i] = "pending" /\ kind[i] = k}
AllPending == Pending("follow_up") \cup Pending("steer")

\* orderBy sequence asc: the first of a set of rows; equal numbers leave the
\* choice to the database.
Firsts(rowset) == {i \in rowset : \A j \in rowset : seq[i] <= seq[j]}

SetStatus(rowset, to) ==
  status' = [i \in Inputs |-> IF i \in rowset THEN to ELSE status[i]]
SetKind(rowset, to) ==
  kind' = [i \in Inputs |-> IF i \in rowset THEN to ELSE kind[i]]

\* No transaction is between its statements and the run has not reached its end.
Midway == {"steersRead", "applying", "finalRead", "answering", "ended", "demoteRead",
           "claim", "claimRead", "launch"}
Quiet == \A c \in Claimants : pc[c] \notin Midway
MayRequest == Overlaps \/ Quiet

Step(c, from, to) == pc[c] = from /\ pc' = [pc EXCEPT ![c] = to]

-----------------------------------------------------------------------------
(* Requests *)

BelowLimit == Cardinality(AllPending) < MaxPending

NextSequence == Max({seq[j] : j \in Inputs}) + 1

\* submit(): a run is active, the key is new, the limit is not reached, and
\* the next number is computed from the newest row.
SubmitCheck(i) ==
  /\ MayRequest /\ (Overlaps \/ submitting = {})
  /\ active # 0 /\ status[i] = "none" /\ i \notin submitting
  /\ BelowLimit
  /\ submitting' = submitting \cup {i}
  /\ given' = [given EXCEPT ![i] = NextSequence]
  /\ UNCHANGED <<rows, session, pc, batch, uses>>

SubmitInsert(i) ==
  /\ i \in submitting
  /\ submitting' = submitting \ {i}
  /\ SetStatus({i}, "pending")
  /\ seq' = [seq EXCEPT ![i] = given[i]]
  /\ UNCHANGED <<kind, given, session, pc, batch, uses>>

\* promote(): one conditional update; the session needs no active run.
Promote(i) ==
  /\ MayRequest /\ (Overlaps \/ active # 0)
  /\ i \in Pending("follow_up")
  /\ SetKind({i}, "steer")
  /\ UNCHANGED <<status, seq, submitting, given, session, pc, batch, uses>>

Demote(i) ==
  /\ MayRequest
  /\ i \in Pending("steer")
  /\ SetKind({i}, "follow_up")
  /\ UNCHANGED <<status, seq, submitting, given, session, pc, batch, uses>>

Cancel(i) ==
  /\ MayRequest
  /\ i \in AllPending
  /\ SetStatus({i}, "cancelled")
  /\ UNCHANGED <<kind, seq, submitting, given, session, pc, batch, uses>>

\* resumeFollowUpQueue(): a run of the session has ended; claimFollowUp() follows.
Resume ==
  /\ MayRequest /\ (Overlaps \/ active = 0)
  /\ pc[User] = "over"
  /\ \E r \in Runs : ended[r] # "no"
  /\ pc' = [pc EXCEPT ![User] = "claim"]
  /\ UNCHANGED <<rows, submitting, given, session, batch, uses>>

\* sendFollowUp(): claimFollowUpById() of the input the user chose.
Send(i) ==
  /\ MayRequest /\ (Overlaps \/ active = 0)
  /\ pc[User] = "over"
  /\ \E r \in Runs : ended[r] # "no"
  /\ i \in Pending("follow_up")
  /\ SetStatus({i}, "consumed")
  /\ pc' = [pc EXCEPT ![User] = "launch"]
  /\ batch' = [batch EXCEPT ![User] = {i}]
  /\ UNCHANGED <<kind, seq, submitting, given, session, uses>>

Request(i) == SubmitCheck(i) \/ SubmitInsert(i) \/ Promote(i) \/ Demote(i) \/ Cancel(i)
              \/ Send(i)

-----------------------------------------------------------------------------
(* Runs *)

NewRun ==
  /\ active' = last + 1 /\ last' = last + 1
  /\ UNCHANGED ended

\* An ordinary message, or the wake-up of a finished background job.
Create ==
  /\ active = 0 /\ last < MaxRuns /\ submitting = {}
  /\ Creates \/ last = 0
  /\ NewRun
  /\ pc' = [pc EXCEPT ![last + 1] = "loop"]
  /\ UNCHANGED <<rows, submitting, given, batch, uses>>

\* claimSteers() before the second and every later model request: the read.
SteersRead(r) ==
  /\ Pending("steer") # {}
  /\ Step(r, "loop", "steersRead")
  /\ batch' = [batch EXCEPT ![r] = Pending("steer")]
  /\ UNCHANGED <<rows, submitting, given, session, uses>>

\* Rows of the batch the conditional update still finds.
StillSteers(r) == batch[r] \cap Pending("steer")

\* Mutant: the number of updated rows is not compared with the rows read.
SteersTakeUnchecked(r) ==
  /\ Step(r, "steersRead", "applying")
  /\ SetStatus(StillSteers(r), "consumed")
  /\ UNCHANGED <<kind, seq, submitting, given, session, batch, uses>>

\* claimSteers(): the update consumes what is left of the batch; the batch is
\* returned if that is all of it, and dropped otherwise.
SteersTake(r) ==
  /\ pc[r] = "steersRead"
  /\ SetStatus(StillSteers(r), "consumed")
  /\ IF StillSteers(r) = batch[r]
     THEN pc' = [pc EXCEPT ![r] = "applying"] /\ UNCHANGED batch
     ELSE pc' = [pc EXCEPT ![r] = "loop"] /\ batch' = [batch EXCEPT ![r] = {}]
  /\ UNCHANGED <<kind, seq, submitting, given, session, uses>>

\* Mutant: only the first steer of a batch is appended.
ApplyFirstSteer(r) ==
  /\ pc[r] = "applying" /\ active = r
  /\ \E i \in Firsts(batch[r]) : applied' = [applied EXCEPT ![i] = @ \cup {r}]
  /\ batch' = [batch EXCEPT ![r] = {}]
  /\ pc' = [pc EXCEPT ![r] = "loop"]
  /\ UNCHANGED <<rows, submitting, given, session, launched>>

\* appendTranscriptItem() for each steer in turn; it throws once the run has ended.
ApplySteer(r) ==
  /\ pc[r] = "applying" /\ active = r
  /\ \E i \in Firsts(batch[r]) :
       /\ applied' = [applied EXCEPT ![i] = @ \cup {r}]
       /\ batch' = [batch EXCEPT ![r] = @ \ {i}]
  /\ pc' = IF batch'[r] = {} THEN [pc EXCEPT ![r] = "loop"] ELSE pc
  /\ UNCHANGED <<rows, submitting, given, session, launched>>

\* The last model request answers only: demotePendingSteers(), then the update.
FinalRead(r) ==
  /\ Step(r, "loop", "finalRead")
  /\ batch' = [batch EXCEPT ![r] = Pending("steer")]
  /\ UNCHANGED <<rows, submitting, given, session, uses>>

DemoteBatch(r, from, to) ==
  /\ Step(r, from, to)
  /\ SetKind(StillSteers(r), "follow_up")
  /\ batch' = [batch EXCEPT ![r] = {}]
  /\ UNCHANGED <<status, seq, submitting, given, session, uses>>

FinalDemote(r) == DemoteBatch(r, "finalRead", "answering")

\* terminal(completed); the run is over for the session, the executor goes on.
Complete(r) ==
  /\ active = r /\ pc[r] \in {"loop", "answering"}
  /\ Overlaps \/ submitting = {}
  /\ active' = 0 /\ ended' = [ended EXCEPT ![r] = "completed"]
  /\ pc' = [pc EXCEPT ![r] = "ended"]
  /\ UNCHANGED <<rows, submitting, given, last, batch, uses>>

\* The row becomes failed or cancelled: by its executor, which stops at once, or
\* by a sweep, which the executor notices when it next writes.
Fail(r) ==
  /\ Fails
  /\ active = r
  /\ Overlaps \/ submitting = {}
  /\ active' = 0 /\ ended' = [ended EXCEPT ![r] = "failed"]
  /\ UNCHANGED <<rows, submitting, given, last, pc, batch, uses>>

\* The catch block of a run that has ended: nothing is demoted or started.
Stop(r) ==
  /\ active # r
  /\ pc[r] \in {"loop", "steersRead", "applying", "finalRead", "answering"}
  /\ pc' = [pc EXCEPT ![r] = "over"]
  /\ batch' = [batch EXCEPT ![r] = {}]
  /\ UNCHANGED <<rows, submitting, given, session, uses>>

\* demotePendingSteersAtTerminal()
DemoteRead(r) ==
  /\ Step(r, "ended", "demoteRead")
  /\ batch' = [batch EXCEPT ![r] = Pending("steer")]
  /\ UNCHANGED <<rows, submitting, given, session, uses>>

\* Mutant: the rows read are not updated.
DemotedNone(r) ==
  /\ Step(r, "demoteRead", "claim")
  /\ batch' = [batch EXCEPT ![r] = {}]
  /\ UNCHANGED <<rows, submitting, given, session, uses>>

\* Mutant: the executor does not look for follow-ups.
DemotedAndDone(r) == DemoteBatch(r, "demoteRead", "over")

Demoted(r) == DemoteBatch(r, "demoteRead", "claim")

-----------------------------------------------------------------------------
(* Follow-ups *)

\* Mutant: the newest follow-up is taken first.
Lasts(rowset) == {i \in rowset : \A j \in rowset : seq[i] >= seq[j]}
NextFollowUpsNewest == Lasts(Pending("follow_up"))

NextFollowUps == Firsts(Pending("follow_up"))

\* claimFollowUp(): the read.
ClaimRead(c) ==
  /\ pc[c] = "claim"
  /\ IF Pending("follow_up") = {}
     THEN pc' = [pc EXCEPT ![c] = "over"] /\ UNCHANGED batch
     ELSE /\ pc' = [pc EXCEPT ![c] = "claimRead"]
          /\ \E i \in NextFollowUps : batch' = [batch EXCEPT ![c] = {i}]
  /\ UNCHANGED <<rows, submitting, given, session, uses>>

\* The update asks for the status and not for the kind.
StillPending(c) == batch[c] \cap AllPending

ClaimTake(c) ==
  /\ pc[c] = "claimRead"
  /\ SetStatus(StillPending(c), "consumed")
  /\ IF StillPending(c) # {}
     THEN pc' = [pc EXCEPT ![c] = "launch"] /\ UNCHANGED batch
     ELSE pc' = [pc EXCEPT ![c] = "over"] /\ batch' = [batch EXCEPT ![c] = {}]
  /\ UNCHANGED <<kind, seq, submitting, given, session, uses>>

\* create() of the follow-up run.
Launch(c) ==
  /\ pc[c] = "launch"
  /\ active = 0 /\ last < MaxRuns
  /\ NewRun
  /\ launched' = [i \in Inputs |-> launched[i] + (IF i \in batch[c] THEN 1 ELSE 0)]
  /\ pc' = [pc EXCEPT ![c] = "over", ![last + 1] = "loop"]
  /\ batch' = [batch EXCEPT ![c] = {}]
  /\ UNCHANGED <<rows, submitting, given, applied>>

\* The session has an active run again: create() answers busy and throws.
LaunchRefused(c) ==
  /\ pc[c] = "launch"
  /\ active # 0
  /\ pc' = [pc EXCEPT ![c] = "over"]
  /\ batch' = [batch EXCEPT ![c] = {}]
  /\ UNCHANGED <<rows, submitting, given, session, uses>>

\* External: the process dies; after the restart the run in progress is failed.
Crash ==
  /\ Crashes
  /\ \E c \in Claimants : pc[c] \notin {"off", "over"}
  /\ pc' = [c \in Claimants |-> IF pc[c] = "off" THEN "off" ELSE "over"]
  /\ batch' = [c \in Claimants |-> {}]
  /\ submitting' = {}
  /\ active' = 0
  /\ ended' = IF active = 0 THEN ended ELSE [ended EXCEPT ![active] = "failed"]
  /\ UNCHANGED <<rows, given, last, uses>>

Execute(r) ==
  \/ SteersRead(r) \/ SteersTake(r) \/ ApplySteer(r) \/ FinalRead(r) \/ FinalDemote(r)
  \/ Complete(r) \/ Fail(r) \/ Stop(r) \/ DemoteRead(r) \/ Demoted(r)

Claim(c) == ClaimRead(c) \/ ClaimTake(c) \/ Launch(c) \/ LaunchRefused(c)

Next ==
  \/ \E i \in Inputs : Request(i)
  \/ Resume \/ Create \/ Crash
  \/ \E r \in Runs : Execute(r)
  \/ \E c \in Claimants : Claim(c)

Spec == Init /\ [][Next]_vars

\* A request that was checked inserts its row, an executor goes on, and a model
\* that is asked answers in the end.  Users owe nothing.
Fairness ==
  /\ \A i \in Inputs : WF_vars(SubmitInsert(i))
  /\ \A r \in Runs : WF_vars(Execute(r)) /\ WF_vars(Claim(r)) /\ SF_vars(Complete(r))

FairSpec == Spec /\ Fairness

-----------------------------------------------------------------------------
(* Properties *)

\* An input is used once at most, as a steer or as a follow-up, and only if it
\* was consumed: cancel, promote, demote, resume, send, the claims of steers
\* and of follow-ups all race for it through conditional updates.
UsedOnce ==
  \A i \in Inputs :
    Cardinality(applied[i]) + launched[i] <= (IF status[i] = "consumed" THEN 1 ELSE 0)

\* What the user cancelled is not executed, and what was executed is not offered
\* again: several transactions that have read a row pending race to settle it.
SettledStays ==
  [][ \A i \in Inputs : status[i] \in {"consumed", "cancelled"} => status'[i] = status[i] ]_vars

\* Nobody holds input i between consuming and using it.
InNoHand(i) ==
  \A c \in Claimants : pc[c] \in {"applying", "launch"} => i \notin batch[c]

\* A consumed input has had its effect, or somebody is about to cause it.
NothingConsumedIsLost ==
  \A i \in Inputs :
    status[i] = "consumed" /\ InNoHand(i) => applied[i] # {} \/ launched[i] > 0

\* Without a run, and unless the last one failed, no steer waits for one.
IdleSessionHasNoSteer ==
  active = 0 /\ last # 0 /\ ended[last] = "completed"
    /\ pc[last] \notin {"ended", "demoteRead"} => Pending("steer") = {}

\* The queue is taken from its front.
FifoDispatch ==
  [][ \A c \in Claimants : ClaimTake(c) =>
        \A i \in batch[c], j \in Pending("follow_up") :
          i \in StillPending(c) => seq[i] <= seq[j] ]_vars

\* A follow-up submitted during a run that completes does not wait for ever:
\* it is launched, cancelled or promoted, or a later run has failed.
QueueDrains ==
  \A i \in Inputs :
    i \in Pending("follow_up") ~>
      (i \notin Pending("follow_up") \/ \E r \in Runs : ended[r] = "failed")

==============================================================================
