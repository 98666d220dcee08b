------------------------------ MODULE DurableRun ------------------------------
(***************************************************************************)
(* What the durable run store promises, with nothing of how it keeps the   *)
(* promise: every run has one status; a session has at most one run that   *)
(* has not ended; an ended run never changes again; and a run becomes part *)
(* of its session's model history in the very step that completes it,      *)
(* never before, never without, and for good.                              *)
(***************************************************************************)
EXTENDS RunStatus

CONSTANTS
  Runs,          \* the run ids that requests may ask to create
  SessionOf      \* the session of the request behind each run id

VARIABLES
  status,        \* [Runs -> RunStatuses \cup {"none"}]
  history        \* the runs whose transcript later runs of the session read

vars == <<status, history>>

Init ==
  /\ status = [r \in Runs |-> "none"]
  /\ history = {}

Busy(s) == \E r \in Runs : SessionOf[r] = s /\ status[r] \in ActiveStatuses

\* A request is accepted only by a session without an unfinished run.
Accept(r) ==
  /\ status[r] = "none"
  /\ ~Busy(SessionOf[r])
  /\ status' = [status EXCEPT ![r] = "queued"]
  /\ UNCHANGED history

Move(r, from, to) ==
  /\ status[r] \in from
  /\ status' = [status EXCEPT ![r] = to]
  /\ UNCHANGED history

\* Execution begins, and a cancellation reaches a run that has begun.
Begin(r) == Move(r, {"queued"}, "running")
AskCancel(r) == Move(r, {"running"}, "cancel_requested")

\* Success: one step ends the run and publishes its transcript.
Complete(r) ==
  /\ status[r] = "running"
  /\ status' = [status EXCEPT ![r] = "completed"]
  /\ history' = history \cup {r}

Cancel(r) == Move(r, {"queued", "cancel_requested"}, "cancelled")
Fail(r) == Move(r, ActiveStatuses, "failed")

Next ==
  \E r \in Runs :
    \/ Accept(r) \/ Begin(r) \/ AskCancel(r)
    \/ Complete(r) \/ Cancel(r) \/ Fail(r)

Spec == Init /\ [][Next]_vars

==============================================================================
