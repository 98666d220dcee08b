-------------------------- MODULE RuntimeLifecycle ---------------------------
(***************************************************************************)
(* The RuntimeLifecycleController of one run, as operators on its record.  *)
(* Its methods are synchronous.  A promise that a method resolves is       *)
(* continued before any other request is handled, so the state "resuming", *)
(* which the continuation turns into "running", is passed through within   *)
(* one operator.                                                           *)
(***************************************************************************)
EXTENDS Naturals

EndStates == {"completed", "cancelled", "failed"}
ControlStates ==
  EndStates \union {"running", "pause_requested", "paused", "waiting_for_user", "cancel_requested"}
ControlPhases == {"tool_loop", "final_answer", "terminal"}

NoInterrupt == [kind |-> "none", id |-> 0]
Interrupts == {NoInterrupt} \union [kind : {"clarification", "tool_approval"}, id : Nat]

\* waits: the promise the runtime awaits; outcome: how the last interrupt ended.
Controllers == [state : ControlStates, phase : ControlPhases, disposed : BOOLEAN,
                interrupt : Interrupts, waits : {"nothing", "pause", "interrupt"},
                outcome : {"none", "resolved", "rejected"}]

NewController == [state |-> "running", phase |-> "tool_loop", disposed |-> FALSE,
                  interrupt |-> NoInterrupt, waits |-> "nothing", outcome |-> "none"]

-----------------------------------------------------------------------------
(* Boundaries the runtime reports.                                         *)

\* The phase after a boundary; onlyAnswer: no more tools will be offered.
PhaseAt(c, boundary, onlyAnswer) ==
  IF \/ boundary = "final_answer"
     \/ onlyAnswer /\ boundary \in {"before_model_request", "tool_batch_committed"}
  THEN "final_answer"
  ELSE IF c.phase = "final_answer" THEN c.phase ELSE "tool_loop"

\* The only boundaries at which a pause may hold the runtime.
\* Mutant: a pause may also hold the runtime between the calls of a batch and their answers.
PauseBoundariesInBatch == {"before_model_request", "tool_dispatch_ready", "tool_batch_committed"}
PauseBoundaries == {"before_model_request", "tool_batch_committed"}

\* Mutant: the boundary before the model request does not ask for a pause.
PausesHereAfterBatchOnly(c, boundary) ==
  boundary = "tool_batch_committed" /\ c.phase # "final_answer" /\ c.state = "pause_requested"
PausesHere(c, boundary) ==
  boundary \in PauseBoundaries /\ c.phase # "final_answer" /\ c.state = "pause_requested"

Reach(c, boundary, onlyAnswer) ==
  LET d == [c EXCEPT !.phase = PhaseAt(c, boundary, onlyAnswer)]
  IN IF c.disposed THEN c
     ELSE IF PausesHere(d, boundary) THEN [d EXCEPT !.state = "paused", !.waits = "pause"]
     ELSE d

-----------------------------------------------------------------------------
(* Requests of the user.                                                   *)

MayPause(c) ==
  /\ ~c.disposed
  /\ c.phase = "tool_loop"
  /\ c.state \notin EndStates \union {"paused", "pause_requested", "cancel_requested"}

RequestPause(c) == [c EXCEPT !.state = "pause_requested"]

MayResume(c) == ~c.disposed /\ c.state = "paused"

Resume(c) == [c EXCEPT !.state = "running", !.waits = "nothing"]

\* A request to cancel wakes whatever the runtime waits for.
\* Mutant: only an interrupt is woken, a paused runtime is not.
RequestCancelLeavesPause(c) ==
  IF c.disposed \/ c.state \in EndStates THEN c
  ELSE [c EXCEPT !.state = "cancel_requested",
                 !.waits = IF c.waits = "pause" THEN "pause" ELSE "nothing",
                 !.outcome = IF c.interrupt # NoInterrupt THEN "rejected" ELSE @,
                 !.interrupt = NoInterrupt]
RequestCancel(c) ==
  IF c.disposed \/ c.state \in EndStates THEN c
  ELSE [c EXCEPT !.state = "cancel_requested", !.waits = "nothing",
                 !.outcome = IF c.interrupt # NoInterrupt THEN "rejected" ELSE @,
                 !.interrupt = NoInterrupt]

\* createClarification() and createToolApproval(): whatever was requested before is overwritten.
CreateInterrupt(c, kind, id) ==
  [c EXCEPT !.interrupt = [kind |-> kind, id |-> id], !.state = "waiting_for_user",
            !.waits = "interrupt", !.outcome = "none"]

\* requireInterrupt(): the response names the interrupt that is pending, and is of its kind.
\* Mutant: any response of the right kind is taken for the pending interrupt.
MayRespondToAny(c, kind, id) == c.interrupt.kind = kind
MayRespond(c, kind, id) == c.interrupt = [kind |-> kind, id |-> id]

ResolveInterrupt(c) ==
  [c EXCEPT !.interrupt = NoInterrupt, !.state = "running", !.waits = "nothing",
            !.outcome = "resolved"]

-----------------------------------------------------------------------------
(* The end.                                                                *)

MarkTerminal(c, status) ==
  IF c.disposed THEN c
  ELSE [c EXCEPT !.phase = "terminal", !.state = status, !.waits = "nothing"]

Dispose(c) ==
  [c EXCEPT !.disposed = TRUE, !.waits = "nothing", !.interrupt = NoInterrupt,
            !.outcome = IF c.interrupt # NoInterrupt THEN "rejected" ELSE @]

=============================================================================
