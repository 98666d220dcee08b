--------------------------- MODULE AgentTurnProofs ---------------------------
(***************************************************************************)
(* What holds of the loop of a run for batches of any length, any tools    *)
(* and policies, any budgets and any interleaving of its users.  The       *)
(* invariant has six parts, each inductive given those before it:          *)
(*   FlowInv        what the runtime awaits, by where it is;               *)
(*   LoopInv        the phase of the tools and its budgets;                *)
(*   BatchInv       the plan of the batch lets only calls through that the *)
(*                  phase admits, and asks for the decisions they need;    *)
(*   RanInv         what was activated by a search, and run;               *)
(*   LateInv        the requests sent since a pause was accepted;          *)
(*   TranscriptInv  every batch is followed by its answers, or is the one  *)
(*                  that is being dispatched.                              *)
(***************************************************************************)
EXTENDS AgentTurn, FiniteSetTheorems, SequenceTheorems, WellFoundedInduction, TLAPS

Points == {"round", "hook", "model", "clarify", "prepare", "search", "approval", "tools",
           "batch", "done", "thrown", "ended"}

\* Nothing is awaited from a user.
Free(c) == c.waits = "nothing" /\ c.interrupt = NoInterrupt /\ c.state # "paused"

\* What the runtime awaits, by where it is.
FlowInv ==
  /\ ctl \in Controllers /\ pc \in Points /\ signal \in {"none", "aborted", "deadline"}
  /\ late \in Nat /\ round \in 0..MaxRounds
  /\ ctl.waits = "interrupt" <=> ctl.interrupt # NoInterrupt
  /\ ctl.waits = "pause" <=> ctl.state = "paused"
  /\ ctl.waits = "pause" => pc \in {"hook", "batch"}
  /\ ctl.interrupt # NoInterrupt =>
       \/ pc = "clarify" /\ ctl.interrupt = [kind |-> "clarification", id |-> round]
       \/ pc = "approval" /\ ctl.interrupt = [kind |-> "tool_approval", id |-> round]
  /\ ctl.disposed => pc = "ended"

\* The phase and the budgets of the loop.
LoopInv ==
  /\ retries \in 0..MaxRetries /\ only \in BOOLEAN /\ recovered \in BOOLEAN /\ planned \in BOOLEAN
  /\ toolPhase \in {"investigation", "delivery", "final_only"} /\ (only <=> toolPhase = "final_only")
  /\ investigation \in 0..MaxInvestigation /\ delivery \in 0..MaxDelivery
  /\ toolPhase = "investigation" => investigation < MaxInvestigation

\* The phase of the tools leaves room for the tool.
Admits(phase, tool) ==
  CountsTowardToolTurn(tool) =>
    phase = "investigation" \/ (phase = "delivery" /\ tool \in DeliveryTools)

\* Every call that needs a decision has one.
Decided ==
  \A i \in NeedsApproval(dispatch) : i \in refused \/ <<round, i>> \in granted

Dispatching == {"search", "approval", "tools"}

\* A dispatch plan of the batch: it lets only calls through that the phase admits.
SoundPlan(plan) ==
  /\ DOMAIN plan = DOMAIN calls
  /\ \A i \in DOMAIN calls :
       /\ plan[i] \in {"ready", "pending"} => Admits(toolPhase, calls[i])
       /\ plan[i] = "pending" => calls[i] \in Mcp

\* The batch, from its declaration to its answers.
BatchInv ==
  /\ calls \in Seq(STRING) /\ results \in Seq([call : Nat, over : BOOLEAN])
  /\ Answered \subseteq DOMAIN calls /\ refused \subseteq DOMAIN calls
  /\ pc \in Dispatching \union {"prepare"} => toolPhase # "final_only"
  /\ pc = "prepare" => Answered = {}
  /\ pc \in Dispatching => SoundPlan(dispatch)
  /\ pc = "search" => Searches(dispatch) \ Answered # {}
  /\ pc \in {"approval", "tools"} => Searches(dispatch) \subseteq Answered
  /\ pc = "tools" \/ (pc = "approval" /\ ctl.outcome = "resolved") => Decided

\* What was activated and run.
RanInv == activated \subseteq Deferred /\ OnlyAdmittedCallsRun

\* Model requests since a pause that has not taken effect.
LateInv ==
  /\ ctl.phase = "final_answer" => only \/ pc \in {"done", "thrown"}
  /\ pc \in {"hook", "model"} /\ only => ctl.phase = "final_answer"
  /\ ctl.state = "pause_requested" =>
       IF ctl.phase = "final_answer"
       THEN late <= (IF pc \in {"model", "done", "thrown"} THEN 2 + retries ELSE 1)
       ELSE late <= (IF pc = "hook" THEN 0 ELSE 1)

\* Every batch of calls is followed by its answers, and every answer follows its batch.
AnsweredUpTo(m, n) ==
  \A k \in 1..n :
    /\ m[k].role = "assistant" =>
         /\ k + Len(m[k].calls) <= n
         /\ \A i \in DOMAIN m[k].calls : m[k + i] = Message("tool", <<m[k].calls[i]>>)
    /\ m[k].role = "tool" =>
         \E j \in 1..(k - 1) : m[j].role = "assistant" /\ k - j \in DOMAIN m[j].calls

Roles == {"system", "user", "assistant", "plan", "tool"}
Messages == [role : Roles, calls : Seq(Nat \X Nat)]

Whole == {"round", "hook", "model", "clarify", "batch"}

TranscriptInv ==
  /\ messages \in Seq(Messages)
  /\ pc \in Whole => AnsweredUpTo(messages, Len(messages))
  /\ pc \in Dispatching \union {"prepare"} =>
       /\ Len(messages) > 0 /\ AnsweredUpTo(messages, Len(messages) - 1)
       /\ messages[Len(messages)] = Message("assistant", [i \in DOMAIN calls |-> <<round, i>>])

-----------------------------------------------------------------------------
(* The controller *)

\* What reaching a boundary does to a controller that awaits nothing (Reach, PausesHere).
LEMMA ReachShape ==
  ASSUME NEW c \in Controllers, Free(c), ~c.disposed, NEW b, NEW o \in BOOLEAN
  PROVE  LET d == Reach(c, b, o)
         IN /\ d \in Controllers /\ d.interrupt = NoInterrupt /\ ~d.disposed
            /\ d.outcome = c.outcome /\ d.phase = PhaseAt(c, b, o)
            /\ \/ d.waits = "nothing" /\ d.state = c.state
                  /\ (c.state = "pause_requested" =>
                        b \notin PauseBoundaries \/ PhaseAt(c, b, o) = "final_answer")
               \/ /\ d.waits = "pause" /\ d.state = "paused" /\ c.state = "pause_requested"
                  /\ b \in PauseBoundaries
<1> DEFINE d == [c EXCEPT !.phase = PhaseAt(c, b, o)]
           e == [d EXCEPT !.state = "paused", !.waits = "pause"]
<1>1. PhaseAt(c, b, o) \in ControlPhases
  BY DEF PhaseAt, ControlPhases, Controllers
<1>2. /\ d \in Controllers /\ d.interrupt = NoInterrupt /\ ~d.disposed /\ d.outcome = c.outcome
      /\ d.phase = PhaseAt(c, b, o) /\ d.waits = "nothing" /\ d.state = c.state
  BY <1>1 DEF Controllers, Free
<1> HIDE DEF d
<1>3. /\ e \in Controllers /\ e.interrupt = d.interrupt /\ e.disposed = d.disposed /\ e.outcome = d.outcome
      /\ e.phase = d.phase /\ e.waits = "pause" /\ e.state = "paused"
  BY <1>2 DEF Controllers, ControlStates
<1> HIDE DEF e
<1>4. Reach(c, b, o) = IF PausesHere(d, b) THEN e ELSE d
  BY DEF Reach, d, e
<1>5. PausesHere(d, b) <=> b \in PauseBoundaries /\ PhaseAt(c, b, o) # "final_answer"
                           /\ c.state = "pause_requested"
  BY <1>2 DEF PausesHere
<1>6. CASE PausesHere(d, b)
  BY <1>2, <1>3, <1>4, <1>5, <1>6
<1>7. CASE ~PausesHere(d, b)
  BY <1>2, <1>4, <1>5, <1>7
<1> QED BY <1>6, <1>7

\* What asking the user does to a controller (CreateInterrupt).
LEMMA InterruptShape ==
  ASSUME NEW c \in Controllers, ~c.disposed, NEW kind \in {"clarification", "tool_approval"}, NEW id \in Nat
  PROVE  LET d == CreateInterrupt(c, kind, id)
         IN /\ d \in Controllers /\ d.interrupt = [kind |-> kind, id |-> id] /\ ~d.disposed
            /\ d.outcome = "none" /\ d.phase = c.phase /\ d.waits = "interrupt"
            /\ d.state = "waiting_for_user" /\ d.interrupt # NoInterrupt
<1> DEFINE i == [kind |-> kind, id |-> id]
           d == [c EXCEPT !.interrupt = i, !.state = "waiting_for_user", !.waits = "interrupt",
                          !.outcome = "none"]
<1>1. i \in Interrupts /\ i # NoInterrupt
  BY DEF Interrupts, NoInterrupt
<1> HIDE DEF i
<1>2. /\ d \in Controllers /\ d.interrupt = i /\ d.disposed = c.disposed /\ d.outcome = "none"
      /\ d.phase = c.phase /\ d.waits = "interrupt" /\ d.state = "waiting_for_user"
  BY <1>1 DEF Controllers, ControlStates
<1> HIDE DEF d
<1>3. CreateInterrupt(c, kind, id) = d
  BY DEF CreateInterrupt, d, i
<1> QED BY <1>1, <1>2, <1>3 DEF i

\* What a cancel does to a controller: it wakes every wait (RequestCancel).
LEMMA CancelShape ==
  ASSUME NEW c \in Controllers,
         c.waits = "interrupt" <=> c.interrupt # NoInterrupt, c.waits = "pause" <=> c.state = "paused"
  PROVE  LET d == RequestCancel(c)
         IN /\ d \in Controllers /\ d.disposed = c.disposed /\ d.phase = c.phase
            /\ \/ d = c /\ (c.disposed \/ c.state \in EndStates)
               \/ /\ Free(d) /\ d.state = "cancel_requested"
                  /\ d.outcome = "rejected" \/ (c.interrupt = NoInterrupt /\ d.outcome = c.outcome)
<1>1. CASE c.disposed \/ c.state \in EndStates
  BY <1>1 DEF RequestCancel
<1>2. CASE ~(c.disposed \/ c.state \in EndStates)
  <2> DEFINE o == IF c.interrupt # NoInterrupt THEN "rejected" ELSE c.outcome
             d == [c EXCEPT !.state = "cancel_requested", !.waits = "nothing", !.outcome = o,
                            !.interrupt = NoInterrupt]
  <2>1. o \in {"none", "resolved", "rejected"} /\ NoInterrupt \in Interrupts
        /\ (o = "rejected" \/ (c.interrupt = NoInterrupt /\ o = c.outcome))
    BY DEF Controllers, Interrupts
  <2>2. RequestCancel(c) = d
    BY <1>2 DEF RequestCancel
  <2> HIDE DEF o
  <2>3. /\ d \in Controllers /\ d.interrupt = NoInterrupt /\ d.disposed = c.disposed /\ d.outcome = o
        /\ d.phase = c.phase /\ d.waits = "nothing" /\ d.state = "cancel_requested"
    BY <2>1 DEF Controllers, ControlStates
  <2> HIDE DEF d
  <2> QED BY <2>1, <2>2, <2>3 DEF Free
<1> QED BY <1>1, <1>2

\* What a pause, a resumption and a response do to a controller.
LEMMA RequestShape ==
  ASSUME NEW c \in Controllers
  PROVE  /\ LET d == RequestPause(c)
            IN /\ d \in Controllers /\ d.interrupt = c.interrupt /\ d.disposed = c.disposed
               /\ d.outcome = c.outcome /\ d.phase = c.phase /\ d.waits = c.waits
               /\ d.state = "pause_requested"
         /\ LET d == Resume(c)
            IN /\ d \in Controllers /\ d.interrupt = c.interrupt /\ d.disposed = c.disposed
               /\ d.outcome = c.outcome /\ d.phase = c.phase /\ d.waits = "nothing"
               /\ d.state = "running"
         /\ LET d == ResolveInterrupt(c)
            IN /\ d \in Controllers /\ d.interrupt = NoInterrupt /\ d.disposed = c.disposed
               /\ d.outcome = "resolved" /\ d.phase = c.phase /\ d.waits = "nothing"
               /\ d.state = "running"
<1> DEFINE p == [c EXCEPT !.state = "pause_requested"]
           r == [c EXCEPT !.state = "running", !.waits = "nothing"]
           i == [c EXCEPT !.interrupt = NoInterrupt, !.state = "running", !.waits = "nothing",
                          !.outcome = "resolved"]
<1>1. RequestPause(c) = p /\ Resume(c) = r /\ ResolveInterrupt(c) = i
  BY DEF RequestPause, Resume, ResolveInterrupt
<1>2. /\ p \in Controllers /\ p.interrupt = c.interrupt /\ p.disposed = c.disposed /\ p.outcome = c.outcome
      /\ p.phase = c.phase /\ p.waits = c.waits /\ p.state = "pause_requested"
  BY DEF Controllers, ControlStates
<1>3. /\ r \in Controllers /\ r.interrupt = c.interrupt /\ r.disposed = c.disposed /\ r.outcome = c.outcome
      /\ r.phase = c.phase /\ r.waits = "nothing" /\ r.state = "running"
  BY DEF Controllers, ControlStates
<1>4. /\ i \in Controllers /\ i.interrupt = NoInterrupt /\ i.disposed = c.disposed /\ i.outcome = "resolved"
      /\ i.phase = c.phase /\ i.waits = "nothing" /\ i.state = "running"
  BY DEF Controllers, ControlStates, Interrupts
<1> HIDE DEF p, r, i
<1> QED BY <1>1, <1>2, <1>3, <1>4

\* What the end of the run does to a controller (MarkTerminal, Dispose).
LEMMA EndShape ==
  ASSUME NEW c \in Controllers, ~c.disposed, NEW status \in EndStates
  PROVE  LET d == Dispose(MarkTerminal(c, status))
         IN /\ d \in Controllers /\ d.disposed /\ d.waits = "nothing" /\ d.interrupt = NoInterrupt
            /\ d.phase = "terminal" /\ d.state = status
<1> DEFINE m == [c EXCEPT !.phase = "terminal", !.state = status, !.waits = "nothing"]
           o == IF m.interrupt # NoInterrupt THEN "rejected" ELSE m.outcome
           d == [m EXCEPT !.disposed = TRUE, !.waits = "nothing", !.interrupt = NoInterrupt, !.outcome = o]
<1>1. m \in Controllers /\ m.phase = "terminal" /\ m.state = status
  BY DEF Controllers, ControlStates, ControlPhases
<1>2. MarkTerminal(c, status) = m
  BY DEF MarkTerminal
<1> HIDE DEF m
<1>3. o \in {"none", "resolved", "rejected"}
  BY <1>1 DEF Controllers
<1>4. Dispose(m) = d
  BY DEF Dispose
<1> HIDE DEF o
<1>5. /\ d \in Controllers /\ d.disposed /\ d.waits = "nothing" /\ d.interrupt = NoInterrupt
      /\ d.phase = "terminal" /\ d.state = status
  BY <1>1, <1>3 DEF Controllers, Interrupts
<1> HIDE DEF d
<1> QED BY <1>2, <1>4, <1>5

-----------------------------------------------------------------------------
(* Where the runtime is and what it awaits *)

\* Every step keeps FlowInv.
LEMMA FlowSteps ==
  ASSUME FlowInv, only \in BOOLEAN, only' \in BOOLEAN, [TurnNext]_turnVars
  PROVE  FlowInv'
<1> USE DEF flow, loop, batch, Throw
<1>0. MaxRounds \in Nat
  BY TurnBounds
<1>1. ctl.waits = "nothing" => Free(ctl)
  BY DEF FlowInv, Free
<1>2. pc \notin {"hook", "batch", "clarify", "approval"} => ctl.waits = "nothing"
  BY DEF FlowInv, Controllers
<1>3. /\ ctl \in Controllers /\ pc \in Points /\ late \in Nat /\ round \in 0..MaxRounds /\ round \in Nat
      /\ signal \in {"none", "aborted", "deadline"} /\ (pc # "ended" => ~ctl.disposed)
  BY <1>0 DEF FlowInv
<1> DEFINE Others == /\ pc' \in Points /\ late' \in Nat /\ round' \in 0..MaxRounds
                     /\ signal' \in {"none", "aborted", "deadline"}
\* Nothing is awaited afterwards.
<1>4. ASSUME NEW c \in Controllers, ctl' = c, Free(c), c.disposed => pc' = "ended", Others PROVE FlowInv'
  BY <1>4 DEF FlowInv, Free
<1>5. ASSUME Free(ctl), ctl' = ctl, pc # "ended", Others PROVE FlowInv'
  BY <1>3, <1>4, <1>5
\* A boundary is reached.
<1>6. ASSUME NEW b, NEW o \in BOOLEAN, pc # "ended", ctl.waits = "nothing"
      PROVE  LET d == Reach(ctl, b, o)
             IN /\ d \in Controllers /\ d.interrupt = NoInterrupt /\ ~d.disposed
                /\ \/ Free(d)
                   \/ d.waits = "pause" /\ d.state = "paused" /\ b \in PauseBoundaries
  <2> DEFINE d == Reach(ctl, b, o)
  <2>1. Free(ctl) /\ ~ctl.disposed
    BY <1>1, <1>3, <1>6
  <2>2. /\ d \in Controllers /\ d.interrupt = NoInterrupt /\ ~d.disposed
        /\ \/ d.waits = "nothing" /\ d.state = ctl.state
           \/ d.waits = "pause" /\ d.state = "paused" /\ b \in PauseBoundaries
    BY <1>3, <2>1, ReachShape
  <2> HIDE DEF d
  <2>3. QED BY <2>1, <2>2 DEF Free, d
<1>7. ASSUME NEW b, NEW o \in BOOLEAN, pc # "ended", ctl.waits = "nothing", ctl' = Reach(ctl, b, o),
             Others, pc' \in {"hook", "batch"}
      PROVE  FlowInv'
  <2> DEFINE d == Reach(ctl, b, o)
  <2>1. /\ d \in Controllers /\ d.interrupt = NoInterrupt /\ ~d.disposed
        /\ \/ Free(d)
           \/ d.waits = "pause" /\ d.state = "paused" /\ b \in PauseBoundaries
    BY <1>6, <1>7
  <2>2. ctl' = d
    BY <1>7
  <2> HIDE DEF d
  <2>3. CASE Free(d)
    BY <1>4, <1>7, <2>1, <2>2, <2>3
  <2>4. CASE d.waits = "pause" /\ d.state = "paused"
    BY <1>7, <2>1, <2>2, <2>4 DEF FlowInv
  <2> QED BY <2>1, <2>3, <2>4
<1>8. ASSUME NEW b, b \notin PauseBoundaries, NEW o \in BOOLEAN, pc # "ended", ctl.waits = "nothing"
      PROVE  Reach(ctl, b, o) \in Controllers /\ Free(Reach(ctl, b, o)) /\ ~Reach(ctl, b, o).disposed
  BY <1>6, <1>8
<1>9. \A b \in {"model_round_classified", "final_answer", "tool_dispatch_ready"} : b \notin PauseBoundaries
  BY DEF PauseBoundaries
\* An interrupt is created.
<1>10. ASSUME NEW c \in Controllers, ~c.disposed, NEW kind,
              \/ kind = "clarification" /\ pc' = "clarify"
              \/ kind = "tool_approval" /\ pc' = "approval",
              ctl' = CreateInterrupt(c, kind, round), round' = round, Others
       PROVE  FlowInv'
  <2> DEFINE d == CreateInterrupt(c, kind, round)
  <2>1. kind \in {"clarification", "tool_approval"}
    BY <1>10
  <2>2. /\ d \in Controllers /\ d.interrupt = [kind |-> kind, id |-> round] /\ ~d.disposed
        /\ d.waits = "interrupt" /\ d.state = "waiting_for_user" /\ d.interrupt # NoInterrupt
    BY <1>3, <1>10, <2>1, InterruptShape
  <2>3. ctl' = d
    BY <1>10
  <2> HIDE DEF d
  <2> QED BY <1>10, <2>2, <2>3 DEF FlowInv
<1>11. ASSUME NEW plan, NEW active, NEW c \in Controllers, Free(c), ~c.disposed, Settle(plan, active, c),
              UNCHANGED <<round, late, signal>>
       PROVE  FlowInv'
  <2>1. \/ pc' = "tools" /\ ctl' = c
        \/ pc' = "approval" /\ ctl' = CreateInterrupt(c, "tool_approval", round)
    BY <1>11 DEF Settle
  <2>2. CASE pc' = "tools" /\ ctl' = c
    BY <1>3, <1>4, <1>11, <2>2 DEF Points
  <2>3. CASE pc' = "approval" /\ ctl' = CreateInterrupt(c, "tool_approval", round)
    BY <1>3, <1>10, <1>11, <2>3 DEF Points
  <2> QED BY <2>1, <2>2, <2>3
<1>12. CASE UNCHANGED turnVars
  BY <1>12 DEF turnVars, FlowInv
<1>13. CASE StartRound
  <2>1. Others /\ pc' = "hook" /\ pc = "round"
    BY <1>0, <1>3, <1>13 DEF StartRound, Points
  <2> QED BY <1>2, <1>7, <1>13, <2>1 DEF StartRound
<1>14. CASE StopLooping \/ AskModel \/ RoundFails \/ Clarified \/ Approved \/ RunTool \/ AfterBatch
  <2>1. pc # "ended" /\ ctl.waits = "nothing"
    BY <1>2, <1>14 DEF StopLooping, AskModel, RoundFails, Clarified, Approved, RunTool, AfterBatch
  <2>2. ctl' = ctl
    BY <1>14 DEF StopLooping, AskModel, RoundFails, Clarified, Approved, RunTool, AfterBatch, Repeat
  <2>3. Others
    BY <1>3, <1>14 DEF StopLooping, AskModel, RoundFails, Clarified, Approved, RunTool, AfterBatch, Repeat,
                      Requested, Points
  <2> QED BY <1>1, <1>5, <2>1, <2>2, <2>3
<1>15. CASE SkipCall
  BY <1>15 DEF SkipCall, FlowInv
<1>16. CASE ModelAnswers
  <2> DEFINE c == Reach(ctl, "model_round_classified", only)
             d == Reach(c, "final_answer", only)
  <2>1. pc = "model" /\ ctl' = d /\ Others /\ ctl.waits = "nothing" /\ pc # "ended"
    BY <1>2, <1>3, <1>16 DEF ModelAnswers, Points
  <2>2. c \in Controllers /\ Free(c) /\ ~c.disposed
    BY <1>8, <1>9, <2>1
  <2> HIDE DEF c
  <2>3. /\ d \in Controllers /\ d.interrupt = NoInterrupt /\ ~d.disposed
        /\ \/ d.waits = "nothing" /\ d.state = c.state
           \/ d.waits = "pause" /\ d.state = "paused" /\ "final_answer" \in PauseBoundaries
    BY <2>2, ReachShape
  <2> HIDE DEF d
  <2>4. Free(d)
    BY <1>9, <2>2, <2>3 DEF Free
  <2> QED BY <1>4, <2>1, <2>3, <2>4
<1>17. CASE ModelReturnsNothing
  <2>1. pc = "model" /\ Others /\ ctl' = Reach(ctl, "model_round_classified", only)
    BY <1>3, <1>17 DEF ModelReturnsNothing, Repeat, Points
  <2> QED BY <1>2, <1>4, <1>8, <1>9, <2>1
<1>18. CASE ModelIsCutOff
  <2>1. pc = "model" /\ Others /\ ctl' = ctl
    BY <1>3, <1>18 DEF ModelIsCutOff, Repeat, Requested, Points
  <2> QED BY <1>1, <1>2, <1>5, <2>1
<1>19. CASE ModelClarifies
  <2> DEFINE c == Reach(ctl, "model_round_classified", only)
  <2>1. pc = "model" /\ Others /\ ctl' = CreateInterrupt(c, "clarification", round) /\ pc' = "clarify"
        /\ round' = round
    BY <1>3, <1>19 DEF ModelClarifies, Points
  <2>2. c \in Controllers /\ ~c.disposed
    BY <1>2, <1>8, <1>9, <2>1
  <2> HIDE DEF c
  <2> QED BY <1>10, <2>1, <2>2
<1>20. CASE \E b \in Batches : ModelCalls(b)
  <2>1. pc = "model" /\ Others /\ ctl' = Reach(ctl, "model_round_classified", only)
    BY <1>3, <1>20 DEF ModelCalls, Points
  <2> QED BY <1>2, <1>4, <1>8, <1>9, <2>1
<1>21. CASE PrepareBatch
  <2> DEFINE c == Reach(ctl, "tool_dispatch_ready", only)
  <2>1. pc = "prepare" /\ UNCHANGED <<round, late, signal>>
    BY <1>21 DEF PrepareBatch
  <2>2. c \in Controllers /\ Free(c) /\ ~c.disposed
    BY <1>2, <1>8, <1>9, <2>1
  <2>3. \/ ctl' = c /\ pc' \in {"thrown", "search"}
        \/ \E plan : Settle(plan, activated, c)
    BY <1>21 DEF PrepareBatch
  <2> HIDE DEF c
  <2>4. CASE ctl' = c /\ pc' \in {"thrown", "search"}
    BY <1>3, <1>4, <2>1, <2>2, <2>4 DEF Points
  <2>5. CASE \E plan : Settle(plan, activated, c)
    BY <1>11, <2>1, <2>2, <2>5
  <2> QED BY <2>3, <2>4, <2>5
<1>22. CASE Search
  <2>1. pc = "search" /\ UNCHANGED <<round, late, signal>>
    BY <1>22 DEF Search
  <2>2. Free(ctl) /\ ~ctl.disposed
    BY <1>1, <1>2, <1>3, <2>1
  <2>3. \/ ctl' = ctl /\ pc' \in {"thrown", "search"}
        \/ \E active : Settle(dispatch, active, ctl)
    BY <1>22, <2>1 DEF Search
  <2>4. CASE ctl' = ctl /\ pc' \in {"thrown", "search"}
    BY <1>3, <1>5, <2>1, <2>2, <2>4 DEF Points
  <2>5. CASE \E active : Settle(dispatch, active, ctl)
    BY <1>3, <1>11, <2>1, <2>2, <2>5
  <2> QED BY <2>3, <2>4, <2>5
<1>23. CASE CommitBatch
  <2>1. pc = "tools" /\ Others /\ ctl' = Reach(ctl, "tool_batch_committed", only') /\ pc' = "batch"
    BY <1>3, <1>23 DEF CommitBatch, Points
  <2> QED BY <1>2, <1>7, <2>1
<1>24. CASE EndTurn
  <2> DEFINE status == IF pc = "done" THEN "completed"
                       ELSE IF signal = "aborted" THEN "cancelled" ELSE "failed"
             d == Dispose(MarkTerminal(ctl, status))
  <2>1. pc # "ended" /\ pc' = "ended" /\ ctl' = d /\ Others
    BY <1>3, <1>24 DEF EndTurn, Points
  <2>2. status \in EndStates
    BY DEF EndStates
  <2> HIDE DEF status
  <2>3. /\ d \in Controllers /\ d.waits = "nothing" /\ d.interrupt = NoInterrupt /\ d.state = status
    BY <1>3, <2>1, <2>2, EndShape
  <2> HIDE DEF d
  <2>4. Free(d)
    BY <2>2, <2>3 DEF Free, EndStates
  <2> QED BY <1>4, <2>1, <2>3, <2>4
<1>25. CASE Pause
  <2> DEFINE d == RequestPause(ctl)
  <2>1. UNCHANGED <<pc, signal, round>> /\ late' = 0 /\ ctl' = d /\ MayPause(ctl)
    BY <1>25 DEF Pause
  <2>2. /\ d \in Controllers /\ d.interrupt = ctl.interrupt /\ d.disposed = ctl.disposed
        /\ d.waits = ctl.waits /\ d.state = "pause_requested"
    BY <1>3, RequestShape
  <2>3. ctl.state # "paused"
    BY <2>1 DEF MayPause
  <2> HIDE DEF d
  <2> QED BY <2>1, <2>2, <2>3 DEF FlowInv
<1>26. CASE ResumeRun
  <2> DEFINE d == Resume(ctl)
  <2>1. UNCHANGED <<pc, signal, round, late>> /\ ctl' = d /\ MayResume(ctl)
    BY <1>26 DEF ResumeRun
  <2>2. /\ d \in Controllers /\ d.interrupt = ctl.interrupt /\ d.disposed = ctl.disposed
        /\ d.waits = "nothing" /\ d.state = "running"
    BY <1>3, RequestShape
  <2>3. ctl.state = "paused"
    BY <2>1 DEF MayResume
  <2> HIDE DEF d
  <2> QED BY <2>1, <2>2, <2>3 DEF FlowInv
<1>27. CASE (\E id \in 1..MaxRounds : Respond(id))
            \/ \E id \in 1..MaxRounds : \E yes, no \in SUBSET DOMAIN calls : Decide(id, yes, no)
  <2> DEFINE d == ResolveInterrupt(ctl)
  <2>1. UNCHANGED <<pc, signal, round, late>> /\ ctl' = d
    BY <1>27 DEF Respond, Decide
  <2>2. ctl.interrupt # NoInterrupt
    <3>1. \E kind \in {"clarification", "tool_approval"} : \E id : MayRespond(ctl, kind, id)
      BY <1>27 DEF Respond, Decide
    <3> QED BY <3>1 DEF MayRespond, NoInterrupt
  <2>3. pc # "ended"
    BY <2>2 DEF FlowInv
  <2>4. /\ d \in Controllers /\ d.interrupt = NoInterrupt /\ d.disposed = ctl.disposed
        /\ d.waits = "nothing" /\ d.state = "running"
    BY <1>3, RequestShape
  <2> HIDE DEF d
  <2>5. Free(d)
    BY <2>4 DEF Free
  <2> QED BY <1>3, <1>4, <2>1, <2>3, <2>4, <2>5
<1>28. CASE Cancel
  <2> DEFINE d == RequestCancel(ctl)
  <2>1. UNCHANGED <<pc, round, late>> /\ signal' = "aborted" /\ ctl' = d
    BY <1>28 DEF Cancel
  <2>2. /\ d \in Controllers /\ d.disposed = ctl.disposed /\ (d = ctl \/ Free(d))
    BY <1>3, CancelShape DEF FlowInv
  <2> HIDE DEF d
  <2>3. CASE d = ctl
    BY <2>1, <2>3 DEF FlowInv
  <2>4. CASE Free(d)
    BY <1>3, <1>4, <2>1, <2>2, <2>4
  <2> QED BY <2>2, <2>3, <2>4
<1>29. CASE Deadline
  BY <1>29 DEF Deadline, FlowInv
<1> QED BY <1>12, <1>13, <1>14, <1>15, <1>16, <1>17, <1>18, <1>19, <1>20, <1>21, <1>22, <1>23, <1>24, <1>25,
           <1>26, <1>27, <1>28, <1>29 DEF TurnNext, Runtime, Users

-----------------------------------------------------------------------------
(* The loop *)

\* Every step keeps LoopInv.
LEMMA LoopSteps ==
  ASSUME LoopInv, FlowInv, [TurnNext]_turnVars
  PROVE  LoopInv'
<1> USE DEF flow, loop, batch, Throw
<1>0. MaxInvestigation \in Nat \ {0} /\ MaxDelivery \in Nat \ {0} /\ MaxRetries \in Nat
  BY TurnBounds
<1>1. CASE UNCHANGED <<only, toolPhase, investigation, delivery, recovered, retries, planned>>
  BY <1>1 DEF LoopInv
<1>2. CASE ModelReturnsNothing
  BY <1>2 DEF ModelReturnsNothing, EnterFinal, LoopInv
<1>3. CASE ModelIsCutOff
  BY <1>0, <1>3 DEF ModelIsCutOff, LoopInv
<1>4. CASE SkipCall
  <2>1. planned' \in BOOLEAN
    BY <1>4 DEF SkipCall, LoopInv
  <2> QED BY <1>4, <2>1 DEF SkipCall, LoopInv
<1>5. CASE CommitBatch
  <2>1. EnterFinal \/ UNCHANGED <<only, toolPhase>>
    BY <1>5 DEF CommitBatch
  <2>2. UNCHANGED <<investigation, delivery, recovered, retries, planned>>
    BY <1>5 DEF CommitBatch
  <2>3. only' \in BOOLEAN
    BY <2>1, Zenon DEF EnterFinal, LoopInv
  <2>4. only' <=> toolPhase' = "final_only"
    <3>1. only <=> toolPhase = "final_only"
      BY DEF LoopInv
    <3>2. CASE EnterFinal
      BY <3>2 DEF EnterFinal
    <3>3. CASE UNCHANGED <<only, toolPhase>>
      BY <3>1, <3>3
    <3> QED BY <2>1, <3>2, <3>3
  <2>5. /\ toolPhase' \in {"investigation", "delivery", "final_only"}
        /\ toolPhase' = "investigation" => investigation' < MaxInvestigation
        /\ investigation' \in 0..MaxInvestigation /\ delivery' \in 0..MaxDelivery
    BY <2>1, <2>2 DEF EnterFinal, LoopInv
  <2>6. retries' \in 0..MaxRetries /\ recovered' \in BOOLEAN /\ planned' \in BOOLEAN
    BY <2>2, Zenon DEF LoopInv
  <2> QED BY <2>3, <2>4, <2>5, <2>6, Zenon DEF LoopInv
<1>6. CASE AfterBatch /\ signal = "none"
  <2>1. CountTurn /\ UNCHANGED <<recovered, retries, planned>>
    BY <1>6 DEF AfterBatch
  <2> DEFINE counts == \E i \in DOMAIN calls : CountsTowardToolTurn(calls[i])
  <2>2. /\ investigation' = investigation + (IF counts /\ toolPhase = "investigation" THEN 1 ELSE 0)
        /\ delivery' = delivery + (IF counts /\ toolPhase = "delivery" /\ delivery < MaxDelivery THEN 1 ELSE 0)
        /\ \/ only' = TRUE /\ toolPhase' = "final_only"
           \/ counts /\ toolPhase = "investigation" /\ toolPhase' = "delivery" /\ only' = only
           \/ ~(counts /\ toolPhase = "investigation" /\ investigation + 1 >= MaxInvestigation)
              /\ UNCHANGED <<only, toolPhase>>
    BY <2>1 DEF CountTurn, EnterFinal, Investigated
  <2> HIDE DEF counts
  <2>3. investigation' \in 0..MaxInvestigation /\ delivery' \in 0..MaxDelivery
    BY <1>0, <2>2 DEF LoopInv
  <2>4. toolPhase' = "investigation" => investigation' < MaxInvestigation
    BY <1>0, <2>2 DEF LoopInv
  <2>5. toolPhase' \in {"investigation", "delivery", "final_only"}
    BY <2>2 DEF LoopInv
  <2>6. only' \in BOOLEAN
    BY <2>2, Zenon DEF LoopInv
  <2>7. only' <=> toolPhase' = "final_only"
    <3>1. only <=> toolPhase = "final_only"
      BY DEF LoopInv
    <3>2. CASE only' = TRUE /\ toolPhase' = "final_only"
      BY <3>2
    <3>3. CASE counts /\ toolPhase = "investigation" /\ toolPhase' = "delivery" /\ only' = only
      BY <3>1, <3>3
    <3>4. CASE UNCHANGED <<only, toolPhase>>
      BY <3>1, <3>4
    <3> QED BY <2>2, <3>2, <3>3, <3>4
  <2>8. retries' \in 0..MaxRetries /\ recovered' \in BOOLEAN /\ planned' \in BOOLEAN
    BY <2>1, Zenon DEF LoopInv
  <2> QED BY <2>3, <2>4, <2>5, <2>6, <2>7, <2>8, Zenon DEF LoopInv
<1>7. QED
  <2>1. CASE UNCHANGED turnVars
    BY <1>1, <2>1 DEF turnVars
  <2>2. CASE Users
    BY <1>1, <2>2 DEF Users, Pause, ResumeRun, Cancel, Deadline, Respond, Decide
  <2>3. CASE Runtime
    BY <1>1, <1>2, <1>3, <1>4, <1>5, <1>6, <2>3
       DEF Runtime, StartRound, StopLooping, AskModel, RoundFails, ModelAnswers, ModelClarifies, Clarified,
           ModelCalls, PrepareBatch, Search, Approved, RunTool, AfterBatch, EndTurn
  <2> QED BY <2>1, <2>2, <2>3 DEF TurnNext

-----------------------------------------------------------------------------
(* The batch *)

\* The call that is next is one of those that are open.
LEMMA FirstIsMember ==
  ASSUME NEW S, S \subseteq Nat, S # {}
  PROVE  FirstOf(S) \in S
<1>1. PICK x \in S : \A y \in S : ~(<<y, x>> \in OpToRel(<, Nat))
  BY NatLessThanWellFounded, WFMin, Zenon
<1>2. \A y \in S : ~(y < x)
  <2>1. \A y, z \in Nat : y < z => <<y, z>> \in OpToRel(<, Nat)
    BY Zenon DEF OpToRel
  <2> QED BY <1>1, <2>1, Zenon
<1>3. \A y \in S : x <= y
  BY <1>2
<1> QED BY <1>3 DEF FirstOf

\* A call that the budget allows is admitted by the phase (evaluateToolDispatchBudget).
LEMMA BudgetAdmits ==
  ASSUME LoopInv, NEW tool
  PROVE  /\ Budget(tool) \in {"allow", "over", "reject"}
         /\ Budget(tool) = "allow" => Admits(toolPhase, tool)
BY DEF Budget, Admits, LoopInv

\* The plan of a batch lets only calls through that the phase admits.
LEMMA PlanIsSound ==
  ASSUME LoopInv, NEW bad
  PROVE  SoundPlan(Plan(bad))
<1>1. \A i \in DOMAIN calls : /\ Budget(calls[i]) \in {"allow", "over", "reject"}
                              /\ Budget(calls[i]) = "allow" => Admits(toolPhase, calls[i])
  BY BudgetAdmits
<1>2. DOMAIN Plan(bad) = DOMAIN calls
  BY DEF Plan
<1>3. ASSUME NEW i \in DOMAIN calls
      PROVE  /\ Budget(calls[i]) # "allow" => Plan(bad)[i] = Budget(calls[i])
             /\ Budget(calls[i]) = "allow" /\ calls[i] \notin Mcp => Plan(bad)[i] # "pending"
  BY <1>3 DEF Plan
<1> QED BY <1>1, <1>2, <1>3 DEF SoundPlan

\* So does the plan once its MCP calls were resolved, and its searches stay what they are.
LEMMA ResolvedIsSound ==
  ASSUME NEW plan, SoundPlan(plan), NEW active, NEW bad
  PROVE  /\ SoundPlan(Resolved(plan, active, bad))
         /\ Searches(Resolved(plan, active, bad)) = Searches(plan)
<1> DEFINE p == Resolved(plan, active, bad)
<1>1. DOMAIN p = DOMAIN plan /\ DOMAIN plan = DOMAIN calls
      /\ \A i \in DOMAIN plan : \/ plan[i] # "pending" /\ p[i] = plan[i]
                                \/ plan[i] = "pending" /\ p[i] \in {"ready", "reject"}
  BY DEF Resolved, SoundPlan
<1> HIDE DEF p
<1>2. SoundPlan(p)
  BY <1>1 DEF SoundPlan
<1>3. \A i \in DOMAIN plan : plan[i] = "pending" => calls[i] # "tool_search"
  BY TurnTools DEF SoundPlan
<1>4. Searches(p) = Searches(plan)
  BY <1>1, <1>3 DEF Searches, With
<1> QED BY <1>2, <1>4 DEF p

\* The batch is settled: it waits for a decision, or none is needed.
LEMMA SettleShape ==
  ASSUME NEW plan, SoundPlan(plan), NEW active, NEW c, Settle(plan, active, c),
         UNCHANGED <<calls, toolPhase>>
  PROVE  /\ SoundPlan(dispatch)' /\ Searches(dispatch)' = Searches(plan)
         /\ \/ pc' = "tools" /\ ctl' = c /\ NeedsApproval(dispatch)' = {}
            \/ pc' = "approval" /\ ctl' = CreateInterrupt(c, "tool_approval", round)
<1>1. PICK bad : /\ dispatch' = Resolved(plan, active, bad)
                 /\ IF NeedsApproval(Resolved(plan, active, bad)) = {} THEN pc' = "tools" /\ ctl' = c
                    ELSE pc' = "approval" /\ ctl' = CreateInterrupt(c, "tool_approval", round)
  BY DEF Settle
<1> DEFINE p == Resolved(plan, active, bad)
<1>2. SoundPlan(p) /\ Searches(p) = Searches(plan)
  BY ResolvedIsSound
<1>3. dispatch' = p /\ (NeedsApproval(p) = {} => pc' = "tools" /\ ctl' = c)
      /\ (NeedsApproval(p) # {} => pc' = "approval" /\ ctl' = CreateInterrupt(c, "tool_approval", round))
  BY <1>1
<1> HIDE DEF p
<1>4. SoundPlan(dispatch)' /\ Searches(dispatch)' = Searches(p) /\ NeedsApproval(dispatch)' = NeedsApproval(p)
  BY <1>2, <1>3 DEF SoundPlan, Searches, NeedsApproval, With
<1> QED BY <1>2, <1>3, <1>4

\* An answer adds the call to those that are answered.
LEMMA AnswerAdds ==
  ASSUME results \in Seq([call : Nat, over : BOOLEAN]), NEW i \in Nat, Answer(i)
  PROVE  results' \in Seq([call : Nat, over : BOOLEAN]) /\ Answered' = Answered \union {i}
<1> DEFINE r == [call |-> i, over |-> dispatch[i] = "over"]
           q == Append(results, r)
<1>1. r \in [call : Nat, over : BOOLEAN] /\ r.call = i
  OBVIOUS
<1>2. results' = q
  BY DEF Answer
<1> HIDE DEF r
<1>3. /\ q \in Seq([call : Nat, over : BOOLEAN]) /\ DOMAIN q = DOMAIN results \union {Len(results) + 1}
      /\ \A k \in DOMAIN results : q[k] = results[k]
      /\ q[Len(results) + 1] = r
  BY <1>1
<1> HIDE DEF q
<1>4. {q[k].call : k \in DOMAIN q} = {results[k].call : k \in DOMAIN results} \union {i}
  BY <1>1, <1>3
<1> QED BY <1>2, <1>3, <1>4 DEF Answered

\* The call that is next is open, and no search is left when it is not one.
LEMMA NextIsOpen ==
  ASSUME calls \in Seq(STRING), Answered \subseteq DOMAIN calls, DOMAIN calls # Answered
  PROVE  /\ NextCall \in DOMAIN calls \ Answered /\ NextCall \in Nat
         /\ calls[NextCall] = "tool_search" \/
            \A i \in DOMAIN calls \ Answered : calls[i] # "tool_search"
<1> DEFINE open == DOMAIN calls \ Answered
           searches == {i \in open : calls[i] = "tool_search"}
<1>0. DOMAIN calls = 1..Len(calls) /\ Len(calls) \in Nat
  OBVIOUS
<1>1. open \subseteq Nat /\ searches \subseteq open
  BY <1>0
<1>2. open # {}
  BY Zenon
<1>3. NextCall = IF searches # {} THEN FirstOf(searches) ELSE FirstOf(open)
  BY DEF NextCall
<1>4. FirstOf(open) \in open /\ (searches # {} => FirstOf(searches) \in searches)
  BY <1>1, <1>2, FirstIsMember
<1> QED BY <1>1, <1>3, <1>4

\* Every step keeps BatchInv.
LEMMA BatchSteps ==
  ASSUME BatchInv, FlowInv, LoopInv, [TurnNext]_turnVars
  PROVE  BatchInv'
<1> USE DEF flow, loop, batch, Throw
\* The dispatch of the batch is over.
<1>1. ASSUME UNCHANGED <<calls, results, refused>>, pc' \notin Dispatching \union {"prepare"}
      PROVE  BatchInv'
  BY <1>1 DEF BatchInv, Answered, Dispatching
\* Nothing of the batch changes but the controller.
<1>2. ASSUME UNCHANGED <<calls, results, refused, dispatch, granted, toolPhase, round, pc>>,
             pc = "approval" /\ ctl'.outcome = "resolved" => ctl.outcome = "resolved"
      PROVE  BatchInv'
  <2>1. Answered' = Answered /\ Decided' = Decided /\ SoundPlan(dispatch)' = SoundPlan(dispatch)
        /\ Searches(dispatch)' = Searches(dispatch)
    BY <1>2 DEF Answered, Decided, SoundPlan, Searches, NeedsApproval, With
  <2> QED BY <1>2, <2>1 DEF BatchInv
\* The batch is settled.
<1>3. ASSUME NEW plan, SoundPlan(plan), NEW active, NEW c \in Controllers, ~c.disposed, Settle(plan, active, c),
             Searches(plan) \subseteq Answered', pc \in Dispatching \union {"prepare"},
             results' \in Seq([call : Nat, over : BOOLEAN]), Answered' \subseteq DOMAIN calls,
             UNCHANGED <<calls, refused, toolPhase, round, granted>>
      PROVE  BatchInv'
  <2>1. /\ SoundPlan(dispatch)' /\ Searches(dispatch)' = Searches(plan)
        /\ \/ pc' = "tools" /\ ctl' = c /\ NeedsApproval(dispatch)' = {}
           \/ pc' = "approval" /\ ctl' = CreateInterrupt(c, "tool_approval", round)
    BY <1>3, SettleShape
  <2>2. ctl' = CreateInterrupt(c, "tool_approval", round) => ctl'.outcome # "resolved"
    <3>1. round \in Nat
      BY TurnBounds DEF FlowInv
    <3> QED BY <1>3, <3>1, InterruptShape
  <2>3. NeedsApproval(dispatch)' = {} => Decided'
    BY DEF Decided
  <2> QED BY <1>3, <2>1, <2>2, <2>3 DEF BatchInv, Dispatching
<1>4. CASE UNCHANGED turnVars \/ ResumeRun \/ Pause \/ Deadline
  <2>1. CASE UNCHANGED turnVars \/ Deadline
    BY <1>2, <2>1 DEF turnVars, Deadline
  <2>2. CASE ResumeRun \/ Pause
    <3>1. ctl'.outcome = ctl.outcome
      BY <2>2, RequestShape DEF ResumeRun, Pause, FlowInv
    <3> QED BY <1>2, <2>2, <3>1 DEF ResumeRun, Pause
  <2> QED BY <1>4, <2>1, <2>2
<1>5. CASE Cancel
  <2>1. ctl'.outcome = "resolved" => ctl.outcome = "resolved"
    BY <1>5, CancelShape DEF Cancel, FlowInv
  <2> QED BY <1>2, <1>5, <2>1 DEF Cancel
<1>6. CASE \E id \in 1..MaxRounds : Respond(id)
  <2>1. ctl.interrupt.kind = "clarification" /\ ctl.interrupt # NoInterrupt
    BY <1>6 DEF Respond, MayRespond, NoInterrupt
  <2>2. pc # "approval"
    BY <2>1 DEF FlowInv
  <2> QED BY <1>2, <1>6, <2>2 DEF Respond
<1>7. CASE \/ StartRound \/ StopLooping \/ AskModel \/ RoundFails \/ ModelAnswers \/ ModelReturnsNothing
           \/ ModelIsCutOff \/ ModelClarifies \/ Clarified \/ CommitBatch \/ AfterBatch \/ EndTurn
  <2>1. UNCHANGED <<calls, results, refused>>
    BY <1>7 DEF StartRound, StopLooping, AskModel, RoundFails, ModelAnswers, ModelReturnsNothing, ModelIsCutOff,
                ModelClarifies, Clarified, CommitBatch, AfterBatch, EndTurn
  <2>2. pc' \notin Dispatching \union {"prepare"}
    BY <1>7 DEF StartRound, StopLooping, AskModel, RoundFails, ModelAnswers, ModelReturnsNothing, ModelIsCutOff,
                ModelClarifies, Clarified, CommitBatch, AfterBatch, EndTurn, Repeat, Dispatching
  <2> QED BY <1>1, <2>1, <2>2
<1>8. CASE \E b \in Batches : ModelCalls(b)
  <2>1. PICK b \in Batches : ModelCalls(b)
    BY <1>8
  <2>2. /\ pc' = "prepare" /\ calls' = b /\ results' = <<>> /\ refused' = {} /\ ~only
        /\ toolPhase' = toolPhase
    BY <2>1 DEF ModelCalls
  <2>3. toolPhase' # "final_only"
    BY <2>2 DEF LoopInv
  <2>4. b \in Seq(STRING) /\ Answered' = {} /\ results' \in Seq([call : Nat, over : BOOLEAN])
    BY <2>2, TurnTools DEF Answered
  <2> QED BY <2>2, <2>3, <2>4 DEF BatchInv, Dispatching
<1>9. CASE PrepareBatch
  <2>1. PICK bad : LET c == Reach(ctl, "tool_dispatch_ready", only)
                   IN IF signal # "none" THEN Throw
                      ELSE IF Searches(Plan(bad)) = {} THEN Settle(Plan(bad), activated, c)
                      ELSE pc' = "search" /\ ctl' = c /\ dispatch' = Plan(bad)
    BY <1>9 DEF PrepareBatch
  <2> DEFINE c == Reach(ctl, "tool_dispatch_ready", only)
  <2>2. pc = "prepare" /\ UNCHANGED <<calls, results, refused, toolPhase, round, granted>>
    BY <1>9 DEF PrepareBatch
  <2>3. SoundPlan(Plan(bad))
    BY PlanIsSound
  <2>4. Answered' = Answered /\ Answered = {} /\ Answered \subseteq DOMAIN calls
        /\ results' \in Seq([call : Nat, over : BOOLEAN])
    BY <2>2 DEF BatchInv, Answered
  <2>5. CASE pc' = "thrown"
    BY <1>1, <2>2, <2>5 DEF Dispatching
  <2>6. CASE Searches(Plan(bad)) = {} /\ Settle(Plan(bad), activated, c)
    <3>1. Free(ctl) /\ ~ctl.disposed /\ ctl \in Controllers /\ only \in BOOLEAN
      BY <2>2 DEF Free, FlowInv, LoopInv, Controllers
    <3>2. c \in Controllers /\ ~c.disposed
      BY <3>1, ReachShape
    <3> HIDE DEF c
    <3> QED BY <1>3, <2>2, <2>3, <2>4, <2>6, <3>2
  <2>7. CASE Searches(Plan(bad)) # {} /\ pc' = "search" /\ dispatch' = Plan(bad)
    <3> DEFINE p == Plan(bad)
    <3>1. SoundPlan(p) /\ dispatch' = p /\ Searches(p) # {}
      BY <2>3, <2>7
    <3> HIDE DEF p
    <3>2. SoundPlan(dispatch)' /\ Searches(dispatch)' = Searches(p)
      BY <2>2, <3>1 DEF SoundPlan, Searches, With
    <3> QED BY <2>2, <2>4, <2>7, <3>1, <3>2 DEF BatchInv, Dispatching
  <2> QED BY <2>1, <2>5, <2>6, <2>7
<1>10. CASE Search
  <2> DEFINE open == Searches(dispatch) \ Answered
             i == FirstOf(open)
  <2>1. pc = "search" /\ UNCHANGED <<calls, refused, toolPhase, round, granted>>
    BY <1>10 DEF Search
  <2>2. SoundPlan(dispatch) /\ open # {} /\ open \subseteq DOMAIN calls /\ open \subseteq Nat
    BY <2>1 DEF BatchInv, Dispatching, SoundPlan, Searches, With
  <2>3. i \in open
    BY <2>2, FirstIsMember
  <2>4. \/ signal # "none" /\ pc' = "thrown" /\ results' = results
        \/ Answer(i) /\ open = {i} /\ \E active : Settle(dispatch, active, ctl)
        \/ Answer(i) /\ open # {i} /\ UNCHANGED <<pc, ctl, dispatch>>
    BY <1>10 DEF Search
  <2> HIDE DEF i
  <2>5. CASE pc' = "thrown" /\ results' = results
    BY <1>1, <2>1, <2>5 DEF Dispatching
  <2>6. ASSUME Answer(i)
        PROVE  /\ results' \in Seq([call : Nat, over : BOOLEAN]) /\ Answered' = Answered \union {i}
               /\ Answered' \subseteq DOMAIN calls
    BY <2>2, <2>3, <2>6, AnswerAdds DEF BatchInv
  <2>7. CASE Answer(i) /\ open = {i} /\ \E active : Settle(dispatch, active, ctl)
    <3>1. Searches(dispatch) \subseteq Answered'
      BY <2>6, <2>7
    <3>2. ctl \in Controllers /\ ~ctl.disposed
      BY <2>1 DEF FlowInv
    <3>3. pc \in Dispatching \union {"prepare"}
      BY <2>1 DEF Dispatching
    <3> QED BY <1>3, <2>1, <2>2, <2>6, <2>7, <3>1, <3>2, <3>3
  <2>8. CASE Answer(i) /\ open # {i} /\ UNCHANGED <<pc, ctl, dispatch>>
    <3>1. SoundPlan(dispatch)' = SoundPlan(dispatch) /\ Searches(dispatch)' = Searches(dispatch)
      BY <2>1, <2>8 DEF SoundPlan, Searches, With
    <3>2. Searches(dispatch) \ Answered' # {}
      BY <2>3, <2>6, <2>8
    <3> QED BY <2>1, <2>6, <2>8, <3>1, <3>2 DEF BatchInv, Dispatching
  <2> QED BY <2>4, <2>5, <2>7, <2>8
<1>11. CASE Approved
  <2>1. pc = "approval" /\ UNCHANGED <<calls, results, refused, dispatch, granted, toolPhase, round, ctl>>
        /\ pc' = IF ctl.outcome = "resolved" THEN "tools" ELSE "thrown"
    BY <1>11 DEF Approved
  <2>2. Answered' = Answered /\ Decided' = Decided /\ SoundPlan(dispatch)' = SoundPlan(dispatch)
        /\ Searches(dispatch)' = Searches(dispatch)
    BY <2>1 DEF Answered, Decided, SoundPlan, Searches, NeedsApproval, With
  <2> QED BY <2>1, <2>2 DEF BatchInv, Dispatching
<1>12. CASE SkipCall \/ RunTool
  <2>1. /\ pc = "tools" /\ DOMAIN calls # Answered
        /\ UNCHANGED <<calls, refused, dispatch, granted, toolPhase, round, ctl>>
        /\ \/ Answer(NextCall) /\ pc' = pc
           \/ pc' = "thrown" /\ results' = results
    BY <1>12 DEF SkipCall, RunTool
  <2>2. NextCall \in DOMAIN calls /\ NextCall \in Nat
    BY <2>1, NextIsOpen DEF BatchInv
  <2>3. CASE pc' = "thrown" /\ results' = results
    BY <1>1, <2>1, <2>3 DEF Dispatching
  <2>4. CASE Answer(NextCall) /\ pc' = pc
    <3>1. results' \in Seq([call : Nat, over : BOOLEAN]) /\ Answered' = Answered \union {NextCall}
      BY <2>2, <2>4, AnswerAdds DEF BatchInv
    <3>2. Decided' = Decided /\ SoundPlan(dispatch)' = SoundPlan(dispatch)
          /\ Searches(dispatch)' = Searches(dispatch)
      BY <2>1 DEF Decided, SoundPlan, Searches, NeedsApproval, With
    <3> QED BY <2>1, <2>2, <2>4, <3>1, <3>2 DEF BatchInv, Dispatching
  <2> QED BY <2>1, <2>3, <2>4
<1>13. CASE \E id \in 1..MaxRounds : \E yes, no \in SUBSET DOMAIN calls : Decide(id, yes, no)
  <2>1. PICK id \in 1..MaxRounds : \E yes, no \in SUBSET DOMAIN calls : Decide(id, yes, no)
    BY <1>13
  <2>2. PICK yes \in SUBSET DOMAIN calls, no \in SUBSET DOMAIN calls : Decide(id, yes, no)
    BY <2>1
  <2>3. ctl.interrupt.kind = "tool_approval" /\ ctl.interrupt.id = id /\ ctl.interrupt # NoInterrupt
    BY <2>2 DEF Decide, MayRespond, NoInterrupt
  <2>4. pc = "approval" /\ id = round
    BY <2>3 DEF FlowInv
  <2>5. /\ refused' = no /\ granted' = granted \union {<<id, i>> : i \in yes}
        /\ yes \union no = NeedsApproval(dispatch)
        /\ UNCHANGED <<calls, results, dispatch, toolPhase, round, pc>>
    BY <2>2 DEF Decide, Decides
  <2>6. Answered' = Answered /\ SoundPlan(dispatch)' = SoundPlan(dispatch)
        /\ Searches(dispatch)' = Searches(dispatch) /\ NeedsApproval(dispatch)' = NeedsApproval(dispatch)
    BY <2>5 DEF Answered, SoundPlan, Searches, NeedsApproval, With
  <2>7. Decided'
    BY <2>4, <2>5, <2>6 DEF Decided
  <2> QED BY <2>2, <2>4, <2>5, <2>6, <2>7 DEF BatchInv, Dispatching
<1> QED BY <1>4, <1>5, <1>6, <1>7, <1>8, <1>9, <1>10, <1>11, <1>12, <1>13 DEF TurnNext, Runtime, Users

-----------------------------------------------------------------------------
(* What was activated and run *)

\* Every step keeps RanInv.
LEMMA RanSteps ==
  ASSUME RanInv, BatchInv, LoopInv, FlowInv, [TurnNext]_turnVars
  PROVE  RanInv'
<1> USE DEF flow, loop, batch, Throw
<1>1. CASE UNCHANGED <<activated, ran>> /\ granted \subseteq granted'
  BY <1>1 DEF RanInv, OnlyAdmittedCallsRun
<1>2. CASE Search
  <2>1. PICK found \in SUBSET (Deferred \ activated) :
          Cardinality(found) <= ActivatedCap - Cardinality(activated) /\ activated' = activated \union found
    BY <1>2 DEF Search, Slots
  <2>2. UNCHANGED <<ran, granted>>
    BY <1>2 DEF Search
  <2>3. activated \subseteq Deferred /\ Cardinality(activated) <= ActivatedCap
    BY DEF RanInv, OnlyAdmittedCallsRun
  <2>4. IsFiniteSet(Deferred)
    BY TurnTools, FS_Subset
  <2>5. IsFiniteSet(activated) /\ IsFiniteSet(found)
    BY <2>1, <2>3, <2>4, FS_Subset
  <2>6. activated \intersect found = {}
    BY <2>1
  <2>7. Cardinality(activated \union found) = Cardinality(activated) + Cardinality(found)
    <3>1. Cardinality(activated \union found)
            = Cardinality(activated) + Cardinality(found) - Cardinality(activated \intersect found)
      BY <2>5, FS_Union
    <3>2. /\ Cardinality(activated \intersect found) = 0
          /\ Cardinality(activated) \in Nat /\ Cardinality(found) \in Nat
      BY <2>5, <2>6, FS_EmptySet, FS_CardinalityType
    <3> QED BY <3>1, <3>2
  <2>8. Cardinality(activated') <= ActivatedCap
    BY <2>1, <2>5, <2>7, FS_CardinalityType, TurnBounds
  <2>9. activated \subseteq activated' /\ activated' \subseteq Deferred
    BY <2>1, <2>3
  <2> QED BY <2>2, <2>8, <2>9 DEF RanInv, OnlyAdmittedCallsRun
<1>3. CASE RunTool
  <2> DEFINE i == NextCall
             r == [call |-> <<round, i>>, tool |-> calls[i], phase |-> toolPhase]
  <2>1. /\ pc = "tools" /\ DOMAIN calls # Answered /\ ~Withheld(i) /\ calls[i] # "update_plan"
        /\ UNCHANGED <<activated, granted>>
        /\ ran' = IF calls[i] \in Mcp /\ ~CanExecute(calls[i], activated) THEN ran ELSE ran \union {r}
    BY <1>3 DEF RunTool
  <2>2. i \in DOMAIN calls \ Answered
    BY <2>1, NextIsOpen DEF BatchInv
  <2> HIDE DEF i
  <2>3. dispatch[i] = "ready" /\ calls[i] \notin Denied /\ i \notin refused
    BY <2>1 DEF Withheld
  <2>4. /\ SoundPlan(dispatch) /\ Searches(dispatch) \subseteq Answered /\ Decided
        /\ toolPhase # "final_only"
    BY <2>1 DEF BatchInv, Dispatching
  <2>5. i \in With(dispatch, "ready")
    BY <2>2, <2>3, <2>4 DEF With, SoundPlan
  <2>6. calls[i] # "tool_search"
    BY <2>2, <2>4, <2>5 DEF Searches
  <2>7. toolPhase = "investigation" \/ (toolPhase = "delivery" /\ calls[i] \in DeliveryTools)
    <3>1. CountsTowardToolTurn(calls[i])
      BY <2>1, <2>6 DEF CountsTowardToolTurn
    <3>2. Admits(toolPhase, calls[i])
      BY <2>2, <2>3, <2>4 DEF SoundPlan
    <3> QED BY <3>1, <3>2 DEF Admits
  <2>8. calls[i] \in Guarded => <<round, i>> \in granted
    BY <2>3, <2>4, <2>5 DEF NeedsApproval, Decided
  <2>9. ran' # ran /\ calls[i] \in Deferred => calls[i] \in activated
    BY <2>1, TurnTools DEF CanExecute
  <2>10. \/ ran' = ran
         \/ ran' = ran \union {r} /\ ran' # ran
    BY <2>1
  <2>11. r.call = <<round, i>> /\ r.tool = calls[i] /\ r.phase = toolPhase
    OBVIOUS
  <2> HIDE DEF r
  <2> QED BY <2>1, <2>3, <2>7, <2>8, <2>9, <2>10, <2>11 DEF RanInv, OnlyAdmittedCallsRun
<1>4. QED
  <2>1. CASE UNCHANGED turnVars \/ Users
    <3>1. UNCHANGED <<activated, ran>>
      BY <2>1 DEF turnVars, Users, Pause, ResumeRun, Cancel, Deadline, Respond, Decide
    <3>2. granted \subseteq granted'
      BY <2>1 DEF turnVars, Users, Pause, ResumeRun, Cancel, Deadline, Respond, Decide
    <3> QED BY <1>1, <3>1, <3>2
  <2>2. CASE Runtime
    <3>1. UNCHANGED <<activated, ran, granted>> \/ Search \/ RunTool
      BY <2>2 DEF Runtime, StartRound, StopLooping, AskModel, RoundFails, ModelAnswers, ModelReturnsNothing,
                  ModelIsCutOff, ModelClarifies, Clarified, ModelCalls, PrepareBatch, Approved, SkipCall,
                  CommitBatch, AfterBatch, EndTurn
    <3> QED BY <1>1, <1>2, <1>3, <3>1
  <2> QED BY <2>1, <2>2 DEF TurnNext

-----------------------------------------------------------------------------
(* Requests to the model since a pause was accepted *)

\* Every step keeps LateInv.
LEMMA LateSteps ==
  ASSUME LateInv, BatchInv, LoopInv, FlowInv, [TurnNext]_turnVars
  PROVE  LateInv'
<1> USE DEF flow, loop, batch, Throw
<1>0. /\ late \in Nat /\ retries \in Nat /\ only \in BOOLEAN /\ ctl \in Controllers
      /\ pc # "ended" => ~ctl.disposed
  BY TurnBounds DEF FlowInv, LoopInv
<1>1. pc \notin {"hook", "batch", "clarify", "approval"} => Free(ctl)
  BY DEF FlowInv, Controllers, Free
\* The runtime moves on, outside of the final answer.
<1>2. ASSUME ctl'.phase # "final_answer", pc' \notin {"hook", "model"},
             ctl'.state = "pause_requested" => late' <= 1
      PROVE  LateInv'
  BY <1>2 DEF LateInv
\* The final answer is not begun before the tools were given up.
<1>3. ~only /\ pc \notin {"done", "thrown"} => ctl.phase # "final_answer"
  BY DEF LateInv
<1>4. pc \in Dispatching \union {"prepare"} => ~only
  BY DEF LoopInv, BatchInv
<1>5. ctl.state = "pause_requested" /\ ctl.phase # "final_answer" => late <= 1
  BY <1>0 DEF LateInv
\* A boundary that does not begin the final answer.
<1>6. ASSUME NEW b \in {"model_round_classified", "tool_dispatch_ready"}, pc \in {"model", "prepare"}, ~only
      PROVE  LET d == Reach(ctl, b, only)
             IN d \in Controllers /\ ~d.disposed /\ d.phase # "final_answer" /\ d.state = ctl.state
  <2> DEFINE d == Reach(ctl, b, only)
  <2>1. /\ d \in Controllers /\ ~d.disposed /\ d.phase = PhaseAt(ctl, b, only)
        /\ \/ d.state = ctl.state
           \/ b \in PauseBoundaries
    BY <1>0, <1>1, <1>6, ReachShape
  <2> HIDE DEF d
  <2>2. PhaseAt(ctl, b, only) # "final_answer" /\ b \notin PauseBoundaries
    BY <1>3, <1>6 DEF PhaseAt, PauseBoundaries
  <2> QED BY <2>1, <2>2 DEF d
<1>7. ASSUME NEW plan, NEW active, NEW c \in Controllers, ~c.disposed, c.phase # "final_answer",
             c.state = ctl.state, ctl.phase # "final_answer", late' = late, Settle(plan, active, c)
      PROVE  LateInv'
  <2>1. \/ pc' = "tools" /\ ctl' = c
        \/ pc' = "approval" /\ ctl' = CreateInterrupt(c, "tool_approval", round)
    BY <1>7 DEF Settle
  <2>2. round \in Nat
    BY TurnBounds DEF FlowInv
  <2>3. CASE pc' = "tools" /\ ctl' = c
    BY <1>2, <1>5, <1>7, <2>3
  <2>4. CASE pc' = "approval" /\ ctl' = CreateInterrupt(c, "tool_approval", round)
    <3>1. ctl'.phase = c.phase /\ ctl'.state = "waiting_for_user"
      BY <1>7, <2>2, <2>4, InterruptShape
    <3> QED BY <1>2, <1>7, <2>4, <3>1
  <2> QED BY <2>1, <2>3, <2>4
<1>8. CASE UNCHANGED turnVars \/ Deadline
  BY <1>8 DEF turnVars, Deadline, LateInv
<1>9. CASE Pause
  <2>1. ctl'.phase = ctl.phase /\ ctl.phase = "tool_loop" /\ late' = 0 /\ UNCHANGED <<pc, only>>
    BY <1>0, <1>9, RequestShape DEF Pause, MayPause
  <2> QED BY <2>1 DEF LateInv
<1>10. CASE \/ ResumeRun \/ \E id \in 1..MaxRounds : Respond(id)
            \/ \E id \in 1..MaxRounds : \E yes, no \in SUBSET DOMAIN calls : Decide(id, yes, no)
  <2>1. /\ ctl' = Resume(ctl) \/ ctl' = ResolveInterrupt(ctl)
        /\ UNCHANGED <<pc, only>>
    BY <1>10 DEF ResumeRun, Respond, Decide
  <2>2. ctl'.phase = ctl.phase /\ ctl'.state = "running"
    BY <1>0, <2>1, RequestShape
  <2> QED BY <2>1, <2>2 DEF LateInv
<1>11. CASE Cancel
  <2>1. /\ ctl'.phase = ctl.phase /\ (ctl' = ctl \/ ctl'.state = "cancel_requested")
        /\ UNCHANGED <<pc, late, only, retries>>
    BY <1>11, CancelShape DEF Cancel, FlowInv
  <2> QED BY <2>1 DEF LateInv
<1>12. CASE StartRound
  <2> DEFINE d == Reach(ctl, "before_model_request", only)
  <2>1. pc = "round" /\ pc' = "hook" /\ UNCHANGED <<late, only, retries>> /\ ctl' = d
    BY <1>12 DEF StartRound
  <2>2. /\ d.phase = PhaseAt(ctl, "before_model_request", only)
        /\ \/ d.state = ctl.state
              /\ (ctl.state = "pause_requested" => "before_model_request" \notin PauseBoundaries
                                                    \/ d.phase = "final_answer")
           \/ d.state = "paused"
    BY <1>0, <1>1, <2>1, ReachShape
  <2> HIDE DEF d
  <2>3. (d.phase = "final_answer") <=> only
    BY <1>3, <2>1, <2>2 DEF PhaseAt
  <2>4. d.state = "pause_requested" => d.phase = "final_answer" /\ late <= 1
    BY <2>1, <2>2 DEF LateInv, PauseBoundaries
  <2> QED BY <2>1, <2>3, <2>4 DEF LateInv
<1>13. CASE StopLooping \/ Clarified \/ Approved \/ SkipCall \/ RunTool
  <2>1. /\ pc \in {"round", "clarify", "approval", "tools"} /\ UNCHANGED <<ctl, late, only, retries>>
        /\ pc' \in {"done", "thrown"} \/ (pc = "clarify" /\ pc' = "round")
           \/ (pc \in {"approval", "tools"} /\ pc' = "tools")
    BY <1>13 DEF StopLooping, Clarified, Approved, SkipCall, RunTool, Repeat
  <2> QED BY <1>0, <2>1 DEF LateInv
<1>14. CASE AskModel \/ RoundFails
  <2>1. /\ pc \in {"hook", "model"} /\ UNCHANGED <<ctl, only, retries>>
        /\ \/ pc = "hook" /\ pc' = "model" /\ (ctl.state = "pause_requested" => late' = late + 1)
           \/ pc' = "thrown" /\ late' = late
    BY <1>14 DEF AskModel, RoundFails, Requested
  <2> QED BY <1>0, <2>1 DEF LateInv
<1>15. CASE ModelAnswers
  <2> DEFINE c == Reach(ctl, "model_round_classified", only)
             d == Reach(c, "final_answer", only)
  <2>1. pc = "model" /\ ctl' = d /\ pc' = "done" /\ UNCHANGED <<late, only, retries>>
    BY <1>15 DEF ModelAnswers
  <2>2. c \in Controllers /\ Free(c) /\ ~c.disposed /\ c.state = ctl.state
    <3>1. "model_round_classified" \notin PauseBoundaries /\ Free(ctl) /\ ~ctl.disposed
      BY <1>0, <1>1, <2>1 DEF PauseBoundaries
    <3>2. /\ c \in Controllers /\ ~c.disposed /\ c.interrupt = NoInterrupt
          /\ c.state = ctl.state /\ c.waits = "nothing"
      BY <1>0, <3>1, ReachShape
    <3> HIDE DEF c
    <3> QED BY <3>1, <3>2 DEF Free
  <2> HIDE DEF c
  <2>3. d.phase = "final_answer" /\ d.state = c.state
    <3>1. /\ d.phase = PhaseAt(c, "final_answer", only)
          /\ d.state = c.state \/ "final_answer" \in PauseBoundaries
      BY <1>0, <2>2, ReachShape
    <3> HIDE DEF d
    <3> QED BY <3>1 DEF PhaseAt, PauseBoundaries
  <2>4. ctl.state = "pause_requested" => late <= 2 + retries
    BY <1>0, <2>1 DEF LateInv
  <2> QED BY <2>1, <2>2, <2>3, <2>4 DEF LateInv
<1>16. CASE ModelReturnsNothing
  <2>1. pc = "model" /\ ~only /\ pc' = "round" /\ late' = late
        /\ ctl' = Reach(ctl, "model_round_classified", only)
    BY <1>16 DEF ModelReturnsNothing, Repeat
  <2>2. ctl'.phase # "final_answer" /\ ctl'.state = ctl.state
    BY <1>6, <2>1
  <2> QED BY <1>2, <1>3, <1>5, <2>1, <2>2
<1>17. CASE ModelIsCutOff
  <2>1. /\ pc = "model" /\ retries' = retries + 1 /\ only' = only
        /\ \/ only /\ pc' = pc /\ ctl' = ctl /\ (ctl.state = "pause_requested" => late' = late + 1)
           \/ ~only /\ pc' = "round" /\ ctl' = ctl /\ late' = late
    BY <1>17 DEF ModelIsCutOff, Repeat, Requested
  <2> QED BY <1>0, <1>3, <1>5, <2>1 DEF LateInv
<1>18. CASE ModelClarifies
  <2> DEFINE c == Reach(ctl, "model_round_classified", only)
  <2>1. pc = "model" /\ ~only /\ pc' = "clarify" /\ ctl' = CreateInterrupt(c, "clarification", round)
    BY <1>18 DEF ModelClarifies
  <2>2. c \in Controllers /\ ~c.disposed /\ c.phase # "final_answer"
    BY <1>6, <2>1
  <2> HIDE DEF c
  <2>3. ctl'.phase = c.phase /\ ctl'.state = "waiting_for_user"
    <3>1. round \in Nat
      BY TurnBounds DEF FlowInv
    <3> QED BY <2>1, <2>2, <3>1, InterruptShape
  <2> QED BY <1>2, <2>1, <2>2, <2>3
<1>19. CASE \E b \in Batches : ModelCalls(b)
  <2>1. pc = "model" /\ ~only /\ pc' = "prepare" /\ late' = late
        /\ ctl' = Reach(ctl, "model_round_classified", only)
    BY <1>19 DEF ModelCalls
  <2>2. ctl'.phase # "final_answer" /\ ctl'.state = ctl.state
    BY <1>6, <2>1
  <2> QED BY <1>2, <1>3, <1>5, <2>1, <2>2
<1>20. CASE PrepareBatch
  <2> DEFINE c == Reach(ctl, "tool_dispatch_ready", only)
  <2>1. pc = "prepare" /\ late' = late
    BY <1>20 DEF PrepareBatch
  <2>2. c \in Controllers /\ ~c.disposed /\ c.phase # "final_answer" /\ c.state = ctl.state
    BY <1>4, <1>6, <2>1
  <2>3. \/ ctl' = c /\ pc' \in {"thrown", "search"}
        \/ \E plan : Settle(plan, activated, c)
    BY <1>20 DEF PrepareBatch
  <2> HIDE DEF c
  <2>4. ctl.phase # "final_answer"
    BY <1>3, <1>4, <2>1
  <2>5. CASE ctl' = c /\ pc' \in {"thrown", "search"}
    BY <1>2, <1>5, <2>1, <2>2, <2>4, <2>5
  <2>6. CASE \E plan : Settle(plan, activated, c)
    BY <1>7, <2>1, <2>2, <2>4, <2>6
  <2> QED BY <2>3, <2>5, <2>6
<1>21. CASE Search
  <2>1. pc = "search" /\ late' = late
    BY <1>21 DEF Search
  <2>2. ctl.phase # "final_answer" /\ ~ctl.disposed
    BY <1>0, <1>3, <1>4, <2>1 DEF Dispatching
  <2>3. \/ ctl' = ctl /\ pc' \in {"thrown", "search"}
        \/ \E active : Settle(dispatch, active, ctl)
    BY <1>21, <2>1 DEF Search
  <2>4. CASE ctl' = ctl /\ pc' \in {"thrown", "search"}
    BY <1>2, <1>5, <2>1, <2>2, <2>4
  <2>5. CASE \E active : Settle(dispatch, active, ctl)
    BY <1>0, <1>7, <2>1, <2>2, <2>5
  <2> QED BY <2>3, <2>4, <2>5
<1>22. CASE CommitBatch
  <2> DEFINE d == Reach(ctl, "tool_batch_committed", only')
  <2>1. pc = "tools" /\ pc' = "batch" /\ late' = late /\ ctl' = d /\ only' \in BOOLEAN
    BY <1>0, <1>22 DEF CommitBatch, EnterFinal
  <2>2. ctl.phase # "final_answer"
    BY <1>3, <1>4, <2>1 DEF Dispatching
  <2>3. /\ d.phase = PhaseAt(ctl, "tool_batch_committed", only')
        /\ d.state = ctl.state \/ d.state = "paused"
    BY <1>0, <1>1, <2>1, ReachShape
  <2> HIDE DEF d
  <2>4. d.phase = "final_answer" => only'
    BY <2>2, <2>3 DEF PhaseAt
  <2> QED BY <1>5, <2>1, <2>2, <2>3, <2>4 DEF LateInv
<1>23. CASE AfterBatch
  <2>1. pc = "batch" /\ pc' \in {"round", "thrown"} /\ UNCHANGED <<ctl, late, retries>>
    BY <1>23 DEF AfterBatch
  <2>2. only => only'
    BY <1>23 DEF AfterBatch, CountTurn, EnterFinal
  <2> QED BY <1>0, <2>1, <2>2 DEF LateInv
<1>24. CASE EndTurn
  <2> DEFINE status == IF pc = "done" THEN "completed"
                       ELSE IF signal = "aborted" THEN "cancelled" ELSE "failed"
             d == Dispose(MarkTerminal(ctl, status))
  <2>1. pc # "ended" /\ pc' = "ended" /\ ctl' = d
    BY <1>24 DEF EndTurn
  <2>2. status \in EndStates
    BY DEF EndStates
  <2> HIDE DEF status
  <2>3. d.phase = "terminal" /\ d.state = status
    BY <1>0, <2>1, <2>2, EndShape
  <2> HIDE DEF d
  <2> QED BY <1>2, <2>1, <2>2, <2>3 DEF EndStates
<1> QED BY <1>8, <1>9, <1>10, <1>11, <1>12, <1>13, <1>14, <1>15, <1>16, <1>17, <1>18, <1>19, <1>20, <1>21,
           <1>22, <1>23, <1>24 DEF TurnNext, Runtime, Users

-----------------------------------------------------------------------------
(* The transcript *)

\* What answers a prefix is a matter of the prefix alone.
LEMMA PrefixAnswered ==
  ASSUME NEW m, NEW q, NEW n \in Nat, \A k \in 1..n : q[k] = m[k], AnsweredUpTo(m, n),
         \A k \in 1..n : DOMAIN m[k].calls = 1..Len(m[k].calls) /\ Len(m[k].calls) \in Nat
  PROVE  AnsweredUpTo(q, n)
<1> SUFFICES ASSUME NEW k \in 1..n
             PROVE  /\ q[k].role = "assistant" =>
                         /\ k + Len(q[k].calls) <= n
                         /\ \A i \in DOMAIN q[k].calls : q[k + i] = Message("tool", <<q[k].calls[i]>>)
                    /\ q[k].role = "tool" =>
                         \E j \in 1..(k - 1) : q[j].role = "assistant" /\ k - j \in DOMAIN q[j].calls
  BY DEF AnsweredUpTo
<1>1. q[k] = m[k] /\ DOMAIN m[k].calls = 1..Len(m[k].calls) /\ Len(m[k].calls) \in Nat
  OBVIOUS
<1>2. ASSUME m[k].role = "assistant"
      PROVE  /\ k + Len(m[k].calls) <= n
             /\ \A i \in DOMAIN m[k].calls : q[k + i] = Message("tool", <<m[k].calls[i]>>)
  <2>1. /\ k + Len(m[k].calls) <= n
        /\ \A i \in DOMAIN m[k].calls : m[k + i] = Message("tool", <<m[k].calls[i]>>)
    BY <1>2 DEF AnsweredUpTo
  <2>2. \A i \in DOMAIN m[k].calls : k + i \in 1..n
    BY <1>1, <2>1
  <2> QED BY <2>1, <2>2
<1>3. ASSUME m[k].role = "tool"
      PROVE  \E j \in 1..(k - 1) : q[j].role = "assistant" /\ k - j \in DOMAIN q[j].calls
  <2>1. PICK j \in 1..(k - 1) : m[j].role = "assistant" /\ k - j \in DOMAIN m[j].calls
    BY <1>3 DEF AnsweredUpTo
  <2>2. q[j] = m[j]
    BY <2>1
  <2> QED BY <2>1, <2>2
<1> QED BY <1>1, <1>2, <1>3

\* The calls of a message are a sequence.
LEMMA CallsOfMessages ==
  ASSUME NEW m \in Seq(Messages)
  PROVE  /\ Len(m) \in Nat /\ DOMAIN m = 1..Len(m)
         /\ \A k \in 1..Len(m) : DOMAIN m[k].calls = 1..Len(m[k].calls) /\ Len(m[k].calls) \in Nat
<1>1. ASSUME NEW k \in 1..Len(m)
      PROVE  DOMAIN m[k].calls = 1..Len(m[k].calls) /\ Len(m[k].calls) \in Nat
  <2>1. m[k] \in Messages
    OBVIOUS
  <2>2. m[k].calls \in Seq(Nat \X Nat)
    BY <2>1 DEF Messages
  <2> QED BY <2>2
<1> QED BY <1>1

\* A message has the role and the calls it was built from.
LEMMA MessageShape ==
  ASSUME NEW role \in Roles, NEW ids \in Seq(Nat \X Nat)
  PROVE  /\ Message(role, ids) \in Messages
         /\ Message(role, ids).role = role /\ Message(role, ids).calls = ids
BY DEF Message, Messages

\* No calls are an empty sequence of calls.
LEMMA NoCallsShape ==
  NoCalls \in Seq(Nat \X Nat) /\ Len(NoCalls) = 0 /\ DOMAIN NoCalls = {}
BY DEF NoCalls

\* A message without calls, of the user, the system or the model, leaves every batch answered.
LEMMA AppendKeepsAnswers ==
  ASSUME NEW m \in Seq(Messages), AnsweredUpTo(m, Len(m)),
         NEW role \in {"system", "user", "assistant", "plan"}
  PROVE  LET q == Append(m, Message(role, NoCalls))
         IN q \in Seq(Messages) /\ AnsweredUpTo(q, Len(q))
<1> DEFINE msg == Message(role, NoCalls)
           q == Append(m, msg)
           n == Len(m)
<1>1. msg \in Messages /\ msg.role = role /\ Len(msg.calls) = 0 /\ DOMAIN msg.calls = {}
  <2>1. NoCalls \in Seq(Nat \X Nat) /\ role \in Roles
    BY NoCallsShape DEF Roles
  <2>2. msg \in Messages /\ msg.role = role /\ msg.calls = NoCalls
    BY <2>1, MessageShape, Zenon
  <2> QED BY <2>2, NoCallsShape
<1> HIDE DEF msg
<1>2. q \in Seq(Messages) /\ Len(q) = n + 1 /\ n \in Nat /\ q[n + 1] = msg /\ \A k \in 1..n : q[k] = m[k]
  BY <1>1
<1> HIDE DEF q
<1>3. AnsweredUpTo(q, n)
  BY <1>2, PrefixAnswered, CallsOfMessages
<1> HIDE DEF n
<1>4. AnsweredUpTo(q, n + 1)
  <2>1. \A k \in 1..(n + 1) : k \in 1..n \/ k = n + 1
    BY <1>2
  <2>2. \A k \in 1..n : q[k].role = "assistant" => k + Len(q[k].calls) <= n + 1
    <3>1. ASSUME NEW k \in 1..n, q[k].role = "assistant" PROVE k + Len(q[k].calls) <= n + 1
      <4>1. k + Len(q[k].calls) <= n /\ q[k].calls = m[k].calls
        BY <1>2, <1>3, <3>1 DEF AnsweredUpTo
      <4>2. Len(m[k].calls) \in Nat
        BY CallsOfMessages DEF n
      <4> QED BY <1>2, <4>1, <4>2
    <3> QED BY <3>1
  <2>3. n + 1 + Len(q[n + 1].calls) <= n + 1 /\ q[n + 1].role # "tool" /\ DOMAIN q[n + 1].calls = {}
    <3>1. q[n + 1] = msg /\ n \in Nat
      BY <1>2
    <3>2. Len(q[n + 1].calls) = 0 /\ DOMAIN q[n + 1].calls = {}
      BY <1>1, <3>1
    <3>3. q[n + 1].role # "tool"
      BY <1>1, <3>1
    <3> QED BY <3>1, <3>2, <3>3
  <2> QED BY <1>3, <2>1, <2>2, <2>3 DEF AnsweredUpTo
<1> QED BY <1>2, <1>4 DEF q, n, msg

\* The calls of a batch, followed by one answer each.
LEMMA BatchIsAnswered ==
  ASSUME NEW m \in Seq(Messages), NEW n \in Nat, Len(m) = n + 1, AnsweredUpTo(m, n),
         NEW b, NEW l \in Nat, DOMAIN b = 1..l, NEW r \in Nat,
         m[n + 1] = Message("assistant", [i \in DOMAIN b |-> <<r, i>>])
  PROVE  LET q == m \o [i \in DOMAIN b |-> Message("tool", <<<<r, i>>>>)]
         IN q \in Seq(Messages) /\ AnsweredUpTo(q, Len(q))
<1> DEFINE a == [i \in DOMAIN b |-> Message("tool", <<<<r, i>>>>)]
           ids == [i \in DOMAIN b |-> <<r, i>>]
           q == m \o a
<1>1. ids \in Seq(Nat \X Nat) /\ Len(ids) = l /\ DOMAIN ids = 1..l /\ \A i \in 1..l : ids[i] = <<r, i>>
  OBVIOUS
<1>2. /\ a \in Seq(Messages) /\ Len(a) = l
      /\ \A i \in 1..l : a[i] = Message("tool", <<ids[i]>>)
  <2>1. ASSUME NEW i \in 1..l PROVE Message("tool", <<<<r, i>>>>) \in Messages
    <3>1. ASSUME NEW c \in Nat \X Nat PROVE <<c>> \in Seq(Nat \X Nat)
      OBVIOUS
    <3>2. <<r, i>> \in Nat \X Nat
      OBVIOUS
    <3>3. <<<<r, i>>>> \in Seq(Nat \X Nat) /\ "tool" \in Roles
      BY <3>1, <3>2 DEF Roles
    <3> QED BY <3>3, MessageShape, Zenon
  <2>2. a = [i \in 1..l |-> Message("tool", <<<<r, i>>>>)]
    OBVIOUS
  <2>3. a \in [1..l -> Messages] /\ \A i \in 1..l : a[i] = Message("tool", <<<<r, i>>>>)
    BY <2>1, <2>2, Zenon
  <2> HIDE DEF a
  <2>4. a \in Seq(Messages) /\ Len(a) = l
    BY <2>3
  <2>5. \A i \in 1..l : a[i] = Message("tool", <<ids[i]>>)
    BY <1>1, <2>3
  <2> QED BY <2>4, <2>5
<1>3. m[n + 1].role = "assistant" /\ m[n + 1].calls = ids
  BY DEF Message
<1> HIDE DEF a, ids
<1>4. /\ q \in Seq(Messages) /\ Len(q) = n + 1 + l
      /\ \A k \in 1..(n + 1) : q[k] = m[k]
      /\ \A i \in 1..l : q[n + 1 + i] = a[i]
  <2>1. a \in Seq(Messages) /\ Len(a) = l /\ Len(m) = n + 1 /\ m \in Seq(Messages)
    BY <1>2
  <2>2. q \in Seq(Messages) /\ Len(q) = Len(m) + Len(a)
    BY <2>1, ConcatProperties
  <2>3. ASSUME NEW k \in 1..(n + 1 + l)
        PROVE  q[k] = IF k <= Len(m) THEN m[k] ELSE a[k - Len(m)]
    BY <2>1, ConcatProperties
  <2>4. ASSUME NEW i \in 1..l PROVE q[n + 1 + i] = a[i]
    <3>1. n + 1 + i \in 1..(n + 1 + l) /\ ~(n + 1 + i <= n + 1) /\ n + 1 + i - (n + 1) = i
      OBVIOUS
    <3> QED BY <2>1, <2>3, <3>1
  <2>5. ASSUME NEW k \in 1..(n + 1) PROVE q[k] = m[k]
    BY <2>1, <2>3
  <2> QED BY <2>1, <2>2, <2>4, <2>5
<1> HIDE DEF q
<1>5. AnsweredUpTo(q, n)
  <2>1. /\ \A k \in 1..n : q[k] = m[k]
        /\ \A k \in 1..n : DOMAIN m[k].calls = 1..Len(m[k].calls) /\ Len(m[k].calls) \in Nat
    BY <1>4, CallsOfMessages
  <2> QED BY <2>1, PrefixAnswered
<1>6. AnsweredUpTo(q, n + 1 + l)
  <2>1. \A k \in 1..(n + 1 + l) : k \in 1..n \/ k = n + 1 \/ \E i \in 1..l : k = n + 1 + i
    <3>1. ASSUME NEW k \in 1..(n + 1 + l), k \notin 1..n, k # n + 1
          PROVE  k - (n + 1) \in 1..l /\ k = n + 1 + (k - (n + 1))
      BY <3>1
    <3> QED BY <3>1
  <2>2. \A k \in 1..n : q[k].role = "assistant" => k + Len(q[k].calls) <= n + 1 + l
    <3>1. ASSUME NEW k \in 1..n, q[k].role = "assistant" PROVE k + Len(q[k].calls) <= n + 1 + l
      <4>1. k + Len(q[k].calls) <= n /\ q[k].calls = m[k].calls
        BY <1>4, <1>5, <3>1 DEF AnsweredUpTo
      <4>2. Len(m[k].calls) \in Nat
        BY CallsOfMessages
      <4> QED BY <4>1, <4>2
    <3> QED BY <3>1
  <2>3. /\ q[n + 1].role = "assistant" /\ n + 1 + Len(q[n + 1].calls) <= n + 1 + l
        /\ \A i \in DOMAIN q[n + 1].calls : q[n + 1 + i] = Message("tool", <<q[n + 1].calls[i]>>)
    <3>1. q[n + 1].role = "assistant" /\ q[n + 1].calls = ids
      BY <1>3, <1>4
    <3>2. n + 1 + Len(q[n + 1].calls) <= n + 1 + l
      BY <1>1, <3>1
    <3>3. \A i \in DOMAIN q[n + 1].calls : q[n + 1 + i] = Message("tool", <<q[n + 1].calls[i]>>)
      BY <1>1, <1>2, <1>4, <3>1
    <3> QED BY <3>1, <3>2, <3>3
  <2>4. ASSUME NEW i \in 1..l
        PROVE  /\ q[n + 1 + i].role = "tool" /\ n + 1 \in 1..(n + 1 + i - 1)
               /\ n + 1 + i - (n + 1) \in DOMAIN q[n + 1].calls
    <3>1. q[n + 1 + i] = Message("tool", <<ids[i]>>)
      BY <1>2, <1>4
    <3>2. q[n + 1 + i].role = "tool"
      BY <3>1 DEF Message
    <3>3. n + 1 + i - (n + 1) = i /\ n + 1 \in 1..(n + 1 + i - 1) /\ n + 1 \in 1..(n + 1)
      OBVIOUS
    <3> QED BY <1>1, <1>3, <1>4, <3>2, <3>3
  <2>5. ASSUME NEW k \in 1..(n + 1 + l)
        PROVE  /\ q[k].role = "assistant" =>
                    /\ k + Len(q[k].calls) <= n + 1 + l
                    /\ \A i \in DOMAIN q[k].calls : q[k + i] = Message("tool", <<q[k].calls[i]>>)
               /\ q[k].role = "tool" =>
                    \E j \in 1..(k - 1) : q[j].role = "assistant" /\ k - j \in DOMAIN q[j].calls
    <3>1. CASE k \in 1..n
      BY <1>5, <2>2, <3>1 DEF AnsweredUpTo
    <3>2. CASE k = n + 1
      BY <2>3, <3>2
    <3>3. ASSUME NEW i \in 1..l, k = n + 1 + i
          PROVE  q[k].role = "tool" /\ \E j \in 1..(k - 1) : q[j].role = "assistant" /\ k - j \in DOMAIN q[j].calls
      <4>1. /\ q[n + 1 + i].role = "tool" /\ n + 1 \in 1..(n + 1 + i - 1)
            /\ n + 1 + i - (n + 1) \in DOMAIN q[n + 1].calls
        BY <2>4
      <4>2. n + 1 + i - (n + 1) = i /\ k - (n + 1) = i /\ n + 1 \in 1..(k - 1)
        BY <3>3
      <4>3. q[k].role = "tool" /\ k - (n + 1) \in DOMAIN q[n + 1].calls
        BY <3>3, <4>1, <4>2, Zenon
      <4> QED BY <2>3, <4>2, <4>3, Zenon
    <3> QED BY <2>1, <3>1, <3>2, <3>3
  <2> QED BY <2>5 DEF AnsweredUpTo
<1> QED BY <1>4, <1>6 DEF q, a

\* How many of the kept positions are below a position.
Below(kept, k) == {j \in kept : j < k}
Rank(kept, k) == Cardinality(Below(kept, k)) + 1

\* Ranks are increasing, and consecutive where positions are kept consecutively.
LEMMA RankOfKept ==
  ASSUME NEW n \in Nat, NEW kept \in SUBSET (1..n)
  PROVE  /\ IsFiniteSet(kept) /\ Cardinality(kept) \in Nat
         /\ \A k \in kept : Rank(kept, k) \in 1..Cardinality(kept)
         /\ \A k, l \in kept : k < l => Rank(kept, k) < Rank(kept, l)
         /\ \A k \in kept, l \in Nat : k..(k + l) \subseteq kept => Rank(kept, k + l) = Rank(kept, k) + l
<1>1. IsFiniteSet(kept) /\ Cardinality(kept) \in Nat
  <2>1. IsFiniteSet(1..n)
    <3>1. 1 \in Int /\ n \in Int
      OBVIOUS
    <3> QED BY <3>1, FS_Interval, Zenon
  <2> QED BY <2>1, FS_Subset, FS_CardinalityType
<1>2. ASSUME NEW k \in Nat PROVE IsFiniteSet(Below(kept, k)) /\ Cardinality(Below(kept, k)) \in Nat
  <2>1. Below(kept, k) \in SUBSET kept
    BY DEF Below
  <2> QED BY <1>1, <2>1, FS_Subset, FS_CardinalityType
<1>3. ASSUME NEW k \in kept, NEW S \in SUBSET kept, \A j \in Below(kept, k) : j \in S, k \in S
      PROVE  Rank(kept, k) <= Cardinality(S)
  <2>1. k \in Nat /\ k \notin Below(kept, k) /\ IsFiniteSet(S)
    <3>1. k \in Nat /\ k \notin Below(kept, k)
      BY DEF Below
    <3>2. IsFiniteSet(S)
      BY <1>1, FS_Subset
    <3> QED BY <3>1, <3>2
  <2>2. Cardinality(Below(kept, k) \union {k}) = Rank(kept, k)
    BY <1>2, <2>1, FS_AddElement DEF Rank
  <2>3. Below(kept, k) \union {k} \in SUBSET S
    BY <1>3
  <2> QED BY <2>1, <2>2, <2>3, FS_Subset
<1>4. ASSUME NEW k \in kept PROVE Rank(kept, k) \in 1..Cardinality(kept)
  <2>1. Rank(kept, k) <= Cardinality(kept)
    BY <1>3 DEF Below
  <2> QED BY <1>1, <1>2, <2>1 DEF Rank
<1>5. ASSUME NEW k \in kept, NEW l \in kept, k < l PROVE Rank(kept, k) < Rank(kept, l)
  <2>1. Below(kept, l) \in SUBSET kept /\ k \in Below(kept, l) /\ \A j \in Below(kept, k) : j \in Below(kept, l)
    BY <1>5 DEF Below
  <2>2. Rank(kept, k) <= Cardinality(Below(kept, l))
    BY <1>3, <2>1
  <2>3. Cardinality(Below(kept, k)) \in Nat /\ Cardinality(Below(kept, l)) \in Nat
    BY <1>2
  <2> QED BY <2>2, <2>3 DEF Rank
<1>6. ASSUME NEW k \in kept, NEW l \in Nat, k..(k + l) \subseteq kept
      PROVE  Rank(kept, k + l) = Rank(kept, k) + l
  <2> DEFINE between == k..(k + l - 1)
  <2>1. Below(kept, k + l) = Below(kept, k) \union between
    <3>1. ASSUME NEW x PROVE x \in Below(kept, k + l) <=> x \in Below(kept, k) \/ x \in between
      <4>1. CASE x \in kept
        <5>1. x \in Nat /\ k \in Nat
          BY <4>1
        <5> QED BY <4>1, <5>1, <1>6 DEF Below
      <4>2. CASE x \notin kept
        <5>1. x \notin k..(k + l)
          BY <1>6, <4>2
        <5>2. k \in Nat
          OBVIOUS
        <5> QED BY <4>2, <5>1, <5>2 DEF Below
      <4> QED BY <4>1, <4>2
    <3> HIDE DEF between
    <3> QED BY <3>1
  <2>2. Below(kept, k) \intersect between = {}
    BY DEF Below
  <2>3. IsFiniteSet(between) /\ Cardinality(between) = l
    <3>1. k \in Int /\ k + l - 1 \in Int
      OBVIOUS
    <3>2. IsFiniteSet(between) /\ Cardinality(between) = IF k > k + l - 1 THEN 0 ELSE (k + l - 1) - k + 1
      BY <3>1, FS_Interval, Zenon
    <3> HIDE DEF between
    <3> QED BY <3>2
  <2>4. k \in Nat
    OBVIOUS
  <2> HIDE DEF between
  <2>5. Cardinality(Below(kept, k) \union between)
          = Cardinality(Below(kept, k)) + Cardinality(between) - Cardinality(Below(kept, k) \intersect between)
    BY <1>2, <2>3, <2>4, FS_Union
  <2>6. Cardinality(Below(kept, k) \intersect between) = 0 /\ Cardinality(Below(kept, k)) \in Nat
    BY <1>2, <2>2, <2>4, FS_EmptySet
  <2> QED BY <2>1, <2>3, <2>5, <2>6 DEF Rank
<1> QED BY <1>1, <1>4, <1>5, <1>6

\* Every rank is the rank of one kept position.
LEMMA KeptOfRank ==
  ASSUME NEW n \in Nat, NEW kept \in SUBSET (1..n), NEW i \in 1..Cardinality(kept)
  PROVE  \E k \in kept : Rank(kept, k) = i
<1> DEFINE N == Cardinality(kept)
           f == [k \in kept |-> Rank(kept, k)]
<1>1. /\ IsFiniteSet(kept) /\ N \in Nat
      /\ \A k \in kept : Rank(kept, k) \in 1..N
      /\ \A k, l \in kept : k < l => Rank(kept, k) < Rank(kept, l)
  BY RankOfKept
<1>2. f \in [kept -> 1..N] /\ \A k \in kept : f[k] = Rank(kept, k)
  BY <1>1
<1> HIDE DEF f
<1>3. ASSUME NEW k \in kept, NEW l \in kept, f[k] = f[l] PROVE k = l
  BY <1>1, <1>2, <1>3
<1>4. f \in Injection(kept, 1..N)
  BY <1>2, <1>3 DEF Injection, IsInjective
<1>5. IsFiniteSet(1..N) /\ Cardinality(1..N) = N
  BY <1>1, FS_Interval
<1>6. f \in Surjection(kept, 1..N)
  BY <1>4, <1>5, FS_Injection
<1> QED BY <1>2, <1>6 DEF Surjection

\* The messages that are kept, by rank.
LEMMA KeptMessages ==
  ASSUME NEW m \in Seq(Messages)
  PROVE  LET kept == {k \in DOMAIN m : ~IsPlan(m[k])}
             q == WithoutPlans(m)
         IN /\ kept \in SUBSET (1..Len(m)) /\ Len(m) \in Nat
            /\ q \in Seq(Messages) /\ Len(q) = Cardinality(kept)
            /\ \A k \in kept : q[Rank(kept, k)] = m[k]
<1> DEFINE kept == {k \in DOMAIN m : ~IsPlan(m[k])}
           At(i) == CHOOSE k \in kept : Cardinality({j \in kept : j < k}) = i - 1
           q == WithoutPlans(m)
<1>1. kept \in SUBSET (1..Len(m)) /\ Len(m) \in Nat /\ \A k \in kept : m[k] \in Messages
  OBVIOUS
<1>2. q = [i \in 1..Cardinality(kept) |-> m[At(i)]]
  BY DEF WithoutPlans
<1> HIDE DEF kept, q
<1>3. /\ Cardinality(kept) \in Nat
      /\ \A k \in kept : Rank(kept, k) \in 1..Cardinality(kept)
      /\ \A k, l \in kept : k < l => Rank(kept, k) < Rank(kept, l)
  BY <1>1, RankOfKept
<1>4. ASSUME NEW i \in 1..Cardinality(kept) PROVE At(i) \in kept /\ Rank(kept, At(i)) = i
  <2>1. PICK k \in kept : Rank(kept, k) = i
    BY <1>1, KeptOfRank
  <2>2. \A l \in kept : Cardinality({j \in kept : j < l}) \in Nat
    <3>1. ASSUME NEW l \in kept PROVE Cardinality({j \in kept : j < l}) \in Nat
      <4>1. {j \in kept : j < l} \in SUBSET kept /\ IsFiniteSet(kept)
        BY <1>1, RankOfKept
      <4> QED BY <4>1, FS_Subset, FS_CardinalityType
    <3> QED BY <3>1
  <2>3. Cardinality({j \in kept : j < k}) = i - 1
    BY <1>3, <2>1, <2>2 DEF Rank, Below
  <2>4. At(i) \in kept /\ Cardinality({j \in kept : j < At(i)}) = i - 1
    BY <2>3
  <2> HIDE DEF At
  <2> QED BY <2>4 DEF Rank, Below
<1> HIDE DEF At
<1>5. ASSUME NEW k \in kept PROVE At(Rank(kept, k)) = k
  <2> DEFINE a == At(Rank(kept, k))
  <2>1. a \in kept /\ Rank(kept, a) = Rank(kept, k)
    BY <1>3, <1>4
  <2> HIDE DEF a
  <2>2. Rank(kept, a) \in Nat /\ ~(a < k) /\ ~(k < a) /\ a \in Nat /\ k \in Nat
    BY <1>1, <1>3, <2>1
  <2>3. a = k
    BY <2>2
  <2> QED BY <2>3 DEF a
<1>6. q \in [1..Cardinality(kept) -> Messages]
  BY <1>1, <1>2, <1>4
<1>7. \A k \in kept : q[Rank(kept, k)] = m[k]
  BY <1>2, <1>3, <1>5
<1>8. q \in Seq(Messages) /\ Len(q) = Cardinality(kept)
  BY <1>3, <1>6
<1> QED BY <1>1, <1>7, <1>8 DEF q, kept

\* Taking the plans out moves every batch together with its answers.
LEMMA WithoutPlansAnswered ==
  ASSUME NEW m \in Seq(Messages), AnsweredUpTo(m, Len(m))
  PROVE  LET q == WithoutPlans(m) IN q \in Seq(Messages) /\ AnsweredUpTo(q, Len(q))
<1> DEFINE kept == {k \in DOMAIN m : ~IsPlan(m[k])}
           q == WithoutPlans(m)
<1>1. /\ kept \in SUBSET (1..Len(m)) /\ Len(m) \in Nat
      /\ q \in Seq(Messages) /\ Len(q) = Cardinality(kept)
      /\ \A k \in kept : q[Rank(kept, k)] = m[k]
  BY KeptMessages
<1>2. \A k \in 1..Len(m) : k \in kept <=> m[k].role # "plan"
  BY DEF IsPlan
<1> HIDE DEF kept, q
<1>3. /\ \A k \in kept : Rank(kept, k) \in 1..Len(q)
      /\ \A k \in kept, l \in Nat : k..(k + l) \subseteq kept => Rank(kept, k + l) = Rank(kept, k) + l
  BY <1>1, RankOfKept
<1>4. \A k \in 1..Len(m) : DOMAIN m[k].calls = 1..Len(m[k].calls) /\ Len(m[k].calls) \in Nat
  BY CallsOfMessages
\* A batch and its answers are kept, one after another.
<1>5. ASSUME NEW k \in kept, m[k].role = "assistant", NEW l \in 0..Len(m[k].calls)
      PROVE  k + l \in kept /\ Rank(kept, k + l) = Rank(kept, k) + l /\ (l # 0 => m[k + l] = Message("tool", <<m[k].calls[l]>>))
  <2>1. k \in 1..Len(m)
    BY <1>1
  <2>2. /\ k + Len(m[k].calls) <= Len(m)
        /\ \A i \in DOMAIN m[k].calls : m[k + i] = Message("tool", <<m[k].calls[i]>>)
    BY <1>5, <2>1 DEF AnsweredUpTo
  <2>3. ASSUME NEW i \in 1..Len(m[k].calls) PROVE k + i \in kept /\ m[k + i] = Message("tool", <<m[k].calls[i]>>)
    <3>1. m[k + i] = Message("tool", <<m[k].calls[i]>>)
      BY <1>4, <2>1, <2>2
    <3>2. m[k + i].role = "tool"
      BY <3>1 DEF Message
    <3>3. k + i \in 1..Len(m)
      BY <1>4, <2>1, <2>2
    <3> QED BY <1>2, <3>1, <3>2, <3>3
  <2>4. ASSUME NEW x \in k..(k + l) PROVE x \in kept
    <3>1. CASE x = k
      BY <3>1
    <3>2. CASE x # k
      <4>1. x - k \in 1..Len(m[k].calls) /\ x = k + (x - k)
        BY <1>4, <2>1, <3>2
      <4> QED BY <2>3, <4>1
    <3> QED BY <3>1, <3>2
  <2>5. l \in Nat /\ k..(k + l) \subseteq kept /\ k + l \in k..(k + l) /\ (l # 0 => l \in 1..Len(m[k].calls))
    BY <1>4, <2>1, <2>4
  <2> QED BY <1>3, <2>3, <2>5
<1>6. ASSUME NEW i \in 1..Len(q)
      PROVE  /\ q[i].role = "assistant" =>
                  /\ i + Len(q[i].calls) <= Len(q)
                  /\ \A t \in DOMAIN q[i].calls : q[i + t] = Message("tool", <<q[i].calls[t]>>)
             /\ q[i].role = "tool" =>
                  \E j \in 1..(i - 1) : q[j].role = "assistant" /\ i - j \in DOMAIN q[j].calls
  <2>1. PICK k \in kept : Rank(kept, k) = i
    BY <1>1, KeptOfRank
  <2>2. q[i] = m[k] /\ k \in 1..Len(m)
    BY <1>1, <2>1
  <2>3. ASSUME q[i].role = "assistant"
        PROVE  /\ i + Len(q[i].calls) <= Len(q)
               /\ \A t \in DOMAIN q[i].calls : q[i + t] = Message("tool", <<q[i].calls[t]>>)
    <3>1. ASSUME NEW t \in 0..Len(m[k].calls)
          PROVE  i + t \in 1..Len(q) /\ q[i + t] = m[k + t] /\ (t # 0 => m[k + t] = Message("tool", <<m[k].calls[t]>>))
      BY <1>1, <1>3, <1>5, <2>1, <2>2, <2>3
    <3>2. i + Len(m[k].calls) <= Len(q)
      <4>1. Len(m[k].calls) \in 0..Len(m[k].calls)
        BY <1>4, <2>2
      <4>2. \A t \in 0..Len(m[k].calls) : i + t \in 1..Len(q)
        BY <3>1
      <4>3. i + Len(m[k].calls) \in 1..Len(q)
        BY <4>1, <4>2, Zenon
      <4> QED BY <4>3
    <3>3. \A t \in DOMAIN m[k].calls : t \in 0..Len(m[k].calls) /\ t # 0
      BY <1>4, <2>2
    <3> QED BY <2>2, <3>1, <3>2, <3>3
  <2>4. ASSUME q[i].role = "tool"
        PROVE  \E j \in 1..(i - 1) : q[j].role = "assistant" /\ i - j \in DOMAIN q[j].calls
    <3>1. PICK a \in 1..(k - 1) : m[a].role = "assistant" /\ k - a \in DOMAIN m[a].calls
      BY <2>2, <2>4 DEF AnsweredUpTo
    <3>2. a \in kept /\ a \in 1..Len(m)
      BY <1>2, <2>2, <3>1
    <3>3. k - a \in 0..Len(m[a].calls) /\ k - a # 0 /\ a + (k - a) = k
      BY <1>4, <2>2, <3>1, <3>2, SMTT(20)
    <3>4. Rank(kept, k) = Rank(kept, a) + (k - a)
      <4>1. Rank(kept, a + (k - a)) = Rank(kept, a) + (k - a)
        BY <1>5, <3>1, <3>2, <3>3
      <4> QED BY <3>3, <4>1
    <3>5. Rank(kept, a) \in 1..Len(q) /\ q[Rank(kept, a)] = m[a]
      BY <1>1, <1>3, <3>2
    <3>6. Rank(kept, a) \in 1..(i - 1) /\ i - Rank(kept, a) = k - a
      BY <2>1, <3>1, <3>2, <3>3, <3>4, <3>5
    <3> QED BY <3>1, <3>5, <3>6
  <2> QED BY <2>3, <2>4
<1>7. AnsweredUpTo(q, Len(q))
  BY <1>6 DEF AnsweredUpTo
<1> QED BY <1>1, <1>7 DEF q

\* Every step keeps TranscriptInv.
LEMMA TranscriptSteps ==
  ASSUME TranscriptInv, BatchInv, FlowInv, [TurnNext]_turnVars
  PROVE  TranscriptInv'
<1> USE DEF flow, loop, batch, Throw
<1> DEFINE Open == Dispatching \union {"prepare"}
<1>0. messages \in Seq(Messages) /\ Len(messages) \in Nat /\ round \in Nat
  BY TurnBounds DEF TranscriptInv, FlowInv
\* Nothing is said.
<1>1. ASSUME messages' = messages, pc' \in Whole => pc \in Whole,
             pc' \in Open => pc \in Open /\ UNCHANGED <<calls, round>>
      PROVE  TranscriptInv'
  <2>1. pc' \in Open => pc \in Open /\ calls' = calls /\ round' = round
    BY <1>1
  <2> QED BY <1>1, <2>1 DEF TranscriptInv
\* A message without calls is appended.
<1>2. ASSUME NEW role \in {"system", "user", "assistant", "plan"}, pc \in Whole, pc' \notin Open,
             messages' = Append(messages, Message(role, NoCalls))
      PROVE  TranscriptInv'
  <2> DEFINE q == Append(messages, Message(role, NoCalls))
  <2>1. AnsweredUpTo(messages, Len(messages))
    BY <1>2 DEF TranscriptInv
  <2>2. q \in Seq(Messages) /\ AnsweredUpTo(q, Len(q))
    BY <1>0, <2>1, AppendKeepsAnswers
  <2>3. messages' = q
    BY <1>2
  <2> HIDE DEF q
  <2> QED BY <1>2, <2>2, <2>3 DEF TranscriptInv
<1>3. CASE UNCHANGED turnVars \/ Users
  BY <1>1, <1>3 DEF turnVars, Users, Pause, ResumeRun, Cancel, Deadline, Respond, Decide
<1>4. CASE StartRound \/ StopLooping \/ RoundFails \/ EndTurn
  <2>1. messages' = messages /\ pc' \notin Open
    BY <1>4 DEF StartRound, StopLooping, RoundFails, EndTurn, Dispatching
  <2>2. pc' \in Whole => pc \in Whole
    BY <1>4 DEF StartRound, StopLooping, RoundFails, EndTurn, Whole
  <2> QED BY <1>1, <2>1, <2>2
<1>5. CASE PrepareBatch \/ Search \/ Approved \/ SkipCall \/ RunTool
  <2>1. messages' = messages /\ pc \in Open /\ UNCHANGED <<calls, round>>
    BY <1>5 DEF PrepareBatch, Search, Approved, SkipCall, RunTool, Dispatching
  <2>2. pc' \notin Whole
    BY <1>5 DEF PrepareBatch, Search, Approved, SkipCall, RunTool, Settle, Whole
  <2> QED BY <1>1, <2>1, <2>2
<1>6. CASE AskModel
  <2>1. /\ pc \in Whole /\ pc' \notin Open
        /\ messages' = messages \/ messages' = Append(messages, Message("user", NoCalls))
    BY <1>6 DEF AskModel, Whole, Dispatching
  <2> QED BY <1>1, <1>2, <2>1
<1>7. CASE ModelAnswers \/ ModelReturnsNothing \/ ModelIsCutOff \/ ModelClarifies
  <2>1. /\ pc \in Whole /\ pc' \notin Open
        /\ \/ messages' = Append(messages, Message("assistant", NoCalls))
           \/ messages' = Append(messages, Message("system", NoCalls))
    BY <1>7 DEF ModelAnswers, ModelReturnsNothing, ModelIsCutOff, ModelClarifies, Repeat, Whole, Dispatching
  <2> QED BY <1>2, <2>1
<1>8. CASE Clarified
  <2>1. /\ pc \in Whole /\ pc' \notin Open
        /\ messages' = messages \/ messages' = Append(messages, Message("user", NoCalls))
    BY <1>8 DEF Clarified, Repeat, Whole, Dispatching
  <2> QED BY <1>1, <1>2, <2>1
<1>9. CASE AfterBatch
  <2>1. /\ pc \in Whole /\ pc' \notin Open
        /\ messages' = messages \/ messages' = Append(messages, Message("system", NoCalls))
    BY <1>9 DEF AfterBatch, Whole, Dispatching
  <2> QED BY <1>1, <1>2, <2>1
<1>10. CASE \E b \in Batches : ModelCalls(b)
  <2>1. PICK b \in Batches : ModelCalls(b)
    BY <1>10
  <2> DEFINE ids == [i \in DOMAIN b |-> <<round, i>>]
             msg == Message("assistant", ids)
             q == Append(messages, msg)
  <2>2. pc = "model" /\ pc' = "prepare" /\ messages' = q /\ calls' = b /\ round' = round
    BY <2>1 DEF ModelCalls
  <2>3. msg \in Messages
    <3>1. DOMAIN b = 1..Len(b) /\ Len(b) \in Nat
      BY TurnTools
    <3>2. ids \in Seq(Nat \X Nat) /\ "assistant" \in Roles
      BY <1>0, <3>1 DEF Roles
    <3> HIDE DEF ids
    <3> QED BY <3>2, MessageShape, Zenon
  <2>4. msg' = msg /\ Message("assistant", [i \in DOMAIN calls |-> <<round, i>>])' = msg
    BY <2>2 DEF Message
  <2> HIDE DEF msg
  <2>5. /\ q \in Seq(Messages) /\ Len(q) = Len(messages) + 1 /\ q[Len(messages) + 1] = msg
        /\ \A k \in 1..Len(messages) : q[k] = messages[k]
    BY <1>0, <2>3, AppendProperties
  <2> HIDE DEF q
  <2>6. AnsweredUpTo(messages, Len(messages))
    BY <2>2 DEF TranscriptInv, Whole
  <2>7. AnsweredUpTo(q, Len(messages)) /\ Len(q) - 1 = Len(messages)
    <3>1. \A k \in 1..Len(messages) : DOMAIN messages[k].calls = 1..Len(messages[k].calls)
                                     /\ Len(messages[k].calls) \in Nat
      BY <1>0, CallsOfMessages
    <3>2. AnsweredUpTo(q, Len(messages))
      BY <1>0, <2>5, <2>6, <3>1, PrefixAnswered
    <3> QED BY <1>0, <2>5, <3>2
  <2>8. Len(q) > 0 /\ q[Len(q)] = msg /\ AnsweredUpTo(q, Len(q) - 1)
    BY <1>0, <2>5, <2>7
  <2> QED BY <2>2, <2>4, <2>5, <2>8 DEF TranscriptInv, Whole
<1>11. CASE CommitBatch
  <2> DEFINE q == messages \o Answers
             p == WithoutPlans(q)
             n == Len(messages) - 1
  <2>1. pc = "tools" /\ pc' = "batch" /\ messages' = Planned(q)
    BY <1>11 DEF CommitBatch
  <2>2. /\ Len(messages) = n + 1 /\ n \in Nat /\ AnsweredUpTo(messages, n)
        /\ messages[n + 1] = Message("assistant", [i \in DOMAIN calls |-> <<round, i>>])
    <3>1. /\ Len(messages) > 0 /\ AnsweredUpTo(messages, Len(messages) - 1)
          /\ messages[Len(messages)] = Message("assistant", [i \in DOMAIN calls |-> <<round, i>>])
      BY <2>1 DEF TranscriptInv, Dispatching
    <3>2. Len(messages) = n + 1 /\ n \in Nat
      BY <1>0, <3>1
    <3> QED BY <3>1, <3>2
  <2> HIDE DEF n
  <2>3. DOMAIN calls = 1..Len(calls) /\ Len(calls) \in Nat
    BY DEF BatchInv
  <2>4. q \in Seq(Messages) /\ AnsweredUpTo(q, Len(q))
    BY <1>0, <2>2, <2>3, BatchIsAnswered DEF Answers
  <2> HIDE DEF q
  <2>5. p \in Seq(Messages) /\ AnsweredUpTo(p, Len(p))
    BY <2>4, WithoutPlansAnswered
  <2> HIDE DEF p
  <2> DEFINE a == Append(p, Message("plan", NoCalls))
  <2>6. a \in Seq(Messages) /\ AnsweredUpTo(a, Len(a))
    BY <2>5, AppendKeepsAnswers
  <2>7. Planned(q) = a \/ Planned(q) = q
    BY DEF Planned, p
  <2> HIDE DEF a
  <2>8. messages' \in Seq(Messages) /\ AnsweredUpTo(messages, Len(messages))'
    BY <2>1, <2>4, <2>6, <2>7
  <2> QED BY <2>1, <2>8 DEF TranscriptInv, Dispatching
<1> QED BY <1>3, <1>4, <1>5, <1>6, <1>7, <1>8, <1>9, <1>10, <1>11 DEF TurnNext, Runtime

-----------------------------------------------------------------------------
(* The theorems *)

TurnInv == FlowInv /\ LoopInv /\ BatchInv /\ RanInv /\ LateInv /\ TranscriptInv

\* The invariant holds initially.
LEMMA TurnStarts ==
  TurnInit => TurnInv
<1> SUFFICES ASSUME TurnInit PROVE TurnInv
  OBVIOUS
<1> USE DEF TurnInit
<1>1. NewController \in Controllers /\ NewController.waits = "nothing" /\ NewController.interrupt = NoInterrupt
      /\ NewController.state = "running" /\ NewController.phase = "tool_loop" /\ ~NewController.disposed
  BY DEF NewController, Controllers, ControlStates, ControlPhases, Interrupts
<1>2. FlowInv
  BY <1>1, TurnBounds DEF FlowInv, Points
<1>3. LoopInv
  <2>1. /\ only \in BOOLEAN /\ recovered \in BOOLEAN /\ planned \in BOOLEAN
        /\ only <=> toolPhase = "final_only"
    OBVIOUS
  <2>2. /\ retries \in 0..MaxRetries /\ investigation \in 0..MaxInvestigation /\ delivery \in 0..MaxDelivery
        /\ toolPhase \in {"investigation", "delivery", "final_only"} /\ investigation < MaxInvestigation
    BY TurnBounds
  <2> QED BY <2>1, <2>2, Zenon DEF LoopInv
<1>4. BatchInv
  <2>1. Answered = {} /\ calls \in Seq(STRING) /\ results \in Seq([call : Nat, over : BOOLEAN])
    BY DEF Answered
  <2> QED BY <2>1 DEF BatchInv, Dispatching
<1>5. RanInv
  BY FS_EmptySet, TurnBounds DEF RanInv, OnlyAdmittedCallsRun
<1>6. LateInv
  BY <1>1 DEF LateInv
<1>7. TranscriptInv
  <2> DEFINE a == Message("system", NoCalls)
             b == Message("user", NoCalls)
  <2>1. a \in Messages /\ b \in Messages /\ a.role = "system" /\ b.role = "user"
    BY MessageShape, NoCallsShape DEF Roles
  <2> HIDE DEF a, b
  <2>2. messages = <<a, b>>
    BY DEF a, b
  <2>3. messages \in Seq(Messages) /\ Len(messages) = 2 /\ messages[1] = a /\ messages[2] = b
    BY <2>1, <2>2
  <2>4. AnsweredUpTo(messages, 2)
    BY <2>1, <2>3 DEF AnsweredUpTo
  <2> QED BY <2>3, <2>4 DEF TranscriptInv, Dispatching
<1> QED BY <1>2, <1>3, <1>4, <1>5, <1>6, <1>7 DEF TurnInv

\* Every step keeps the invariant.
LEMMA TurnSteps ==
  TurnInv /\ [TurnNext]_turnVars => TurnInv'
<1> SUFFICES ASSUME TurnInv, [TurnNext]_turnVars PROVE TurnInv'
  OBVIOUS
<1>1. LoopInv'
  BY LoopSteps DEF TurnInv
<1>2. only \in BOOLEAN /\ only' \in BOOLEAN
  BY <1>1 DEF LoopInv, TurnInv
<1>3. FlowInv'
  BY <1>2, FlowSteps DEF TurnInv
<1> QED BY <1>1, <1>3, BatchSteps, RanSteps, LateSteps, TranscriptSteps DEF TurnInv

\* The invariant holds throughout.
LEMMA TurnIsInvariant ==
  TurnSpec => []TurnInv
BY TurnStarts, TurnSteps, PTL DEF TurnSpec

\* Every variable of the run keeps its type, and the answer-only mode and the last phase of the
\* tools are entered together (EnterFinal, applyToolBatchTurnCount).
THEOREM TurnTypes ==
  TurnSpec => []TurnTypeOK
<1>1. TurnInv => TurnTypeOK
  <2> SUFFICES ASSUME TurnInv PROVE TurnTypeOK
    OBVIOUS
  <2>1. \A k \in DOMAIN results : results[k].call \in DOMAIN calls
    BY DEF TurnInv, BatchInv, Answered
  <2>2. activated \subseteq Deferred /\ refused \subseteq DOMAIN calls
    BY DEF TurnInv, BatchInv, RanInv
  <2>3. /\ ctl \in Controllers /\ pc \in Points /\ signal \in {"none", "aborted", "deadline"}
        /\ late \in Nat /\ round \in 0..MaxRounds
    BY DEF TurnInv, FlowInv
  <2>4. LoopInv
    BY DEF TurnInv
  <2> QED BY <2>1, <2>2, <2>3, <2>4, Zenon DEF TurnTypeOK, LoopInv, Points
<1> QED BY <1>1, TurnIsInvariant, PTL

\* However searches, approvals, refusals, pauses, cancels and changes of phase interleave, a tool
\* that runs was admitted by the budget of its phase, by the policy, by the user and by a search
\* (evaluateToolDispatchBudget, canExecuteMcp, decideApproval), and the cap on searches holds.
THEOREM CallsAreAdmitted ==
  TurnSpec => []OnlyAdmittedCallsRun
<1>1. TurnInv => OnlyAdmittedCallsRun
  BY DEF TurnInv, RanInv
<1> QED BY <1>1, TurnIsInvariant, PTL

\* Whenever the model is asked, its transcript is canonical (assertCanonicalToolTranscript), for
\* batches of any length and whatever was replaced in the transcript in between.
THEOREM BatchesAreAnswered ==
  TurnSpec => []EveryCallIsAnswered
<1>1. TurnInv => EveryCallIsAnswered
  <2> SUFFICES ASSUME TurnInv, pc \in {"round", "hook", "model"}, NEW k \in DOMAIN messages
               PROVE  /\ messages[k].role = "assistant" => FollowedByAnswers(k)
                      /\ messages[k].role = "tool" =>
                           \E j \in 1..(k - 1) : /\ messages[j].role = "assistant"
                                                 /\ k - j \in DOMAIN messages[j].calls
    BY DEF EveryCallIsAnswered
  <2>1. AnsweredUpTo(messages, Len(messages)) /\ k \in 1..Len(messages)
    BY DEF TurnInv, TranscriptInv, Whole
  <2> QED BY <2>1 DEF AnsweredUpTo, FollowedByAnswers
<1> QED BY <1>1, TurnIsInvariant, PTL

\* A paused run stands between whole rounds, and a pause that was accepted lets one more request
\* start at most, the final answer and its retries excepted (RuntimePauseLifecycleHook).
THEOREM PausesAreKept ==
  TurnSpec => []PauseIsKept
<1>1. TurnInv => PauseStandsBetweenRounds
  <2> SUFFICES ASSUME TurnInv, ctl.state = "paused"
               PROVE  /\ pc \in {"hook", "batch"} /\ ctl.interrupt = NoInterrupt
                      /\ \A k \in DOMAIN messages : messages[k].role = "assistant" => FollowedByAnswers(k)
    BY DEF PauseStandsBetweenRounds
  <2>1. pc \in {"hook", "batch"} /\ ctl.interrupt = NoInterrupt
    BY DEF TurnInv, FlowInv
  <2>2. AnsweredUpTo(messages, Len(messages)) /\ DOMAIN messages = 1..Len(messages)
    BY <2>1 DEF TurnInv, TranscriptInv, Whole
  <2> QED BY <2>1, <2>2 DEF AnsweredUpTo, FollowedByAnswers
<1>2. TurnInv => PauseIsSoon
  <2> SUFFICES ASSUME TurnInv, ctl.state = "pause_requested"
               PROVE  late <= 1 + (IF ctl.phase = "final_answer" THEN 1 + MaxRetries ELSE 0)
    BY DEF PauseIsSoon
  <2>1. late \in Nat /\ retries \in 0..MaxRetries /\ MaxRetries \in Nat
    BY TurnBounds DEF TurnInv, FlowInv, LoopInv
  <2> QED BY <2>1 DEF TurnInv, LateInv
<1>3. TurnInv => PauseIsKept
  BY <1>1, <1>2 DEF PauseIsKept
<1> QED BY <1>3, TurnIsInvariant, PTL

===============================================================================
