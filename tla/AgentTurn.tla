------------------------------ MODULE AgentTurn ------------------------------
(***************************************************************************)
(* AgentRuntimeService.run(): the loop of model requests and tool batches  *)
(* of one run, with the requests that users send to its lifecycle          *)
(* controller meanwhile.  An action is what runs between two awaits or     *)
(* yields; what a model or a tool returns is nondeterministic.             *)
(*                                                                         *)
(* A call is <<round, index>>: the index-th call of the batch that the     *)
(* model declared in that round.  pc names the await the runtime is at:    *)
(*   "round"    about to start the next round of the loop                  *)
(*   "hook"     the pause before the request, or onBeforeModelRequest()    *)
(*   "model"    the model's stream                                         *)
(*   "clarify"  the answer to a clarification                              *)
(*   "prepare"  the transcript item of the assistant's calls was yielded   *)
(*   "search", "tools"  a tool_search, or another tool, is running         *)
(*   "approval" the decision on the calls that need one                    *)
(*   "batch"    the pause after the batch was committed                    *)
(*   "done", "thrown"  run() returned or threw; "ended": disposed          *)
(***************************************************************************)
EXTENDS RuntimeLifecycle, Sequences, FiniteSets

CONSTANTS
  Batches,           \* the batches a model may declare: sequences of tool names
  Mcp, Deferred,     \* MCP tools, and those of them that tool_search must activate first
  Guarded, Denied,   \* tools with approval "require_approval" and "direct_reject"
  ActivatedCap,      \* MCP_ACTIVATED_CAP
  MaxInvestigation, MaxDelivery, MaxRounds, MaxRetries   \* DEFAULT_RUNTIME_POLICY

ASSUME TurnBounds ==
  /\ MaxInvestigation \in Nat \ {0} /\ MaxDelivery \in Nat \ {0}
  /\ MaxRounds \in Nat /\ MaxRetries \in Nat /\ ActivatedCap \in Nat
ASSUME TurnTools ==
  /\ Deferred \subseteq Mcp
  /\ Guarded \intersect Denied = {}
  /\ {"update_plan", "tool_search"} \intersect (Mcp \union Guarded \union Denied) = {}
  /\ IsFiniteSet(Mcp) /\ Batches \subseteq Seq(STRING)

VARIABLES
  ctl, pc, round, only, toolPhase, investigation, delivery, recovered, retries,
  messages,          \* the transcript sent to the model: what kind of message, of which calls
  calls, dispatch, results, refused, planned, activated,
  signal,            \* "none", "aborted" by a cancel, or "deadline" of the run
  ran,               \* history: calls whose tool was started, with the tool and the phase
  granted,           \* history: calls that a user approved
  late               \* history: model requests sent since the pause in force was accepted

flow == <<ctl, pc, signal, late>>
loop == <<round, only, toolPhase, investigation, delivery, recovered, retries, planned>>
batch == <<calls, dispatch, results, refused, activated, ran, granted>>
turnVars == <<flow, loop, messages, batch>>

Message(role, ids) == [role |-> role, calls |-> ids]
NoCalls == <<>>

TurnInit ==
  /\ ctl = NewController /\ pc = "round" /\ signal = "none" /\ late = 0
  /\ round = 0 /\ only = FALSE /\ toolPhase = "investigation" /\ investigation = 0
  /\ delivery = 0 /\ recovered = FALSE /\ retries = 0 /\ planned = FALSE
  /\ messages = <<Message("system", NoCalls), Message("user", NoCalls)>>
  /\ calls = <<>> /\ dispatch = <<>> /\ results = <<>> /\ refused = {} /\ activated = {}
  /\ ran = {} /\ granted = {}

-----------------------------------------------------------------------------
(* The budget of tool turns.                                               *)

DeliveryTools == {"create_file", "create_report"}
CountsTowardToolTurn(tool) == tool \notin {"update_plan", "tool_search"}

\* evaluateToolDispatchBudget(): "over" also ends the tool loop.
\* Mutant: the delivery phase admits every tool.
BudgetOfAnyTool(tool) ==
  IF ~CountsTowardToolTurn(tool) THEN "allow"
  ELSE IF toolPhase = "final_only" THEN "over"
  ELSE IF toolPhase = "delivery" /\ delivery >= MaxDelivery THEN "over" ELSE "allow"
Budget(tool) ==
  IF ~CountsTowardToolTurn(tool) THEN "allow"
  ELSE IF toolPhase = "final_only" THEN "over"
  ELSE IF toolPhase = "delivery" /\ tool \notin DeliveryTools THEN "reject"
  ELSE IF toolPhase = "delivery" /\ delivery >= MaxDelivery THEN "over" ELSE "allow"

EnterFinal == only' = TRUE /\ toolPhase' = "final_only"

\* The last turn of the investigation was spent.
\* Mutant: the phase changes one turn late.
InvestigatedLate(turns) == turns > MaxInvestigation
Investigated(turns) == turns >= MaxInvestigation

\* applyToolBatchTurnCount(), and what run() does with its result.
CountTurn ==
  LET counts == \E i \in DOMAIN calls : CountsTowardToolTurn(calls[i])
      spent == counts /\ toolPhase = "delivery" /\ delivery + 1 >= MaxDelivery
      moves == counts /\ toolPhase = "investigation" /\ Investigated(investigation + 1)
  IN /\ investigation' = investigation + (IF counts /\ toolPhase = "investigation" THEN 1 ELSE 0)
     /\ delivery' = delivery + (IF counts /\ toolPhase = "delivery" /\ delivery < MaxDelivery
                                THEN 1 ELSE 0)
     /\ \/ spent /\ EnterFinal
        \/ moves /\ toolPhase' = "delivery" /\ UNCHANGED only
        \/ ~spent /\ ~moves /\ UNCHANGED <<only, toolPhase>>

-----------------------------------------------------------------------------
(* The loop, up to the model's answer.                                     *)

Throw == pc' = "thrown"

Repeat(c) == pc' = "round" /\ ctl' = c

StartRound ==
  /\ pc = "round" /\ round < MaxRounds /\ signal = "none"
  /\ round' = round + 1 /\ pc' = "hook"
  /\ ctl' = Reach(ctl, "before_model_request", only)
  /\ UNCHANGED <<signal, late, only, toolPhase, investigation, delivery, recovered, retries,
                 planned, messages, batch>>

\* The loop ends without an answer, or assertRunActive() throws.
StopLooping ==
  /\ pc = "round"
  /\ \/ round >= MaxRounds /\ pc' = "done"
     \/ round < MaxRounds /\ signal # "none" /\ Throw
  /\ UNCHANGED <<ctl, signal, late, loop, messages, batch>>

Requested == late' = IF ctl.state = "pause_requested" THEN late + 1 ELSE late

\* onBeforeModelRequest() and compileRound(): a steer joins the transcript, the request is sent.
\* The hints that run() may add here, after whole batches as well, are left out.
AskModel ==
  /\ pc = "hook" /\ ctl.waits = "nothing" /\ signal = "none"
  /\ pc' = "model" /\ Requested
  /\ \/ UNCHANGED messages
     \/ round > 1 /\ ~only /\ messages' = Append(messages, Message("user", NoCalls))
  /\ UNCHANGED <<ctl, signal, loop, batch>>

\* The hook, the compilation, the model's stream, or a later assertRunActive() fails.
RoundFails ==
  /\ pc \in {"hook", "model"} /\ ctl.waits = "nothing" /\ Throw
  /\ UNCHANGED <<ctl, signal, late, loop, messages, batch>>

\* Text and no calls: the final answer, even of a run that was asked to pause.
ModelAnswers ==
  /\ pc = "model" /\ signal = "none" /\ pc' = "done"
  /\ ctl' = Reach(Reach(ctl, "model_round_classified", only), "final_answer", only)
  /\ messages' = Append(messages, Message("assistant", NoCalls))
  /\ UNCHANGED <<signal, late, loop, batch>>

\* Neither text nor calls: one more attempt, without tools.
ModelReturnsNothing ==
  /\ pc = "model" /\ signal = "none" /\ ~only /\ ~recovered
  /\ recovered' = TRUE /\ EnterFinal
  /\ messages' = Append(messages, Message("system", NoCalls))
  /\ Repeat(Reach(ctl, "model_round_classified", only))
  /\ UNCHANGED <<signal, late, round, investigation, delivery, retries, planned, batch>>

\* The output budget cut the answer off, and no call of it is usable.
ModelIsCutOff ==
  /\ pc = "model" /\ retries < MaxRetries
  /\ retries' = retries + 1
  /\ messages' = Append(messages, Message("system", NoCalls))
  /\ \/ only /\ Requested /\ UNCHANGED <<pc, ctl>>
     \/ ~only /\ Repeat(ctl) /\ UNCHANGED late
  /\ UNCHANGED <<signal, round, only, toolPhase, investigation, delivery, recovered, planned,
                 batch>>

ModelClarifies ==
  /\ pc = "model" /\ signal = "none" /\ ~only
  /\ ctl' = CreateInterrupt(Reach(ctl, "model_round_classified", only), "clarification", round)
  /\ messages' = Append(messages, Message("assistant", NoCalls))
  /\ pc' = "clarify"
  /\ UNCHANGED <<signal, late, loop, batch>>

Clarified ==
  /\ pc = "clarify" /\ ctl.waits = "nothing"
  /\ \/ /\ ctl.outcome = "resolved" /\ Repeat(ctl)
        /\ messages' = Append(messages, Message("user", NoCalls))
     \/ ctl.outcome = "rejected" /\ Throw /\ UNCHANGED <<ctl, messages>>
  /\ UNCHANGED <<signal, late, loop, batch>>

ModelCalls(b) ==
  /\ pc = "model" /\ signal = "none" /\ ~only
  /\ ctl' = Reach(ctl, "model_round_classified", only)
  /\ messages' = Append(messages, Message("assistant", [i \in DOMAIN b |-> <<round, i>>]))
  /\ calls' = b /\ dispatch' = <<>> /\ results' = <<>> /\ refused' = {}
  /\ pc' = "prepare"
  /\ UNCHANGED <<signal, late, loop, activated, ran, granted>>

-----------------------------------------------------------------------------
(* The dispatch plan of a batch.                                           *)

\* The calls of a plan with the given status; bad: the calls whose arguments do not parse.
With(plan, status) == {i \in DOMAIN plan : plan[i] = status}

Plan(bad) ==
  [i \in DOMAIN calls |->
     IF Budget(calls[i]) # "allow" THEN Budget(calls[i])
     ELSE IF calls[i] \in Mcp THEN "pending"
     ELSE IF i \in bad THEN "reject" ELSE "ready"]

\* canExecuteMcp(): a deferred tool was activated in this run.
\* Mutant: an MCP tool that is known may be called before it was found by a search.
CanExecuteKnown(tool, active) == tool \in Mcp
CanExecute(tool, active) == tool \in Deferred => tool \in active

\* resolveDeferredMcpDispatch(): after the searches of the batch.
Resolved(plan, active, bad) ==
  [i \in DOMAIN plan |->
     IF plan[i] # "pending" THEN plan[i]
     ELSE IF i \notin bad /\ CanExecute(calls[i], active) THEN "ready" ELSE "reject"]

\* The calls that need a decision before any tool but tool_search runs.
NeedsApproval(plan) == {i \in With(plan, "ready") : calls[i] \in Guarded}

\* The MCP calls are resolved and the approval is asked for without an await in between.
Settle(plan, active, c) ==
  \E bad \in SUBSET With(plan, "pending") :
    LET resolved == Resolved(plan, active, bad)
    IN /\ dispatch' = resolved
       /\ IF NeedsApproval(resolved) = {} THEN pc' = "tools" /\ ctl' = c
          ELSE pc' = "approval" /\ ctl' = CreateInterrupt(c, "tool_approval", round)

Searches(plan) == {i \in With(plan, "ready") : calls[i] = "tool_search"}

PrepareBatch ==
  /\ pc = "prepare"
  /\ \E bad \in SUBSET DOMAIN calls :
       LET c == Reach(ctl, "tool_dispatch_ready", only)
           plan == Plan(bad)
       IN IF signal # "none" THEN Throw /\ ctl' = c /\ UNCHANGED dispatch
          ELSE IF Searches(plan) = {} THEN Settle(plan, activated, c)
          ELSE pc' = "search" /\ ctl' = c /\ dispatch' = plan
  /\ UNCHANGED <<signal, late, loop, messages, calls, results, refused, activated, ran, granted>>

-----------------------------------------------------------------------------
(* The calls of a batch.                                                   *)

Answered == {results[k].call : k \in DOMAIN results}
FirstOf(S) == CHOOSE i \in S : \A j \in S : i <= j

Answer(i) == results' = Append(results, [call |-> i, over |-> dispatch[i] = "over"])

\* ToolSearchTool: hits are activated while slots are left.
\* Mutant: the slots of the cap are counted anew for every search.
SlotsOfSearch == ActivatedCap
Slots == ActivatedCap - Cardinality(activated)

\* A tool_search ends; the searches run one after another, before everything else.
Search ==
  /\ pc = "search"
  /\ LET open == Searches(dispatch) \ Answered
         i == FirstOf(open)
     IN /\ \E found \in SUBSET (Deferred \ activated) :
             /\ Cardinality(found) <= Slots
             /\ activated' = activated \union found
             /\ IF signal # "none" THEN Throw /\ UNCHANGED <<ctl, dispatch>>
                ELSE IF open = {i} THEN Settle(dispatch, activated \union found, ctl)
                ELSE UNCHANGED <<pc, ctl, dispatch>>
        /\ IF signal = "none" THEN Answer(i) ELSE UNCHANGED results
  /\ UNCHANGED <<signal, late, loop, messages, calls, refused, ran, granted>>

Approved ==
  /\ pc = "approval" /\ ctl.waits = "nothing"
  /\ pc' = IF ctl.outcome = "resolved" THEN "tools" ELSE "thrown"
  /\ UNCHANGED <<ctl, signal, late, loop, messages, batch>>

\* orderToolCallsForBatch(): searches (rejected ones are left here) before the rest.
NextCall ==
  LET open == DOMAIN calls \ Answered
      searches == {i \in open : calls[i] = "tool_search"}
  IN IF searches # {} THEN FirstOf(searches) ELSE FirstOf(open)

\* A call that does not reach its tool: rejected, denied by policy or by the user; or a plan.
\* Mutant: the refusal of the user is not looked up.
WithheldByPolicy(i) == dispatch[i] # "ready" \/ calls[i] \in Denied
Withheld(i) == dispatch[i] # "ready" \/ calls[i] \in Denied \/ i \in refused

SkipCall ==
  /\ pc = "tools" /\ DOMAIN calls # Answered
  /\ LET i == NextCall
     IN /\ Withheld(i) \/ calls[i] = "update_plan"
        /\ planned' = (planned \/ (~Withheld(i) /\ calls[i] = "update_plan"))
        /\ Answer(i)
  /\ UNCHANGED <<flow, round, only, toolPhase, investigation, delivery, recovered, retries,
                 messages, calls, dispatch, refused, activated, ran, granted>>

\* A tool runs and its outcome, whatever it is, becomes the answer; unless the run stops.
RunTool ==
  /\ pc = "tools" /\ DOMAIN calls # Answered
  /\ LET i == NextCall
     IN /\ ~Withheld(i) /\ calls[i] # "update_plan"
        /\ ran' = IF calls[i] \in Mcp /\ ~CanExecute(calls[i], activated) THEN ran
                  ELSE ran \union {[call |-> <<round, i>>, tool |-> calls[i], phase |-> toolPhase]}
        /\ IF signal = "none" THEN Answer(i) /\ UNCHANGED pc ELSE Throw /\ UNCHANGED results
  /\ UNCHANGED <<ctl, signal, late, loop, messages, calls, dispatch, refused, activated, granted>>

\* The tool messages are appended in the order in which the model declared the calls.
\* Mutant: they are appended in the order in which they were answered.
AnswersAsRun == [k \in DOMAIN results |-> Message("tool", <<<<round, results[k].call>>>>)]
Answers == [i \in DOMAIN calls |-> Message("tool", <<<<round, i>>>>)]

\* The messages but for those with a plan, in their order.
IsPlan(message) == message.role = "plan"
WithoutPlans(msgs) ==
  LET kept == {k \in DOMAIN msgs : ~IsPlan(msgs[k])}
  IN [i \in 1..Cardinality(kept) |->
        msgs[CHOOSE k \in kept : Cardinality({j \in kept : j < k}) = i - 1]]

Planned(msgs) ==
  IF planned THEN Append(WithoutPlans(msgs), Message("plan", NoCalls)) ELSE msgs

CommitBatch ==
  /\ pc = "tools" /\ DOMAIN calls = Answered
  /\ messages' = Planned(messages \o Answers)
  /\ IF \E k \in DOMAIN results : results[k].over THEN EnterFinal
     ELSE UNCHANGED <<only, toolPhase>>
  /\ ctl' = Reach(ctl, "tool_batch_committed", only')
  /\ pc' = "batch"
  /\ UNCHANGED <<signal, late, round, investigation, delivery, recovered, retries, planned, batch>>

\* The turn is counted; the model is told of a change of phase.
AfterBatch ==
  /\ pc = "batch" /\ ctl.waits = "nothing"
  /\ \/ /\ signal = "none" /\ pc' = "round" /\ CountTurn
        /\ messages' = IF toolPhase' # toolPhase \/ only' THEN Append(messages, Message("system", NoCalls))
                       ELSE messages
     \/ signal # "none" /\ Throw /\ UNCHANGED <<only, toolPhase, investigation, delivery, messages>>
  /\ UNCHANGED <<ctl, signal, late, round, recovered, retries, planned, batch>>

\* RunExecutor: the terminal status is durable, the controller is told and disposed of.
EndTurn ==
  /\ pc \in {"done", "thrown"} /\ pc' = "ended"
  /\ ctl' = Dispose(MarkTerminal(ctl, IF pc = "done" THEN "completed"
                                      ELSE IF signal = "aborted" THEN "cancelled" ELSE "failed"))
  /\ UNCHANGED <<signal, late, loop, messages, batch>>

-----------------------------------------------------------------------------
(* What users and time do meanwhile.                                       *)

Pause ==
  /\ MayPause(ctl) /\ ctl' = RequestPause(ctl) /\ late' = 0
  /\ UNCHANGED <<pc, signal, loop, messages, batch>>

ResumeRun ==
  /\ MayResume(ctl) /\ ctl' = Resume(ctl) /\ UNCHANGED <<pc, signal, late, loop, messages, batch>>

Respond(id) ==
  /\ MayRespond(ctl, "clarification", id) /\ ctl' = ResolveInterrupt(ctl)
  /\ UNCHANGED <<pc, signal, late, loop, messages, batch>>

\* decideApproval(): every item is decided, once.
\* Mutant: items without a decision are let through.
DecidesSome(yes, no) == yes \union no \subseteq NeedsApproval(dispatch)
Decides(yes, no) == yes \union no = NeedsApproval(dispatch) /\ yes \intersect no = {}

Decide(id, yes, no) ==
  /\ MayRespond(ctl, "tool_approval", id) /\ Decides(yes, no)
  /\ ctl' = ResolveInterrupt(ctl)
  /\ refused' = no /\ granted' = granted \union {<<id, i>> : i \in yes}
  /\ UNCHANGED <<pc, signal, late, loop, messages, calls, dispatch, results, activated, ran>>

\* RunCommandService.cancel() and onModuleDestroy(): the controller, then the abort signal.
Cancel ==
  /\ pc # "ended" /\ signal # "aborted" /\ signal' = "aborted"
  /\ ctl' = RequestCancel(ctl)
  /\ UNCHANGED <<pc, late, loop, messages, batch>>

\* runDeadlineSignal: it wakes no wait for a user.
Deadline ==
  /\ pc # "ended" /\ signal = "none" /\ signal' = "deadline"
  /\ UNCHANGED <<ctl, pc, late, loop, messages, batch>>

Runtime ==
  \/ StartRound \/ StopLooping \/ AskModel \/ RoundFails \/ ModelAnswers \/ ModelReturnsNothing
  \/ ModelIsCutOff \/ ModelClarifies \/ Clarified \/ (\E b \in Batches : ModelCalls(b))
  \/ PrepareBatch \/ Search \/ Approved \/ SkipCall \/ RunTool \/ CommitBatch \/ AfterBatch
  \/ EndTurn

Users ==
  \/ Pause \/ ResumeRun \/ Cancel \/ Deadline
  \/ \E id \in 1..MaxRounds : Respond(id)
  \/ \E id \in 1..MaxRounds : \E yes, no \in SUBSET DOMAIN calls : Decide(id, yes, no)

TurnNext == Runtime \/ Users
TurnSpec == TurnInit /\ [][TurnNext]_turnVars

-----------------------------------------------------------------------------
(* Properties.                                                             *)

TurnTypeOK ==
  /\ ctl \in Controllers
  /\ pc \in {"round", "hook", "model", "clarify", "prepare", "search", "approval", "tools",
             "batch", "done", "thrown", "ended"}
  /\ signal \in {"none", "aborted", "deadline"} /\ late \in Nat
  /\ round \in 0..MaxRounds /\ retries \in 0..MaxRetries
  /\ only \in BOOLEAN /\ recovered \in BOOLEAN /\ planned \in BOOLEAN
  /\ toolPhase \in {"investigation", "delivery", "final_only"}
  /\ investigation \in 0..MaxInvestigation /\ delivery \in 0..MaxDelivery
  /\ activated \subseteq Deferred /\ refused \subseteq DOMAIN calls
  /\ \A k \in DOMAIN results : results[k].call \in DOMAIN calls
  /\ only <=> toolPhase = "final_only"

\* Whenever the model is asked, every batch of calls in the transcript is followed directly by
\* one tool message per call, in the order of the calls, and no other tool message exists: what
\* assertCanonicalToolTranscript() demands, however the calls were rejected, refused or run.
FollowedByAnswers(k) ==
  LET ids == messages[k].calls
  IN /\ k + Len(ids) <= Len(messages)
     /\ \A i \in DOMAIN ids : messages[k + i] = Message("tool", <<ids[i]>>)
EveryCallIsAnswered ==
  pc \in {"round", "hook", "model"} =>
    \A k \in DOMAIN messages :
      /\ messages[k].role = "assistant" => FollowedByAnswers(k)
      /\ messages[k].role = "tool" =>
           \E j \in 1..(k - 1) : /\ messages[j].role = "assistant"
                                 /\ k - j \in DOMAIN messages[j].calls

\* It waits before a request or after a batch was committed.
PauseStandsBetweenRounds ==
  ctl.state = "paused" =>
    /\ pc \in {"hook", "batch"} /\ ctl.interrupt = NoInterrupt
    /\ \A k \in DOMAIN messages : messages[k].role = "assistant" => FollowedByAnswers(k)

\* One request may be under preparation; the final answer and its retries cannot be held.
PauseIsSoon ==
  ctl.state = "pause_requested" =>
    late <= 1 + (IF ctl.phase = "final_answer" THEN 1 + MaxRetries ELSE 0)

\* A paused run stands between whole rounds, with no tool running and no decision of the user
\* pending (safe boundaries of RuntimePauseLifecycleHook), and a pause that was accepted lets at
\* most one more model request start, the final answer excepted.
PauseIsKept == PauseStandsBetweenRounds /\ PauseIsSoon

\* A tool runs only if it was admitted: a guarded one after a user approved that very call, a
\* denied one never, a deferred one after a search activated it, and within the cap; in the
\* delivery phase only the tools that deliver, and none once the final answer was entered.
OnlyAdmittedCallsRun ==
  /\ Cardinality(activated) <= ActivatedCap
  /\ \A r \in ran :
       /\ r.tool \in Guarded => r.call \in granted
       /\ r.tool \notin Denied
       /\ r.tool \in Deferred => r.tool \in activated
       /\ r.phase = "investigation" \/ (r.phase = "delivery" /\ r.tool \in DeliveryTools)

\* A cancel ends the run, also one that is paused or waits for a user: requestCancel() wakes
\* every wait, and each await that it does not wake ends by itself.
CancelEndsTurn == (signal = "aborted") ~> (pc = "ended")

=============================================================================
