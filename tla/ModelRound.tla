------------------------------ MODULE ModelRound ------------------------------
(***************************************************************************)
(* One round with the model: the stream of the provider, the adapter that  *)
(* puts it together (openai-compatible-model.adapter.ts, for the two wire  *)
(* formats it speaks) and what the runtime makes of the result, the retry  *)
(* of a round that ran into the output limit included.                     *)
(*                                                                         *)
(* The model says a sequence of items, [kind, name, size, phase].  <<i, k>>*)
(* is piece k of item i; piece 1 of a call is its id and name, the others  *)
(* are its JSON arguments, which parse only when they are whole.  Usage is *)
(* left out.                                                               *)
(***************************************************************************)
EXTENDS Naturals, Sequences, FiniteSets, Functions

CONSTANTS
  Outputs,         \* what the model may say: sequences of items
  MaxRecoveries    \* outputLimitRecoveryAttempts

Phases == {"none", "commentary", "final_answer"}
ItemType ==
  [kind : {"reasoning", "text", "call"}, name : STRING, size : Nat \ {0}, phase : Phases]

ASSUME RoundBounds == Outputs \subseteq Seq(ItemType) /\ MaxRecoveries \in Nat

VARIABLES
  wire,         \* "chat" or "responses"
  finalOnly,    \* finalResponseOnly: neither tools nor clarifications are offered
  output,       \* what the model says in this attempt
  streamed,     \* pieces of each item that were streamed
  opened,       \* items announced by response.output_item.added
  closed,       \* items concluded by response.output_item.done
  label,        \* MessageState.phase of each item
  blocks,       \* text and reasoning told to the runtime, in the order of their first delta
  held,         \* the Map of calls, in the order of insertion
  finish,       \* finishReason
  stage,        \* "streaming", "ended", or how the round came out
  visible,      \* visibleContent
  recoveries    \* outputLimitRecoveryCount

requestVars == <<wire, finalOnly, recoveries>>
wireVars == <<output, streamed, opened, closed, label>>
roundVars == <<requestVars, wireVars, blocks, held, finish, stage, visible>>

Items == DOMAIN output
IsCall(i) == output[i].kind = "call"
Pieces(i) == [k \in 1..output[i].size |-> <<i, k>>]

\* What may be said when no tool is offered.
Allowed(o) == finalOnly => \A i \in DOMAIN o : o[i].kind # "call"

Started(o) ==
  /\ output' = o
  /\ streamed' = [i \in DOMAIN o |-> 0] /\ opened' = {} /\ closed' = {}
  /\ label' = [i \in DOMAIN o |-> "none"]
  /\ blocks' = <<>> /\ held' = <<>> /\ finish' = "none" /\ stage' = "streaming"

RoundInit ==
  /\ wire \in {"chat", "responses"} /\ finalOnly \in BOOLEAN
  /\ output \in {o \in Outputs : Allowed(o)}
  /\ streamed = [i \in Items |-> 0] /\ opened = {} /\ closed = {}
  /\ label = [i \in Items |-> "none"]
  /\ blocks = <<>> /\ held = <<>> /\ finish = "none" /\ stage = "streaming"
  /\ visible = <<>> /\ recoveries = 0

-----------------------------------------------------------------------------
(* What both wires have in common *)

BlocksAt(kind, place) == {n \in DOMAIN blocks : blocks[n].kind = kind /\ blocks[n].place = place}

\* A delta reaches the runtime: the block at its place grows, and visible text with it.
GrowBlock(kind, place, piece, phase) ==
  /\ blocks' = IF BlocksAt(kind, place) = {}
               THEN Append(blocks, [kind |-> kind, place |-> place, body |-> <<piece>>,
                                    phase |-> phase])
               ELSE [n \in DOMAIN blocks |->
                       IF n \in BlocksAt(kind, place)
                       THEN [blocks[n] EXCEPT !.body = Append(@, piece), !.phase = phase]
                       ELSE blocks[n]]
  /\ visible' = IF kind = "text" THEN Append(visible, piece) ELSE visible

Held(i) == {n \in DOMAIN held : held[n].item = i}
LongerCall(i, piece) ==
  [n \in DOMAIN held |->
     IF n \in Held(i) THEN [held[n] EXCEPT !.args = Append(@, piece)] ELSE held[n]]

\* The provider writes text and reasoning one item after the other; calls may interleave.
Turn(i, finished) == IsCall(i) \/ \A j \in Items : j < i => IsCall(j) \/ j \in finished

Advance(i) == streamed' = [streamed EXCEPT ![i] = @ + 1]
AllStreamed == {i \in Items : streamed[i] = output[i].size}

-----------------------------------------------------------------------------
(* Chat Completions: streamRound() *)

\* nextBlockSequence: the next place, for a block or a call that is seen for the first time.
NextPlace == Len(blocks) + Len(held)

\* All content of a round goes to one block, all reasoning to another.
ChatPlace(kind) ==
  LET here == {blocks[n].place : n \in {m \in DOMAIN blocks : blocks[m].kind = kind}}
  IN IF here = {} THEN NextPlace ELSE CHOOSE p \in here : TRUE

\* A fragment of a call is added to the call with its index.
AddFragment(i, piece) ==
  LET first == [item |-> i, name |-> output[i].name, args |-> <<>>, place |-> NextPlace]
  IN held' = IF Held(i) = {} THEN Append(held, first) ELSE LongerCall(i, piece)

\* choice.delta of a chunk
ChatChunk(i) ==
  /\ wire = "chat" /\ stage = "streaming" /\ i \notin AllStreamed /\ Turn(i, AllStreamed)
  /\ Advance(i)
  /\ IF IsCall(i) THEN AddFragment(i, <<i, streamed[i] + 1>>) /\ UNCHANGED <<blocks, visible>>
     ELSE /\ GrowBlock(output[i].kind, ChatPlace(output[i].kind), <<i, streamed[i] + 1>>, "none")
          /\ UNCHANGED held
  /\ UNCHANGED <<requestVars, output, opened, closed, label, finish, stage>>

-----------------------------------------------------------------------------
(* Responses: streamResponsesRound() *)

SetCall(i, args) ==
  LET call == [item |-> i, name |-> output[i].name, args |-> args, place |-> i]
  IN held' = IF Held(i) = {} THEN Append(held, call)
              ELSE [n \in DOMAIN held |-> IF n \in Held(i) THEN call ELSE held[n]]

Provisional(i) == IF output[i].kind = "text" THEN {"final_answer", output[i].phase} ELSE {"none"}

\* response.output_item.added: items are announced in order, and the phase is provisional.
ItemAdded(i) ==
  /\ wire = "responses" /\ stage = "streaming" /\ Turn(i, closed)
  /\ i \notin opened /\ \A j \in Items : j < i => j \in opened
  /\ opened' = opened \cup {i}
  /\ IF IsCall(i) THEN SetCall(i, <<>>) /\ streamed' = [streamed EXCEPT ![i] = 1] /\ UNCHANGED label
     ELSE /\ \E p \in Provisional(i) : label' = [label EXCEPT ![i] = p]
          /\ UNCHANGED <<held, streamed>>
  /\ UNCHANGED <<requestVars, output, closed, blocks, finish, stage, visible>>

\* streamingTextPhase(): pending while the model may still call a tool.
DeltaPhase(i) ==
  IF output[i].kind = "reasoning" THEN "none"
  ELSE IF ~finalOnly \/ label[i] = "none" THEN "pending" ELSE label[i]

\* response.output_text.delta, .reasoning_text.delta and .function_call_arguments.delta
ItemDelta(i) ==
  /\ wire = "responses" /\ stage = "streaming" /\ i \in opened \ closed /\ i \notin AllStreamed
  /\ Advance(i)
  /\ IF IsCall(i)
     THEN held' = LongerCall(i, <<i, streamed[i] + 1>>) /\ UNCHANGED <<blocks, visible>>
     ELSE GrowBlock(output[i].kind, i, <<i, streamed[i] + 1>>, DeltaPhase(i)) /\ UNCHANGED held
  /\ UNCHANGED <<requestVars, output, opened, closed, label, finish, stage>>

\* text.phase.completed: the label of response.output_item.done is the one that counts.
Labelled(i, phase) ==
  [n \in DOMAIN blocks |->
     IF n \in BlocksAt("text", i) /\ phase # "none" THEN [blocks[n] EXCEPT !.phase = phase]
     ELSE blocks[n]]

\* functionCallArguments(): a call that is done has all its arguments, whatever was streamed.
DoneArguments(i) == Tail(Pieces(i))

\* response.output_item.done
ItemDone(i) ==
  /\ wire = "responses" /\ stage = "streaming" /\ i \in opened \ closed
  /\ IsCall(i) \/ i \in AllStreamed
  /\ closed' = closed \cup {i} /\ streamed' = [streamed EXCEPT ![i] = output[i].size]
  /\ IF IsCall(i) THEN SetCall(i, DoneArguments(i)) /\ UNCHANGED <<blocks, label>>
     ELSE LET phase == IF output[i].phase # "none" THEN output[i].phase ELSE label[i]
          IN /\ label' = [label EXCEPT ![i] = phase]
             /\ blocks' = Labelled(i, phase)
             /\ UNCHANGED held
  /\ UNCHANGED <<requestVars, output, opened, finish, stage, visible>>

-----------------------------------------------------------------------------
(* The end of the stream *)

AllDone == Items = IF wire = "chat" THEN AllStreamed ELSE closed

\* finish_reason and the end of the chunks; response.completed or response.incomplete.  A stream
\* may also just end, and the reason stays unknown.
StreamEnds ==
  /\ stage = "streaming" /\ stage' = "ended"
  /\ \/ AllDone /\ finish' = "stop"
     \/ finish' \in {"max_output_tokens", "content_filter", "none"}
  /\ UNCHANGED <<requestVars, wireVars, blocks, held, visible>>

RoundFailed == stage' = "failed" /\ UNCHANGED <<requestVars, wireVars, blocks, held, finish>>

\* The stream or the adapter throws: the text of this attempt is taken back.
Thrown == RoundFailed /\ visible' = <<>>

\* response.failed, a lost connection, an abort or a timeout
WireBreaks == stage = "streaming" /\ Thrown

-----------------------------------------------------------------------------
(* What the adapter and the runtime make of it *)

\* The calls in the order in which the model declared them.
\* Mutant: they stay in the order in which they arrived.
ArrivalPlace(n) == n
SortPlace(n) == IF wire = "chat" THEN held[n].item ELSE n

InOrder(calls) ==
  LET places == {SortPlace(n) : n \in calls}
      rank == [n \in calls |-> Cardinality({p \in places : p <= SortPlace(n)})]
  IN [k \in 1..Cardinality(calls) |-> held[CHOOSE n \in calls : rank[n] = k]]

Clarifications == {n \in DOMAIN held : held[n].name = "clarify"}
Business == InOrder(DOMAIN held \ Clarifications)
IsWhole(c) == c.args = Tail(Pieces(c.item))

\* INVALID_CLARIFICATION_PROTOCOL, or arguments of a clarification that do not parse.
ClarificationInvalid ==
  /\ Clarifications # {}
  /\ \/ Cardinality(Clarifications) > 1 \/ Business # <<>>
     \/ \E n \in Clarifications : ~IsWhole(held[n])

AdapterThrows == stage = "ended" /\ ClarificationInvalid /\ Thrown

Texts == {n \in DOMAIN blocks : blocks[n].kind = "text"}
LastText == CHOOSE n \in Texts : \A m \in Texts : m <= n

\* The last text that is still pending precedes calls, or is the answer.
Settled ==
  [n \in DOMAIN blocks |->
     IF n \in Texts /\ n = LastText /\ blocks[n].phase = "pending"
     THEN [blocks[n] EXCEPT !.phase = IF Business # <<>> THEN "commentary" ELSE "final_answer"]
     ELSE blocks[n]]

Concluding == stage = "ended" /\ ~ClarificationInvalid

\* Only the Responses wire reports why a response is incomplete.
IncompleteOtherwise == wire = "responses" /\ finish = "content_filter"
Truncated == finish = "max_output_tokens"
NothingSaid == finalOnly /\ blocks = <<>> /\ Business = <<>>

\* recoverToolCallArguments(): only a report or a file is worth closing where it broke off.
Salvageable(c) == ~IsWhole(c) /\ c.name = "create_report" /\ c.args # <<>>
Recovered(salvaged) ==
  [n \in DOMAIN Business |->
     IF Business[n].item \in salvaged THEN [Business[n] EXCEPT !.args = Append(@, "closed")]
     ELSE Business[n]]
Usable(salvaged) == {n \in DOMAIN Business : IsWhole(Business[n]) \/ Business[n].item \in salvaged}
Salvages == SUBSET {Business[n].item : n \in {m \in DOMAIN Business : Salvageable(Business[m])}}

Accept(cs) ==
  /\ stage' = IF Clarifications # {} THEN "clarifies"
              ELSE IF cs # <<>> THEN "calls" ELSE "answers"
  /\ held' = cs /\ blocks' = Settled
  /\ UNCHANGED <<requestVars, wireVars, finish, visible>>

\* The round is taken as the model's answer, or as its calls.
RoundAccepted ==
  /\ Concluding /\ ~IncompleteOtherwise
  /\ IF Truncated THEN \E salvaged \in Salvages : Usable(salvaged) # {} /\ Accept(Recovered(salvaged))
     ELSE ~NothingSaid /\ Accept(Business)

\* recoverTruncatedModelRound() found nothing to go on with: the model is asked for less.
AskAgain ==
  /\ Concluding /\ Truncated /\ \E salvaged \in Salvages : Usable(salvaged) = {}
  /\ recoveries < MaxRecoveries /\ recoveries' = recoveries + 1
  /\ visible' = <<>>
  /\ \E o \in Outputs : Allowed(o) /\ Started(o)
  /\ UNCHANGED <<wire, finalOnly>>

\* MODEL_OUTPUT_LIMIT, MODEL_STREAM_INTERRUPTED or MODEL_EMPTY_RESPONSE
RoundRejected ==
  /\ Concluding
  /\ \/ IncompleteOtherwise \/ (~Truncated /\ NothingSaid)
     \/ Truncated /\ recoveries = MaxRecoveries /\ \E salvaged \in Salvages : Usable(salvaged) = {}
  /\ RoundFailed
  /\ visible' = IF Truncated /\ finalOnly THEN <<>> ELSE visible

RoundNext ==
  \/ \E i \in Items : ChatChunk(i) \/ ItemAdded(i) \/ ItemDelta(i) \/ ItemDone(i)
  \/ StreamEnds \/ WireBreaks \/ AdapterThrows
  \/ RoundAccepted \/ AskAgain \/ RoundRejected

RoundSpec == RoundInit /\ [][RoundNext]_roundVars

-----------------------------------------------------------------------------
(* Properties *)

RoundTypeOK ==
  /\ wire \in {"chat", "responses"} /\ finalOnly \in BOOLEAN /\ output \in Outputs
  /\ \A i \in Items : streamed[i] \in 0..output[i].size
  /\ closed \subseteq opened /\ opened \subseteq Items
  /\ finish \in {"none", "stop", "max_output_tokens", "content_filter"}
  /\ stage \in {"streaming", "ended", "failed", "clarifies", "calls", "answers"}
  /\ recoveries \in 0..MaxRecoveries

\* What the model says of a kind, in the order of Before.
SaidBy(kind) == {i \in Items : output[i].kind = kind}
Said(kind) == UNION {{<<i, k>> : k \in 1..output[i].size} : i \in SaidBy(kind)}
Before(p, q) == p[1] < q[1] \/ (p[1] = q[1] /\ p[2] < q[2])
InTurn(s) == \A m, n \in DOMAIN s : m < n => Before(s[m], s[n])
IsBeginning(s, said) ==
  InTurn(s) /\ \A n \in DOMAIN s : s[n] \in said /\ \A p \in said : Before(p, s[n]) => p \in Range(s)

\* One block after the other, those of a kind hold all that the model says of it.
ShownOf(kind) == {n \in DOMAIN blocks : blocks[n].kind = kind}
ShownWhole(kind) ==
  /\ \A n \in ShownOf(kind) : InTurn(blocks[n].body)
  /\ \A m, n \in ShownOf(kind) : m < n =>
       \A p \in Range(blocks[m].body), q \in Range(blocks[n].body) : Before(p, q)
  /\ UNION {Range(blocks[n].body) : n \in ShownOf(kind)} = Said(kind)

PlacesTaken == [n \in DOMAIN blocks |-> blocks[n].place] \o [n \in DOMAIN held |-> held[n].place]

\* The text of an accepted round bears the phase the model gave it in the end, and the last one
\* the phase that its calls imply if the model gave none.
GivenPhase(b) ==
  LET i == b.body[1][1] IN IF output[i].phase # "none" THEN output[i].phase ELSE label[i]
PhaseIsRight(n) ==
  IF wire = "chat" THEN blocks[n].phase = "none"
  ELSE IF GivenPhase(blocks[n]) # "none" THEN blocks[n].phase = GivenPhase(blocks[n])
  ELSE n = LastText =>
         blocks[n].phase = IF SaidBy("call") = {} THEN "final_answer" ELSE "commentary"

\* Whatever the order in which the pieces of an answer and of its calls arrive, no two of them are
\* shown at one place, the text that is shown is the beginning of what the model says, and a call
\* that is made has no argument of another one.  When the provider says that the round is
\* finished, the runtime has the whole answer and every call, whole and in the model's order.
RoundIsAsSaid ==
  /\ IsInjective(PlacesTaken)
  /\ IsBeginning(visible, Said("text"))
  /\ stage = "calls" =>
       \A n \in DOMAIN held : \A k \in DOMAIN held[n].args :
         held[n].args[k] \in {<<held[n].item, k + 1>>, "closed"}
  /\ (stage \in {"calls", "answers"} /\ finish = "stop") =>
       /\ Range(visible) = Said("text") /\ ShownWhole("text") /\ ShownWhole("reasoning")
       /\ \A m, n \in DOMAIN held : m < n => held[m].item < held[n].item
       /\ {held[n].item : n \in DOMAIN held} = SaidBy("call")
       /\ \A n \in DOMAIN held : IsWhole(held[n])
       /\ \A n \in Texts : PhaseIsRight(n)
==============================================================================
