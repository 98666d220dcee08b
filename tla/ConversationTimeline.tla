-------------------------- MODULE ConversationTimeline --------------------------
(***************************************************************************)
(* The answer of one run as ordered blocks, built twice: by the server's   *)
(* ConversationBlockCollector from the events of the runtime, and by a web *)
(* client from snapshots of the run and the events that chat.service.ts    *)
(* makes of them.                                                          *)
(*                                                                         *)
(* The hub hands a client every event after its cursor in order, or the    *)
(* client takes a snapshot (RunExecution), so what it has not applied is a *)
(* queue here.  Text is counted in deltas.  A tool call has an id of its   *)
(* own, and one artifact at most, which the call names here.               *)
(***************************************************************************)
EXTENDS Integers, Sequences, SequencesExt, Subsequences

CONSTANTS
  MaxModelRounds,   \* bound: model rounds of the run
  MaxAnswers,       \* attempts at a final answer: outputLimitRecoveryAttempts + 1
  MaxPositions,     \* bound: blocks that the model opens in a round
  MaxDeltas,        \* bound: deltas of a block
  MaxBehind,        \* bound: events that the client has not applied
  MaxSent           \* bound: events of the run

ASSUME TimelineBounds ==
  /\ {MaxModelRounds, MaxAnswers, MaxPositions, MaxDeltas, MaxBehind, MaxSent} \subseteq Nat
  /\ MaxModelRounds > 0

VARIABLES
  collected,   \* blocks of the collector
  texts,       \* textBlockCount
  sent,        \* counts towards MaxSent
  model,       \* where the runtime is in the model's output
  unapplied,   \* events the client has not applied
  shown,       \* blocks of the client's assistant message
  excused      \* history: the client was not told, or kept what it had

timelineVars == <<collected, texts, sent, model, unapplied, shown, excused>>

\* round and attempt stand for roundId and roundSequence; size counts deltas.
Block(id, round, attempt, pos, size, state) ==
  [id |-> id, round |-> round, attempt |-> attempt, pos |-> pos, size |-> size, state |-> state]

Kind(b) == b.id[1]
NoText == -1

\* Blocks without a round are sorted after all others.
Unplaced == MaxModelRounds + 1
Placeholder == Block(<<"text", 1>>, Unplaced, 0, 0, 0, "none")

NewRound(round, only) ==
  [round |-> round, attempt |-> 1, next |-> 0, only |-> only, calls |-> <<>>, text |-> NoText,
   stage |-> "asking"]

\* A run that the client has just created, or one that it has found.
TimelineInit ==
  /\ collected = <<>> /\ texts = 0 /\ sent = 0
  /\ model = NewRound(1, FALSE)
  /\ unapplied = <<>>
  /\ shown \in {<<>>, <<Placeholder>>}
  /\ excused = FALSE

-----------------------------------------------------------------------------
(* The collector *)

SortsBefore(b, c) == b.round < c.round \/ (b.round = c.round /\ b.pos < c.pos)

Later(bs, b) == {i \in DOMAIN bs : SortsBefore(b, bs[i])}

\* insert(): before the first block that sorts after it.
CollectorInsert(bs, b) ==
  IF Later(bs, b) = {} THEN Append(bs, b) ELSE InsertAt(bs, Min(Later(bs, b)), b)

Named(bs, id) == {i \in DOMAIN bs : bs[i].id = id}
Has(bs, id) == Named(bs, id) # {}

Longer(old, state) ==
  [old EXCEPT !.size = @ + 1, !.state = IF state = "none" THEN @ ELSE state]

SamePlace(b, c) ==
  Kind(b) = Kind(c) /\ b.round = c.round /\ b.attempt = c.attempt /\ b.pos = c.pos

\* appendText(), appendReasoning(): the block at that place grows, or a new one is inserted.
CollectDelta(bs, b) ==
  LET here == {i \in DOMAIN bs : SamePlace(bs[i], b)}
  IN IF here = {} THEN CollectorInsert(bs, b)
     ELSE [i \in DOMAIN bs |-> IF i \in here THEN Longer(bs[i], b.state) ELSE bs[i]]

\* completeReasoning(): every reasoning block of the round.
ReasoningDone(bs, round) ==
  [i \in DOMAIN bs |-> IF Kind(bs[i]) = "reasoning" /\ bs[i].round = round
                       THEN [bs[i] EXCEPT !.state = "done"] ELSE bs[i]]

\* completeTextPhase(), completeTool(), failTool(), cancelTool()
WithState(bs, id, state) ==
  [i \in DOMAIN bs |-> IF i \in Named(bs, id) THEN [bs[i] EXCEPT !.state = state] ELSE bs[i]]

Without(bs, id) == Only(bs, {i \in DOMAIN bs : bs[i].id # id})

-----------------------------------------------------------------------------
(* The events of the runtime, collected and published in one step: streamPrepared() *)

Publish(bs, type, b) ==
  /\ Len(unapplied) < MaxBehind /\ sent < MaxSent /\ sent' = sent + 1
  /\ collected' = bs
  /\ unapplied' = Append(unapplied, [type |-> type, block |-> b])
  /\ UNCHANGED <<shown, excused>>

\* A block that the model writes now.
Drafted(id, pos, state) == Block(id, model.round, model.attempt, pos, 1, state)

\* The places of that kind the model has opened in this attempt, and a new one.
Opened(kind) ==
  {collected[i].pos : i \in {k \in DOMAIN collected :
     Kind(collected[k]) = kind /\ collected[k].round = model.round
       /\ collected[k].attempt = model.attempt /\ collected[k].size < MaxDeltas}}
Places(kind) == Opened(kind) \cup (IF model.next < MaxPositions THEN {model.next} ELSE {})

Advanced(pos) == [model EXCEPT !.next = IF pos = @ THEN @ + 1 ELSE @, !.stage = "streaming"]

Writing == model.stage \in {"asking", "streaming"}

\* user.intervention: one steer that was claimed before this request, at place 0.
Intervene ==
  LET id == <<"intervention", model.round>>
      b == Block(id, model.round, 0, 0, 1, "none")
  IN /\ model.stage = "asking" /\ model.round > 1 /\ ~model.only /\ ~Has(collected, id)
     /\ Publish(CollectorInsert(collected, b), "user.intervention", b)
     /\ UNCHANGED <<texts, model>>

\* reasoning.delta; the final answer is asked for without reasoning.
Think ==
  /\ Writing /\ ~model.only
  /\ \E pos \in Places("reasoning") :
       LET b == Drafted(<<"reasoning", model.round, pos>>, pos, "none")
       IN /\ Publish(CollectDelta(collected, b), "reasoning.delta", b)
          /\ model' = Advanced(pos)
  /\ UNCHANGED texts

\* The block of this attempt's text at a place, or the next number.
TextAt(pos) ==
  LET known == {i \in DOMAIN collected :
                  SamePlace(collected[i], Drafted(<<"text", 0>>, pos, "none"))}
  IN IF known = {} THEN <<"text", texts + 1>> ELSE collected[Min(known)].id

\* text.delta: pending from one adapter, without a phase from the other.
Write ==
  /\ Writing
  /\ \E pos \in Places("text"), phase \in {"none", "pending"} :
       LET b == Drafted(TextAt(pos), pos, phase)
       IN /\ Publish(CollectDelta(collected, b), "message.delta", b)
          /\ texts' = IF Has(collected, b.id) THEN texts ELSE texts + 1
          /\ model' = [Advanced(pos) EXCEPT !.text = pos]

\* A tool call takes its place when its first fragment arrives.
DeclareCall ==
  /\ Writing /\ ~model.only /\ model.next < MaxPositions
  /\ model' = [Advanced(model.next) EXCEPT !.calls = Append(@, model.next)]
  /\ UNCHANGED <<collected, texts, sent, unapplied, shown, excused>>

\* text.phase.completed, from the adapter or at the end of the model's stream.
SettlePhase ==
  /\ model.stage = "streaming"
  /\ \E i \in DOMAIN collected, phase \in {"process", "final"} :
       LET b == collected[i]
       IN /\ SamePlace(b, Drafted(<<"text", 0>>, b.pos, "none")) /\ b.state = "pending"
          /\ Publish(WithState(collected, b.id, phase), "message.phase.completed",
                     [b EXCEPT !.state = phase])
          /\ model' = [model EXCEPT !.text = b.pos]
  /\ UNCHANGED texts

\* model.round.completed ends the reasoning of the round.
RoundCompleted ==
  /\ model.stage = "streaming"
  /\ Publish(ReasoningDone(collected, model.round), "model.round.completed",
             Drafted(<<"round", model.round>>, 0, "done"))
  /\ model' = [model EXCEPT !.stage = "judged"]
  /\ UNCHANGED texts

\* text.discarded names the place of the last text of the attempt.
Discard ==
  IF model.text = NoText THEN UNCHANGED <<collected, sent, unapplied, shown, excused>>
  ELSE LET id == TextAt(model.text)
       IN Publish(Without(collected, id), "message.discarded",
                  Drafted(id, model.text, "none"))

\* The model's stream fails, or a truncated answer is given up or asked for again:
\* in a round of its own, or as another attempt of the final one.
StreamBreaks ==
  /\ model.stage = "streaming" /\ model.text # NoText
  /\ Discard
  /\ model' = [model EXCEPT !.stage = "over"]
  /\ UNCHANGED texts

AskShorter ==
  /\ model.stage = "judged"
  /\ Discard
  /\ \/ ~model.only /\ model.round < MaxModelRounds /\ model' = NewRound(model.round + 1, FALSE)
     \/ model.only /\ model.attempt < MaxAnswers
        /\ model' = [NewRound(model.round, TRUE) EXCEPT !.attempt = model.attempt + 1]
     \/ model.only /\ model.attempt = MaxAnswers /\ model' = [model EXCEPT !.stage = "over"]
  /\ UNCHANGED texts

\* No calls: the text is the answer, or one more round has to write one.
NothingCalled ==
  /\ model.stage = "judged" /\ model.calls = <<>>
  /\ \/ model.text # NoText /\ model' = [model EXCEPT !.stage = "answered"]
     \/ model.text = NoText /\ ~model.only /\ model.round < MaxModelRounds
        /\ model' = NewRound(model.round + 1, TRUE)
  /\ UNCHANGED <<collected, texts, sent, unapplied, shown, excused>>

\* ensureSourceLinks(): links are appended to the last text, without a phase.
LinkSources ==
  LET written == {i \in DOMAIN collected : Kind(collected[i]) = "text"}
      b == [collected[Max(written)] EXCEPT !.state = "none"]
  IN /\ model.stage = "answered"
     /\ Publish(CollectDelta(collected, b), "message.delta", [b EXCEPT !.size = 1])
     /\ model' = [model EXCEPT !.stage = "over"]
     /\ UNCHANGED texts

-----------------------------------------------------------------------------
(* The calls of a round, told in the order the model declared them *)

CallTools ==
  /\ model.stage = "judged" /\ model.calls # <<>>
  /\ model' = [model EXCEPT !.stage = "calling"]
  /\ UNCHANGED <<collected, texts, sent, unapplied, shown, excused>>

Calling == model.stage = "calling" /\ model.calls # <<>>
Call == Head(model.calls)
ToolId == <<"tool", model.round, Call>>
Tool(state) == Drafted(ToolId, Call, state)
Told == [model EXCEPT !.calls = Tail(@)]

\* tool.started
StartTool ==
  /\ Calling /\ ~Has(collected, ToolId)
  /\ Publish(CollectorInsert(collected, Tool("running")), "tool.started", Tool("running"))
  /\ UNCHANGED <<texts, model>>

\* appendArtifact(): at the place of the tool that made it.
Artifact(b) == [b EXCEPT !.id = <<"artifact", b.round, b.pos>>, !.state = "none"]

\* tool.completed, or tool.failed and tool.cancelled, which differ in words only; a tool that
\* writes a file adds it first.
EndTool ==
  /\ Calling /\ Has(collected, ToolId)
  /\ \/ \E end \in {"completed", "failed"} :
          Publish(WithState(collected, ToolId, end), "tool.ended", Tool(end))
     \/ Publish(WithState(CollectorInsert(collected, Artifact(Tool("none"))), ToolId, "completed"),
                "tool.produced", Tool("completed"))
  /\ model' = Told
  /\ UNCHANGED texts

\* create_report completes and adds its artifact, but no event is made of that.
EndReport ==
  /\ Calling /\ Has(collected, ToolId)
  /\ collected' = WithState(CollectorInsert(collected, Artifact(Tool("none"))), ToolId, "completed")
  /\ excused' = TRUE
  /\ model' = Told
  /\ UNCHANGED <<texts, sent, unapplied, shown>>

\* A plan, a rejected call: it has no block.
PassCall ==
  /\ Calling /\ ~Has(collected, ToolId)
  /\ model' = Told
  /\ UNCHANGED <<collected, texts, sent, unapplied, shown, excused>>

\* The batch is done; its budget may leave the final answer only.
NextModelRound ==
  /\ model.stage = "calling" /\ model.calls = <<>> /\ model.round < MaxModelRounds
  /\ \E only \in BOOLEAN : model' = NewRound(model.round + 1, only)
  /\ UNCHANGED <<collected, texts, sent, unapplied, shown, excused>>

-----------------------------------------------------------------------------
(* The client: conversation-blocks.ts, applied by applyRunEvent() *)

\* insertOrdered(): the order of the collector, not the order of arrival.
\* Mutant: blocks are shown in the order of arrival.
InsertArrived(bs, b) == Append(bs, b)
InsertOrdered(bs, b) ==
  IF Later(bs, b) = {} THEN Append(bs, b) ELSE InsertAt(bs, Min(Later(bs, b)), b)

\* orderAssistantBlocks(): a stable sort, in which a block goes behind as many as go before it.
GoesBefore(bs, i, j) == SortsBefore(bs[i], bs[j]) \/ (i < j /\ ~SortsBefore(bs[j], bs[i]))
SortedPlace(bs, i) == Cardinality({j \in DOMAIN bs : GoesBefore(bs, j, i)}) + 1
Ordered(bs) ==
  LET place == [i \in DOMAIN bs |-> SortedPlace(bs, i)]
  IN [n \in DOMAIN bs |-> bs[CHOOSE i \in DOMAIN bs : place[i] = n]]

\* appendTextDelta(), appendReasoningDelta(): the block of that id grows, and moves to its place.
AppendDelta(bs, b) ==
  LET grown(c) == [Longer(c, b.state) EXCEPT !.round = b.round, !.attempt = b.attempt, !.pos = b.pos]
  IN IF ~Has(bs, b.id) THEN InsertOrdered(bs, b)
     ELSE Ordered([i \in DOMAIN bs |-> IF bs[i].id = b.id THEN grown(bs[i]) ELSE bs[i]])

\* appendUserIntervention(), and tool.started of applyToolActivityEvent(); a tool that is shown
\* already has the place that the event names.
InsertOnce(bs, b) == IF Has(bs, b.id) THEN bs ELSE InsertOrdered(bs, b)

\* The end of a tool whose start is not shown has no effect.
ToolEnded(bs, b) == WithState(bs, b.id, b.state)
ToolProduced(bs, b) ==
  IF Has(bs, b.id) THEN InsertOnce(ToolEnded(bs, b), Artifact(b)) ELSE bs

Reduced(bs, e) ==
  CASE e.type \in {"message.delta", "reasoning.delta"} -> AppendDelta(bs, e.block)
    [] e.type = "message.phase.completed" -> WithState(bs, e.block.id, e.block.state)
    [] e.type = "message.discarded" -> Without(bs, e.block.id)
    [] e.type = "model.round.completed" -> ReasoningDone(bs, e.block.round)
    [] e.type \in {"user.intervention", "tool.started"} -> InsertOnce(bs, e.block)
    [] e.type = "tool.ended" -> ToolEnded(bs, e.block)
    [] e.type = "tool.produced" -> ToolProduced(bs, e.block)

ApplyEvent ==
  /\ unapplied # <<>>
  /\ shown' = Reduced(shown, Head(unapplied))
  /\ unapplied' = Tail(unapplied)
  /\ UNCHANGED <<collected, texts, sent, model, excused>>

\* toConversationItem(): an answer without blocks shows one empty text.
Restored == IF collected = <<>> THEN <<Placeholder>> ELSE Ordered(collected)

\* preferRicherAssistant(): what is shown stays when it has more blocks.
Richer == Len(shown) > Len(Restored)

\* applyRunSnapshot() of what is live: the cursor moves in either case.
ApplyRunSnapshot ==
  /\ shown' = IF Richer THEN shown ELSE Restored
  /\ excused' = (Richer /\ (excused \/ unapplied # <<>>))
  /\ unapplied' = <<>>
  /\ UNCHANGED <<collected, texts, sent, model>>

TimelineNext ==
  \/ Intervene \/ Think \/ Write \/ DeclareCall \/ SettlePhase \/ RoundCompleted
  \/ StreamBreaks \/ AskShorter \/ NothingCalled \/ LinkSources
  \/ CallTools \/ StartTool \/ EndTool \/ EndReport \/ PassCall \/ NextModelRound
  \/ ApplyEvent \/ ApplyRunSnapshot

TimelineSpec == TimelineInit /\ [][TimelineNext]_timelineVars

-----------------------------------------------------------------------------
(* Properties *)

States == {"none", "pending", "process", "final", "running", "completed", "failed", "done"}

\* The blocks on both sides have a place and a state; the collector's ids are its own.
TimelineTypeOK ==
  /\ \A bs \in {collected, shown} : \A i \in DOMAIN bs :
       /\ bs[i].round \in 1..Unplaced /\ bs[i].attempt \in 0..MaxAnswers
       /\ bs[i].pos \in 0..MaxPositions /\ bs[i].state \in States
       /\ bs[i].size \in 0..MaxDeltas + 1
  /\ IsInjective([i \in DOMAIN collected |-> collected[i].id])
  /\ texts \in Nat /\ Len(unapplied) <= MaxBehind /\ excused \in BOOLEAN
  /\ model.round \in 1..MaxModelRounds /\ model.text \in {NoText} \cup 0..MaxPositions
  /\ model.stage \in {"asking", "streaming", "judged", "calling", "answered", "over"}

\* What a reader sees: an empty text is nothing.
Visible(bs) == Only(bs, {i \in DOMAIN bs : bs[i].size > 0})

\* conversation-blocks.ts: live events, a replayed tail and a snapshot of history show
\* the same.  Whatever the client joined with, and however it mixed snapshots and events,
\* once it has applied every event it shows the blocks the server would store: unless it
\* was never told of a report, or kept more blocks than a later snapshot had.
SameBlocks == unapplied = <<>> /\ ~excused => Visible(shown) = Visible(collected)

==============================================================================
