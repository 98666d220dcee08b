----------------------------- MODULE MCServices -----------------------------
(* A behaviour exercises one of seven components, which share no state here: the artifacts of a *)
(* session, the MCP servers or the memories of its user, the transcripts that are compiled for  *)
(* the model, a round with the model, the timeline of an answer, or the workbench of a run.     *)
EXTENDS ArtifactVersions, McpCatalog, Memories, ContextCompaction, ModelRound, ConversationTimeline,
        Workbench

VARIABLE focus

\* What the model says: a thought and an answer, a preamble and calls whose pieces interleave, a
\* clarification alone or next to a call, a report that may break off, nothing but a thought, two
\* texts without a phase.
MCItem(kind, name, size, phase) == [kind |-> kind, name |-> name, size |-> size, phase |-> phase]
MCThought == MCItem("reasoning", "none", 1, "none")
MCText(size, phase) == MCItem("text", "none", size, phase)
MCCall(name, size) == MCItem("call", name, size, "none")
MCOutputs ==
  {<<MCThought, MCText(2, "final_answer")>>, <<MCText(1, "none")>>, <<MCThought>>,
   <<MCThought, MCText(1, "commentary"), MCCall("web", 3), MCCall("web", 2)>>,
   <<MCText(1, "commentary"), MCCall("web", 2), MCText(1, "none"), MCCall("create_report", 3)>>,
   <<MCText(1, "none"), MCText(1, "none")>>,
   <<MCCall("clarify", 2)>>, <<MCCall("clarify", 2), MCCall("web", 2)>>}

\* The components that a behaviour does not exercise stay in one initial state.
Init ==
  /\ ArtInit /\ McpInit /\ MemInit /\ CtxInit
  /\ RoundInit /\ TimelineInit /\ WorkbenchInit
  /\ focus \in {"artifacts", "mcp", "memories", "context", "round", "timeline", "workbench"}
  /\ focus # "mcp" => catalog = Empty
  /\ focus # "memories" => Active = {}
  /\ focus # "context" => committed = NoState
  /\ focus # "round" => wire = "chat" /\ ~finalOnly /\ output = <<MCThought>>
  /\ focus # "timeline" => shown = <<>>
  /\ focus # "workbench" => knowsTask

Artifacts(A) ==
  /\ focus = "artifacts" /\ A
  /\ UNCHANGED <<focus, mcpVars, memVars, ctxVars, roundVars, timelineVars, workbenchVars>>
Mcp(A) ==
  /\ focus = "mcp" /\ A
  /\ UNCHANGED <<focus, artVars, memVars, ctxVars, roundVars, timelineVars, workbenchVars>>
Remembering(A) ==
  /\ focus = "memories" /\ A
  /\ UNCHANGED <<focus, artVars, mcpVars, ctxVars, roundVars, timelineVars, workbenchVars>>
Session(A) ==
  /\ focus = "context" /\ A
  /\ UNCHANGED <<focus, artVars, mcpVars, memVars, roundVars, timelineVars, workbenchVars>>
Rounds(A) ==
  /\ focus = "round" /\ A
  /\ UNCHANGED <<focus, artVars, mcpVars, memVars, ctxVars, timelineVars, workbenchVars>>
Timeline(A) ==
  /\ focus = "timeline" /\ A
  /\ UNCHANGED <<focus, artVars, mcpVars, memVars, ctxVars, roundVars, workbenchVars>>
Bench(A) ==
  /\ focus = "workbench" /\ A
  /\ UNCHANGED <<focus, artVars, mcpVars, memVars, ctxVars, roundVars, timelineVars>>

Next ==
  \/ Artifacts(ArtNext)
  \/ Mcp(McpNext)
  \/ Remembering(MemNext)
  \/ Session(CtxNext)
  \/ Rounds(RoundNext)
  \/ Timeline(TimelineNext)
  \/ Bench(WorkbenchNext)
vars == <<focus, artVars, mcpVars, memVars, ctxVars, roundVars, timelineVars,
          workbenchVars>>

Spec == Init /\ [][Next]_vars

\* The state of every component keeps to the values the code gives it.
TypeOK ==
  /\ focus = "artifacts" => ArtTypeOK
  /\ focus = "mcp" => McpTypeOK
  /\ focus = "memories" => MemTypeOK
  /\ focus = "context" => CtxTypeOK
  /\ focus = "round" => RoundTypeOK
  /\ focus = "timeline" => TimelineTypeOK
  /\ focus = "workbench" => WorkbenchTypeOK

==============================================================================
