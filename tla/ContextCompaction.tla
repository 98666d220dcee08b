-------------------------- MODULE ContextCompaction --------------------------
(***************************************************************************)
(* ContextEngineeringService: what the model is sent in each round of the  *)
(* runs of one session.  The runtime appends units to the live transcript  *)
(* and has it compiled before every model request.  Sizes are abstract:    *)
(* whether the transcript is above the compaction trigger or the prompt    *)
(* budget, whether a result is large, and whether the summary model or the *)
(* file store fails, is nondeterministic.                                  *)
(***************************************************************************)
EXTENDS TranscriptUnits

CONSTANTS
  ProtectedRecent,     \* PROTECTED_RECENT_UNITS
  RecentToolUnits,     \* RECENT_TOOL_UNITS_TO_KEEP
  MaxLive,             \* bound: messages of the live transcript
  MaxVersion,          \* bound: compactions of a session
  LegacyCounts         \* message counts of states stored without a unit count

ASSUME CompactionBounds ==
  /\ ProtectedRecent \in Nat \ {0} /\ RecentToolUnits \in Nat \ {0}
  /\ MaxLive \in Nat \ {0, 1} /\ MaxVersion \in Nat \ {0} /\ LegacyCounts \subseteq Nat \ {0}

VARIABLES
  live,        \* the messages of the runtime
  state,       \* compactionState of the run, or the one committed for the session
  committed,   \* context_compaction_states of the session
  carried,     \* state was loaded, not computed in this run
  grown,       \* the runtime appended a unit since the last round
  compiled     \* what the last round sent to the model

ctxVars == <<live, state, committed, carried, grown, compiled>>

Msg(role, ids) == [role |-> role, calls |-> ids, stored |-> FALSE]
Prompt == Msg("system", <<>>)
SkillBlock == Msg("skills", <<>>)
MemoryBlock == Msg("memory", <<>>)
Summary == Msg("summary", <<>>)

NoState == [units |-> 0, messages |-> 0, version |-> 0]
UnknownUnits == MaxLive + 4
Legacy(count) == [units |-> UnknownUnits, messages |-> count, version |-> 1]

CtxInit ==
  /\ live = <<Prompt, Msg("user", <<>>)>> /\ compiled = <<>>
  /\ committed \in {NoState} \union {Legacy(n) : n \in LegacyCounts}
  /\ state = committed /\ carried = TRUE /\ grown = TRUE

-----------------------------------------------------------------------------
(* The steps of compileRound().                                            *)

History(msgs) == Tail(msgs)

\* withSkills(), then withMemories(): both blocks stand right after the prompt.
Injected(msgs, memory) ==
  <<Head(msgs)>> \o (IF memory THEN <<MemoryBlock>> ELSE <<>>) \o <<SkillBlock>> \o History(msgs)

\* coveredUnitCount, or what alignment makes of the message count of an older row.
CoveredUnits(units, s) ==
  IF s.units = UnknownUnits THEN UnitsCovered(units, s.messages) ELSE s.units

\* applySummary(): the covered units are replaced by the summary.
\* Mutant: the suffix is cut at the message count.
ApplySummaryAtMessage(msgs, s) ==
  IF s = NoState THEN msgs
  ELSE <<Head(msgs), Summary>> \o SubSeq(History(msgs), s.messages + 1, Len(History(msgs)))
ApplySummary(msgs, s) ==
  LET units == BuildUnits(History(msgs))
  IN IF s = NoState THEN msgs
     ELSE <<Head(msgs), Summary>> \o UnitsFrom(History(msgs), units, CoveredUnits(units, s))

\* applyIfValid(): a transformation that breaks a tool chain is rolled back.
IfValid(candidate, fallback) == IF Canonical(candidate) THEN candidate ELSE fallback

\* slice(-keep) of the tool units: for keep = 0 it is all of them, so nothing is collapsed.
\* Mutant: the oldest batches are kept in full.
Batches(units) == {u \in units : u.batch}
KeptOldest(units, keep) ==
  {u \in Batches(units) : Cardinality({v \in Batches(units) : v.first < u.first}) < keep}
Kept(units, keep) ==
  IF keep = 0 THEN Batches(units)
  ELSE {u \in Batches(units) : Cardinality({v \in Batches(units) : v.first > u.first}) < keep}

\* collapseOldToolResults(): large results of older, complete batches move to files.
Collapse(msgs, large, keep) ==
  LET units == BuildUnits(History(msgs))
      old == {u \in Batches(units) \ Kept(units, keep) : u.complete}
      moved == {i \in large : \E u \in old : u.first < i /\ i <= u.last}
  IN [i \in DOMAIN msgs |-> IF i - 1 \in moved THEN [msgs[i] EXCEPT !.stored = TRUE] ELSE msgs[i]]

\* findProtectedUnitStart(), without the units with files.
\* Mutant: one recent unit more may be summarised.
ProtectedStartPlusOne(units) ==
  IF Cardinality(units) >= ProtectedRecent THEN Cardinality(units) - ProtectedRecent + 1 ELSE 0
ProtectedStart(units) ==
  IF Cardinality(units) > ProtectedRecent THEN Cardinality(units) - ProtectedRecent ELSE 0

\* compact(): msgs is already summarised by s, whose counts are of the transcript before that.
CanCompact(units, s) == ProtectedStart(units) > CoveredUnits(units, s)

Compacted(units, s) ==
  [units |-> ProtectedStart(units), messages |-> MessagesBefore(units, ProtectedStart(units)),
   version |-> s.version + 1]

-----------------------------------------------------------------------------
(* A round.                                                                *)

\* applyCollapsedToolPointers(): by call id.
Pointers(msgs) == {msgs[i].calls[1] : i \in {k \in DOMAIN msgs : msgs[k].stored}}
WriteBack(msgs, ids) ==
  [i \in DOMAIN msgs |-> IF msgs[i].role = "tool" /\ msgs[i].calls[1] \in ids
                         THEN [msgs[i] EXCEPT !.stored = TRUE] ELSE msgs[i]]

Send(msgs, s) ==
  /\ compiled' = msgs /\ state' = s /\ grown' = FALSE
  /\ carried' = (carried /\ s = state)
  /\ live' = WriteBack(live, Pointers(msgs))
  /\ UNCHANGED committed

\* compileRound(): full: above the trigger; summarised: the summary model answered.
Compile(memory, large, full) ==
  LET blocks == Injected(live, memory)
      applied == IfValid(ApplySummary(blocks, state), blocks)
      folded == IfValid(Collapse(applied, large, RecentToolUnits), applied)
      units == BuildUnits(History(folded))
      next == Compacted(units, state)
      short == IfValid(ApplySummary(folded, next), folded)
  IN IF full /\ CanCompact(units, state) /\ short # folded
     THEN Send(short, next) ELSE Send(folded, state)

\* large is a choice between none and all results: the size of each one is not told apart.
Round ==
  /\ grown
  /\ \E memory, full \in BOOLEAN : \E large \in {{}, 1..Len(live) + 3} :
       (full => state.version < MaxVersion) /\ Compile(memory, large, full)

-----------------------------------------------------------------------------
(* What the runtime does to the live transcript between rounds.            *)

CallsSoFar == {live[i].calls[1] : i \in {k \in DOMAIN live : live[k].role = "tool"}}
Batch(n) ==
  LET first == Cardinality(CallsSoFar)
  IN <<Msg("assistant", [i \in 1..n |-> first + i])>> \o [i \in 1..n |-> Msg("tool", <<first + i>>)]

WithoutPlan == Only(live, {i \in DOMAIN live : live[i].role # "plan"})

\* The ways in which run() extends the transcript: a batch, with or without an update of the
\* plan, whose older copy is removed; a clarification and its answer; a steer or a notice.
Grow(msgs) ==
  /\ compiled # <<>> /\ Len(msgs) <= MaxLive
  /\ live' = msgs /\ grown' = TRUE /\ UNCHANGED <<state, committed, carried, compiled>>

Extend ==
  \/ \E n \in 1..2 : Grow(live \o Batch(n)) \/ Grow(WithoutPlan \o Batch(n) \o <<Msg("plan", <<>>)>>)
  \/ Grow(live \o <<Msg("assistant", <<>>), Msg("user", <<>>)>>)
  \/ \E role \in {"user", "system"} : Grow(Append(live, Msg(role, <<>>)))

\* loadTranscript(): neither system messages nor pointers are stored.
Reloaded(msgs) ==
  LET kept == Only(msgs, {i \in 2..Len(msgs) : msgs[i].role \notin {"system", "plan"}})
  IN <<Prompt>> \o [i \in DOMAIN kept |-> [kept[i] EXCEPT !.stored = FALSE]]

\* The run completes, its state is committed, and the next run of the session starts.
NextRun ==
  /\ compiled # <<>> /\ ~grown /\ Len(live) + 2 <= MaxLive
  /\ live' = Reloaded(live) \o <<Msg("assistant", <<>>), Msg("user", <<>>)>>
  /\ committed' = state /\ carried' = TRUE /\ grown' = TRUE /\ compiled' = <<>>
  /\ UNCHANGED state

CtxNext == Round \/ Extend \/ NextRun
CtxSpec == CtxInit /\ [][CtxNext]_ctxVars

-----------------------------------------------------------------------------
(* Properties.                                                             *)

Roles == {"system", "user", "assistant", "tool", "plan", "skills", "memory", "summary"}
CtxTypeOK ==
  /\ \A i \in DOMAIN live : live[i].role \in Roles /\ live[i].stored \in BOOLEAN
  /\ Len(live) <= MaxLive
  /\ \A s \in {state, committed} : s.units \in Nat /\ s.messages \in Nat /\ s.version \in 0..MaxVersion
  /\ carried \in BOOLEAN /\ grown \in BOOLEAN

\* Whatever was summarised, injected, collapsed or loaded, no tool message is sent without the
\* call it answers and no batch is cut; and this never takes the rollback of applyIfValid(),
\* which would send the whole history again: a summary that exists is sent (applySummary()
\* cuts at units, and aligns a state that was stored with a message count only).
ToolChainKept ==
  LET units == BuildUnits(compiled)
  IN compiled # <<>> =>
       /\ Canonical(compiled) /\ \A u \in units : u.batch => u.complete
       /\ state # NoState => compiled[2] = Summary

\* A state computed in this run never hides the most recent units of the live transcript, and
\* the most recent tool batches are sent in full, although memories come and go and the plan
\* moves in front of what was counted (PROTECTED_RECENT_UNITS, RECENT_TOOL_UNITS_TO_KEEP).
LastUnits(h, n) ==
  LET units == BuildUnits(h)
  IN IF Cardinality(units) > n THEN UnitsFrom(h, units, Cardinality(units) - n) ELSE h
EndsWith(h, tail) ==
  Len(tail) <= Len(h) /\ SubSeq(h, Len(h) - Len(tail) + 1, Len(h)) = tail
RecentUnitsStay ==
  LET sent == BuildUnits(compiled)
      newest == {u \in sent : /\ u.batch
                              /\ Cardinality({v \in sent : v.first > u.first /\ v.batch}) < RecentToolUnits}
  IN compiled # <<>> /\ ~grown =>
       /\ ~carried => EndsWith(compiled, LastUnits(History(live), ProtectedRecent))
       /\ \A u \in newest : \A i \in u.first..u.last : ~compiled[i].stored

=============================================================================
