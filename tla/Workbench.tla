------------------------------- MODULE Workbench -------------------------------
(***************************************************************************)
(* What the tools of one run did and the sources they found, kept twice:   *)
(* by the server's ResearchProjectionCollector, and by a web client that   *)
(* takes snapshots of the run, applies its tool events one by one          *)
(* (applyToolEvent) and asks for the stored detail of the run when a user  *)
(* opens a call (hydrateRunDetail).                                        *)
(*                                                                         *)
(* A source is what merges it: its normalised addresses, the hash of its   *)
(* text, where it comes from and the calls that met it.  Titles, passages, *)
(* counts and what the final answer uses of it are left out.               *)
(***************************************************************************)
EXTENDS Integers, Sequences, FiniteSets, SequencesExt

CONSTANTS
  Urls,          \* normalised addresses
  UserUrls,      \* those of the user's message
  Hashes,        \* hashes of page texts
  MaxToolCalls,  \* bound: tool calls of the run
  MaxResults,    \* bound: results of all its searches and fetches
  MaxWaiting     \* bound: events that the client has not applied

ASSUME WorkbenchBounds ==
  /\ UserUrls \subseteq Urls
  /\ {MaxToolCalls, MaxResults, MaxWaiting} \subseteq Nat

VARIABLES
  activity,      \* status of each call that has a block, by the number of the call
  executions,    \* executions of the collector, in the order they ended
  sources,       \* sources of the collector
  using,         \* tool of the call that runs
  results,       \* counts towards MaxResults
  waiting,       \* events the client has not applied
  listed,         \* executions and sources of the client's workbench
  knowsTask,     \* the client has the text of the user's message
  detail,        \* the response of GET /runs/:id/detail that is on its way, if any
  missed,        \* history: calls that ran when the client took a snapshot without them
  untold,        \* history: reports that ended without an event since the last snapshot
  stale          \* history: a detail of another version replaced the workbench

workbenchVars == <<activity, executions, sources, using, results, waiting, listed, knowsTask,
                   detail, missed, untold, stale>>

Tools == {"search", "fetch", "file", "clock", "report"}
NoTool == "none"
NoHash == "none"

\* A page that was read: the addresses it was asked for and found under, and its text.
Pages == {p \in [urls : SUBSET Urls, requested : Urls, hash : Hashes] : p.requested \in p.urls}

Execution(call, status) == [call |-> call, status |-> status]
Source(kind, urls, hash, prov, calls) ==
  [kind |-> kind, urls |-> urls, hash |-> hash, prov |-> prov, calls |-> calls]
Clue(url, call) == Source("clue", {url}, NoHash, "search_clue", {call})
Fetched(page, prov, calls) == Source("fetched", page.urls, page.hash, prov, calls)

Rank == [user_provided |-> 3, search_clue |-> 2, model_proposed |-> 1]
Provenances == DOMAIN Rank

\* preferredProvenance() over several.
Preferred(provs) == CHOOSE p \in provs : \A q \in provs : Rank[p] >= Rank[q]

WorkbenchInit ==
  /\ activity = <<>> /\ executions = <<>> /\ sources = <<>> /\ using = NoTool /\ results = 0
  /\ waiting = <<>> /\ listed = [executions |-> <<>>, sources |-> <<>>]
  /\ knowsTask \in BOOLEAN
  /\ detail = <<>> /\ missed = {} /\ untold = {} /\ stale = FALSE

-----------------------------------------------------------------------------
(* The sources of the collector *)

\* findUrlIndexes(), findHashIndexes()
UrlMatches(ss, urls) == {i \in DOMAIN ss : ss[i].urls \cap urls # {}}
HashMatches(ss, hash) == {i \in DOMAIN ss : ss[i].kind = "fetched" /\ ss[i].hash = hash}

\* The sequence without the items at those places.
Dropped(ss, places) ==
  LET kept == SetToSortSeq(DOMAIN ss \ places, <)
  IN [k \in DOMAIN kept |-> ss[kept[k]]]

CallsAt(ss, places) == UNION {ss[i].calls : i \in places}
ProvsAt(ss, places) == {ss[i].prov : i \in places}

\* recordSearchCompleted(), for one result: a known address is cited by one more call.
RecordClue(ss, url, call) ==
  LET at == UrlMatches(ss, {url})
  IN IF at = {} THEN Append(ss, Clue(url, call))
     ELSE [ss EXCEPT ![Min(at)].calls = @ \cup {call}]

\* deriveFetchProvenance()
Provenance(ss, page, userUrls) ==
  IF page.requested \in userUrls THEN "user_provided"
  ELSE IF \E i \in UrlMatches(ss, page.urls) : ss[i].kind = "clue" THEN "search_clue"
  ELSE "model_proposed"

\* Mutant: calls of the sources that are merged into the first are forgotten.
RecordPageAlone(ss, page, call) ==
  LET met == UrlMatches(ss, page.urls) \cup HashMatches(ss, page.hash)
      prov == Preferred(ProvsAt(ss, met) \cup {Provenance(ss, page, UserUrls)})
  IN IF met = {} THEN Append(ss, Fetched(page, prov, {call}))
     ELSE Dropped([ss EXCEPT ![Min(met)] = Fetched(page, prov, @.calls \cup {call})],
                  met \ {Min(met)})

\* recordFetchCompleted(), for one page: the first source it meets becomes the page, unless
\* only its text is known; the others it meets are merged into that source.
RecordPage(ss, page, call) ==
  LET byUrl == UrlMatches(ss, page.urls)
      met == byUrl \cup HashMatches(ss, page.hash)
      calls == CallsAt(ss, met) \cup {call}
      prov == Preferred(ProvsAt(ss, met) \cup {Provenance(ss, page, UserUrls)})
      merged == IF byUrl = {} THEN [ss[Min(met)] EXCEPT !.calls = calls, !.prov = prov]
                ELSE Fetched(page, prov, calls)
  IN IF met = {} THEN Append(ss, Fetched(page, prov, calls))
     ELSE Dropped([ss EXCEPT ![Min(met)] = merged], met \ {Min(met)})

-----------------------------------------------------------------------------
(* Tool events of the runtime, recorded and published in one step: streamPrepared() *)

LastCall == Len(activity)

Tell(status, clues, pages, call) ==
  /\ Len(waiting) < MaxWaiting
  /\ waiting' = Append(waiting, [call |-> call, status |-> status, clues |-> clues, pages |-> pages])

ClientUnchanged == UNCHANGED <<listed, knowsTask, detail, missed, stale>>

StartCall ==
  /\ using = NoTool /\ Len(activity) < MaxToolCalls
  /\ using' \in Tools
  /\ activity' = Append(activity, "running")
  /\ Tell("running", <<>>, <<>>, Len(activity) + 1)
  /\ UNCHANGED <<executions, sources, results, untold>> /\ ClientUnchanged

Ended(status) == using' = NoTool /\ activity' = [activity EXCEPT ![LastCall] = status]
Recorded(status) == executions' = Append(executions, Execution(LastCall, status))

ResultLists(S) == BoundedSeq(S, MaxResults - results)

CompleteSearch ==
  /\ using = "search"
  /\ \E clues \in ResultLists(Urls) :
       /\ sources' = FoldLeft(LAMBDA ss, u : RecordClue(ss, u, LastCall), sources, clues)
       /\ results' = results + Len(clues)
       /\ Tell("completed", clues, <<>>, LastCall)
  /\ Ended("completed") /\ Recorded("completed")
  /\ UNCHANGED untold /\ ClientUnchanged

\* A batch asks for each address once.  Pages that could not be read, or hold no passage, are
\* skipped on both sides.
CompleteFetch ==
  /\ using = "fetch"
  /\ \E pages \in ResultLists(Pages) :
       /\ IsInjective([i \in DOMAIN pages |-> pages[i].requested])
       /\ sources' = FoldLeft(LAMBDA ss, p : RecordPage(ss, p, LastCall), sources, pages)
       /\ results' = results + Len(pages)
       /\ Tell("completed", <<>>, pages, LastCall)
  /\ Ended("completed") /\ Recorded("completed")
  /\ UNCHANGED untold /\ ClientUnchanged

\* The tools on files, commands, memories and MCP servers.
CompleteOther ==
  /\ using = "file"
  /\ Tell("completed", <<>>, <<>>, LastCall)
  /\ Ended("completed") /\ Recorded("completed")
  /\ UNCHANGED <<sources, results, untold>> /\ ClientUnchanged

\* The clock and the tools on background jobs leave no execution.
CompleteUnrecorded ==
  /\ using = "clock"
  /\ Tell("completed", <<>>, <<>>, LastCall)
  /\ Ended("completed")
  /\ UNCHANGED <<executions, sources, results, untold>> /\ ClientUnchanged

\* A report is recorded, but no event is made of its end.
CompleteReport ==
  /\ using = "report"
  /\ Ended("completed") /\ Recorded("completed")
  /\ untold' = untold \cup {LastCall}
  /\ UNCHANGED <<sources, results, waiting>> /\ ClientUnchanged

\* tool.failed and tool.cancelled: asProjectionInput() knows neither the clock and the jobs nor
\* a report, and nothing of arguments that do not parse.
EndBadly(status) ==
  /\ using # NoTool
  /\ Tell(status, <<>>, <<>>, LastCall)
  /\ Ended(status)
  /\ \/ using \in {"search", "fetch", "file"} /\ Recorded(status)
     \/ using \in {"file", "clock", "report"} /\ UNCHANGED executions
  /\ UNCHANGED <<sources, results, untold>> /\ ClientUnchanged

FailCall == EndBadly("failed")
CancelCall == EndBadly("cancelled")

-----------------------------------------------------------------------------
(* The client: applyToolEvent() *)

CollectorUnchanged == UNCHANGED <<activity, executions, sources, using, results, knowsTask>>

TaskUrls == IF knowsTask THEN UserUrls ELSE {}

\* nextSourceNumber()
NextNumber(ss, prefix) ==
  Max({0} \cup {s.id[2] : s \in {t \in Range(ss) : t.id[1] = prefix}}) + 1

Identified(s, id) ==
  [kind |-> s.kind, urls |-> s.urls, hash |-> s.hash, prov |-> s.prov, calls |-> s.calls, id |-> id]

\* The sources listed, and the number the next new one gets.
ShowClue(st, url, call) ==
  LET at == UrlMatches(st.sources, {url})
  IN IF at = {}
     THEN [sources |-> Append(st.sources, Identified(Clue(url, call), <<"R", st.next>>)),
           next |-> st.next + 1]
     ELSE [st EXCEPT !.sources[Min(at)].calls = @ \cup {call}]

ShowPage(st, page, call) ==
  LET ss == st.sources
      byUrl == UrlMatches(ss, page.urls)
      met == byUrl \cup HashMatches(ss, page.hash)
      calls == CallsAt(ss, met) \cup {call}
      prov == Preferred(ProvsAt(ss, met) \cup {Provenance(ss, page, TaskUrls)})
      known == met # {} /\ ss[Min(met)].kind = "fetched"
      id == IF known THEN ss[Min(met)].id ELSE <<"F", st.next>>
      merged == IF byUrl = {} THEN [ss[Min(met)] EXCEPT !.calls = calls, !.prov = prov]
                ELSE Identified(Fetched(page, prov, calls), id)
  IN [sources |-> IF met = {} THEN Append(ss, Identified(Fetched(page, prov, calls), id))
                  ELSE Dropped([ss EXCEPT ![Min(met)] = merged], met \ {Min(met)}),
      next |-> IF known THEN st.next ELSE st.next + 1]

ShowSources(ss, e) ==
  LET clued == FoldLeft(LAMBDA st, u : ShowClue(st, u, e.call),
                        [sources |-> ss, next |-> NextNumber(ss, "R")], e.clues)
      read == FoldLeft(LAMBDA st, p : ShowPage(st, p, e.call),
                       [sources |-> ss, next |-> NextNumber(ss, "F")], e.pages)
  IN IF e.pages = <<>> THEN clued.sources ELSE read.sources

\* A call that starts is listed once; the end of one that is not listed has no effect on it.
ShowExecution(es, e) ==
  IF e.status # "running"
  THEN [i \in DOMAIN es |-> IF es[i].call = e.call THEN Execution(e.call, e.status) ELSE es[i]]
  ELSE IF \E i \in DOMAIN es : es[i].call = e.call THEN es
  ELSE Append(es, Execution(e.call, "running"))

ApplyToolEvent ==
  /\ waiting # <<>>
  /\ LET e == Head(waiting)
     IN listed' = [executions |-> ShowExecution(listed.executions, e),
                  sources |-> ShowSources(listed.sources, e)]
  /\ waiting' = Tail(waiting)
  /\ UNCHANGED <<detail, missed, untold, stale>> /\ CollectorUnchanged

-----------------------------------------------------------------------------
(* The client: workbenchFromPersistedMessage() of a snapshot or a detail *)

\* Sources are numbered by their kind.
Numbered(ss) ==
  LET number(i) == Cardinality({j \in 1..i : ss[j].kind = ss[i].kind})
  IN [i \in DOMAIN ss |->
        Identified(ss[i], <<IF ss[i].kind = "clue" THEN "R" ELSE "F", number(i)>>)]

\* Without an execution, the blocks of the answer tell of the calls.
RestoredWorkbench ==
  IF executions = <<>>
  THEN [executions |-> [c \in DOMAIN activity |-> Execution(c, activity[c])], sources |-> <<>>]
  ELSE [executions |-> executions, sources |-> Numbered(sources)]

\* A call that runs, when others have been recorded.
Overlooked == IF executions # <<>> /\ using # NoTool THEN {LastCall} ELSE {}

\* applyRunSnapshot() of what is live; one that tells of no call leaves what is listed.
AdoptSnapshot ==
  /\ listed' = IF activity = <<>> THEN listed ELSE RestoredWorkbench
  /\ waiting' = <<>> /\ missed' = Overlooked /\ untold' = {} /\ stale' = FALSE
  /\ UNCHANGED detail /\ CollectorUnchanged

\* The request reads the checkpoint of the last event; an older one is replaced all the same.
RequestDetail ==
  /\ detail = <<>> /\ activity # <<>>
  /\ detail' = <<[view |-> RestoredWorkbench, of |-> activity, missed |-> Overlooked]>>
  /\ UNCHANGED <<waiting, listed, missed, untold, stale>> /\ CollectorUnchanged

\* hydrateRunDetail() shows the response whatever has been applied meanwhile.
ShowDetail ==
  /\ detail # <<>>
  /\ listed' = Head(detail).view
  /\ stale' = (Head(detail).of # activity \/ waiting # <<>>)
  /\ missed' = Head(detail).missed /\ untold' = {}
  /\ detail' = <<>>
  /\ UNCHANGED waiting /\ CollectorUnchanged

WorkbenchNext ==
  \/ StartCall \/ CompleteSearch \/ CompleteFetch \/ CompleteOther \/ CompleteUnrecorded
  \/ CompleteReport \/ FailCall \/ CancelCall
  \/ ApplyToolEvent \/ AdoptSnapshot \/ RequestDetail \/ ShowDetail

-----------------------------------------------------------------------------
(* Properties *)

Statuses == {"running", "completed", "failed", "cancelled"}

\* Executions and sources on both sides are of calls that were made.
WorkbenchTypeOK ==
  /\ activity \in Seq(Statuses) /\ Len(activity) <= MaxToolCalls /\ results \in 0..MaxResults
  /\ using \in Tools \cup {NoTool}
  /\ \A es \in {executions, listed.executions} : \A i \in DOMAIN es :
       es[i].call \in DOMAIN activity /\ es[i].status \in Statuses
  /\ \A ss \in {sources, listed.sources} : \A i \in DOMAIN ss :
       /\ ss[i].kind \in {"clue", "fetched"} /\ ss[i].urls \in SUBSET Urls \ {{}}
       /\ ss[i].hash \in Hashes \cup {NoHash} /\ ss[i].prov \in Provenances
       /\ ss[i].calls \in SUBSET (DOMAIN activity) \ {{}}
  /\ Len(waiting) <= MaxWaiting /\ {knowsTask, stale} \subseteq BOOLEAN

\* One source for an address and for a text.
OneSourceEach(ss) ==
  \A i, j \in DOMAIN ss : i # j =>
    /\ ss[i].urls \cap ss[j].urls = {}
    /\ ss[i].hash = ss[j].hash => ss[i].hash = NoHash

\* What both sides say of a source: a client that lacks the user's message does not know
\* which addresses the user gave.
Content(s) == [kind |-> s.kind, urls |-> s.urls, hash |-> s.hash, calls |-> s.calls,
               prov |-> IF knowsTask THEN s.prov ELSE "any"]
Contents(ss) == [i \in DOMAIN ss |-> Content(ss[i])]

SameSources ==
  /\ Contents(listed.sources) = Contents(sources)
  /\ IsInjective([i \in DOMAIN listed.sources |-> listed.sources[i].id])

SameExecutions ==
  /\ \A e \in Range(executions) : e \in Range(listed.executions) \/ e.call \in missed \cup untold
  /\ \A e \in Range(listed.executions) : e.status = activity[e.call] \/ e.call \in untold
  /\ IsInjective([i \in DOMAIN listed.executions |-> listed.executions[i].call])

\* app.tsx exports its projections for tests that live and restored views agree: once every
\* event is applied, the client shows the sources of the server in their order, each address
\* and each text once, cited by the calls that met it, and the state of every call it shows.
\* It may lack a call that ran when it took a snapshot, the end of a report, and everything
\* that a late detail of the run replaced.
WorkbenchesAgree ==
  /\ OneSourceEach(sources)
  /\ waiting = <<>> /\ ~stale => SameSources /\ SameExecutions

================================================================================
