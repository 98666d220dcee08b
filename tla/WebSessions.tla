----------------------------- MODULE WebSessions -----------------------------
(***************************************************************************)
(* The sessions of one web page (app.tsx): which session is shown, what is *)
(* submitted to which, and which of them is marked as running, while the   *)
(* answers of the API arrive in any order.  The page is one thread, so a   *)
(* step here is what runs between two awaits.  What a run says, and the    *)
(* cursors that keep it in order, are in RunExecution; here a run is a     *)
(* number, and a conversation is the set of the runs it shows.             *)
(***************************************************************************)
EXTENDS Naturals, Sequences, FiniteSets

CONSTANTS
  Known,      \* sessions that exist when the page is opened
  New,        \* ids for the sessions that are created
  Limits      \* bounds of a behaviour, [runs, moves, losses]: runs; navigations of the user,
              \* deletions and attachments included; requests and streams that fail

ASSUME SessionNames == Known \cap New = {} /\ "draft" \notin Known \cup New
ASSUME PageBounds == Limits \subseteq [runs : Nat, moves : Nat, losses : Nat]

Sessions == Known \cup New
Draft == "draft"
NoRun == 0

VARIABLES
  \* the server
  alive,      \* sessions that exist
  owner,      \* the session of each run, in the order of creation
  activeAt,   \* the active run of each session
  followUps,  \* sessions with a follow-up that waits
  \* the page
  view,       \* selectedSessionIdRef
  token,      \* draftSubmissionTokenRef
  cached,     \* sessions in sessionStates
  content,    \* runs in the conversation of each session
  activeRun,  \* activeRunId of each session
  pending,    \* sessions marked as running: pendingSessionsRef
  fetched,    \* loadedSessionDetailsRef
  details,    \* detail requests under way, with what the server read for them
  observers,  \* calls of observeRun() that have not returned; own: handleSubmit() awaits it
  reconnect,  \* reconnectRunId
  submits,    \* calls of handleSubmit() that do not observe a run yet
  attaching,  \* drafts, by visit, for which an attachment creates a session
  dropped,    \* sessions whose deletion waits for the list of sessions
  limits,     \* the element of Limits that bounds this behaviour
  moves,      \* counts towards limits.moves
  losses,     \* counts towards limits.losses
  \* history
  place,      \* where the user last went, and the number of that visit
  bornOf,     \* the visit of the draft that a session was created from
  moved,      \* an attachment has taken the user away from where they went
  disturbed   \* sessions that a lost run or a reconnection disturbed

serverVars == <<alive, owner, activeAt, followUps>>
stateVars == <<cached, content, activeRun>>
fetchVars == <<fetched, details>>
viewVars == <<view, token, moves, place>>
bornVars == <<bornOf, moved>>
callVars == <<submits, attaching, dropped, limits>>
webVars == <<serverVars, stateVars, pending, fetchVars, viewVars, bornVars, callVars, observers,
             reconnect, losses, disturbed>>

\* By: the run whose observer waits for the answer.
DetailRequest(s, by) == [session |-> s, by |-> by, ready |-> FALSE, runs |-> {}, active |-> NoRun]

\* The page has listed the sessions of the user, and loads the one it shows.
WebInit ==
  /\ alive = Known /\ owner = <<>> /\ activeAt = [s \in Sessions |-> NoRun] /\ followUps = {}
  /\ view \in Known /\ token = 0 /\ place = [at |-> view, visit |-> 1]
  /\ fetched = {view} /\ details = {DetailRequest(view, NoRun)}
  /\ cached = {} /\ content = [s \in Sessions |-> {}] /\ activeRun = [s \in Sessions |-> NoRun]
  /\ pending = {} /\ observers = {} /\ reconnect = NoRun
  /\ submits = {} /\ attaching = {} /\ dropped = {}
  /\ bornOf = [s \in New |-> 0] /\ moved = FALSE /\ disturbed = {}
  /\ limits \in Limits /\ moves = 0 /\ losses = 0

Unborn == {s \in New : bornOf[s] = 0}
Lost == losses < limits.losses /\ losses' = losses + 1

-----------------------------------------------------------------------------
(* The server *)

StartRun(s) ==
  /\ s \in alive /\ activeAt[s] = NoRun /\ Len(owner) < limits.runs
  /\ owner' = Append(owner, s) /\ activeAt' = [activeAt EXCEPT ![s] = Len(owner) + 1]

DispatchFollowUp(s) ==
  /\ s \in followUps /\ StartRun(s) /\ followUps' = followUps \ {s}
  /\ UNCHANGED <<alive, stateVars, pending, fetchVars, viewVars, bornVars, callVars, observers,
                 reconnect, losses, disturbed>>

RunEnds(s) ==
  /\ activeAt[s] # NoRun /\ activeAt' = [activeAt EXCEPT ![s] = NoRun]
  /\ UNCHANGED <<alive, owner, followUps, stateVars, pending, fetchVars, viewVars, bornVars,
                 callVars, observers, reconnect, losses, disturbed>>

\* The server reads what a detail request asks for.
DetailRead(d) ==
  /\ d \in details /\ ~d.ready /\ d.session \in alive
  /\ details' = (details \ {d}) \cup
       {[d EXCEPT !.ready = TRUE, !.active = activeAt[d.session],
                  !.runs = {r \in DOMAIN owner : owner[r] = d.session}]}
  /\ UNCHANGED <<serverVars, stateVars, pending, fetched, viewVars, bornVars, callVars, observers,
                 reconnect, losses, disturbed>>

\* POST runs: refused with a conflict while the session has an active run.
RunCreated(t) ==
  /\ t \in submits /\ t.at # Draft /\ t.run = NoRun /\ StartRun(t.at)
  /\ submits' = (submits \ {t}) \cup {[t EXCEPT !.run = Len(owner) + 1]}
  /\ UNCHANGED <<alive, followUps, stateVars, pending, fetchVars, viewVars, bornVars, attaching,
                 dropped, limits, observers, reconnect, losses, disturbed>>

-----------------------------------------------------------------------------
(* Which session is shown *)

\* loadSessionDetail() without force
Load(s) ==
  IF s \in pending \cup fetched THEN UNCHANGED fetchVars
  ELSE fetched' = fetched \cup {s} /\ details' = details \cup {DetailRequest(s, NoRun)}

\* selectSession()
Show(s) ==
  /\ token' = token + 1 /\ view' = s
  /\ IF s \in cached THEN UNCHANGED fetchVars ELSE Load(s)

\* startDraft()
ShowDraft == token' = token + 1 /\ view' = Draft /\ UNCHANGED fetchVars

Went(to) ==
  /\ moves < limits.moves /\ moves' = moves + 1
  /\ place' = [at |-> to, visit |-> place.visit + 1]
Acted == moves < limits.moves /\ moves' = moves + 1 /\ UNCHANGED place

SelectSession(s) ==
  /\ s \in alive /\ Went(s) /\ Show(s)
  /\ UNCHANGED <<serverVars, stateVars, pending, bornVars, callVars, observers, reconnect, losses,
                 disturbed>>

StartDraft ==
  /\ Went(Draft) /\ ShowDraft
  /\ UNCHANGED <<serverVars, stateVars, pending, bornVars, callVars, observers, reconnect, losses,
                 disturbed>>

\* removeSession(): the server refuses while a run is active; its cached state is dropped.
RemoveSession(s) ==
  /\ s \in alive /\ activeAt[s] = NoRun /\ Acted
  /\ alive' = alive \ {s} /\ followUps' = followUps \ {s} /\ dropped' = dropped \cup {s}
  /\ cached' = cached \ {s} /\ content' = [content EXCEPT ![s] = {}]
  /\ activeRun' = [activeRun EXCEPT ![s] = NoRun]
  /\ UNCHANGED <<owner, activeAt, pending, fetchVars, view, token, bornVars, submits, attaching, limits,
                 observers, reconnect, losses, disturbed>>

\* The rest of removeSession(), when the list of sessions has arrived.
ListArrives(s) ==
  /\ s \in dropped /\ dropped' = dropped \ {s}
  /\ IF view # s THEN UNCHANGED <<view, token, fetchVars>>
     ELSE IF alive = {} THEN ShowDraft
     ELSE \E next \in alive : Show(next)
  /\ UNCHANGED <<serverVars, stateVars, pending, moves, place, bornVars, submits, attaching, limits,
                 observers, reconnect, losses, disturbed>>

\* handleAttachment() in a draft creates a session for the file.
Attach ==
  /\ view = Draft /\ Unborn # {} /\ attaching = {} /\ Acted /\ attaching' = {place.visit}
  /\ UNCHANGED <<serverVars, stateVars, pending, fetchVars, view, token, bornVars, submits, dropped, limits,
                 observers, reconnect, losses, disturbed>>

\* It is shown when it has been created, whatever is shown by then.
AttachmentSession(s) ==
  /\ s \in Unborn /\ \E v \in attaching :
       /\ bornOf' = [bornOf EXCEPT ![s] = v] /\ moved' = (moved \/ v # place.visit)
  /\ attaching' = {}
  /\ alive' = alive \cup {s} /\ cached' = cached \cup {s} /\ view' = s /\ Load(s)
  /\ UNCHANGED <<owner, activeAt, followUps, content, activeRun, pending, token, moves, place, submits,
                 dropped, limits, observers, reconnect, losses, disturbed>>

-----------------------------------------------------------------------------
(* Observers: observeRun() *)

\* runControllersRef: one observer per run until it concludes.
ObservedUntilReturn(r) == \E o \in observers : o.run = r
Observed(r) == \E o \in observers : o.run = r /\ o.stage \in {"asking", "streaming"}

\* A call of observeRun() in an event handler or in loadSessionDetail().
Observe(s, r) ==
  IF Observed(r) THEN UNCHANGED observers
  ELSE observers' = observers \cup {[run |-> r, session |-> s, stage |-> "asking", own |-> FALSE]}

\* A run that is observed again is not offered for reconnection any more.
OfferEnds(r) == reconnect' = IF reconnect = r /\ ~Observed(r) THEN NoRun ELSE reconnect

To(o, stage) == observers' = (observers \ {o}) \cup {[o EXCEPT !.stage = stage]}
Mark(s, running) == pending' = IF running THEN pending \cup {s} ELSE pending \ {s}
IsActive(r) == activeAt[owner[r]] = r

\* applyRunSnapshot(): the mark is set, and the run is shown, if the session is cached.
ApplySnapshot(o) ==
  /\ Mark(o.session, IsActive(o.run))
  /\ IF o.session \notin cached THEN UNCHANGED <<content, activeRun>>
     ELSE /\ content' = [content EXCEPT ![o.session] = @ \cup {o.run}]
          /\ activeRun' = [activeRun EXCEPT ![o.session] = IF IsActive(o.run) THEN o.run ELSE NoRun]

\* The finally clause after the end of the run was seen: syncFollowUpAfterTerminal() begins.
Concluded(o) == To(o, "syncing") /\ reconnect' = NoRun

ObserverAsks(o) ==
  /\ o \in observers /\ o.stage = "asking" /\ owner[o.run] \in alive
  /\ ApplySnapshot(o)
  /\ IF IsActive(o.run) THEN To(o, "streaming") /\ UNCHANGED reconnect ELSE Concluded(o)
  /\ UNCHANGED <<serverVars, cached, fetchVars, viewVars, bornVars, callVars, losses, disturbed>>

\* run.completed, run.failed or run.cancelled
ObserverSeesEnd(o) ==
  /\ o \in observers /\ o.stage = "streaming" /\ ~IsActive(o.run) /\ o.session \in cached
  /\ Mark(o.session, FALSE) /\ activeRun' = [activeRun EXCEPT ![o.session] = NoRun]
  /\ Concluded(o)
  /\ UNCHANGED <<serverVars, cached, content, fetchVars, viewVars, bornVars, callVars, losses,
                 disturbed>>

\* The stream breaks, or an event finds its session missing: the next attempt.
ObserverRetries(o) ==
  /\ o \in observers /\ o.stage = "streaming" /\ To(o, "asking")
  /\ Lost \/ (o.session \notin cached /\ UNCHANGED losses)
  /\ UNCHANGED <<serverVars, stateVars, pending, fetchVars, viewVars, bornVars, callVars, reconnect,
                 disturbed>>

\* A snapshot cannot be had, or the last attempt fails.  A last stream that ends without an error
\* leaves no offer to reconnect.
ObserverGivesUp(o) ==
  /\ o \in observers /\ o.stage \in {"asking", "streaming"}
  /\ Lost \/ (owner[o.run] \notin alive /\ UNCHANGED losses)
  /\ To(o, "leaving") /\ disturbed' = disturbed \cup {o.session}
  /\ reconnect' = o.run \/ (o.stage = "streaming" /\ UNCHANGED reconnect)
  /\ UNCHANGED <<serverVars, stateVars, pending, fetchVars, viewVars, bornVars, callVars>>

\* The finally clause of an observer that gave up takes one more snapshot.
ObserverLeaves(o) ==
  /\ o \in observers /\ o.stage = "leaving" /\ To(o, "done")
  /\ IF owner[o.run] \in alive THEN ApplySnapshot(o) ELSE UNCHANGED <<pending, content, activeRun>>
  /\ UNCHANGED <<serverVars, cached, fetchVars, viewVars, bornVars, callVars, reconnect, losses,
                 disturbed>>

\* loadSessionDetail() with force, when the server has the next active run or for the last time.
SyncReads(o) ==
  /\ o \in observers /\ o.stage = "syncing" /\ o.session \notin pending
  /\ To(o, "loading") /\ details' = details \cup {DetailRequest(o.session, o.run)}
  /\ UNCHANGED <<serverVars, stateVars, pending, fetched, viewVars, bornVars, callVars, reconnect,
                 losses, disturbed>>

\* The last rounds of the synchronisation pass the session over, or their reads fail.
SyncEnds(o) ==
  /\ o \in observers /\ o.stage = "syncing" /\ To(o, "done")
  /\ Lost \/ (o.session \in pending \cup (Sessions \ alive) /\ UNCHANGED losses)
  /\ UNCHANGED <<serverVars, stateVars, pending, fetchVars, viewVars, bornVars, callVars, reconnect,
                 disturbed>>

\* The observer returns; if handleSubmit() awaits it, its finally clause clears the mark.
ObserverReturns(o) ==
  /\ o \in observers
  /\ \/ o.stage = "done"
     \/ o.stage = "loading" /\ \A d \in details : d.session # o.session \/ d.by # o.run
  /\ observers' = observers \ {o}
  /\ IF o.own THEN Mark(o.session, FALSE) ELSE UNCHANGED pending
  /\ UNCHANGED <<serverVars, stateVars, fetchVars, viewVars, bornVars, callVars, reconnect, losses,
                 disturbed>>

\* The button of the conversation observes the run in the session that is shown.
Reconnect ==
  /\ reconnect # NoRun /\ view # Draft
  /\ Observe(view, reconnect) /\ reconnect' = NoRun /\ disturbed' = disturbed \cup {view}
  /\ UNCHANGED <<serverVars, stateVars, pending, fetchVars, viewVars, bornVars, callVars, losses>>

-----------------------------------------------------------------------------
(* Details: loadSessionDetail() *)

\* The answer replaces the conversation, unless the session has been marked as running since.
DetailArrives(d) ==
  /\ d \in details /\ d.ready /\ details' = details \ {d}
  /\ IF d.session \in pending THEN UNCHANGED <<stateVars, pending, observers, reconnect>>
     ELSE /\ cached' = cached \cup {d.session}
          /\ content' = [content EXCEPT ![d.session] = d.runs]
          /\ activeRun' = [activeRun EXCEPT ![d.session] = NoRun]
          /\ IF d.active = NoRun THEN UNCHANGED <<pending, observers, reconnect>>
             ELSE Mark(d.session, TRUE) /\ Observe(d.session, d.active) /\ OfferEnds(d.active)
  /\ UNCHANGED <<serverVars, fetched, viewVars, bornVars, callVars, losses, disturbed>>

\* The session stays in loadedSessionDetailsRef.
DetailFails(d) ==
  /\ d \in details /\ details' = details \ {d}
  /\ Lost \/ (d.session \notin alive /\ UNCHANGED losses)
  /\ UNCHANGED <<serverVars, stateVars, pending, fetched, viewVars, bornVars, callVars, observers,
                 reconnect, disturbed>>

-----------------------------------------------------------------------------
(* Submissions: handleSubmit() *)

RuntimeActive(s) == s \in pending \/ activeRun[s] # NoRun
RoomForRun == Len(owner) + Cardinality({t \in submits : t.run = NoRun}) < limits.runs
DraftPending == \E t \in submits : t.at = Draft /\ t.token = token

SubmitDraft ==
  /\ view = Draft /\ ~DraftPending /\ Unborn # {} /\ RoomForRun
  /\ token' = token + 1
  /\ submits' = submits \cup {[at |-> Draft, token |-> token', visit |-> place.visit, run |-> NoRun]}
  /\ UNCHANGED <<serverVars, stateVars, pending, fetchVars, view, moves, place, bornVars, attaching,
                 dropped, limits, observers, reconnect, losses, disturbed>>

\* The optimistic messages are in the conversation, and the session is marked as running.
Await(s) == submits' = submits \cup {[at |-> s, token |-> 0, visit |-> 0, run |-> NoRun]}

\* Who submitted the draft is taken to its session, unless they have gone elsewhere.
FollowsAlways(t, s) == view' = s
FollowsDraft(t, s) == view' = IF t.token = token THEN s ELSE view

SessionCreated(t, s) ==
  /\ t \in submits /\ t.at = Draft /\ s \in Unborn
  /\ bornOf' = [bornOf EXCEPT ![s] = t.visit]
  /\ alive' = alive \cup {s} /\ cached' = cached \cup {s} /\ Mark(s, TRUE)
  /\ FollowsDraft(t, s)
  /\ submits' = (submits \ {t}) \cup {[at |-> s, token |-> 0, visit |-> 0, run |-> NoRun]}
  /\ UNCHANGED <<owner, activeAt, followUps, content, activeRun, fetchVars, token, moves, place, moved,
                 attaching, dropped, limits, observers, reconnect, losses, disturbed>>

SubmitHere(s) ==
  /\ view = s /\ ~RuntimeActive(s) /\ RoomForRun
  /\ Await(s) /\ Mark(s, TRUE) /\ cached' = cached \cup {s}
  /\ UNCHANGED <<serverVars, content, activeRun, fetchVars, viewVars, bornVars, attaching, dropped, limits,
                 observers, reconnect, losses, disturbed>>

\* submitPendingInput(): the message waits for the run, it does not create another one.
PostFollowUp(s) ==
  /\ view = s /\ s \in alive \ followUps /\ RuntimeActive(s)
  /\ followUps' = followUps \cup {s}
  /\ UNCHANGED <<alive, owner, activeAt, stateVars, pending, fetchVars, viewVars, bornVars, callVars,
                 observers, reconnect, losses, disturbed>>

\* The answer of POST runs.  Its first snapshot is skipped; a run that is observed already is not
\* observed again, and the submission is over.
RunAnswered(t) ==
  /\ t \in submits /\ t.run # NoRun /\ submits' = submits \ {t}
  /\ IF t.at \notin cached THEN UNCHANGED <<content, activeRun>>
     ELSE /\ content' = [content EXCEPT ![t.at] = @ \cup {t.run}]
          /\ activeRun' = [activeRun EXCEPT ![t.at] = t.run]
  /\ IF Observed(t.run) THEN Mark(t.at, FALSE) /\ UNCHANGED observers
     ELSE /\ observers' = observers \cup
               {[run |-> t.run, session |-> t.at, stage |-> "streaming", own |-> TRUE]}
          /\ UNCHANGED pending
  /\ OfferEnds(t.run)
  /\ UNCHANGED <<serverVars, cached, fetchVars, viewVars, bornVars, attaching, dropped, limits,
                 losses, disturbed>>

Refused(t) == t.at # Draft /\ t.run = NoRun /\ (t.at \notin alive \/ activeAt[t.at] # NoRun)

\* A conflict, or an answer that does not arrive: the finally clause clears the mark.
SubmitFails(t) ==
  /\ t \in submits /\ submits' = submits \ {t}
  /\ Lost \/ (Refused(t) /\ UNCHANGED losses)
  /\ IF t.at = Draft THEN UNCHANGED pending ELSE Mark(t.at, FALSE)
  /\ UNCHANGED <<serverVars, stateVars, fetchVars, viewVars, bornVars, attaching, dropped, limits, observers,
                 reconnect, disturbed>>

WebNext ==
  \/ \E s \in Sessions :
       \/ DispatchFollowUp(s) \/ RunEnds(s)
       \/ SelectSession(s) \/ RemoveSession(s) \/ ListArrives(s) \/ AttachmentSession(s)
       \/ SubmitHere(s) \/ PostFollowUp(s)
  \/ StartDraft \/ Attach \/ SubmitDraft \/ Reconnect
  \/ \E o \in observers :
       \/ ObserverAsks(o) \/ ObserverSeesEnd(o) \/ ObserverRetries(o) \/ ObserverGivesUp(o)
       \/ ObserverLeaves(o) \/ SyncReads(o) \/ SyncEnds(o) \/ ObserverReturns(o)
  \/ \E d \in details : DetailRead(d) \/ DetailArrives(d) \/ DetailFails(d)
  \/ \E t \in submits :
       \/ RunCreated(t) \/ RunAnswered(t) \/ SubmitFails(t)
       \/ \E s \in New : SessionCreated(t, s)

WebSpec == WebInit /\ [][WebNext]_webVars
-----------------------------------------------------------------------------
(* Properties *)

WebTypeOK ==
  /\ alive \subseteq Sessions /\ owner \in Seq(Sessions) /\ Len(owner) <= limits.runs
  /\ \A s \in Sessions : activeAt[s] = NoRun \/ owner[activeAt[s]] = s
  /\ view \in Sessions \cup {Draft} /\ token \in Nat /\ {cached, pending, fetched} \subseteq SUBSET Sessions
  /\ \A s \in Sessions : content[s] \subseteq DOMAIN owner /\ activeRun[s] \in {NoRun} \cup DOMAIN owner
  /\ \A o \in observers : o.stage \in {"asking", "streaming", "leaving", "syncing", "loading", "done"}
  /\ reconnect \in {NoRun} \cup DOMAIN owner
  /\ moves \in 0..limits.moves /\ losses \in 0..limits.losses

\* Where the user is: where they went, or the session that came of the draft they went to.
Homes == {place.at} \cup {s \in New : bornOf[s] = place.visit}
Gone == {s \in Sessions \ alive : s \in Known \/ bornOf[s] # 0}

\* Whatever the order in which the answers arrive, the page shows the session that the user went
\* to: no answer to an earlier submission, deletion or load takes them elsewhere.  Their session
\* may have been deleted, and an attachment that was added to a draft does take them away.
ViewIsTheUsers == view \in Homes \/ Homes \cap Gone # {} \/ moved

\* A session is marked as running, which keeps its details from being loaded and turns messages
\* into follow-ups, only as long as a submission or an observer is there to clear the mark, and
\* its conversation shows only its own runs.
RunningIsWatched ==
  \A s \in alive \ disturbed :
    /\ s \in pending =>
         \/ \E t \in submits : t.at = s
         \/ \E o \in observers : o.session = s /\ o.stage \in {"asking", "streaming"}
    /\ \A r \in content[s] : owner[r] = s
==============================================================================
