------------------------------- MODULE PageProofs -------------------------------
(* What holds of a page for any sessions, any runs and any bounds.                             *)
(*                                                                                             *)
(* Its sessions: ViewInv says what may still move the view: a deletion that waits is of a      *)
(* session that is gone, and a draft that keeps its token was submitted in the visit that goes *)
(* on.  RunsInv says which session a run known to a request, an observer or a conversation     *)
(* belongs to, and WatchInv who watches a session that is marked.                              *)
(*                                                                                             *)
(* Its conversation: TimelineInv says that the blocks of the collector are in order, with ids  *)
(* and places of their own (Collection), that they fit where the runtime is (ModelFits), and   *)
(* that the events a client has not applied take what it shows to the collector's blocks       *)
(* (Reaches), or to these and the empty text that it was created with (Trails).                *)
EXTENDS WebSessions, ConversationTimeline, FiniteSetTheorems, SequenceTheorems,
        WellFoundedInduction, TLAPS

-----------------------------------------------------------------------------
(* The sessions *)

Stages == {"asking", "streaming", "leaving", "syncing", "loading", "done"}
ObserverShape == [run : Nat, session : Sessions, stage : Stages, own : BOOLEAN]
DetailShape == [session : Sessions, by : Nat, ready : BOOLEAN, runs : SUBSET Nat, active : Nat]
SubmitShape == [at : Sessions \cup {Draft}, token : Nat, visit : Nat, run : Nat]
LimitShape == [runs : Nat, moves : Nat, losses : Nat]

WebShape ==
  /\ alive \subseteq Sessions /\ followUps \subseteq Sessions
  /\ owner \in Seq(Sessions) /\ activeAt \in [Sessions -> Nat]
  /\ view \in Sessions \cup {Draft} /\ token \in Nat
  /\ cached \subseteq Sessions /\ pending \subseteq Sessions /\ fetched \subseteq Sessions
  /\ dropped \subseteq Sessions /\ attaching \subseteq Nat \ {0}
  /\ content \in [Sessions -> SUBSET Nat] /\ activeRun \in [Sessions -> Nat]
  /\ details \subseteq DetailShape /\ observers \subseteq ObserverShape
  /\ submits \subseteq SubmitShape /\ reconnect \in Nat
  /\ limits \in LimitShape /\ moves \in Nat /\ losses \in Nat
  /\ moves <= limits.moves /\ losses <= limits.losses /\ Len(owner) <= limits.runs
  /\ place \in [at : Sessions \cup {Draft}, visit : Nat \ {0}]
  /\ bornOf \in [New -> Nat] /\ moved \in BOOLEAN

Born(s) == s \in Known \/ bornOf[s] # 0
RunOf(r, s) == r \in DOMAIN owner /\ owner[r] = s
KnownRun(r) == r = NoRun \/ r \in DOMAIN owner

\* What may still move the view.
ViewInv ==
  /\ \A s \in alive \cup dropped : Born(s)
  /\ alive \cap dropped = {}
  /\ \A t \in submits : t.at = Draft =>
       /\ t.visit # 0 /\ t.token <= token
       /\ t.token = token => t.visit = place.visit
  /\ ViewIsTheUsers

\* What a request read fits the session it is for, and a run the session it is observed in: an
\* observer that a reconnection put into another session disturbs both.
DetailFits(d) ==
  /\ \A r \in d.runs : RunOf(r, d.session)
  /\ d.active # NoRun => RunOf(d.active, d.session)
ObserverFits(o) ==
  /\ o.run \in DOMAIN owner
  /\ owner[o.run] # o.session => owner[o.run] \in disturbed /\ o.session \in disturbed
  /\ o.stage = "leaving" => o.session \in disturbed
Offerable(r) == r \in DOMAIN owner /\ owner[r] \in disturbed
ShownFits(r, s) == r \in DOMAIN owner /\ (s \notin disturbed => owner[r] = s)

RunsInv ==
  /\ \A s \in Sessions : activeAt[s] # NoRun => RunOf(activeAt[s], s)
  /\ \A t \in submits : t.run # NoRun => RunOf(t.run, t.at)
  /\ \A d \in details : DetailFits(d)
  /\ \A o \in observers : ObserverFits(o)
  /\ reconnect # NoRun => Offerable(reconnect)
  /\ \A s \in Sessions : KnownRun(activeRun[s]) /\ \A r \in content[s] : ShownFits(r, s)

Submitting(s) == \E t \in submits : t.at = s
Watching(s) == \E o \in observers : o.session = s /\ o.stage \in {"asking", "streaming"}
WatchInv == \A s \in Sessions \ disturbed : s \in pending => Submitting(s) \/ Watching(s)

WebInv == WebShape /\ ViewInv /\ RunsInv /\ WatchInv

------------------------------------------------------------------------------
\* A page that opens satisfies the invariant.
LEMMA WebInitInv == WebInit => WebInv
<1> SUFFICES ASSUME WebInit PROVE WebInv
  OBVIOUS
<1>1. /\ alive = Known /\ owner = <<>> /\ activeAt = [s \in Sessions |-> NoRun] /\ followUps = {}
      /\ view \in Known /\ token = 0 /\ place = [at |-> view, visit |-> 1]
      /\ fetched = {view} /\ details = {DetailRequest(view, NoRun)}
      /\ cached = {} /\ content = [s \in Sessions |-> {}] /\ activeRun = [s \in Sessions |-> NoRun]
      /\ pending = {} /\ observers = {} /\ reconnect = NoRun
      /\ submits = {} /\ attaching = {} /\ dropped = {}
      /\ bornOf = [s \in New |-> 0] /\ moved = FALSE /\ disturbed = {}
      /\ limits \in LimitShape /\ moves = 0 /\ losses = 0
  BY PageBounds DEF WebInit, LimitShape
<1>2. DetailRequest(view, NoRun) \in DetailShape /\ DetailFits(DetailRequest(view, NoRun))
  BY <1>1 DEF DetailRequest, DetailShape, DetailFits, Sessions, NoRun
<1>3. WebShape
  <2>1. owner \in Seq(Sessions) /\ Len(owner) = 0
    BY <1>1
  <2>2. place \in [at : Sessions \cup {Draft}, visit : Nat \ {0}]
    BY <1>1 DEF Sessions
  <2>3. limits.runs \in Nat /\ limits.moves \in Nat /\ limits.losses \in Nat
    BY <1>1 DEF LimitShape
  <2>4. content \in [Sessions -> SUBSET Nat] /\ activeRun \in [Sessions -> Nat] /\ activeAt \in [Sessions -> Nat]
    BY <1>1 DEF NoRun
  <2>5. moves <= limits.moves /\ losses <= limits.losses /\ Len(owner) <= limits.runs /\ reconnect \in Nat
    BY <1>1, <2>1, <2>3 DEF NoRun
  <2>6. details \subseteq DetailShape /\ bornOf \in [New -> Nat] /\ view \in Sessions
    BY <1>1, <1>2 DEF Sessions
  <2> QED BY <1>1, <2>1, <2>2, <2>4, <2>5, <2>6 DEF WebShape, Sessions
<1>4. ViewInv
  BY <1>1 DEF ViewInv, ViewIsTheUsers, Homes, Born
<1>5. RunsInv
  BY <1>1, <1>2 DEF RunsInv, KnownRun
<1>6. WatchInv
  BY <1>1 DEF WatchInv
<1> QED BY <1>3, <1>4, <1>5, <1>6 DEF WebInv

------------------------------------------------------------------------------
(* What steps have in common *)

\* A run has a number, is not the absent run and belongs to a session.
LEMMA OwnerDomain ==
  ASSUME WebShape
  PROVE  \A r \in DOMAIN owner : r \in Nat /\ r # NoRun /\ owner[r] \in Sessions
<1>1. DOMAIN owner = 1 .. Len(owner) /\ \A r \in 1 .. Len(owner) : owner[r] \in Sessions
  BY DEF WebShape
<1> QED BY <1>1 DEF NoRun

\* A run is created with the next number, and no run changes hands.
LEMMA StartRunFacts ==
  ASSUME WebShape, NEW s \in Sessions, StartRun(s), UNCHANGED limits
  PROVE  /\ owner' \in Seq(Sessions) /\ Len(owner') <= limits'.runs
         /\ \A r \in DOMAIN owner : r \in DOMAIN owner' /\ owner'[r] = owner[r]
         /\ Len(owner) + 1 \in Nat /\ Len(owner) + 1 # NoRun /\ Len(owner) + 1 \in DOMAIN owner'
         /\ owner'[Len(owner) + 1] = s
         /\ activeAt' \in [Sessions -> Nat]
         /\ \A q \in Sessions : activeAt'[q] = IF q = s THEN Len(owner) + 1 ELSE activeAt[q]
<1>1. /\ owner \in Seq(Sessions) /\ Len(owner) \in Nat /\ limits.runs \in Nat /\ Len(owner) < limits.runs
      /\ owner' = Append(owner, s) /\ activeAt' = [activeAt EXCEPT ![s] = Len(owner) + 1]
      /\ activeAt \in [Sessions -> Nat]
  BY DEF WebShape, StartRun, LimitShape
<1>2. /\ owner' \in Seq(Sessions) /\ Len(owner') = Len(owner) + 1
      /\ DOMAIN owner = 1 .. Len(owner) /\ DOMAIN owner' = 1 .. (Len(owner) + 1)
      /\ owner'[Len(owner) + 1] = s /\ \A r \in 1 .. Len(owner) : owner'[r] = owner[r]
  BY <1>1
<1> QED BY <1>1, <1>2 DEF NoRun

\* What belongs to a session goes on belonging to it; only what is new has to be shown.
LEMMA RunsKeep ==
  ASSUME RunsInv, disturbed \subseteq disturbed',
         \A r \in DOMAIN owner : r \in DOMAIN owner' /\ owner'[r] = owner[r],
         \A s \in Sessions : activeAt'[s] \in {activeAt[s], NoRun} \/ RunOf(activeAt[s], s)',
         \A t \in submits' : t \in submits \/ t.run = NoRun \/ RunOf(t.run, t.at)',
         \A d \in details' : d \in details \/ DetailFits(d)',
         \A o \in observers' : o \in observers \/ ObserverFits(o)',
         reconnect' \in {reconnect, NoRun} \/ Offerable(reconnect)',
         \A s \in Sessions : activeRun'[s] \in {activeRun[s], NoRun} \/ activeRun'[s] \in DOMAIN owner',
         \A s \in Sessions : \A r \in content'[s] : r \in content[s] \/ ShownFits(r, s)'
  PROVE  RunsInv'
<1>1. \A s \in Sessions : activeAt'[s] # NoRun => RunOf(activeAt[s], s)'
  BY DEF RunsInv, RunOf
<1>2. \A t \in submits' : t.run # NoRun => RunOf(t.run, t.at)'
  BY DEF RunsInv, RunOf
<1>3. \A d \in details' : DetailFits(d)'
  BY DEF RunsInv, RunOf, DetailFits
<1>4. \A o \in observers' : ObserverFits(o)'
  BY DEF RunsInv, ObserverFits
<1>5. reconnect' # NoRun => Offerable(reconnect)'
  BY DEF RunsInv, Offerable
<1>6. \A s \in Sessions : KnownRun(activeRun[s])' /\ \A r \in content'[s] : ShownFits(r, s)'
  BY DEF RunsInv, KnownRun, ShownFits
<1> QED BY <1>1, <1>2, <1>3, <1>4, <1>5, <1>6 DEF RunsInv

\* Most steps do not move the view, create a session or submit a draft.
LEMMA ViewKeeps ==
  ASSUME ViewInv, UNCHANGED <<alive, dropped, token, view, place, bornOf, moved>>,
         \A t \in submits' : t.at = Draft => t \in submits
  PROVE  ViewInv'
<1>1. ViewIsTheUsers'
  BY DEF ViewInv, ViewIsTheUsers, Homes, Gone
<1> QED BY <1>1 DEF ViewInv, Born

\* An observer goes on to another stage.
LEMMA ToFacts ==
  ASSUME WebShape, NEW o \in observers, NEW stage \in Stages, To(o, stage)
  PROVE  \E n \in ObserverShape :
           /\ n.run = o.run /\ n.session = o.session /\ n.stage = stage /\ n.own = o.own
           /\ observers' = (observers \ {o}) \cup {n}
<1> DEFINE n == [o EXCEPT !.stage = stage]
<1>1. o \in ObserverShape
  BY DEF WebShape
<1>2. n \in ObserverShape /\ n.run = o.run /\ n.session = o.session /\ n.stage = stage /\ n.own = o.own
  BY <1>1 DEF ObserverShape
<1> QED BY <1>2 DEF To

\* A request begins without having read anything.
LEMMA RequestFacts ==
  ASSUME NEW s \in Sessions, NEW by \in Nat
  PROVE  DetailRequest(s, by) \in DetailShape /\ DetailFits(DetailRequest(s, by))'
BY DEF DetailRequest, DetailShape, DetailFits, NoRun

\* Opening a conversation adds at most a request for it that knows no run.
LEMMA LoadFacts ==
  ASSUME WebShape, NEW s \in Sessions, Load(s) \/ UNCHANGED fetchVars
  PROVE  /\ fetched' \subseteq Sessions /\ details' \subseteq DetailShape
         /\ \A d \in details' : d \in details \/ DetailFits(d)'
<1>1. DetailRequest(s, NoRun) \in DetailShape /\ DetailFits(DetailRequest(s, NoRun))'
  BY RequestFacts DEF NoRun
<1>2. /\ fetched' \subseteq fetched \cup {s}
      /\ details' = details \/ details' = details \cup {DetailRequest(s, NoRun)}
  BY DEF Load, fetchVars
<1> QED BY <1>1, <1>2 DEF WebShape

------------------------------------------------------------------------------
(* The server *)

\* The server starts the run of a follow-up that waited.
LEMMA DispatchFollowUpKeeps ==
  ASSUME WebInv, NEW s \in Sessions, DispatchFollowUp(s)
  PROVE  WebInv'
<1>1. /\ StartRun(s) /\ followUps' = followUps \ {s}
      /\ UNCHANGED <<alive, cached, content, activeRun, pending, fetched, details, view, token, moves, place,
                     bornOf, moved, submits, attaching, dropped, limits, observers, reconnect, losses,
                     disturbed>>
  BY DEF DispatchFollowUp, stateVars, fetchVars, viewVars, bornVars, callVars
<1>2. /\ owner' \in Seq(Sessions) /\ Len(owner') <= limits'.runs
      /\ \A r \in DOMAIN owner : r \in DOMAIN owner' /\ owner'[r] = owner[r]
      /\ Len(owner) + 1 \in DOMAIN owner' /\ owner'[Len(owner) + 1] = s
      /\ activeAt' \in [Sessions -> Nat]
      /\ \A q \in Sessions : activeAt'[q] = IF q = s THEN Len(owner) + 1 ELSE activeAt[q]
  BY <1>1, StartRunFacts DEF WebInv
<1>3. WebShape'
  BY <1>1, <1>2 DEF WebInv, WebShape
<1>4. ViewInv'
  BY <1>1, ViewKeeps DEF WebInv
<1>5. RunsInv'
  <2>1. \A q \in Sessions : activeAt'[q] \in {activeAt[q], NoRun} \/ RunOf(activeAt[q], q)'
    BY <1>2 DEF RunOf
  <2> QED BY <1>1, <1>2, <2>1, RunsKeep DEF WebInv
<1>6. WatchInv'
  BY <1>1 DEF WebInv, WatchInv, Submitting, Watching
<1> QED BY <1>3, <1>4, <1>5, <1>6 DEF WebInv

\* A run ends on the server: its session keeps no active run.
LEMMA RunEndsKeeps ==
  ASSUME WebInv, NEW s \in Sessions, RunEnds(s)
  PROVE  WebInv'
<1>1. /\ activeAt' = [activeAt EXCEPT ![s] = NoRun]
      /\ UNCHANGED <<alive, owner, followUps, cached, content, activeRun, pending, fetched, details, view, token,
                     moves, place, bornOf, moved, submits, attaching, dropped, limits, observers, reconnect,
                     losses, disturbed>>
  BY DEF RunEnds, stateVars, fetchVars, viewVars, bornVars, callVars
<1>2. /\ activeAt' \in [Sessions -> Nat]
      /\ \A q \in Sessions : activeAt'[q] \in {activeAt[q], NoRun}
  BY <1>1 DEF WebInv, WebShape, NoRun
<1>3. WebShape'
  BY <1>1, <1>2 DEF WebInv, WebShape
<1>4. ViewInv'
  BY <1>1, ViewKeeps DEF WebInv
<1>5. RunsInv'
  BY <1>1, <1>2, RunsKeep DEF WebInv
<1>6. WatchInv'
  BY <1>1 DEF WebInv, WatchInv, Submitting, Watching
<1> QED BY <1>3, <1>4, <1>5, <1>6 DEF WebInv

\* The server answers a request with the runs the session has at that moment.
LEMMA DetailReadKeeps ==
  ASSUME WebInv, NEW d \in details, DetailRead(d)
  PROVE  WebInv'
<1> DEFINE runs == {r \in DOMAIN owner : owner[r] = d.session}
           n == [d EXCEPT !.ready = TRUE, !.active = activeAt[d.session], !.runs = runs]
<1>1. /\ details' = (details \ {d}) \cup {n}
      /\ UNCHANGED <<alive, owner, activeAt, followUps, cached, content, activeRun, pending, fetched, view, token,
                     moves, place, bornOf, moved, submits, attaching, dropped, limits, observers, reconnect,
                     losses, disturbed>>
  BY DEF DetailRead, serverVars, stateVars, viewVars, bornVars, callVars
<1>2. d \in DetailShape /\ runs \subseteq Nat /\ activeAt[d.session] \in Nat /\ d.session \in Sessions
  BY OwnerDomain DEF WebInv, WebShape, DetailShape
<1>3. \A r \in runs : RunOf(r, d.session)
  BY DEF RunOf
<1> HIDE DEF runs
<1>4. /\ n \in DetailShape /\ n.session = d.session /\ n.runs = runs /\ n.active = activeAt[d.session]
  BY <1>2 DEF DetailShape
<1> HIDE DEF n
<1>5. WebShape'
  BY <1>1, <1>4 DEF WebInv, WebShape
<1>6. ViewInv'
  BY <1>1, ViewKeeps DEF WebInv
<1>7. RunsInv'
  <2>1. \A r \in n.runs : RunOf(r, n.session)
    BY <1>3, <1>4
  <2>2. n.active # NoRun => RunOf(n.active, n.session)
    BY <1>2, <1>4 DEF WebInv, RunsInv
  <2>3. DetailFits(n)
    BY <2>1, <2>2 DEF DetailFits
  <2>4. \A e \in details' : DetailFits(e)
    BY <1>1, <2>3 DEF WebInv, RunsInv
  <2> QED BY <1>1, <2>4 DEF WebInv, RunsInv, RunOf, DetailFits, ObserverFits, Offerable, KnownRun, ShownFits
<1>8. WatchInv'
  BY <1>1 DEF WebInv, WatchInv, Submitting, Watching
<1> QED BY <1>5, <1>6, <1>7, <1>8 DEF WebInv

\* A submitted message becomes a run of the session it was submitted in.
LEMMA RunCreatedKeeps ==
  ASSUME WebInv, NEW t \in submits, RunCreated(t)
  PROVE  WebInv'
<1> DEFINE n == [t EXCEPT !.run = Len(owner) + 1]
<1>1. /\ StartRun(t.at) /\ t.at # Draft /\ submits' = (submits \ {t}) \cup {n}
      /\ UNCHANGED <<alive, followUps, cached, content, activeRun, pending, fetched, details, view, token,
                     moves, place, bornOf, moved, attaching, dropped, limits, observers, reconnect,
                     losses, disturbed>>
  BY DEF RunCreated, stateVars, fetchVars, viewVars, bornVars
<1>2. t \in SubmitShape /\ t.at \in Sessions
  BY <1>1 DEF WebInv, WebShape, SubmitShape
<1>3. /\ owner' \in Seq(Sessions) /\ Len(owner') <= limits'.runs
      /\ \A r \in DOMAIN owner : r \in DOMAIN owner' /\ owner'[r] = owner[r]
      /\ Len(owner) + 1 \in Nat /\ Len(owner) + 1 \in DOMAIN owner' /\ owner'[Len(owner) + 1] = t.at
      /\ activeAt' \in [Sessions -> Nat]
      /\ \A q \in Sessions : activeAt'[q] = IF q = t.at THEN Len(owner) + 1 ELSE activeAt[q]
  BY <1>1, <1>2, StartRunFacts DEF WebInv
<1>4. n \in SubmitShape /\ n.at = t.at /\ n.run = Len(owner) + 1
  BY <1>2, <1>3 DEF SubmitShape
<1> HIDE DEF n
<1>5. WebShape'
  BY <1>1, <1>3, <1>4 DEF WebInv, WebShape
<1>6. ViewInv'
  BY <1>1, <1>4, ViewKeeps DEF WebInv
<1>7. RunsInv'
  <2>1. \A q \in Sessions : activeAt'[q] \in {activeAt[q], NoRun} \/ RunOf(activeAt[q], q)'
    BY <1>3 DEF RunOf
  <2>2. \A u \in submits' : u \in submits \/ u.run = NoRun \/ RunOf(u.run, u.at)'
    BY <1>1, <1>3, <1>4 DEF RunOf
  <2> QED BY <1>1, <1>3, <2>1, <2>2, RunsKeep DEF WebInv
<1>8. WatchInv'
  BY <1>1, <1>4 DEF WebInv, WatchInv, Submitting, Watching
<1> QED BY <1>5, <1>6, <1>7, <1>8 DEF WebInv

------------------------------------------------------------------------------
(* Which session is shown *)

\* Who goes elsewhere leaves every draft they submitted behind.
LEMMA GoKeeps ==
  ASSUME WebInv, StartDraft \/ \E s \in Sessions : SelectSession(s)
  PROVE  WebInv'
<1>1. PICK to \in Sessions \cup {Draft} :
        /\ Went(to) /\ token' = token + 1 /\ view' = to
        /\ UNCHANGED fetchVars \/ \E s \in Sessions : Load(s)
  BY DEF StartDraft, SelectSession, Show, ShowDraft
<1>2. UNCHANGED <<alive, owner, activeAt, followUps, cached, content, activeRun, pending,
                  bornOf, moved, submits, attaching, dropped, limits, observers, reconnect, losses, disturbed>>
  BY DEF StartDraft, SelectSession, serverVars, stateVars, bornVars, callVars
<1>3. /\ moves' \in Nat /\ moves' <= limits.moves
      /\ place' \in [at : Sessions \cup {Draft}, visit : Nat \ {0}] /\ place'.at = to
  BY <1>1, SMTT(20) DEF Went, WebInv, WebShape, LimitShape
<1>4. /\ fetched' \subseteq Sessions /\ details' \subseteq DetailShape
      /\ \A d \in details' : d \in details \/ DetailFits(d)'
  <2>1. CASE UNCHANGED fetchVars
    BY <2>1 DEF fetchVars, WebInv, WebShape
  <2>2. ASSUME NEW s \in Sessions, Load(s) PROVE <1>4!:
    BY <2>2, LoadFacts DEF WebInv
  <2> QED BY <1>1, <2>1, <2>2
<1>5. WebShape'
  <2>1. view' \in Sessions \cup {Draft} /\ token' \in Nat
    BY <1>1 DEF WebInv, WebShape
  <2>2. /\ alive \subseteq Sessions /\ followUps \subseteq Sessions
        /\ owner \in Seq(Sessions) /\ activeAt \in [Sessions -> Nat]
        /\ cached \subseteq Sessions /\ pending \subseteq Sessions /\ dropped \subseteq Sessions
        /\ attaching \subseteq Nat \ {0} /\ content \in [Sessions -> SUBSET Nat]
        /\ activeRun \in [Sessions -> Nat] /\ observers \subseteq ObserverShape
        /\ submits \subseteq SubmitShape /\ reconnect \in Nat /\ limits \in LimitShape
        /\ losses \in Nat /\ losses <= limits.losses /\ Len(owner) <= limits.runs
        /\ bornOf \in [New -> Nat] /\ moved \in BOOLEAN
    BY DEF WebInv, WebShape
  <2>3. losses' <= limits'.losses /\ Len(owner)' <= limits'.runs /\ moves' <= limits'.moves
    BY <1>2, <1>3, <2>2
  <2> QED BY <1>2, <1>3, <1>4, <2>1, <2>2, <2>3 DEF WebShape
<1>6. ViewInv'
  <2>1. \A t \in submits' : t.at = Draft => t.visit # 0 /\ t.token <= token' /\ t.token # token'
    BY <1>1, <1>2 DEF WebInv, ViewInv, WebShape, SubmitShape
  <2>2. ViewIsTheUsers'
    BY <1>1, <1>3 DEF ViewIsTheUsers, Homes
  <2> QED BY <1>2, <2>1, <2>2 DEF WebInv, ViewInv, Born
<1>7. RunsInv'
  BY <1>2, <1>4, RunsKeep DEF WebInv
<1>8. WatchInv'
  BY <1>2 DEF WebInv, WatchInv, Submitting, Watching
<1> QED BY <1>5, <1>6, <1>7, <1>8 DEF WebInv

\* A session that is deleted stays one of the user's homes, and is gone.
LEMMA RemoveSessionKeeps ==
  ASSUME WebInv, NEW s \in Sessions, RemoveSession(s)
  PROVE  WebInv'
<1>1. /\ s \in alive /\ alive' = alive \ {s} /\ followUps' = followUps \ {s} /\ dropped' = dropped \cup {s}
      /\ cached' = cached \ {s} /\ content' = [content EXCEPT ![s] = {}]
      /\ activeRun' = [activeRun EXCEPT ![s] = NoRun] /\ Acted
      /\ UNCHANGED <<owner, activeAt, pending, fetched, details, view, token, place, bornOf, moved, submits,
                     attaching, limits, observers, reconnect, losses, disturbed>>
  BY DEF RemoveSession, Acted, fetchVars, bornVars
<1>2. moves' \in Nat /\ moves' <= limits.moves
  BY <1>1 DEF Acted, WebInv, WebShape, LimitShape
<1>3. /\ content' \in [Sessions -> SUBSET Nat] /\ activeRun' \in [Sessions -> Nat]
      /\ \A q \in Sessions : activeRun'[q] \in {activeRun[q], NoRun} /\ content'[q] \subseteq content[q]
  BY <1>1 DEF WebInv, WebShape, NoRun
<1>4. WebShape'
  BY <1>1, <1>2, <1>3 DEF WebInv, WebShape
<1>5. ViewInv'
  <2>1. ViewIsTheUsers'
    BY <1>1 DEF WebInv, ViewInv, ViewIsTheUsers, Homes, Gone
  <2> QED BY <1>1, <2>1 DEF WebInv, ViewInv, Born
<1>6. RunsInv'
  BY <1>1, <1>3, RunsKeep DEF WebInv
<1>7. WatchInv'
  BY <1>1 DEF WebInv, WatchInv, Submitting, Watching
<1> QED BY <1>4, <1>5, <1>6, <1>7 DEF WebInv

\* A deletion moves the view only from the session that is gone, which was a home of the user.
LEMMA ListArrivesKeeps ==
  ASSUME WebInv, NEW s \in Sessions, ListArrives(s)
  PROVE  WebInv'
<1>1. /\ s \in dropped /\ dropped' = dropped \ {s}
      /\ UNCHANGED <<alive, owner, activeAt, followUps, cached, content, activeRun, pending, moves, place,
                     bornOf, moved, submits, attaching, limits, observers, reconnect, losses, disturbed>>
  BY DEF ListArrives, serverVars, stateVars, bornVars
<1>2. /\ view' \in Sessions \cup {Draft} /\ (view' # view => view = s)
      /\ (token' = token /\ view' = view) \/ token' = token + 1
      /\ UNCHANGED fetchVars \/ \E q \in Sessions : Load(q)
  BY DEF ListArrives, Show, ShowDraft, fetchVars, WebInv, WebShape
<1>3. /\ fetched' \subseteq Sessions /\ details' \subseteq DetailShape
      /\ \A d \in details' : d \in details \/ DetailFits(d)'
  <2>1. CASE UNCHANGED fetchVars
    BY <2>1 DEF fetchVars, WebInv, WebShape
  <2>2. ASSUME NEW q \in Sessions, Load(q) PROVE <1>3!:
    BY <2>2, LoadFacts DEF WebInv
  <2> QED BY <1>2, <2>1, <2>2
<1>4. token' \in Nat /\ token <= token'
  BY <1>2, SMTT(20) DEF WebInv, WebShape
<1>5. WebShape'
  BY <1>1, <1>2, <1>3, <1>4 DEF WebInv, WebShape
<1>6. ViewInv'
  <2>1. \A t \in submits' : t.at = Draft => /\ t.visit # 0 /\ t.token <= token'
                                            /\ t.token = token' => t.visit = place'.visit
    BY <1>1, <1>2, <1>4, SMTT(20) DEF WebInv, ViewInv, WebShape, SubmitShape
  <2>2. s \in Gone
    BY <1>1 DEF WebInv, ViewInv, Gone, Born
  <2>3. ViewIsTheUsers'
    BY <1>1, <1>2, <2>2 DEF WebInv, ViewInv, ViewIsTheUsers, Homes, Gone
  <2> QED BY <1>1, <2>1, <2>3 DEF WebInv, ViewInv, Born
<1>7. RunsInv'
  BY <1>1, <1>3, RunsKeep DEF WebInv
<1>8. WatchInv'
  BY <1>1 DEF WebInv, WatchInv, Submitting, Watching
<1> QED BY <1>5, <1>6, <1>7, <1>8 DEF WebInv

\* Attaching to a draft begins in the visit that goes on.
LEMMA AttachKeeps ==
  ASSUME WebInv, Attach
  PROVE  WebInv'
<1>1. /\ attaching' = {place.visit} /\ Acted
      /\ UNCHANGED <<alive, owner, activeAt, followUps, cached, content, activeRun, pending, fetched, details, view,
                     token, place, bornOf, moved, submits, dropped, limits, observers, reconnect, losses, disturbed>>
  BY DEF Attach, Acted, serverVars, stateVars, fetchVars, bornVars
<1>2. moves' \in Nat /\ moves' <= limits.moves /\ place.visit \in Nat \ {0}
  BY <1>1 DEF Acted, WebInv, WebShape, LimitShape
<1>3. WebShape'
  BY <1>1, <1>2 DEF WebInv, WebShape
<1>4. ViewInv'
  BY <1>1, ViewKeeps DEF WebInv
<1>5. RunsInv'
  BY <1>1, RunsKeep DEF WebInv
<1>6. WatchInv'
  BY <1>1 DEF WebInv, WatchInv, Submitting, Watching
<1> QED BY <1>3, <1>4, <1>5, <1>6 DEF WebInv

\* The session of an attachment belongs to the visit in which it was asked for.
LEMMA AttachmentSessionKeeps ==
  ASSUME WebInv, NEW s \in Sessions, AttachmentSession(s)
  PROVE  WebInv'
<1>1. /\ attaching' = {} /\ s \in Unborn
      /\ alive' = alive \cup {s} /\ cached' = cached \cup {s} /\ view' = s /\ Load(s)
      /\ UNCHANGED <<owner, activeAt, followUps, content, activeRun, pending, token, moves, place, submits,
                     dropped, limits, observers, reconnect, losses, disturbed>>
  BY DEF AttachmentSession
<1>2. PICK v \in attaching : bornOf' = [bornOf EXCEPT ![s] = v] /\ moved' = (moved \/ v # place.visit)
  BY DEF AttachmentSession
<1>3. /\ v \in Nat \ {0} /\ s \in New /\ s \notin Known /\ bornOf[s] = 0
      /\ bornOf' \in [New -> Nat] /\ moved' \in BOOLEAN
      /\ \A q \in New : bornOf'[q] = IF q = s THEN v ELSE bornOf[q]
  BY <1>1, <1>2, SessionNames DEF WebInv, WebShape, Unborn
<1>4. /\ fetched' \subseteq Sessions /\ details' \subseteq DetailShape
      /\ \A d \in details' : d \in details \/ DetailFits(d)'
  BY <1>1, LoadFacts DEF WebInv
<1>5. WebShape'
  BY <1>1, <1>3, <1>4 DEF WebInv, WebShape
<1>6. ViewInv'
  <2>1. \A q \in Sessions : Born(q) => Born(q)' /\ q # s
    BY <1>3 DEF Born, Sessions
  <2>2. Born(s)'
    BY <1>3 DEF Born
  <2>3. alive' \cap dropped' = {} /\ \A q \in alive' \cup dropped' : Born(q)'
    BY <1>1, <2>1, <2>2 DEF WebInv, WebShape, ViewInv
  <2>4. ViewIsTheUsers'
    BY <1>1, <1>2, <1>3 DEF ViewIsTheUsers, Homes
  <2> QED BY <1>1, <2>3, <2>4 DEF WebInv, ViewInv
<1>7. RunsInv'
  BY <1>1, <1>4, RunsKeep DEF WebInv
<1>8. WatchInv'
  BY <1>1 DEF WebInv, WatchInv, Submitting, Watching
<1> QED BY <1>5, <1>6, <1>7, <1>8 DEF WebInv

------------------------------------------------------------------------------
(* Observers *)

\* A failure that an instance admits keeps their count within its bound.
LEMMA LossFacts ==
  ASSUME WebShape, Lost \/ UNCHANGED losses, UNCHANGED limits
  PROVE  losses' \in Nat /\ losses' <= limits'.losses
BY DEF Lost, WebShape, LimitShape

\* An observer goes on, and the mark and the conversation of its session with it: a session that
\* is marked has an observer, or one that ended is disturbed.
ObserverStep(o, stage) ==
  /\ To(o, stage)
  /\ UNCHANGED <<alive, owner, activeAt, followUps, cached, view, token, moves, place,
                 bornOf, moved, submits, attaching, dropped, limits>>
  /\ fetched' \subseteq Sessions /\ details' \subseteq DetailShape
  /\ \A d \in details' : d \in details \/ DetailFits(d)'
  /\ disturbed \subseteq disturbed' /\ (stage = "leaving" => o.session \in disturbed')
  /\ losses' \in Nat /\ losses' <= limits.losses
  /\ reconnect' \in {reconnect, NoRun} \/ (reconnect' = o.run /\ o.session \in disturbed')
  /\ \/ UNCHANGED <<content, activeRun>>
     \/ ApplySnapshot(o)
     \/ UNCHANGED content /\ activeRun' = [activeRun EXCEPT ![o.session] = NoRun]
  /\ pending' \subseteq pending \cup {o.session}
  /\ \/ stage \in {"asking", "streaming"}
     \/ o.stage \notin {"asking", "streaming"} /\ pending' \subseteq pending
     \/ o.session \notin pending'
     \/ o.session \in disturbed'

\* What every step of an observer keeps: the proofs below only show that they are such steps.
LEMMA ObserverStepKeeps ==
  ASSUME WebInv, NEW o \in observers, NEW stage \in Stages, ObserverStep(o, stage)
  PROVE  WebInv'
<1> USE DEF ObserverStep
<1>1. PICK n \in ObserverShape :
        /\ n.run = o.run /\ n.session = o.session /\ n.stage = stage /\ n.own = o.own
        /\ observers' = (observers \ {o}) \cup {n}
  BY ToFacts DEF WebInv
<1>2. o \in ObserverShape /\ o.session \in Sessions /\ ObserverFits(o) /\ o.run \in DOMAIN owner /\ o.run \in Nat
  BY OwnerDomain DEF WebInv, WebShape, RunsInv, ObserverShape, ObserverFits
<1>3. /\ content' \in [Sessions -> SUBSET Nat] /\ activeRun' \in [Sessions -> Nat]
      /\ \A s \in Sessions : activeRun'[s] \in {activeRun[s], NoRun, o.run}
      /\ \A s \in Sessions : content'[s] \subseteq content[s] \cup {o.run} /\ (s # o.session => content'[s] = content[s])
  <2>1. CASE UNCHANGED <<content, activeRun>>
    BY <2>1 DEF WebInv, WebShape
  <2>2. CASE ApplySnapshot(o)
    <3>1. CASE UNCHANGED <<content, activeRun>>
      BY <3>1 DEF WebInv, WebShape
    <3>2. CASE /\ content' = [content EXCEPT ![o.session] = @ \cup {o.run}]
               /\ activeRun' = [activeRun EXCEPT ![o.session] = IF IsActive(o.run) THEN o.run ELSE NoRun]
      <4> PICK r \in {o.run, NoRun} : r = IF IsActive(o.run) THEN o.run ELSE NoRun
        OBVIOUS
      <4>1. activeRun' = [activeRun EXCEPT ![o.session] = r]
        BY <3>2
      <4>2. r \in Nat /\ content \in [Sessions -> SUBSET Nat] /\ activeRun \in [Sessions -> Nat]
        BY <1>2 DEF WebInv, WebShape, NoRun
      <4>3. activeRun' \in [Sessions -> Nat] /\ \A s \in Sessions : activeRun'[s] \in {activeRun[s], NoRun, o.run}
        BY <4>1, <4>2
      <4>4. content' = [content EXCEPT ![o.session] = content[o.session] \cup {o.run}]
        BY <3>2
      <4>5. /\ content' \in [Sessions -> SUBSET Nat]
            /\ \A s \in Sessions : content'[s] \subseteq content[s] \cup {o.run} /\ (s # o.session => content'[s] = content[s])
        BY <1>2, <4>2, <4>4
      <4> QED BY <4>3, <4>5
    <3> QED BY <2>2, <3>1, <3>2 DEF ApplySnapshot
  <2>3. CASE UNCHANGED content /\ activeRun' = [activeRun EXCEPT ![o.session] = NoRun]
    BY <1>2, <2>3 DEF WebInv, WebShape, NoRun
  <2> QED BY <2>1, <2>2, <2>3
<1>4. WebShape'
  <2>0. reconnect \in Nat /\ o.run \in Nat /\ NoRun \in Nat
    BY <1>2 DEF WebInv, WebShape, NoRun
  <2>1. reconnect' \in Nat
    BY <2>0
  <2>2. pending' \subseteq Sessions /\ observers' \subseteq ObserverShape
    BY <1>1, <1>2 DEF WebInv, WebShape
  <2> QED BY <1>3, <2>1, <2>2 DEF WebInv, WebShape
<1>5. ViewInv'
  BY ViewKeeps DEF WebInv
<1>6. RunsInv'
  <2>1. ObserverFits(n)'
    BY <1>1, <1>2 DEF ObserverFits
  <2>2. reconnect' \in {reconnect, NoRun} \/ Offerable(reconnect)'
    BY <1>2 DEF Offerable, ObserverFits
  <2>3. ShownFits(o.run, o.session)'
    BY <1>2 DEF ShownFits, ObserverFits
  <2>4. \A s \in Sessions : \A r \in content'[s] : r \in content[s] \/ ShownFits(r, s)'
    BY <1>3, <2>3
  <2>5. \A s \in Sessions : activeRun'[s] \in {activeRun[s], NoRun} \/ activeRun'[s] \in DOMAIN owner'
    BY <1>2, <1>3
  <2>6. \A p \in observers' : p \in observers \/ ObserverFits(p)'
    BY <1>1, <2>1
  <2> QED BY <2>2, <2>4, <2>5, <2>6, RunsKeep DEF WebInv
<1>7. WatchInv'
  <2> SUFFICES ASSUME NEW s \in Sessions \ disturbed', s \in pending'
               PROVE  Submitting(s)' \/ Watching(s)'
    BY DEF WatchInv
  <2>1. s \notin disturbed /\ Submitting(s)' = Submitting(s)
    BY DEF Submitting
  <2>2. CASE stage \in {"asking", "streaming"} /\ s = o.session
    BY <1>1, <2>2 DEF Watching
  <2>3. CASE s # o.session
    <3>1. s \in pending
      BY <2>3
    <3>2. Watching(s) => Watching(s)'
      BY <1>1, <2>3 DEF Watching
    <3> QED BY <2>1, <3>1, <3>2 DEF WebInv, WatchInv
  <2>4. CASE o.stage \notin {"asking", "streaming"} /\ pending' \subseteq pending
    <3>1. Watching(s) => Watching(s)'
      BY <1>1, <2>4 DEF Watching
    <3> QED BY <2>1, <2>4, <3>1 DEF WebInv, WatchInv
  <2> QED BY <2>2, <2>3, <2>4
<1> QED BY <1>4, <1>5, <1>6, <1>7 DEF WebInv

\* An observer reads its run and streams it, or leaves when it has ended.
LEMMA ObserverAsksKeeps ==
  ASSUME WebInv, NEW o \in observers, ObserverAsks(o)
  PROVE  WebInv'
<1>1. /\ ApplySnapshot(o) /\ Mark(o.session, IsActive(o.run))
      /\ UNCHANGED <<alive, owner, activeAt, followUps, cached, fetched, details, view, token, moves, place,
                     bornOf, moved, submits, attaching, dropped, limits, losses, disturbed>>
      /\ \/ IsActive(o.run) /\ To(o, "streaming") /\ UNCHANGED reconnect
         \/ ~IsActive(o.run) /\ To(o, "syncing") /\ reconnect' = NoRun
  BY DEF ObserverAsks, ApplySnapshot, Concluded, serverVars, fetchVars, viewVars, bornVars, callVars
<1>2. /\ fetched \subseteq Sessions /\ details \subseteq DetailShape /\ losses \in Nat /\ losses <= limits.losses
  BY DEF WebInv, WebShape
<1>3. /\ pending' \subseteq pending \cup {o.session}
      /\ ~IsActive(o.run) => o.session \notin pending'
  BY <1>1 DEF Mark
<1>4. PICK stage \in {"streaming", "syncing"} : ObserverStep(o, stage)
  BY <1>1, <1>2, <1>3 DEF ObserverStep
<1> QED BY <1>4, ObserverStepKeeps DEF Stages

\* An observer sees its run end and leaves.
LEMMA ObserverSeesEndKeeps ==
  ASSUME WebInv, NEW o \in observers, ObserverSeesEnd(o)
  PROVE  WebInv'
<1>1. /\ UNCHANGED <<alive, owner, activeAt, followUps, cached, content, fetched, details, view, token, moves, place,
                     bornOf, moved, submits, attaching, dropped, limits, losses, disturbed>>
      /\ pending' = pending \ {o.session} /\ activeRun' = [activeRun EXCEPT ![o.session] = NoRun]
      /\ To(o, "syncing") /\ reconnect' = NoRun
  BY DEF ObserverSeesEnd, Concluded, Mark, serverVars, fetchVars, viewVars, bornVars, callVars
<1>2. /\ fetched \subseteq Sessions /\ details \subseteq DetailShape /\ losses \in Nat /\ losses <= limits.losses
  BY DEF WebInv, WebShape
<1>3. ObserverStep(o, "syncing")
  BY <1>1, <1>2 DEF ObserverStep
<1> QED BY <1>3, ObserverStepKeeps DEF Stages

\* An observer whose stream breaks asks again.
LEMMA ObserverRetriesKeeps ==
  ASSUME WebInv, NEW o \in observers, ObserverRetries(o)
  PROVE  WebInv'
<1>1. /\ UNCHANGED <<alive, owner, activeAt, followUps, cached, content, activeRun, pending, fetched, details, view,
                     token, moves, place, bornOf, moved, submits, attaching, dropped, limits, reconnect, disturbed>>
      /\ To(o, "asking") /\ (Lost \/ UNCHANGED losses)
  BY DEF ObserverRetries, serverVars, stateVars, fetchVars, viewVars, bornVars, callVars
<1>2. /\ fetched \subseteq Sessions /\ details \subseteq DetailShape /\ losses' \in Nat /\ losses' <= limits.losses
  BY <1>1, LossFacts DEF WebInv, WebShape
<1>3. ObserverStep(o, "asking")
  BY <1>1, <1>2 DEF ObserverStep
<1> QED BY <1>3, ObserverStepKeeps DEF Stages

\* An observer whose attempts are spent gives up.
LEMMA ObserverGivesUpKeeps ==
  ASSUME WebInv, NEW o \in observers, ObserverGivesUp(o)
  PROVE  WebInv'
<1>1. /\ UNCHANGED <<alive, owner, activeAt, followUps, cached, content, activeRun, pending, fetched, details, view,
                     token, moves, place, bornOf, moved, submits, attaching, dropped, limits>>
      /\ To(o, "leaving") /\ (Lost \/ UNCHANGED losses) /\ disturbed' = disturbed \cup {o.session}
      /\ reconnect' \in {o.run, reconnect}
  BY DEF ObserverGivesUp, serverVars, stateVars, fetchVars, viewVars, bornVars, callVars
<1>2. /\ fetched \subseteq Sessions /\ details \subseteq DetailShape /\ losses' \in Nat /\ losses' <= limits.losses
  BY <1>1, LossFacts DEF WebInv, WebShape
<1>3. ObserverStep(o, "leaving")
  BY <1>1, <1>2 DEF ObserverStep
<1> QED BY <1>3, ObserverStepKeeps DEF Stages

\* The last snapshot of an observer that gave up may mark its session, which is disturbed.
LEMMA ObserverLeavesKeeps ==
  ASSUME WebInv, NEW o \in observers, ObserverLeaves(o)
  PROVE  WebInv'
<1>1. /\ UNCHANGED <<alive, owner, activeAt, followUps, cached, fetched, details, view, token, moves, place,
                     bornOf, moved, submits, attaching, dropped, limits, reconnect, losses, disturbed>>
      /\ To(o, "done") /\ o.stage = "leaving"
      /\ \/ ApplySnapshot(o) /\ Mark(o.session, IsActive(o.run))
         \/ UNCHANGED <<pending, content, activeRun>>
  BY DEF ObserverLeaves, ApplySnapshot, serverVars, fetchVars, viewVars, bornVars, callVars
<1>2. /\ fetched \subseteq Sessions /\ details \subseteq DetailShape /\ losses \in Nat /\ losses <= limits.losses
      /\ o.session \in disturbed
  BY <1>1 DEF WebInv, WebShape, RunsInv, ObserverFits
<1>3. pending' \subseteq pending \cup {o.session}
  BY <1>1 DEF Mark
<1>4. ObserverStep(o, "done")
  BY <1>1, <1>2, <1>3 DEF ObserverStep
<1> QED BY <1>4, ObserverStepKeeps DEF Stages

\* An observer that left synchronises its session.
LEMMA SyncKeeps ==
  ASSUME WebInv, NEW o \in observers, SyncReads(o) \/ SyncEnds(o)
  PROVE  WebInv'
<1>1. /\ UNCHANGED <<alive, owner, activeAt, followUps, cached, content, activeRun, pending, fetched, view,
                     token, moves, place, bornOf, moved, submits, attaching, dropped, limits, reconnect, disturbed>>
      /\ (Lost \/ UNCHANGED losses) /\ o.stage = "syncing"
      /\ \/ To(o, "loading") /\ details' = details \cup {DetailRequest(o.session, o.run)}
         \/ To(o, "done") /\ details' = details
  BY DEF SyncReads, SyncEnds, serverVars, stateVars, fetchVars, viewVars, bornVars, callVars
<1>2. /\ fetched \subseteq Sessions /\ details \subseteq DetailShape /\ losses' \in Nat /\ losses' <= limits.losses
      /\ o.session \in Sessions /\ o.run \in Nat
  BY <1>1, LossFacts DEF WebInv, WebShape, ObserverShape
<1>3. /\ details' \subseteq DetailShape
      /\ \A d \in details' : d \in details \/ DetailFits(d)'
  BY <1>1, <1>2, RequestFacts
<1>4. PICK stage \in {"loading", "done"} : ObserverStep(o, stage)
  BY <1>1, <1>2, <1>3 DEF ObserverStep
<1> QED BY <1>4, ObserverStepKeeps DEF Stages

\* An observer that is done is forgotten.
LEMMA ObserverReturnsKeeps ==
  ASSUME WebInv, NEW o \in observers, ObserverReturns(o)
  PROVE  WebInv'
<1>1. /\ observers' = observers \ {o} /\ o.stage \notin {"asking", "streaming"}
      /\ pending' \subseteq pending
      /\ UNCHANGED <<alive, owner, activeAt, followUps, cached, content, activeRun, fetched, details, view, token,
                     moves, place, bornOf, moved, submits, attaching, dropped, limits, reconnect, losses, disturbed>>
  BY DEF ObserverReturns, Mark, serverVars, stateVars, fetchVars, viewVars, bornVars, callVars
<1>2. WebShape'
  BY <1>1 DEF WebInv, WebShape
<1>3. ViewInv'
  BY <1>1, ViewKeeps DEF WebInv
<1>4. RunsInv'
  BY <1>1, RunsKeep DEF WebInv
<1>5. WatchInv'
  BY <1>1 DEF WebInv, WatchInv, Submitting, Watching
<1> QED BY <1>2, <1>3, <1>4, <1>5 DEF WebInv

\* A new observer fits the run and the session that it is for.
LEMMA ObserveFacts ==
  ASSUME WebShape, NEW s \in Sessions, NEW r \in Nat, Observe(s, r)
  PROVE  \/ Observed(r) /\ UNCHANGED observers
         \/ \E n \in ObserverShape :
              /\ n.run = r /\ n.session = s /\ n.stage = "asking"
              /\ observers' = observers \cup {n}
<1> DEFINE n == [run |-> r, session |-> s, stage |-> "asking", own |-> FALSE]
<1>1. n \in ObserverShape /\ n.run = r /\ n.session = s /\ n.stage = "asking"
  BY DEF ObserverShape, Stages
<1> QED BY <1>1 DEF Observe

\* The active run that a reconnection offers is observed in the session shown.
LEMMA ReconnectKeeps ==
  ASSUME WebInv, Reconnect
  PROVE  WebInv'
<1>1. /\ UNCHANGED <<alive, owner, activeAt, followUps, cached, content, activeRun, pending, fetched, details, view,
                     token, moves, place, bornOf, moved, submits, attaching, dropped, limits, losses>>
      /\ reconnect # NoRun /\ view # Draft /\ Observe(view, reconnect)
      /\ reconnect' = NoRun /\ disturbed' = disturbed \cup {view}
  BY DEF Reconnect, serverVars, stateVars, fetchVars, viewVars, bornVars, callVars
<1>2. view \in Sessions /\ reconnect \in Nat
  BY <1>1 DEF WebInv, WebShape
<1>3. \/ UNCHANGED observers
      \/ \E n \in ObserverShape :
           /\ n.run = reconnect /\ n.session = view /\ n.stage = "asking"
           /\ observers' = observers \cup {n}
  BY <1>1, <1>2, ObserveFacts DEF WebInv
<1>4. /\ observers \subseteq observers' /\ observers' \subseteq ObserverShape
      /\ \A o \in observers' : o \in observers
           \/ (o.run = reconnect /\ o.session = view /\ o.stage = "asking")
  BY <1>3 DEF WebInv, WebShape
<1>5. WebShape'
  BY <1>1, <1>4 DEF WebInv, WebShape, NoRun
<1>6. ViewInv'
  BY <1>1, ViewKeeps DEF WebInv
<1>7. RunsInv'
  <2>1. \A o \in observers' : o \in observers \/ ObserverFits(o)'
    BY <1>1, <1>4 DEF WebInv, RunsInv, Offerable, ObserverFits
  <2> QED BY <1>1, <2>1, RunsKeep DEF WebInv
<1>8. WatchInv'
  BY <1>1, <1>4 DEF WebInv, WatchInv, Submitting, Watching
<1> QED BY <1>5, <1>6, <1>7, <1>8 DEF WebInv

------------------------------------------------------------------------------
(* Details *)

\* A detail that marks its session finds or starts the observer of the active run.
LEMMA DetailArrivesKeeps ==
  ASSUME WebInv, NEW d \in details, DetailArrives(d)
  PROVE  WebInv'
<1>1. /\ details' = details \ {d}
      /\ UNCHANGED <<alive, owner, activeAt, followUps, fetched, view, token, moves, place,
                     bornOf, moved, submits, attaching, dropped, limits, losses, disturbed>>
  BY DEF DetailArrives, serverVars, viewVars, bornVars, callVars
<1>2. d \in DetailShape /\ d.session \in Sessions /\ d.runs \subseteq Nat /\ d.active \in Nat /\ DetailFits(d)
  BY DEF WebInv, WebShape, DetailShape, RunsInv
<1>3. \/ UNCHANGED <<cached, content, activeRun, pending, observers, reconnect>>
      \/ /\ cached' = cached \cup {d.session} /\ content' = [content EXCEPT ![d.session] = d.runs]
         /\ activeRun' = [activeRun EXCEPT ![d.session] = NoRun]
         /\ \/ UNCHANGED <<pending, observers, reconnect>>
            \/ /\ d.active # NoRun /\ pending' = pending \cup {d.session} /\ Observe(d.session, d.active)
               /\ reconnect' \in {reconnect, NoRun}
  BY DEF DetailArrives, stateVars, Mark, OfferEnds
<1>4. /\ cached' \subseteq cached \cup {d.session} /\ pending' \subseteq pending \cup {d.session}
      /\ content' \in [Sessions -> SUBSET Nat] /\ activeRun' \in [Sessions -> Nat]
      /\ \A s \in Sessions : /\ activeRun'[s] \in {activeRun[s], NoRun}
                             /\ content'[s] = content[s] \/ (s = d.session /\ content'[s] = d.runs)
  <2>1. NoRun \in Nat /\ content \in [Sessions -> SUBSET Nat] /\ activeRun \in [Sessions -> Nat]
    BY DEF WebInv, WebShape, NoRun
  <2>2. CASE UNCHANGED <<cached, content, activeRun, pending, observers, reconnect>>
    BY <2>1, <2>2
  <2>3. CASE /\ cached' = cached \cup {d.session} /\ content' = [content EXCEPT ![d.session] = d.runs]
             /\ activeRun' = [activeRun EXCEPT ![d.session] = NoRun]
             /\ pending' = pending \/ pending' = pending \cup {d.session}
    BY <1>2, <2>1, <2>3
  <2> QED BY <1>3, <2>2, <2>3
<1>5. /\ observers \subseteq observers' /\ observers' \subseteq ObserverShape /\ reconnect' \in {reconnect, NoRun}
      /\ \A o \in observers' : o \in observers
           \/ (o.run = d.active /\ d.active # NoRun /\ o.session = d.session /\ o.stage = "asking")
      /\ d.session \in pending' => \/ d.session \in pending
                                   \/ Observed(d.active) /\ d.active # NoRun
                                   \/ \E o \in observers' : o.session = d.session /\ o.stage = "asking"
  <2>1. CASE UNCHANGED <<pending, observers, reconnect>>
    BY <2>1 DEF WebInv, WebShape
  <2>2. CASE d.active # NoRun /\ Observe(d.session, d.active) /\ reconnect' \in {reconnect, NoRun}
    <3>1. \/ Observed(d.active) /\ UNCHANGED observers
          \/ \E n \in ObserverShape :
               /\ n.run = d.active /\ n.session = d.session /\ n.stage = "asking"
               /\ observers' = observers \cup {n}
      BY <1>2, <2>2, ObserveFacts DEF WebInv
    <3> QED BY <2>2, <3>1 DEF WebInv, WebShape
  <2> QED BY <1>3, <2>1, <2>2
<1>6. WebShape'
  <2>1. reconnect' \in Nat /\ cached' \subseteq Sessions /\ pending' \subseteq Sessions
    BY <1>2, <1>4, <1>5, SMTT(20) DEF WebInv, WebShape, NoRun
  <2> QED BY <1>1, <1>4, <1>5, <2>1 DEF WebInv, WebShape
<1>7. ViewInv'
  BY <1>1, ViewKeeps DEF WebInv
<1>8. RunsInv'
  <2>1. \A o \in observers' : o \in observers \/ ObserverFits(o)'
    BY <1>1, <1>2, <1>5 DEF DetailFits, ObserverFits, RunOf
  <2>2. \A s \in Sessions : \A r \in content'[s] : r \in content[s] \/ ShownFits(r, s)'
    BY <1>1, <1>2, <1>4 DEF DetailFits, ShownFits, RunOf
  <2> QED BY <1>1, <1>4, <1>5, <2>1, <2>2, RunsKeep DEF WebInv
<1>9. WatchInv'
  <2> SUFFICES ASSUME NEW s \in Sessions \ disturbed', s \in pending'
               PROVE  Submitting(s)' \/ Watching(s)'
    BY DEF WatchInv
  <2>1. s \notin disturbed /\ Submitting(s)' = Submitting(s) /\ (Watching(s) => Watching(s)')
    BY <1>1, <1>5 DEF Submitting, Watching
  <2>2. CASE s \in pending
    BY <2>1, <2>2 DEF WebInv, WatchInv
  <2>3. CASE s \notin pending
    <3>1. s = d.session
      BY <1>4, <2>3
    <3>2. CASE Observed(d.active) /\ d.active # NoRun
      <4>1. PICK o \in observers : o.run = d.active /\ o.stage \in {"asking", "streaming"}
        BY <3>2 DEF Observed
      <4>2. owner[o.run] = s
        BY <1>2, <3>1, <3>2, <4>1 DEF DetailFits, RunOf
      <4>3. o.session = s
        BY <2>1, <4>1, <4>2 DEF WebInv, RunsInv, ObserverFits
      <4> QED BY <2>1, <4>1, <4>3 DEF Watching
    <3>3. CASE \E o \in observers' : o.session = d.session /\ o.stage = "asking"
      BY <3>1, <3>3 DEF Watching
    <3> QED BY <1>5, <2>3, <3>1, <3>2, <3>3
  <2> QED BY <2>2, <2>3
<1> QED BY <1>6, <1>7, <1>8, <1>9 DEF WebInv

\* A request that fails changes nothing of what the page shows.
LEMMA DetailFailsKeeps ==
  ASSUME WebInv, NEW d \in details, DetailFails(d)
  PROVE  WebInv'
<1>1. /\ details' = details \ {d} /\ (Lost \/ UNCHANGED losses)
      /\ UNCHANGED <<alive, owner, activeAt, followUps, cached, content, activeRun, pending, fetched, view, token,
                     moves, place, bornOf, moved, submits, attaching, dropped, limits, observers, reconnect,
                     disturbed>>
  BY DEF DetailFails, serverVars, stateVars, viewVars, bornVars, callVars
<1>2. WebShape'
  BY <1>1, LossFacts DEF WebInv, WebShape
<1>3. ViewInv'
  BY <1>1, ViewKeeps DEF WebInv
<1>4. RunsInv'
  BY <1>1, RunsKeep DEF WebInv
<1>5. WatchInv'
  BY <1>1 DEF WebInv, WatchInv, Submitting, Watching
<1> QED BY <1>2, <1>3, <1>4, <1>5 DEF WebInv

------------------------------------------------------------------------------
(* Submissions *)

\* A message submitted in a draft carries the token and the visit of the draft.
LEMMA SubmitDraftKeeps ==
  ASSUME WebInv, SubmitDraft
  PROVE  WebInv'
<1> DEFINE n == [at |-> Draft, token |-> token', visit |-> place.visit, run |-> NoRun]
<1>1. /\ token' = token + 1 /\ submits' = submits \cup {n}
      /\ UNCHANGED <<alive, owner, activeAt, followUps, cached, content, activeRun, pending, fetched, details, view,
                     moves, place, bornOf, moved, attaching, dropped, limits, observers, reconnect, losses,
                     disturbed>>
  BY DEF SubmitDraft, serverVars, stateVars, fetchVars, bornVars
<1>2. token \in Nat /\ token' \in Nat /\ place.visit \in Nat \ {0}
  BY <1>1 DEF WebInv, WebShape
<1>3. n \in SubmitShape /\ n.at = Draft /\ n.token = token' /\ n.visit = place.visit /\ n.run = NoRun
  BY <1>2 DEF SubmitShape, NoRun
<1> HIDE DEF n
<1>4. WebShape'
  BY <1>1, <1>2, <1>3 DEF WebInv, WebShape
<1>5. ViewInv'
  <2>1. \A t \in submits' : t.at = Draft => /\ t.visit # 0 /\ t.token <= token'
                                            /\ t.token = token' => t.visit = place'.visit
    BY <1>1, <1>2, <1>3 DEF WebInv, ViewInv, WebShape, SubmitShape
  <2>2. ViewIsTheUsers'
    BY <1>1 DEF WebInv, ViewInv, ViewIsTheUsers, Homes, Gone
  <2> QED BY <1>1, <2>1, <2>2 DEF WebInv, ViewInv, Born
<1>6. RunsInv'
  BY <1>1, <1>3, RunsKeep DEF WebInv
<1>7. WatchInv'
  BY <1>1 DEF WebInv, WatchInv, Submitting, Watching
<1> QED BY <1>4, <1>5, <1>6, <1>7 DEF WebInv

\* The view follows a draft that still has its token: it was submitted in this visit.
LEMMA SessionCreatedKeeps ==
  ASSUME WebInv, NEW t \in submits, NEW s \in New, SessionCreated(t, s)
  PROVE  WebInv'
<1> DEFINE n == [at |-> s, token |-> 0, visit |-> 0, run |-> NoRun]
<1>1. /\ t.at = Draft /\ s \in Unborn /\ bornOf' = [bornOf EXCEPT ![s] = t.visit]
      /\ alive' = alive \cup {s} /\ cached' = cached \cup {s} /\ pending' = pending \cup {s}
      /\ view' = IF t.token = token THEN s ELSE view
      /\ submits' = (submits \ {t}) \cup {n}
      /\ UNCHANGED <<owner, activeAt, followUps, content, activeRun, fetched, details, token, moves, place, moved,
                     attaching, dropped, limits, observers, reconnect, losses, disturbed>>
  BY DEF SessionCreated, Mark, FollowsDraft, fetchVars
<1>2. s \in Sessions /\ s # Draft /\ s \notin Known /\ bornOf[s] = 0
  BY <1>1, SessionNames DEF Sessions, Draft, Unborn
<1>3. n \in SubmitShape /\ n.at = s /\ n.run = NoRun
  BY <1>2 DEF SubmitShape, NoRun
<1> HIDE DEF n
<1>4. /\ t.visit \in Nat /\ t.visit # 0 /\ (t.token = token => t.visit = place.visit)
      /\ bornOf' \in [New -> Nat] /\ \A q \in New : bornOf'[q] = IF q = s THEN t.visit ELSE bornOf[q]
  BY <1>1 DEF WebInv, WebShape, ViewInv, SubmitShape
<1>5. WebShape'
  BY <1>1, <1>2, <1>3, <1>4 DEF WebInv, WebShape
<1>6. ViewInv'
  <2>1. \A q \in Sessions : Born(q) => Born(q)' /\ q # s
    BY <1>2, <1>4 DEF Born, Sessions
  <2>2. Born(s)'
    BY <1>4 DEF Born
  <2>3. alive' \cap dropped' = {} /\ \A q \in alive' \cup dropped' : Born(q)'
    BY <1>1, <2>1, <2>2 DEF WebInv, WebShape, ViewInv
  <2>4. ViewIsTheUsers'
    <3>1. Homes \subseteq Homes'
      BY <1>1, <1>2, <1>4 DEF Homes, WebInv, WebShape
    <3>2. Gone \subseteq Gone'
      BY <1>1, <1>2, <1>4 DEF Gone, Sessions
    <3>3. CASE t.token = token
      <4>1. view' = s /\ s \in Homes'
        BY <1>1, <1>4, <3>3 DEF Homes
      <4> QED BY <4>1 DEF ViewIsTheUsers
    <3>4. CASE t.token # token
      BY <1>1, <3>1, <3>2, <3>4 DEF WebInv, ViewInv, ViewIsTheUsers
    <3> QED BY <3>3, <3>4
  <2>5. \A u \in submits' : u.at = Draft => u \in submits
    BY <1>1, <1>2, <1>3
  <2> QED BY <1>1, <2>3, <2>4, <2>5 DEF WebInv, ViewInv
<1>7. RunsInv'
  BY <1>1, <1>3, RunsKeep DEF WebInv
<1>8. WatchInv'
  <2>1. \A q \in Sessions : Submitting(q) => Submitting(q)'
    BY <1>1, SessionNames DEF Submitting, Sessions, Draft
  <2>2. Submitting(s)'
    BY <1>1, <1>3 DEF Submitting
  <2> QED BY <1>1, <2>1, <2>2 DEF WebInv, WatchInv, Watching
<1> QED BY <1>5, <1>6, <1>7, <1>8 DEF WebInv

\* A message submitted in a session marks it.
LEMMA SubmitHereKeeps ==
  ASSUME WebInv, NEW s \in Sessions, SubmitHere(s)
  PROVE  WebInv'
<1> DEFINE n == [at |-> s, token |-> 0, visit |-> 0, run |-> NoRun]
<1>1. /\ submits' = submits \cup {n} /\ pending' = pending \cup {s} /\ cached' = cached \cup {s}
      /\ UNCHANGED <<alive, owner, activeAt, followUps, content, activeRun, fetched, details, view, token, moves,
                     place, bornOf, moved, attaching, dropped, limits, observers, reconnect, losses, disturbed>>
  BY DEF SubmitHere, Await, Mark, serverVars, fetchVars, viewVars, bornVars
<1>2. n \in SubmitShape /\ n.at = s /\ n.run = NoRun /\ s # Draft
  BY SessionNames DEF SubmitShape, NoRun, Sessions, Draft
<1> HIDE DEF n
<1>3. WebShape'
  BY <1>1, <1>2 DEF WebInv, WebShape
<1>4. ViewInv'
  BY <1>1, <1>2, ViewKeeps DEF WebInv
<1>5. RunsInv'
  BY <1>1, <1>2, RunsKeep DEF WebInv
<1>6. WatchInv'
  BY <1>1, <1>2 DEF WebInv, WatchInv, Submitting, Watching
<1> QED BY <1>3, <1>4, <1>5, <1>6 DEF WebInv

\* A follow-up is accepted without a run of its own.
LEMMA PostFollowUpKeeps ==
  ASSUME WebInv, NEW s \in Sessions, PostFollowUp(s)
  PROVE  WebInv'
<1>1. /\ followUps' = followUps \cup {s}
      /\ UNCHANGED <<alive, owner, activeAt, cached, content, activeRun, pending, fetched, details, view, token,
                     moves, place, bornOf, moved, submits, attaching, dropped, limits, observers, reconnect, losses,
                     disturbed>>
  BY DEF PostFollowUp, stateVars, fetchVars, viewVars, bornVars, callVars
<1>2. WebShape'
  BY <1>1 DEF WebInv, WebShape
<1>3. ViewInv'
  BY <1>1, ViewKeeps DEF WebInv
<1>4. RunsInv'
  BY <1>1, RunsKeep DEF WebInv
<1>5. WatchInv'
  BY <1>1 DEF WebInv, WatchInv, Submitting, Watching
<1> QED BY <1>2, <1>3, <1>4, <1>5 DEF WebInv

\* A submission that was answered hands its session to an observer, or clears the mark.
LEMMA RunAnsweredKeeps ==
  ASSUME WebInv, NEW t \in submits, RunAnswered(t)
  PROVE  WebInv'
<1> DEFINE n == [run |-> t.run, session |-> t.at, stage |-> "streaming", own |-> TRUE]
<1>1. /\ t.run # NoRun /\ submits' = submits \ {t}
      /\ \/ UNCHANGED <<content, activeRun>>
         \/ /\ content' = [content EXCEPT ![t.at] = @ \cup {t.run}]
            /\ activeRun' = [activeRun EXCEPT ![t.at] = t.run]
      /\ \/ pending' = pending \ {t.at} /\ UNCHANGED observers
         \/ observers' = observers \cup {n} /\ UNCHANGED pending
      /\ reconnect' \in {reconnect, NoRun}
      /\ UNCHANGED <<alive, owner, activeAt, followUps, cached, fetched, details, view, token, moves, place,
                     bornOf, moved, attaching, dropped, limits, losses, disturbed>>
  BY DEF RunAnswered, Mark, OfferEnds, serverVars, fetchVars, viewVars, bornVars
<1>2. t.run \in DOMAIN owner /\ owner[t.run] = t.at /\ t.run \in Nat /\ t.at \in Sessions
  BY <1>1, OwnerDomain DEF WebInv, RunsInv, RunOf
<1>3. n \in ObserverShape /\ n.run = t.run /\ n.session = t.at /\ n.stage = "streaming"
  BY <1>2 DEF ObserverShape, Stages
<1> HIDE DEF n
<1>4. /\ content' \in [Sessions -> SUBSET Nat] /\ activeRun' \in [Sessions -> Nat]
      /\ \A s \in Sessions : /\ activeRun'[s] \in {activeRun[s], t.run}
                             /\ content'[s] = content[s]
                                \/ (s = t.at /\ content'[s] = content[s] \cup {t.run})
  <2>1. content \in [Sessions -> SUBSET Nat] /\ activeRun \in [Sessions -> Nat]
    BY DEF WebInv, WebShape
  <2>2. CASE UNCHANGED <<content, activeRun>>
    BY <2>1, <2>2
  <2>3. CASE /\ content' = [content EXCEPT ![t.at] = @ \cup {t.run}]
             /\ activeRun' = [activeRun EXCEPT ![t.at] = t.run]
    <3>1. content' = [content EXCEPT ![t.at] = content[t.at] \cup {t.run}]
      BY <2>3
    <3>2. activeRun' = [activeRun EXCEPT ![t.at] = t.run]
      BY <2>3
    <3>3. activeRun' \in [Sessions -> Nat] /\ \A s \in Sessions : activeRun'[s] \in {activeRun[s], t.run}
      BY <1>2, <2>1, <3>2
    <3>4. /\ content' \in [Sessions -> SUBSET Nat]
          /\ \A s \in Sessions : content'[s] = content[s] \/ (s = t.at /\ content'[s] = content[s] \cup {t.run})
      BY <1>2, <2>1, <3>1
    <3> QED BY <3>3, <3>4
  <2> QED BY <1>1, <2>2, <2>3
<1>5. WebShape'
  BY <1>1, <1>3, <1>4 DEF WebInv, WebShape, NoRun
<1>6. ViewInv'
  BY <1>1, ViewKeeps DEF WebInv
<1>7. RunsInv'
  <2>1. ObserverFits(n)'
    BY <1>1, <1>2, <1>3 DEF ObserverFits
  <2>2. ShownFits(t.run, t.at)'
    BY <1>1, <1>2 DEF ShownFits
  <2>3. \A s \in Sessions : \A r \in content'[s] : r \in content[s] \/ ShownFits(r, s)'
    BY <1>4, <2>2
  <2>4. \A s \in Sessions : activeRun'[s] \in {activeRun[s], NoRun} \/ activeRun'[s] \in DOMAIN owner'
    BY <1>1, <1>2, <1>4
  <2>5. \A o \in observers' : o \in observers \/ ObserverFits(o)'
    BY <1>1, <2>1
  <2> QED BY <1>1, <2>3, <2>4, <2>5, RunsKeep DEF WebInv
<1>8. WatchInv'
  <2> SUFFICES ASSUME NEW s \in Sessions \ disturbed', s \in pending'
               PROVE  Submitting(s)' \/ Watching(s)'
    BY DEF WatchInv
  <2>1. s \notin disturbed /\ s \in pending /\ (Watching(s) => Watching(s)')
    BY <1>1 DEF Watching
  <2>2. CASE s = t.at
    BY <1>1, <1>3, <2>2 DEF Watching
  <2>3. CASE s # t.at
    <3>1. Submitting(s) => Submitting(s)'
      BY <1>1, <2>3 DEF Submitting
    <3> QED BY <2>1, <3>1 DEF WebInv, WatchInv
  <2> QED BY <2>2, <2>3
<1> QED BY <1>5, <1>6, <1>7, <1>8 DEF WebInv

\* A submission that fails takes its mark back.
LEMMA SubmitFailsKeeps ==
  ASSUME WebInv, NEW t \in submits, SubmitFails(t)
  PROVE  WebInv'
<1>1. /\ submits' = submits \ {t} /\ (Lost \/ UNCHANGED losses)
      /\ pending' = IF t.at = Draft THEN pending ELSE pending \ {t.at}
      /\ UNCHANGED <<alive, owner, activeAt, followUps, cached, content, activeRun, fetched, details, view, token,
                     moves, place, bornOf, moved, attaching, dropped, limits, observers, reconnect, disturbed>>
  BY DEF SubmitFails, Mark, serverVars, stateVars, fetchVars, viewVars, bornVars
<1>2. WebShape'
  BY <1>1, LossFacts DEF WebInv, WebShape
<1>3. ViewInv'
  BY <1>1, ViewKeeps DEF WebInv
<1>4. RunsInv'
  BY <1>1, RunsKeep DEF WebInv
<1>5. WatchInv'
  <2> SUFFICES ASSUME NEW s \in Sessions \ disturbed', s \in pending'
               PROVE  Submitting(s)' \/ Watching(s)'
    BY DEF WatchInv
  <2>1. s \notin disturbed /\ s \in pending /\ s # t.at
    BY <1>1, SessionNames DEF Sessions, Draft
  <2> QED BY <1>1, <2>1 DEF WebInv, WatchInv, Submitting, Watching
<1> QED BY <1>2, <1>3, <1>4, <1>5 DEF WebInv

------------------------------------------------------------------------------
(* The specification *)

\* Every step keeps the invariant.
LEMMA WebNextInv == WebInv /\ [WebNext]_webVars => WebInv'
<1> SUFFICES ASSUME WebInv, [WebNext]_webVars PROVE WebInv'
  OBVIOUS
<1>1. ASSUME NEW s \in Sessions,
             \/ DispatchFollowUp(s) \/ RunEnds(s)
             \/ SelectSession(s) \/ RemoveSession(s) \/ ListArrives(s) \/ AttachmentSession(s)
             \/ SubmitHere(s) \/ PostFollowUp(s)
      PROVE  WebInv'
  BY <1>1, DispatchFollowUpKeeps, RunEndsKeeps, GoKeeps, RemoveSessionKeeps, ListArrivesKeeps,
     AttachmentSessionKeeps, SubmitHereKeeps, PostFollowUpKeeps
<1>2. CASE StartDraft \/ Attach \/ SubmitDraft \/ Reconnect
  BY <1>2, GoKeeps, AttachKeeps, SubmitDraftKeeps, ReconnectKeeps
<1>3. ASSUME NEW o \in observers,
             \/ ObserverAsks(o) \/ ObserverSeesEnd(o) \/ ObserverRetries(o) \/ ObserverGivesUp(o)
             \/ ObserverLeaves(o) \/ SyncReads(o) \/ SyncEnds(o) \/ ObserverReturns(o)
      PROVE  WebInv'
  BY <1>3, ObserverAsksKeeps, ObserverSeesEndKeeps, ObserverRetriesKeeps, ObserverGivesUpKeeps,
     ObserverLeavesKeeps, SyncKeeps, ObserverReturnsKeeps
<1>4. ASSUME NEW d \in details, DetailRead(d) \/ DetailArrives(d) \/ DetailFails(d) PROVE WebInv'
  BY <1>4, DetailReadKeeps, DetailArrivesKeeps, DetailFailsKeeps
<1>5. ASSUME NEW t \in submits,
             \/ RunCreated(t) \/ RunAnswered(t) \/ SubmitFails(t)
             \/ \E s \in New : SessionCreated(t, s)
      PROVE  WebInv'
  BY <1>5, RunCreatedKeeps, RunAnsweredKeeps, SubmitFailsKeeps, SessionCreatedKeeps
<1>6. CASE UNCHANGED webVars
  <2>1. UNCHANGED <<alive, owner, activeAt, followUps, cached, content, activeRun, pending, fetched, details, view,
                    token, moves, place, bornOf, moved, submits, attaching, dropped, limits, observers, reconnect,
                    losses, disturbed>>
    BY <1>6 DEF webVars, serverVars, stateVars, fetchVars, viewVars, bornVars, callVars
  <2>2. WebShape'
    BY <2>1 DEF WebInv, WebShape
  <2>3. ViewInv'
    BY <2>1, ViewKeeps DEF WebInv
  <2>4. RunsInv'
    BY <2>1, RunsKeep DEF WebInv
  <2>5. WatchInv'
    BY <2>1 DEF WebInv, WatchInv, Submitting, Watching
  <2> QED BY <2>2, <2>3, <2>4, <2>5 DEF WebInv
<1> QED BY <1>1, <1>2, <1>3, <1>4, <1>5, <1>6 DEF WebNext

\* The invariant holds always.
LEMMA WebAlways == WebSpec => []WebInv
BY WebInitInv, WebNextInv, PTL DEF WebSpec

\* Types: the state of the page, and of the runs and sessions of the server (app.tsx).
THEOREM PageTypes == WebSpec => []WebTypeOK
<1>1. WebInv => WebTypeOK
  <2> SUFFICES ASSUME WebInv PROVE WebTypeOK
    OBVIOUS
  <2>1. \A s \in Sessions : activeAt[s] = NoRun \/ owner[activeAt[s]] = s
    BY DEF WebInv, RunsInv, RunOf
  <2>2. \A s \in Sessions : content[s] \subseteq DOMAIN owner /\ activeRun[s] \in {NoRun} \cup DOMAIN owner
    BY DEF WebInv, RunsInv, KnownRun, ShownFits
  <2>3. reconnect \in {NoRun} \cup DOMAIN owner
    BY DEF WebInv, RunsInv, Offerable
  <2>4. \A o \in observers : o.stage \in {"asking", "streaming", "leaving", "syncing", "loading", "done"}
    BY DEF WebInv, WebShape, ObserverShape, Stages
  <2>5. moves \in 0..limits.moves /\ losses \in 0..limits.losses
    BY DEF WebInv, WebShape, LimitShape
  <2> QED BY <2>1, <2>2, <2>3, <2>4, <2>5 DEF WebInv, WebShape, WebTypeOK
<1> QED BY <1>1, WebAlways, PTL

\* Whatever the order in which answers arrive, the page shows the session the user went to, a
\* session that has been deleted there or an attachment aside (app.tsx selectSession, startDraft,
\* handleSubmit, removeSession, loadSessionDetail).
THEOREM ViewStaysTheUsers == WebSpec => []ViewIsTheUsers
BY WebAlways, PTL DEF WebInv, ViewInv

\* A session is marked as running only while a submission or an observer is there to clear the
\* mark, and shows its own runs only, unless an observer gave up on it or was put there by a
\* reconnection (app.tsx handleSubmit, observeRun, applyRunSnapshot, loadSessionDetail).
THEOREM MarksAreWatched == WebSpec => []RunningIsWatched
<1>1. WebInv => RunningIsWatched
  <2> SUFFICES ASSUME WebInv, NEW s \in alive \ disturbed
               PROVE  /\ s \in pending => Submitting(s) \/ Watching(s)
                      /\ \A r \in content[s] : owner[r] = s
    BY DEF RunningIsWatched, Submitting, Watching
  <2>1. s \in Sessions \ disturbed
    BY DEF WebInv, WebShape
  <2> QED BY <2>1 DEF WebInv, WatchInv, RunsInv, ShownFits
<1> QED BY <1>1, WebAlways, PTL

-----------------------------------------------------------------------------
(* Counting positions, and the part of a sequence that is kept *)

\* How many members of S are at most m.
Upto(S, m) == {i \in S : i <= m}
Count(S, m) == Cardinality(Upto(S, m))

\* Positions are finite in number.
LEMMA PositionsFinite ==
  ASSUME NEW n \in Nat, NEW S, \A i \in S : i \in 1..n
  PROVE  IsFiniteSet(S) /\ Cardinality(S) \in Nat /\ \A T : T \subseteq S => IsFiniteSet(T) /\ Cardinality(T) \in Nat
<1>1. 1 \in Int /\ n \in Int /\ S \in SUBSET (1..n)
  OBVIOUS
<1>2. IsFiniteSet(1..n)
  BY <1>1, FS_Interval, Zenon
<1>3. IsFiniteSet(S)
  BY <1>1, <1>2, FS_Subset
<1> QED BY <1>3, FS_Subset, FS_CardinalityType

\* A count is a number, at most the size of the set.
LEMMA CountType ==
  ASSUME NEW n \in Nat, NEW S, \A i \in S : i \in 1..n, NEW m \in Int
  PROVE  IsFiniteSet(Upto(S, m)) /\ Count(S, m) \in 0..Cardinality(S)
<1>1. IsFiniteSet(S) /\ Cardinality(S) \in Nat
  BY PositionsFinite
<1>2. Upto(S, m) \in SUBSET S
  BY DEF Upto
<1>3. Cardinality(Upto(S, m)) \in Nat
  BY <1>2, PositionsFinite
<1> QED BY <1>1, <1>2, <1>3, FS_Subset DEF Count

\* The count at the ends.
LEMMA CountEnds ==
  ASSUME NEW n \in Nat, NEW S, \A i \in S : i \in 1..n, NEW m \in Int
  PROVE  /\ m <= 0 => Count(S, m) = 0
         /\ m >= n => Count(S, m) = Cardinality(S)
<1>1. ASSUME m <= 0 PROVE Count(S, m) = 0
  <2>1. \A x : x \notin Upto(S, m)
    BY <1>1 DEF Upto
  <2>2. Upto(S, m) = {}
    BY <2>1
  <2> QED BY <2>2, FS_EmptySet DEF Count
<1>2. ASSUME m >= n PROVE Count(S, m) = Cardinality(S)
  <2>1. \A x : x \in Upto(S, m) <=> x \in S
    <3>1. ASSUME NEW x \in S PROVE x <= m
      BY <1>2
    <3> QED BY <3>1 DEF Upto
  <2>2. Upto(S, m) = S
    BY <2>1
  <2> QED BY <2>2 DEF Count
<1> QED BY <1>1, <1>2

\* The count rises at every member, by one.
LEMMA CountRises ==
  ASSUME NEW n \in Nat, NEW S, \A i \in S : i \in 1..n, NEW m \in Int, NEW k \in S, m < k
  PROVE  /\ Count(S, m) < Count(S, k)
         /\ k = m + 1 => Count(S, k) = Count(S, m) + 1
<1>1. /\ IsFiniteSet(Upto(S, m)) /\ Count(S, m) \in Nat /\ IsFiniteSet(Upto(S, k)) /\ Count(S, k) \in Nat
      /\ k \in Int /\ \A i \in S : i \in Int
  <2>1. Cardinality(S) \in Nat
    BY PositionsFinite
  <2>2. k \in Int /\ \A i \in S : i \in Int
    OBVIOUS
  <2>3. IsFiniteSet(Upto(S, m)) /\ Count(S, m) \in 0..Cardinality(S)
    BY CountType
  <2>4. IsFiniteSet(Upto(S, k)) /\ Count(S, k) \in 0..Cardinality(S)
    BY <2>2, CountType
  <2> QED BY <2>1, <2>2, <2>3, <2>4
<1>2. k \in Upto(S, k) /\ k \notin Upto(S, m)
  BY <1>1 DEF Upto
<1>3. ASSUME NEW x \in Upto(S, m) PROVE x \in Upto(S, k)
  <2>1. x \in S /\ x \in Int /\ x <= m
    BY <1>1 DEF Upto
  <2> QED BY <1>1, <2>1 DEF Upto
<1>4. IsFiniteSet(Upto(S, m) \union {k}) /\ Cardinality(Upto(S, m) \union {k}) = Count(S, m) + 1
  BY <1>1, <1>2, FS_AddElement DEF Count
<1>5. Count(S, m) < Count(S, k)
  <2>1. Upto(S, m) \union {k} \in SUBSET Upto(S, k)
    BY <1>2, <1>3
  <2>2. Cardinality(Upto(S, m) \union {k}) <= Cardinality(Upto(S, k))
    BY <1>1, <2>1, FS_Subset
  <2> QED BY <1>1, <1>4, <2>2 DEF Count
<1>6. ASSUME k = m + 1 PROVE Count(S, k) = Count(S, m) + 1
  <2>1. ASSUME NEW x \in Upto(S, k), x # k PROVE x \in Upto(S, m)
    <3>1. x \in S /\ x \in Int /\ x <= k
      BY <1>1 DEF Upto
    <3>2. x <= m
      BY <1>1, <1>6, <2>1, <3>1
    <3> QED BY <3>1, <3>2 DEF Upto
  <2>2. Upto(S, k) = Upto(S, m) \union {k}
    BY <1>2, <1>3, <2>1
  <2> QED BY <1>4, <2>2 DEF Count
<1> QED BY <1>5, <1>6

\* Every number up to the size of S is the count at one member of S.
LEMMA CountReached ==
  ASSUME NEW n \in Nat, NEW S, \A i \in S : i \in 1..n, NEW k \in 1..Cardinality(S)
  PROVE  \E i \in S : Count(S, i) = k
<1> DEFINE f == [i \in S |-> Count(S, i)]
           N == Cardinality(S)
<1>1. IsFiniteSet(S) /\ N \in Nat
  BY PositionsFinite
<1>2. \A i \in S : i \in Int
  OBVIOUS
<1>3. /\ \A i \in S : Count(S, i) \in 1..N
      /\ \A i, j \in S : i < j => Count(S, i) < Count(S, j)
  <2>1. ASSUME NEW i \in S PROVE Count(S, i) \in 1..N
    <3>1. i \in Int /\ 0 \in Int /\ 0 < i
      OBVIOUS
    <3>2. Count(S, i) \in 0..N
      BY <3>1, CountType
    <3>3. Count(S, 0) = 0
      <4>1. 0 \in Int /\ 0 <= 0
        OBVIOUS
      <4> QED BY <4>1, CountEnds, Zenon
    <3>4. Count(S, 0) < Count(S, i)
      BY <3>1, CountRises
    <3> QED BY <1>1, <3>2, <3>3, <3>4
  <2>2. \A i, j \in S : i < j => Count(S, i) < Count(S, j)
    BY <1>2, CountRises
  <2> QED BY <2>1, <2>2
<1>4. f \in [S -> 1..N] /\ \A i \in S : f[i] = Count(S, i)
  BY <1>3
<1> HIDE DEF f
<1>5. ASSUME NEW i \in S, NEW j \in S, f[i] = f[j] PROVE i = j
  <2>1. i \in Int /\ j \in Int /\ Count(S, i) = Count(S, j) /\ Count(S, i) \in Int
    BY <1>2, <1>3, <1>4, <1>5
  <2>2. ~(i < j) /\ ~(j < i)
    BY <1>3, <2>1
  <2> QED BY <2>1, <2>2
<1>6. f \in Injection(S, 1..N)
  BY <1>4, <1>5 DEF Injection, IsInjective
<1>7. IsFiniteSet(1..N) /\ Cardinality(1..N) = N
  <2>1. 1 \in Int /\ N \in Int
    BY <1>1
  <2> QED BY <1>1, <2>1, FS_Interval
<1>8. f \in Surjection(S, 1..N)
  BY <1>6, <1>7, FS_Injection
<1> QED BY <1>4, <1>8 DEF Surjection

\* The position of the nth member that is kept.
KeptAt(kept, n) == CHOOSE i \in kept : [k \in kept |-> Cardinality({j \in kept : j <= k})][i] = n

\* Which positions are kept, in their order.
Picks(kept) ==
  /\ \A n \in 1..Cardinality(kept) : KeptAt(kept, n) \in kept /\ Count(kept, KeptAt(kept, n)) = n
  /\ \A i \in kept : Count(kept, i) \in 1..Cardinality(kept) /\ KeptAt(kept, Count(kept, i)) = i
  /\ \A i, j \in kept : i < j => Count(kept, i) < Count(kept, j)

\* Only() keeps each position once, and in order.
LEMMA KeptInOrder ==
  ASSUME NEW n \in Nat, NEW kept, \A i \in kept : i \in 1..n
  PROVE  Picks(kept)
<1> DEFINE rank == [k \in kept |-> Cardinality({j \in kept : j <= k})]
           N == Cardinality(kept)
<1>1. N \in Nat
  BY PositionsFinite
<1>2. \A i \in kept : rank[i] = Count(kept, i) /\ i \in Int /\ 0 < i
  <2>1. \A i \in kept : i \in Int /\ 0 < i
    OBVIOUS
  <2> QED BY <2>1 DEF Count, Upto
<1>3. \A i, j \in kept : i < j => Count(kept, i) < Count(kept, j)
  <2>1. ASSUME NEW k \in kept, NEW l \in kept, k < l PROVE Count(kept, k) < Count(kept, l)
    <3>1. k \in Int
      BY <1>2
    <3> QED BY <2>1, <3>1, CountRises
  <2> QED BY <2>1
<1>4. ASSUME NEW i \in kept, NEW j \in kept, Count(kept, i) = Count(kept, j) PROVE i = j
  <2>1. Count(kept, i) \in Int /\ i \in Int /\ j \in Int
    BY <1>1, <1>2, CountType
  <2> QED BY <1>3, <1>4, <2>1
<1>5. ASSUME NEW i \in kept PROVE Count(kept, i) \in 1..N
  <2>1. Count(kept, i) \in 0..N /\ i \in Int /\ 0 < i
    BY <1>1, <1>2, CountType
  <2>2. Count(kept, 0) = 0 /\ 0 \in Int
    <3>1. 0 \in Int /\ 0 <= 0
      OBVIOUS
    <3> QED BY <1>1, <3>1, CountEnds, Zenon
  <2>3. Count(kept, 0) < Count(kept, i)
    BY <1>1, <2>1, <2>2, CountRises
  <2> QED BY <1>1, <2>1, <2>2, <2>3
<1>6. ASSUME NEW k \in 1..N PROVE KeptAt(kept, k) \in kept /\ Count(kept, KeptAt(kept, k)) = k
  <2> HIDE DEF rank
  <2>1. \E i \in kept : rank[i] = k
    BY <1>1, <1>2, CountReached
  <2>2. KeptAt(kept, k) \in kept /\ rank[KeptAt(kept, k)] = k
    BY <2>1 DEF KeptAt, rank
  <2> QED BY <1>2, <2>2
<1> QED BY <1>3, <1>4, <1>5, <1>6 DEF Picks

\* What is kept of a sequence, and the members that it is made of.
LEMMA OnlyIs ==
  ASSUME NEW T, NEW h \in Seq(T), NEW kept, \A i \in kept : i \in 1..Len(h)
  PROVE  /\ Only(h, kept) = [n \in 1..Cardinality(kept) |-> h[KeptAt(kept, n)]]
         /\ Only(h, kept) \in Seq(T) /\ Len(Only(h, kept)) = Cardinality(kept)
         /\ Cardinality(kept) \in Nat /\ Picks(kept)
<1> DEFINE N == Cardinality(kept)
           r == [n \in 1..N |-> h[KeptAt(kept, n)]]
<1>1. Only(h, kept) = r
  BY DEF Only, KeptAt
<1>2. Len(h) \in Nat /\ N \in Nat /\ Picks(kept)
  BY PositionsFinite, KeptInOrder
<1>3. \A n \in 1..N : h[KeptAt(kept, n)] \in T
  BY <1>2 DEF Picks
<1> HIDE DEF N
<1>4. r \in Seq(T) /\ Len(r) = N
  BY <1>2, <1>3
<1> QED BY <1>1, <1>2, <1>4 DEF N

\* The members that are kept come from different positions, in their order.
LEMMA OnlyFrom ==
  ASSUME NEW T, NEW h \in Seq(T), NEW kept, \A i \in kept : i \in 1..Len(h), NEW r, r = Only(h, kept)
  PROVE  /\ r \in Seq(T) /\ Len(r) \in Nat
         /\ \A n \in 1..Len(r) : KeptAt(kept, n) \in kept /\ r[n] = h[KeptAt(kept, n)]
         /\ \A m, n \in 1..Len(r) : m < n => KeptAt(kept, m) < KeptAt(kept, n)
         /\ \A i \in kept : \E n \in 1..Len(r) : r[n] = h[i]
<1> DEFINE N == Cardinality(kept)
<1>1. r = [n \in 1..N |-> h[KeptAt(kept, n)]] /\ r \in Seq(T) /\ Len(r) = N /\ N \in Nat /\ Picks(kept)
  BY OnlyIs
<1> HIDE DEF N
<1>2. \A n \in 1..N : KeptAt(kept, n) \in kept /\ Count(kept, KeptAt(kept, n)) = n
  BY <1>1 DEF Picks, N
<1>3. ASSUME NEW m \in 1..N, NEW n \in 1..N, m < n PROVE KeptAt(kept, m) < KeptAt(kept, n)
  <2> DEFINE a == KeptAt(kept, m)
             b == KeptAt(kept, n)
  <2>1. a \in kept /\ b \in kept /\ Count(kept, a) = m /\ Count(kept, b) = n
    BY <1>2
  <2> HIDE DEF a, b
  <2>2. a \in Int /\ b \in Int
    BY <2>1
  <2>3. ~(b < a) /\ a # b
    BY <1>1, <1>3, <2>1 DEF Picks
  <2>4. a < b
    BY <2>2, <2>3
  <2> QED BY <2>4 DEF a, b
<1>4. ASSUME NEW i \in kept PROVE \E n \in 1..N : r[n] = h[i]
  <2>1. Count(kept, i) \in 1..N /\ KeptAt(kept, Count(kept, i)) = i
    BY <1>1 DEF Picks, N
  <2> QED BY <1>1, <2>1
<1> QED BY <1>1, <1>2, <1>3, <1>4

\* The last member of a sequence is kept, or it is not.
LEMMA OnlyOfLonger ==
  ASSUME NEW T, NEW h \in Seq(T), NEW p \in T, NEW kept, \A i \in kept : i \in 1..Len(h)
  PROVE  /\ Only(Append(h, p), kept) = Only(h, kept)
         /\ Only(Append(h, p), kept \cup {Len(h) + 1}) = Append(Only(h, kept), p)
<1> DEFINE g == Append(h, p)
           m == Len(h) + 1
           K == kept \cup {m}
           N == Cardinality(kept)
<1>1. /\ g \in Seq(T) /\ Len(g) = m /\ m \in Nat /\ Len(h) \in Nat
      /\ g[m] = p /\ \A i \in 1..Len(h) : g[i] = h[i]
  OBVIOUS
<1>2. /\ Only(h, kept) = [n \in 1..N |-> h[KeptAt(kept, n)]] /\ Only(h, kept) \in Seq(T)
      /\ Len(Only(h, kept)) = N /\ N \in Nat /\ Picks(kept)
  BY OnlyIs
<1> HIDE DEF g, m
<1>3. Only(g, kept) = [n \in 1..N |-> g[KeptAt(kept, n)]]
  <2>1. \A i \in kept : i \in 1..Len(g)
    BY <1>1 DEF m
  <2> QED BY <1>1, <2>1, OnlyIs, SMTT(20)
<1>4. \A n \in 1..N : KeptAt(kept, n) \in 1..Len(h)
  BY <1>2 DEF Picks
<1>5. Only(g, kept) = Only(h, kept)
  BY <1>1, <1>2, <1>3, <1>4
<1>6. /\ Only(g, K) = [n \in 1..Cardinality(K) |-> g[KeptAt(K, n)]] /\ Only(g, K) \in Seq(T)
      /\ Len(Only(g, K)) = Cardinality(K) /\ Picks(K)
  <2>1. \A i \in K : i \in 1..Len(g)
    BY <1>1 DEF m
  <2> HIDE DEF K
  <2> QED BY <1>1, <2>1, OnlyIs
<1>7. m \notin kept /\ \A i \in kept : i \in Int /\ i < m
  BY <1>1 DEF m
<1>8. Cardinality(K) = N + 1
  <2>1. IsFiniteSet(kept)
    BY <1>1, PositionsFinite
  <2> QED BY <1>7, <2>1, FS_AddElement
<1>9. \A i \in kept : Count(K, i) = Count(kept, i)
  <2>1. ASSUME NEW i \in kept PROVE Upto(K, i) = Upto(kept, i)
    <3>1. \A x : x \in Upto(K, i) <=> x \in Upto(kept, i)
      BY <1>1, <1>7 DEF Upto
    <3> QED BY <3>1
  <2> QED BY <2>1 DEF Count
<1>10. ASSUME NEW n \in 1..N PROVE KeptAt(K, n) = KeptAt(kept, n)
  <2>1. KeptAt(kept, n) \in kept /\ Count(kept, KeptAt(kept, n)) = n
    BY <1>2 DEF Picks
  <2>2. KeptAt(K, Count(K, KeptAt(kept, n))) = KeptAt(kept, n)
    BY <1>6, <2>1 DEF Picks
  <2> QED BY <1>9, <2>1, <2>2
<1>11. KeptAt(K, N + 1) = m
  <2>1. Count(K, m) = N + 1
    <3>1. \A x : x \in Upto(K, m) <=> x \in K
      BY <1>1, <1>7 DEF Upto
    <3>2. Upto(K, m) = K
      BY <3>1
    <3> QED BY <1>8, <3>2 DEF Count
  <2> QED BY <1>6, <2>1 DEF Picks
<1> HIDE DEF K, N
<1>12. \A n \in 1..N + 1 : Only(g, K)[n] = Append(Only(h, kept), p)[n]
  <2>1. ASSUME NEW n \in 1..N PROVE Only(g, K)[n] = Append(Only(h, kept), p)[n]
    <3>1. Only(g, K)[n] = g[KeptAt(kept, n)] /\ Only(h, kept)[n] = h[KeptAt(kept, n)]
      BY <1>2, <1>6, <1>8, <1>10
    <3> QED BY <1>1, <1>2, <1>4, <3>1
  <2>2. Only(g, K)[N + 1] = Append(Only(h, kept), p)[N + 1]
    BY <1>1, <1>2, <1>6, <1>8, <1>11
  <2>3. \A n \in 1..N + 1 : n \in 1..N \/ n = N + 1
    BY <1>2
  <2> QED BY <2>1, <2>2, <2>3
<1>13. Append(Only(h, kept), p) \in Seq(T) /\ Len(Append(Only(h, kept), p)) = N + 1
  BY <1>2
<1>14. Only(g, K) = Append(Only(h, kept), p)
  BY <1>2, <1>6, <1>8, <1>12, <1>13, SeqEqual
<1> QED BY <1>5, <1>14 DEF g, K, m

-----------------------------------------------------------------------------
(* Blocks and their order *)

BlockIds == ({"text", "intervention", "round"} \X Nat)
              \cup ({"reasoning", "tool", "artifact"} \X Nat \X Nat)
Blocks == [id : BlockIds, round : Nat, attempt : Nat, pos : Nat, size : Nat, state : States]

\* No block stands behind one that sorts after it.
InOrder(bs) == \A i, j \in DOMAIN bs : i < j => ~SortsBefore(bs[j], bs[i])

\* SortsBefore is a strict weak order.
SortFacts ==
  /\ \A b \in Blocks : ~SortsBefore(b, b)
  /\ \A b, c \in Blocks : SortsBefore(b, c) => ~SortsBefore(c, b)
  /\ \A b, c, d \in Blocks : SortsBefore(b, c) /\ ~SortsBefore(d, c) => SortsBefore(b, d)
  /\ \A b, c, d \in Blocks : ~SortsBefore(c, b) /\ SortsBefore(c, d) => SortsBefore(b, d)

\* Blocks are compared by round, then by place.
LEMMA SortOrder == SortFacts
<1>1. \A b \in Blocks : b.round \in Int /\ b.pos \in Int
  BY DEF Blocks
<1>2. \A b \in Blocks : ~SortsBefore(b, b)
  BY <1>1 DEF SortsBefore
<1>3. \A b, c \in Blocks : SortsBefore(b, c) => ~SortsBefore(c, b)
  BY <1>1 DEF SortsBefore
<1>4. \A b, c, d \in Blocks : SortsBefore(b, c) /\ ~SortsBefore(d, c) => SortsBefore(b, d)
  BY <1>1 DEF SortsBefore
<1>5. \A b, c, d \in Blocks : ~SortsBefore(c, b) /\ SortsBefore(c, d) => SortsBefore(b, d)
  BY <1>1 DEF SortsBefore
<1> QED BY <1>2, <1>3, <1>4, <1>5 DEF SortFacts

\* A set of naturals has a least member.
LEMMA LeastOf ==
  ASSUME NEW S, S \subseteq Nat, S # {}
  PROVE  Min(S) \in S /\ \A x \in S : Min(S) <= x
<1>1. PICK n \in S : \A m \in S : ~(<<m, n>> \in OpToRel(<, Nat))
  BY NatLessThanWellFounded, WFMin, Zenon
<1>2. \A m \in S : ~(m < n)
  <2>1. \A x, y \in Nat : x < y => <<x, y>> \in OpToRel(<, Nat)
    BY Zenon DEF OpToRel
  <2> QED BY <1>1, <2>1, Zenon
<1>3. \A m \in S : n <= m
  <2>1. \A m \in S : m \in Int /\ n \in Int
    OBVIOUS
  <2> QED BY <1>2, <2>1
<1> QED BY <1>3 DEF Min

\* Where a block is inserted, and what is then at each place.
InsertPlace(bs, b) == IF Later(bs, b) = {} THEN Len(bs) + 1 ELSE Min(Later(bs, b))
Inserted(bs, b, at) ==
  [n \in 1..Len(bs) + 1 |-> IF n < at THEN bs[n] ELSE IF n = at THEN b ELSE bs[n - 1]]

InsertFacts(bs, b, at) ==
  /\ at \in 1..Len(bs) + 1
  /\ \A i \in 1..Len(bs) : i < at <=> ~SortsBefore(b, bs[i])

\* In an ordered sequence the place divides what sorts after the block from the rest.
LEMMA PlaceOf ==
  ASSUME NEW bs \in Seq(Blocks), InOrder(bs), NEW b \in Blocks
  PROVE  InsertFacts(bs, b, InsertPlace(bs, b))
<1> DEFINE L == Later(bs, b)
           at == InsertPlace(bs, b)
<1>1. Len(bs) \in Nat /\ DOMAIN bs = 1..Len(bs) /\ \A i \in 1..Len(bs) : bs[i] \in Blocks
  OBVIOUS
<1>2. \A i : i \in L <=> i \in 1..Len(bs) /\ SortsBefore(b, bs[i])
  BY <1>1 DEF Later
<1> HIDE DEF L
<1>3. CASE L = {}
  <2>1. at = Len(bs) + 1
    BY <1>3 DEF InsertPlace, L
  <2>2. \A i \in 1..Len(bs) : ~SortsBefore(b, bs[i])
    BY <1>2, <1>3
  <2> QED BY <1>1, <2>1, <2>2 DEF InsertFacts
<1>4. CASE L # {}
  <2>1. at = Min(L)
    BY <1>4 DEF InsertPlace, L
  <2>2. L \subseteq Nat
    BY <1>1, <1>2
  <2>3. at \in L /\ \A x \in L : at <= x
    BY <1>4, <2>1, <2>2, LeastOf
  <2>4. at \in 1..Len(bs) /\ SortsBefore(b, bs[at])
    BY <1>2, <2>3
  <2> HIDE DEF at
  <2>5. ASSUME NEW i \in 1..Len(bs) PROVE i < at <=> ~SortsBefore(b, bs[i])
    <3>1. CASE i < at
      <4>1. i \notin L
        BY <1>1, <2>3, <2>4, <3>1
      <4> QED BY <1>2, <3>1, <4>1
    <3>2. CASE ~(i < at)
      <4>1. i = at \/ at < i
        BY <1>1, <2>4, <3>2
      <4>2. at < i => SortsBefore(b, bs[i])
        <5>1. at < i => ~SortsBefore(bs[i], bs[at])
          BY <1>1, <2>4 DEF InOrder
        <5> QED BY <1>1, <2>4, <5>1, SortOrder DEF SortFacts
      <4> QED BY <2>4, <3>2, <4>1, <4>2
    <3> QED BY <3>1, <3>2
  <2>6. at \in 1..Len(bs) + 1
    BY <1>1, <2>4
  <2> QED BY <2>5, <2>6 DEF InsertFacts, at
<1> QED BY <1>3, <1>4

\* Both insertions put the block there.
LEMMA InsertionIs ==
  ASSUME NEW bs \in Seq(Blocks), InOrder(bs), NEW b \in Blocks, NEW at, at = InsertPlace(bs, b)
  PROVE  /\ CollectorInsert(bs, b) = Inserted(bs, b, at)
         /\ InsertOrdered(bs, b) = Inserted(bs, b, at)
         /\ Inserted(bs, b, at) \in Seq(Blocks) /\ Len(Inserted(bs, b, at)) = Len(bs) + 1
<1> DEFINE r == Inserted(bs, b, at)
<1>1. Len(bs) \in Nat /\ DOMAIN bs = 1..Len(bs) /\ \A i \in 1..Len(bs) : bs[i] \in Blocks
  OBVIOUS
<1>2. at \in 1..Len(bs) + 1
  BY PlaceOf DEF InsertFacts
<1>3. r \in Seq(Blocks) /\ Len(r) = Len(bs) + 1
  <2>1. \A n \in 1..Len(bs) + 1 : (IF n < at THEN bs[n] ELSE IF n = at THEN b ELSE bs[n - 1]) \in Blocks
    <3>1. ASSUME NEW n \in 1..Len(bs) + 1
          PROVE  (IF n < at THEN bs[n] ELSE IF n = at THEN b ELSE bs[n - 1]) \in Blocks
      <4>1. n < at => n \in 1..Len(bs)
        BY <1>1, <1>2
      <4>2. ~(n < at) /\ n # at => n - 1 \in 1..Len(bs)
        BY <1>1, <1>2
      <4> QED BY <1>1, <4>1, <4>2
    <3> QED BY <3>1
  <2> QED BY <1>1, <2>1 DEF Inserted
<1>4. CASE Later(bs, b) = {}
  <2>1. at = Len(bs) + 1 /\ CollectorInsert(bs, b) = Append(bs, b) /\ InsertOrdered(bs, b) = Append(bs, b)
    BY <1>4 DEF CollectorInsert, InsertOrdered, InsertPlace
  <2>2. \A n \in 1..Len(bs) + 1 : r[n] = Append(bs, b)[n]
    BY <1>1, <2>1 DEF Inserted
  <2>3. Append(bs, b) \in Seq(Blocks) /\ Len(Append(bs, b)) = Len(bs) + 1
    BY <1>1
  <2> HIDE DEF r
  <2>4. r = Append(bs, b)
    BY <1>3, <2>2, <2>3, SeqEqual
  <2> QED BY <1>3, <2>1, <2>4 DEF r
<1>5. CASE Later(bs, b) # {}
  <2> DEFINE p == SubSeq(bs, 1, at - 1)
             q == SubSeq(bs, at, Len(bs))
             s == p \o <<b>> \o q
  <2>1. CollectorInsert(bs, b) = s /\ InsertOrdered(bs, b) = s
    BY <1>5 DEF CollectorInsert, InsertOrdered, InsertPlace, InsertAt
  <2>2. /\ p \in Seq(Blocks) /\ Len(p) = at - 1 /\ \A i \in 1..at - 1 : p[i] = bs[i]
        /\ q \in Seq(Blocks) /\ Len(q) = Len(bs) - at + 1
        /\ \A i \in 1..Len(bs) - at + 1 : q[i] = bs[at + i - 1]
    BY <1>1, <1>2, SMTT(20)
  <2> HIDE DEF p, q
  <2>3. /\ p \o <<b>> \in Seq(Blocks) /\ Len(p \o <<b>>) = at
        /\ \A i \in 1..at : (p \o <<b>>)[i] = IF i < at THEN bs[i] ELSE b
    <3>1. <<b>> \in Seq(Blocks) /\ Len(<<b>>) = 1 /\ <<b>>[1] = b
      OBVIOUS
    <3>2. /\ p \o <<b>> \in Seq(Blocks) /\ Len(p \o <<b>>) = Len(p) + Len(<<b>>)
          /\ \A i \in 1..Len(p) + Len(<<b>>) :
               (p \o <<b>>)[i] = IF i <= Len(p) THEN p[i] ELSE <<b>>[i - Len(p)]
      BY <2>2, <3>1, ConcatProperties
    <3> QED BY <1>2, <2>2, <3>1, <3>2, SMTT(20)
  <2> DEFINE o == p \o <<b>>
  <2> HIDE DEF o
  <2>4. /\ o \o q \in Seq(Blocks) /\ Len(o \o q) = Len(o) + Len(q)
        /\ \A i \in 1..Len(o) + Len(q) : (o \o q)[i] = IF i <= Len(o) THEN o[i] ELSE q[i - Len(o)]
    BY <2>2, <2>3, ConcatProperties DEF o
  <2>5. o \o q \in Seq(Blocks) /\ Len(o \o q) = Len(bs) + 1
    BY <1>1, <1>2, <2>2, <2>3, <2>4 DEF o
  <2>6. ASSUME NEW i \in 1..Len(bs) + 1 PROVE r[i] = (o \o q)[i]
    <3>1. Len(o) = at /\ Len(o) + Len(q) = Len(bs) + 1 /\ i \in Int /\ at \in Int
      BY <1>1, <1>2, <2>2, <2>3 DEF o
    <3>2. (o \o q)[i] = IF i <= at THEN o[i] ELSE q[i - at]
      BY <2>4, <3>1
    <3>3. CASE i <= at
      <4>1. o[i] = IF i < at THEN bs[i] ELSE b
        BY <2>3, <3>1, <3>3 DEF o
      <4> QED BY <3>1, <3>2, <3>3, <4>1 DEF Inserted
    <3>4. CASE ~(i <= at)
      <4>1. i - at \in 1..Len(bs) - at + 1 /\ at + (i - at) - 1 = i - 1
        BY <1>1, <3>1, <3>4
      <4>2. q[i - at] = bs[i - 1]
        BY <2>2, <4>1
      <4> QED BY <3>1, <3>2, <3>4, <4>2 DEF Inserted
    <3> QED BY <3>3, <3>4
  <2> HIDE DEF r
  <2>7. r = o \o q
    BY <1>3, <2>5, <2>6, SeqEqual
  <2> QED BY <1>3, <2>1, <2>7 DEF r, o
<1> QED BY <1>4, <1>5

\* The first numbers are as many as the last of them says.
LEMMA FirstNumbers ==
  ASSUME NEW k \in Nat
  PROVE  IsFiniteSet(1..k) /\ Cardinality(1..k) = k
<1>1. 1 \in Int /\ k \in Int
  OBVIOUS
<1> QED BY <1>1, FS_Interval

\* Sorting leaves an ordered sequence as it is.
LEMMA OrderedStays ==
  ASSUME NEW bs \in Seq(Blocks), InOrder(bs)
  PROVE  Ordered(bs) = bs
<1> DEFINE spot == [i \in DOMAIN bs |-> SortedPlace(bs, i)]
<1>1. Len(bs) \in Nat /\ DOMAIN bs = 1..Len(bs) /\ \A i \in 1..Len(bs) : bs[i] \in Blocks
  OBVIOUS
<1>2. ASSUME NEW i \in 1..Len(bs) PROVE spot[i] = i
  <2>1. ASSUME NEW j \in 1..Len(bs) PROVE GoesBefore(bs, j, i) <=> j < i
    <3>1. j < i => GoesBefore(bs, j, i)
      BY <1>1 DEF InOrder, GoesBefore
    <3>2. j = i => ~GoesBefore(bs, j, i)
      BY <1>1, SortOrder DEF SortFacts, GoesBefore
    <3>3. i < j => ~GoesBefore(bs, j, i)
      BY <1>1 DEF InOrder, GoesBefore
    <3>4. i < j \/ j < i \/ i = j
      OBVIOUS
    <3> QED BY <3>1, <3>2, <3>3, <3>4
  <2>2. {j \in DOMAIN bs : GoesBefore(bs, j, i)} = 1..(i - 1)
    BY <1>1, <2>1
  <2>3. i - 1 \in Nat
    OBVIOUS
  <2>4. Cardinality(1..(i - 1)) = i - 1
    BY <2>3, FirstNumbers
  <2>5. spot[i] = (i - 1) + 1
    BY <1>1, <2>2, <2>4, Zenon DEF SortedPlace
  <2> HIDE DEF spot
  <2> QED BY <2>5
<1> DEFINE pick(n) == CHOOSE i \in DOMAIN bs : spot[i] = n
<1> HIDE DEF spot
<1>3. \A n \in 1..Len(bs) : pick(n) = n
  BY <1>1, <1>2
<1>4. Ordered(bs) = [n \in DOMAIN bs |-> bs[pick(n)]]
  BY DEF Ordered, spot
<1> HIDE DEF pick
<1> QED BY <1>1, <1>3, <1>4

\* Sorting takes a block at the end to the place where an insertion would put it.
LEMMA OrderedInserts ==
  ASSUME NEW bs \in Seq(Blocks), InOrder(bs), NEW b \in Blocks
  PROVE  Ordered(Append(bs, b)) = CollectorInsert(bs, b)
<1> DEFINE m == Len(bs) + 1
           at == InsertPlace(bs, b)
           g == Append(bs, b)
           spot == [i \in DOMAIN g |-> SortedPlace(g, i)]
           from(n) == IF n < at THEN n ELSE IF n = at THEN m ELSE n - 1
<1>1. Len(bs) \in Nat /\ DOMAIN bs = 1..Len(bs) /\ \A i \in 1..Len(bs) : bs[i] \in Blocks
  OBVIOUS
<1>2. /\ DOMAIN g = 1..m /\ m \in Nat /\ g[m] = b /\ \A i \in 1..Len(bs) : g[i] = bs[i]
      /\ \A i \in 1..m : i \in 1..Len(bs) \/ i = m
      /\ \A i \in 1..Len(bs) : i \in 1..m /\ i < m
  BY <1>1
<1>3. at \in 1..m /\ \A i \in 1..Len(bs) : i < at <=> ~SortsBefore(b, bs[i])
  BY PlaceOf DEF InsertFacts
<1> HIDE DEF g, at, m
<1>4. \A i, j \in 1..Len(bs) : GoesBefore(g, j, i) <=> j < i
  <2>1. ASSUME NEW i \in 1..Len(bs), NEW j \in 1..Len(bs) PROVE GoesBefore(g, j, i) <=> j < i
    <3>1. j < i => GoesBefore(g, j, i)
      BY <1>1, <1>2 DEF InOrder, GoesBefore
    <3>2. j = i => ~GoesBefore(g, j, i)
      BY <1>1, <1>2, SortOrder DEF SortFacts, GoesBefore
    <3>3. i < j => ~GoesBefore(g, j, i)
      BY <1>1, <1>2 DEF InOrder, GoesBefore
    <3>4. i < j \/ j < i \/ i = j
      OBVIOUS
    <3> QED BY <3>1, <3>2, <3>3, <3>4
  <2> QED BY <2>1
<1>5. /\ \A i \in 1..Len(bs) : GoesBefore(g, m, i) <=> at <= i
      /\ \A i \in 1..Len(bs) : GoesBefore(g, i, m) <=> i < at
      /\ ~GoesBefore(g, m, m)
  <2>1. ASSUME NEW i \in 1..Len(bs) PROVE GoesBefore(g, m, i) <=> at <= i
    <3>1. GoesBefore(g, m, i) <=> SortsBefore(b, bs[i])
      BY <1>1, <1>2 DEF GoesBefore
    <3>2. at <= i <=> ~(i < at)
      BY <1>1, <1>2, <1>3
    <3> QED BY <1>3, <3>1, <3>2
  <2>2. ASSUME NEW i \in 1..Len(bs) PROVE GoesBefore(g, i, m) <=> i < at
    <3>1. GoesBefore(g, i, m) <=> SortsBefore(bs[i], b) \/ ~SortsBefore(b, bs[i])
      BY <1>1, <1>2 DEF GoesBefore
    <3>2. SortsBefore(bs[i], b) => ~SortsBefore(b, bs[i])
      BY <1>1, SortOrder DEF SortFacts
    <3> QED BY <1>3, <3>1, <3>2
  <2>3. ~GoesBefore(g, m, m)
    BY <1>2, SortOrder DEF SortFacts, GoesBefore
  <2> QED BY <2>1, <2>2, <2>3
<1>6. ASSUME NEW i \in 1..Len(bs), i < at PROVE spot[i] = i
  <2>1. {j \in DOMAIN g : GoesBefore(g, j, i)} = 1..(i - 1)
    <3>1. ASSUME NEW j PROVE j \in {k \in DOMAIN g : GoesBefore(g, k, i)} <=> j \in 1..(i - 1)
      <4>1. ~GoesBefore(g, m, i)
        BY <1>1, <1>2, <1>3, <1>5, <1>6
      <4>2. j \in 1..(i - 1) <=> j \in 1..Len(bs) /\ j < i
        BY <1>1
      <4> QED BY <1>2, <1>4, <4>1, <4>2
    <3> QED BY <3>1
  <2>2. Cardinality(1..(i - 1)) = i - 1
    <3>1. i - 1 \in Nat
      OBVIOUS
    <3> QED BY <3>1, FirstNumbers
  <2>3. spot[i] = (i - 1) + 1
    BY <1>2, <2>1, <2>2, Zenon DEF SortedPlace
  <2> HIDE DEF spot
  <2> QED BY <2>3
<1>7. ASSUME NEW i \in 1..Len(bs), at <= i PROVE spot[i] = i + 1
  <2>1. {j \in DOMAIN g : GoesBefore(g, j, i)} = 1..(i - 1) \cup {m}
    <3>1. ASSUME NEW j PROVE j \in {k \in DOMAIN g : GoesBefore(g, k, i)} <=> j \in 1..(i - 1) \cup {m}
      <4>1. GoesBefore(g, m, i)
        BY <1>5, <1>7
      <4>2. j \in 1..(i - 1) <=> j \in 1..Len(bs) /\ j < i
        BY <1>1
      <4> QED BY <1>2, <1>4, <4>1, <4>2
    <3> QED BY <3>1
  <2>2. Cardinality(1..(i - 1) \cup {m}) = i
    <3>1. i - 1 \in Nat /\ m \notin 1..(i - 1)
      BY <1>1, <1>2
    <3>2. IsFiniteSet(1..(i - 1)) /\ Cardinality(1..(i - 1)) = i - 1
      BY <3>1, FirstNumbers
    <3>3. Cardinality(1..(i - 1) \cup {m}) = Cardinality(1..(i - 1)) + 1
      BY <3>1, <3>2, FS_AddElement
    <3> QED BY <3>2, <3>3
  <2>3. spot[i] = i + 1
    BY <1>2, <2>1, <2>2, Zenon DEF SortedPlace
  <2> HIDE DEF spot
  <2> QED BY <2>3
<1>8. spot[m] = at
  <2>1. {j \in DOMAIN g : GoesBefore(g, j, m)} = 1..(at - 1)
    <3>1. ASSUME NEW j PROVE j \in {k \in DOMAIN g : GoesBefore(g, k, m)} <=> j \in 1..(at - 1)
      <4>1. j \in 1..(at - 1) <=> j \in 1..Len(bs) /\ j < at
        BY <1>1, <1>3 DEF m
      <4> QED BY <1>2, <1>5, <4>1
    <3> QED BY <3>1
  <2>2. Cardinality(1..(at - 1)) = at - 1
    <3>1. at - 1 \in Nat
      BY <1>3
    <3> QED BY <3>1, FirstNumbers
  <2>3. m \in DOMAIN g /\ at \in Int
    BY <1>1, <1>2, <1>3 DEF m
  <2>4. spot[m] = (at - 1) + 1
    BY <2>1, <2>2, <2>3, Zenon DEF SortedPlace
  <2> HIDE DEF spot
  <2> QED BY <2>3, <2>4
<1> HIDE DEF spot
<1>9. \A n \in 1..m : (CHOOSE i \in DOMAIN g : spot[i] = n) = from(n)
  <2>1. ASSUME NEW n \in 1..m PROVE from(n) \in 1..m /\ spot[from(n)] = n
    <3>1. CASE n < at
      <4>1. n \in 1..Len(bs)
        BY <1>1, <1>3, <3>1 DEF m
      <4> QED BY <1>2, <1>6, <3>1, <4>1
    <3>2. CASE n = at
      BY <1>1, <1>8, <3>2 DEF m
    <3>3. CASE ~(n < at) /\ n # at
      <4>1. n - 1 \in 1..Len(bs) /\ at <= n - 1 /\ n \in Int
        BY <1>1, <1>3, <3>3 DEF m
      <4> QED BY <1>2, <1>7, <3>3, <4>1
    <3> QED BY <3>1, <3>2, <3>3
  <2>2. ASSUME NEW i \in 1..m, NEW j \in 1..m, spot[i] = spot[j] PROVE i = j
    <3>1. \A k \in 1..m :
             \/ k = m /\ spot[k] = at
             \/ k \in 1..Len(bs) /\ k < at /\ spot[k] = k
             \/ k \in 1..Len(bs) /\ at <= k /\ spot[k] = k + 1
      <4>1. \A k \in 1..Len(bs) : k < at \/ at <= k
        BY <1>3
      <4> QED BY <1>2, <1>6, <1>7, <1>8, <4>1
    <3>2. at \in Int /\ Len(bs) \in Int
      BY <1>1, <1>3
    <3> QED BY <2>2, <3>1, <3>2
  <2> HIDE DEF from
  <2> QED BY <1>2, <2>1, <2>2
<1>10. Ordered(g) = [n \in 1..m |-> g[from(n)]]
  <2>1. Ordered(g) = [n \in DOMAIN g |-> g[CHOOSE i \in DOMAIN g : spot[i] = n]]
    BY DEF Ordered, spot
  <2> HIDE DEF from
  <2> QED BY <1>2, <1>9, <2>1
<1>11. \A n \in 1..m : g[from(n)] = IF n < at THEN bs[n] ELSE IF n = at THEN b ELSE bs[n - 1]
  <2>1. ASSUME NEW n \in 1..m
        PROVE  g[from(n)] = IF n < at THEN bs[n] ELSE IF n = at THEN b ELSE bs[n - 1]
    <3>1. n < at => n \in 1..Len(bs)
      BY <1>1, <1>3 DEF m
    <3>2. ~(n < at) /\ n # at => n - 1 \in 1..Len(bs)
      BY <1>1, <1>3 DEF m
    <3> QED BY <1>2, <3>1, <3>2
  <2> QED BY <2>1
<1>12. Ordered(g) = Inserted(bs, b, at)
  <2> HIDE DEF from
  <2> QED BY <1>10, <1>11 DEF Inserted, m
<1> QED BY <1>12, InsertionIs DEF g, at

-----------------------------------------------------------------------------
(* What the collector has *)

\* The id of a block that has a place follows from it, and a text is numbered.
Fits(b, t, r) ==
  /\ b.round <= r
  /\ Kind(b) = "text" => b.id[2] <= t
  /\ Kind(b) \in {"reasoning", "tool", "artifact"} => b.id = <<Kind(b), b.round, b.pos>>
  /\ Kind(b) = "reasoning" => b.attempt = 1

OwnIds(bs) == \A i, j \in DOMAIN bs : bs[i].id = bs[j].id => i = j
OwnPlaces(bs) == \A i, j \in DOMAIN bs : Kind(bs[i]) = "text" /\ SamePlace(bs[i], bs[j]) => i = j

\* Blocks of t texts, up to the round r.
Collection(bs, t, r) ==
  /\ bs \in Seq(Blocks) /\ t \in Nat /\ r \in Nat
  /\ InOrder(bs) /\ OwnIds(bs) /\ OwnPlaces(bs)
  /\ \A i \in DOMAIN bs : Fits(bs[i], t, r)

\* A collection is a sequence of blocks.
LEMMA CollectionParts ==
  ASSUME NEW bs, NEW t, NEW r, Collection(bs, t, r)
  PROVE  /\ bs \in Seq(Blocks) /\ Len(bs) \in Nat /\ DOMAIN bs = 1..Len(bs)
         /\ \A i \in 1..Len(bs) : bs[i] \in Blocks
BY DEF Collection

\* More texts and rounds make no difference to what is there.
LEMMA CollectionLater ==
  ASSUME NEW bs, NEW t, NEW r, Collection(bs, t, r), NEW t2 \in Nat, NEW r2 \in Nat, t <= t2, r <= r2
  PROVE  Collection(bs, t2, r2)
<1>1. ASSUME NEW i \in DOMAIN bs PROVE Fits(bs[i], t2, r2)
  <2>1. Fits(bs[i], t, r) /\ bs[i] \in Blocks /\ t \in Nat /\ r \in Nat
    BY CollectionParts DEF Collection
  <2>2. bs[i].round \in Nat /\ (Kind(bs[i]) = "text" => bs[i].id[2] \in Nat)
    BY <2>1 DEF Blocks, BlockIds, Kind
  <2> QED BY <2>1, <2>2 DEF Fits
<1> QED BY <1>1 DEF Collection

\* The kind and the place of every block stay.
Alike(g, bs) ==
  /\ g \in Seq(Blocks) /\ Len(g) = Len(bs)
  /\ \A i \in 1..Len(bs) : /\ g[i].id = bs[i].id /\ g[i].round = bs[i].round
                           /\ g[i].attempt = bs[i].attempt /\ g[i].pos = bs[i].pos

\* What changes sizes and states only leaves a collection, in which a new block has the same place.
LEMMA AlikeIsCollected ==
  ASSUME NEW bs, NEW t, NEW r, Collection(bs, t, r), NEW g, Alike(g, bs)
  PROVE  Collection(g, t, r) /\ \A b \in Blocks : Later(g, b) = Later(bs, b)
<1>1. DOMAIN g = 1..Len(bs) /\ DOMAIN bs = 1..Len(bs) /\ g \in Seq(Blocks)
  BY CollectionParts DEF Alike
<1>2. \A i \in 1..Len(bs) : Kind(g[i]) = Kind(bs[i])
  BY DEF Alike, Kind
<1>3. InOrder(g) /\ \A b \in Blocks : Later(g, b) = Later(bs, b)
  <2>1. InOrder(g)
    BY <1>1 DEF Alike, Collection, InOrder, SortsBefore
  <2>2. \A b \in Blocks, i \in 1..Len(bs) : SortsBefore(b, g[i]) <=> SortsBefore(b, bs[i])
    BY DEF Alike, SortsBefore
  <2> QED BY <1>1, <2>1, <2>2 DEF Later
<1>4. OwnIds(g)
  BY <1>1 DEF Alike, Collection, OwnIds
<1>5. OwnPlaces(g)
  <2>1. \A i, j \in 1..Len(bs) : SamePlace(g[i], g[j]) <=> SamePlace(bs[i], bs[j])
    BY <1>2 DEF Alike, SamePlace
  <2> QED BY <1>1, <1>2, <2>1 DEF Collection, OwnPlaces
<1>6. \A i \in 1..Len(bs) : Fits(g[i], t, r)
  BY <1>1, <1>2 DEF Alike, Collection, Fits
<1> QED BY <1>1, <1>3, <1>4, <1>5, <1>6 DEF Collection

\* The blocks of one sequence are in the other.
Within(bs, g) == \A i \in DOMAIN bs : \E n \in DOMAIN g : g[n] = bs[i]

\* A block that is new is inserted.
LEMMA InsertedIsCollected ==
  ASSUME NEW bs, NEW t, NEW r, Collection(bs, t, r), NEW b \in Blocks, Fits(b, t, r),
         ~Has(bs, b.id), Kind(b) = "text" => \A i \in DOMAIN bs : ~SamePlace(bs[i], b),
         NEW g, g = CollectorInsert(bs, b)
  PROVE  /\ Collection(g, t, r) /\ Within(bs, g)
         /\ \E n \in DOMAIN g : g[n] = b
         /\ \A n \in DOMAIN g : g[n] = b \/ \E i \in DOMAIN bs : bs[i] = g[n]
<1> DEFINE at == InsertPlace(bs, b)
           from(n) == IF n < at THEN n ELSE n - 1
<1>1. /\ Len(bs) \in Nat /\ DOMAIN bs = 1..Len(bs) /\ bs \in Seq(Blocks)
      /\ InOrder(bs) /\ OwnIds(bs) /\ OwnPlaces(bs) /\ \A i \in 1..Len(bs) : bs[i] \in Blocks
  BY CollectionParts DEF Collection
<1>2. at \in 1..Len(bs) + 1 /\ \A i \in 1..Len(bs) : i < at <=> ~SortsBefore(b, bs[i])
  BY <1>1, PlaceOf DEF InsertFacts
<1>3. g = Inserted(bs, b, at) /\ g \in Seq(Blocks) /\ Len(g) = Len(bs) + 1
  BY <1>1, InsertionIs
<1> HIDE DEF at
<1>4. DOMAIN g = 1..Len(bs) + 1
  BY <1>1, <1>3
<1>5. ASSUME NEW n \in DOMAIN g
      PROVE  \/ n = at /\ g[n] = b
             \/ n # at /\ from(n) \in 1..Len(bs) /\ g[n] = bs[from(n)]
  <2>1. g[n] = IF n < at THEN bs[n] ELSE IF n = at THEN b ELSE bs[n - 1]
    BY <1>3, <1>4 DEF Inserted
  <2>2. CASE n < at
    <3>1. n \in 1..Len(bs) /\ n # at
      BY <1>1, <1>2, <1>4, <2>2
    <3> QED BY <2>1, <2>2, <3>1
  <2>3. CASE ~(n < at) /\ n # at
    <3>1. n - 1 \in 1..Len(bs) /\ from(n) = n - 1 /\ g[n] = bs[n - 1]
      BY <1>1, <1>2, <1>4, <2>1, <2>3
    <3> QED BY <2>3, <3>1
  <2> QED BY <2>1, <2>2, <2>3
<1>6. /\ \A m, n \in DOMAIN g : m # at /\ n # at /\ m < n => from(m) < from(n)
      /\ \A m, n \in DOMAIN g : m # at /\ n # at /\ from(m) = from(n) => m = n
      /\ \A n \in DOMAIN g : n < at => from(n) < at
      /\ \A n \in DOMAIN g : at < n => ~(from(n) < at)
  BY <1>1, <1>2, <1>4
<1> HIDE DEF from
<1>7. InOrder(g)
  <2>1. ASSUME NEW m \in DOMAIN g, NEW n \in DOMAIN g, m < n PROVE ~SortsBefore(g[n], g[m])
    <3>1. CASE m # at /\ n # at
      BY <1>1, <1>5, <1>6, <2>1, <3>1 DEF InOrder
    <3>2. CASE m = at
      <4>1. n # at /\ ~(from(n) < at)
        BY <1>6, <2>1, <3>2
      <4>2. g[m] = b /\ SortsBefore(b, g[n]) /\ g[n] \in Blocks
        BY <1>1, <1>2, <1>5, <3>2, <4>1
      <4> QED BY <4>2, SortOrder DEF SortFacts
    <3>3. CASE n = at
      <4>1. m # at /\ from(m) < at
        BY <1>6, <2>1, <3>3
      <4> QED BY <1>2, <1>5, <3>3, <4>1
    <3> QED BY <3>1, <3>2, <3>3
  <2> QED BY <2>1 DEF InOrder
<1>8. OwnIds(g)
  <2>1. \A i \in 1..Len(bs) : bs[i].id # b.id
    BY <1>1 DEF Has, Named
  <2> QED BY <1>1, <1>5, <1>6, <2>1 DEF OwnIds
<1>9. OwnPlaces(g)
  <2>1. ASSUME NEW m \in DOMAIN g, NEW n \in DOMAIN g, Kind(g[m]) = "text", SamePlace(g[m], g[n]), m # n
        PROVE  FALSE
    <3>1. CASE m # at /\ n # at
      BY <1>1, <1>5, <1>6, <2>1, <3>1 DEF OwnPlaces
    <3>2. CASE m = at
      <4>1. n # at /\ Kind(b) = "text" /\ SamePlace(b, g[n]) /\ from(n) \in 1..Len(bs) /\ g[n] = bs[from(n)]
        BY <1>5, <2>1, <3>2
      <4>2. SamePlace(g[n], b)
        BY <4>1 DEF SamePlace
      <4> QED BY <1>1, <4>1, <4>2
    <3>3. CASE n = at
      <4>1. m # at /\ Kind(b) = "text" /\ SamePlace(g[m], b) /\ from(m) \in 1..Len(bs) /\ g[m] = bs[from(m)]
        BY <1>5, <2>1, <3>3 DEF SamePlace
      <4> QED BY <1>1, <4>1
    <3> QED BY <3>1, <3>2, <3>3
  <2> QED BY <2>1 DEF OwnPlaces
<1>10. \A n \in DOMAIN g : Fits(g[n], t, r)
  BY <1>1, <1>5 DEF Collection
<1>11. Within(bs, g)
  <2>1. ASSUME NEW i \in DOMAIN bs PROVE \E n \in DOMAIN g : g[n] = bs[i]
    <3>1. CASE i < at
      <4>1. i \in DOMAIN g
        BY <1>1, <1>4
      <4>2. g[i] = bs[i]
        BY <1>3, <1>4, <3>1, <4>1 DEF Inserted
      <4> QED BY <4>1, <4>2
    <3>2. CASE ~(i < at)
      <4>1. i + 1 \in DOMAIN g /\ ~(i + 1 < at) /\ i + 1 # at /\ (i + 1) - 1 = i
        BY <1>1, <1>2, <1>4, <3>2
      <4>2. g[i + 1] = bs[i]
        BY <1>3, <1>4, <4>1 DEF Inserted
      <4> QED BY <4>1, <4>2
    <3> QED BY <3>1, <3>2
  <2> QED BY <2>1 DEF Within
<1>12. \E n \in DOMAIN g : g[n] = b
  <2>1. at \in DOMAIN g
    BY <1>2, <1>4
  <2> QED BY <1>5, <2>1
<1>13. \A n \in DOMAIN g : g[n] = b \/ \E i \in DOMAIN bs : bs[i] = g[n]
  BY <1>1, <1>5
<1> QED BY <1>1, <1>3, <1>7, <1>8, <1>9, <1>10, <1>11, <1>12, <1>13 DEF Collection

\* A block is taken out.
LEMMA WithoutIsCollected ==
  ASSUME NEW bs, NEW t, NEW r, Collection(bs, t, r), NEW id, NEW g, g = Without(bs, id)
  PROVE  Collection(g, t, r) /\ Within(g, bs)
<1> DEFINE kept == {i \in DOMAIN bs : bs[i].id # id}
           at(n) == KeptAt(kept, n)
<1>1. /\ Len(bs) \in Nat /\ DOMAIN bs = 1..Len(bs) /\ bs \in Seq(Blocks)
      /\ InOrder(bs) /\ OwnIds(bs) /\ OwnPlaces(bs) /\ \A i \in DOMAIN bs : Fits(bs[i], t, r)
  BY CollectionParts DEF Collection
<1>2. g = Only(bs, kept) /\ \A i \in kept : i \in 1..Len(bs)
  BY <1>1 DEF Without
<1> HIDE DEF kept
<1>3. /\ g \in Seq(Blocks) /\ Len(g) \in Nat
      /\ \A n \in 1..Len(g) : at(n) \in kept /\ g[n] = bs[at(n)]
      /\ \A m, n \in 1..Len(g) : m < n => at(m) < at(n)
  BY <1>1, <1>2, OnlyFrom
<1> HIDE DEF at
<1>4. DOMAIN g = 1..Len(g) /\ \A n \in 1..Len(g) : at(n) \in DOMAIN bs /\ at(n) \in Int
  BY <1>1, <1>2, <1>3
<1>5. \A m, n \in DOMAIN g : at(m) = at(n) => m = n
  <2>1. ASSUME NEW m \in DOMAIN g, NEW n \in DOMAIN g, at(m) = at(n) PROVE m = n
    <3>1. m \in Int /\ n \in Int /\ ~(m < n) /\ ~(n < m)
      BY <1>3, <1>4, <2>1
    <3> QED BY <3>1
  <2> QED BY <2>1
<1>6. InOrder(g)
  BY <1>1, <1>3, <1>4 DEF InOrder
<1>7. OwnIds(g)
  BY <1>1, <1>3, <1>4, <1>5 DEF OwnIds
<1>8. OwnPlaces(g)
  BY <1>1, <1>3, <1>4, <1>5 DEF OwnPlaces
<1>9. (\A n \in DOMAIN g : Fits(g[n], t, r)) /\ Within(g, bs)
  BY <1>1, <1>3, <1>4 DEF Within
<1> QED BY <1>3, <1>6, <1>7, <1>8, <1>9 DEF Collection

-----------------------------------------------------------------------------
(* What the client shows once it has applied every event: the blocks of the collector, or, *)
(* before the first text, those and the empty text that it was created with.               *)

FirstText == Placeholder.id
WithEmpty(bs) == Append(bs, Placeholder)
Trails(v, bs) == v = bs \/ (v = WithEmpty(bs) /\ ~Has(bs, FirstText))

\* The empty text belongs to no round of the run.
LEMMA EmptyText ==
  /\ Placeholder \in Blocks /\ Placeholder.id = FirstText /\ Kind(Placeholder) = "text"
  /\ Placeholder.round = Unplaced /\ Placeholder.size = 0 /\ Placeholder.state = "none"
  /\ Unplaced = MaxModelRounds + 1 /\ MaxModelRounds \in Nat /\ Unplaced \in Nat
BY TimelineBounds DEF TimelineBounds, Placeholder, FirstText, Blocks, BlockIds, Block, Kind, Unplaced, States

\* The empty text stands behind every block that has a round.
EndsEmpty(g, bs, r) ==
  /\ g = WithEmpty(bs) /\ g \in Seq(Blocks) /\ Len(g) = Len(bs) + 1 /\ DOMAIN g = 1..Len(bs) + 1
  /\ \A i \in 1..Len(bs) : g[i] = bs[i]
  /\ g[Len(bs) + 1] = Placeholder
  /\ InOrder(g)
  /\ \A b \in Blocks : b.round <= r => SortsBefore(b, Placeholder)

\* It stays behind the blocks of every round.
LEMMA EmptyAtEnd ==
  ASSUME NEW bs, NEW t, NEW r, Collection(bs, t, r), r <= MaxModelRounds
  PROVE  EndsEmpty(WithEmpty(bs), bs, r)
<1> DEFINE g == WithEmpty(bs)
<1>1. /\ Len(bs) \in Nat /\ DOMAIN bs = 1..Len(bs) /\ bs \in Seq(Blocks) /\ r \in Nat
      /\ InOrder(bs) /\ \A i \in 1..Len(bs) : bs[i] \in Blocks /\ bs[i].round <= r
  BY CollectionParts DEF Collection, Fits
<1>2. /\ g \in Seq(Blocks) /\ Len(g) = Len(bs) + 1 /\ DOMAIN g = 1..Len(bs) + 1
      /\ \A i \in 1..Len(bs) : g[i] = bs[i]
      /\ g[Len(bs) + 1] = Placeholder
  BY <1>1, EmptyText DEF WithEmpty
<1>3. ASSUME NEW b \in Blocks, b.round <= r PROVE SortsBefore(b, Placeholder)
  <2>1. b.round \in Nat
    BY DEF Blocks
  <2> QED BY <1>1, <1>3, <2>1, EmptyText DEF SortsBefore
<1> HIDE DEF g
<1>4. InOrder(g)
  <2>1. ASSUME NEW i \in DOMAIN g, NEW j \in DOMAIN g, i < j PROVE ~SortsBefore(g[j], g[i])
    <3>1. i \in 1..Len(bs)
      BY <1>1, <1>2, <2>1
    <3>2. CASE j \in 1..Len(bs)
      BY <1>1, <1>2, <2>1, <3>1, <3>2 DEF InOrder
    <3>3. CASE j = Len(bs) + 1
      <4>1. SortsBefore(bs[i], Placeholder) /\ bs[i] \in Blocks
        BY <1>1, <1>3, <3>1
      <4> QED BY <1>2, <3>1, <3>3, <4>1, EmptyText, SortOrder DEF SortFacts
    <3> QED BY <1>1, <1>2, <3>2, <3>3
  <2> QED BY <2>1 DEF InOrder
<1> QED BY <1>2, <1>3, <1>4 DEF EndsEmpty, g

\* The empty text has an id that no other block of the collector has.
LEMMA EmptyHas ==
  ASSUME NEW bs, NEW t, NEW r, Collection(bs, t, r), r <= MaxModelRounds, NEW id
  PROVE  Has(WithEmpty(bs), id) <=> Has(bs, id) \/ id = FirstText
<1>1. EndsEmpty(WithEmpty(bs), bs, r)
  BY EmptyAtEnd
<1>2. DOMAIN bs = 1..Len(bs) /\ Len(bs) \in Nat
  BY CollectionParts
<1>3. \A i \in 1..Len(bs) + 1 : i \in 1..Len(bs) \/ i = Len(bs) + 1
  BY <1>2
<1>4. Len(bs) + 1 \in 1..Len(bs) + 1 /\ \A i \in 1..Len(bs) : i \in 1..Len(bs) + 1
  BY <1>2
<1> QED BY <1>1, <1>2, <1>3, <1>4, EmptyText DEF Has, Named, EndsEmpty

\* An insertion leaves the empty text at the end.
LEMMA InsertBeforeEmpty ==
  ASSUME NEW bs, NEW t, NEW r, Collection(bs, t, r), r <= MaxModelRounds,
         NEW b \in Blocks, b.round <= r
  PROVE  InsertOrdered(WithEmpty(bs), b) = WithEmpty(CollectorInsert(bs, b))
<1> DEFINE g == WithEmpty(bs)
           m == Len(bs) + 1
           at == InsertPlace(bs, b)
           to == InsertPlace(g, b)
           c == CollectorInsert(bs, b)
<1>1. /\ g \in Seq(Blocks) /\ Len(g) = m /\ DOMAIN g = 1..m
      /\ \A i \in 1..Len(bs) : g[i] = bs[i]
      /\ g[m] = Placeholder /\ InOrder(g) /\ SortsBefore(b, Placeholder)
  BY EmptyAtEnd DEF EndsEmpty
<1>2. /\ Len(bs) \in Nat /\ bs \in Seq(Blocks) /\ InOrder(bs)
  BY CollectionParts DEF Collection
<1>3. at \in 1..m /\ \A i \in 1..Len(bs) : i < at <=> ~SortsBefore(b, bs[i])
  BY <1>2, PlaceOf DEF InsertFacts
<1>4. to \in 1..m + 1 /\ \A i \in 1..m : i < to <=> ~SortsBefore(b, g[i])
  <2> HIDE DEF g
  <2> QED BY <1>1, PlaceOf DEF InsertFacts
<1>5. /\ c = Inserted(bs, b, at) /\ c \in Seq(Blocks) /\ Len(c) = m
      /\ InsertOrdered(g, b) = Inserted(g, b, to)
      /\ Inserted(g, b, to) \in Seq(Blocks) /\ Len(Inserted(g, b, to)) = m + 1
  <2>1. c = Inserted(bs, b, at) /\ c \in Seq(Blocks) /\ Len(c) = m
    BY <1>2, InsertionIs
  <2> HIDE DEF g
  <2> QED BY <1>1, <2>1, InsertionIs
<1> HIDE DEF g, at, to, c
<1>6. to = at
  <2>1. \A i \in 1..Len(bs) : i < to <=> i < at
    BY <1>1, <1>2, <1>3, <1>4
  <2>2. ~(m < to)
    BY <1>1, <1>2, <1>4
  <2>3. to \in 1..m
    BY <1>2, <1>4, <2>2
  <2> QED BY <1>2, <1>3, <2>1, <2>3
<1>7. ASSUME NEW i \in 1..m + 1 PROVE Inserted(g, b, to)[i] = WithEmpty(c)[i]
  <2>1. Inserted(g, b, to)[i] = IF i < at THEN g[i] ELSE IF i = at THEN b ELSE g[i - 1]
    BY <1>1, <1>6 DEF Inserted
  <2>2. i \in 1..m => c[i] = IF i < at THEN bs[i] ELSE IF i = at THEN b ELSE bs[i - 1]
    BY <1>5 DEF Inserted
  <2>3. CASE i = m + 1
    <3>1. ~(i < at) /\ i # at /\ i - 1 = m
      BY <1>2, <1>3, <2>3
    <3> QED BY <1>1, <1>5, <2>1, <2>3, <3>1 DEF WithEmpty
  <2>4. CASE i \in 1..m
    <3>1. i < at => i \in 1..Len(bs)
      BY <1>2, <1>3, <2>4
    <3>2. ~(i < at) /\ i # at => i - 1 \in 1..Len(bs)
      BY <1>2, <1>3, <2>4
    <3>3. WithEmpty(c)[i] = c[i]
      BY <1>5, <2>4 DEF WithEmpty
    <3> QED BY <1>1, <2>1, <2>2, <2>4, <3>1, <3>2, <3>3
  <2> QED BY <1>2, <2>3, <2>4
<1>8. WithEmpty(c) \in Seq(Blocks) /\ Len(WithEmpty(c)) = m + 1
  BY <1>2, <1>5, EmptyText DEF WithEmpty
<1>9. Inserted(g, b, to) = WithEmpty(c)
  BY <1>2, <1>5, <1>7, <1>8, SeqEqual
<1> QED BY <1>5, <1>9 DEF g, c

\* The ids after an insertion.
LEMMA InsertHas ==
  ASSUME NEW bs, NEW t, NEW r, Collection(bs, t, r), NEW b \in Blocks, NEW id
  PROVE  Has(CollectorInsert(bs, b), id) <=> Has(bs, id) \/ id = b.id
<1> DEFINE at == InsertPlace(bs, b)
           c == CollectorInsert(bs, b)
<1>1. Len(bs) \in Nat /\ bs \in Seq(Blocks) /\ InOrder(bs) /\ DOMAIN bs = 1..Len(bs)
  BY CollectionParts DEF Collection
<1>2. /\ at \in 1..Len(bs) + 1
      /\ c = Inserted(bs, b, at) /\ c \in Seq(Blocks) /\ Len(c) = Len(bs) + 1
  BY <1>1, PlaceOf, InsertionIs DEF InsertFacts
<1> HIDE DEF c, at
<1>3. \A n \in 1..Len(bs) + 1 : c[n] = IF n < at THEN bs[n] ELSE IF n = at THEN b ELSE bs[n - 1]
  BY <1>2 DEF Inserted
<1>4. DOMAIN c = 1..Len(bs) + 1
  BY <1>1, <1>2
<1>5. ASSUME NEW n \in DOMAIN c PROVE c[n] = b \/ \E i \in DOMAIN bs : c[n] = bs[i]
  <2>1. n < at => n \in DOMAIN bs
    BY <1>1, <1>2, <1>4
  <2>2. ~(n < at) /\ n # at => n - 1 \in DOMAIN bs
    BY <1>1, <1>2, <1>4
  <2> QED BY <1>3, <1>4, <2>1, <2>2
<1>6. \E n \in DOMAIN c : c[n] = b
  BY <1>2, <1>3, <1>4
<1>7. ASSUME NEW i \in DOMAIN bs PROVE \E n \in DOMAIN c : c[n] = bs[i]
  <2>1. CASE i < at
    <3>1. i \in DOMAIN c
      BY <1>1, <1>4
    <3> QED BY <1>3, <1>4, <2>1, <3>1
  <2>2. CASE ~(i < at)
    <3>1. i + 1 \in DOMAIN c /\ ~(i + 1 < at) /\ i + 1 # at /\ (i + 1) - 1 = i
      BY <1>1, <1>2, <1>4, <2>2
    <3>2. c[i + 1] = bs[i]
      BY <1>3, <1>4, <3>1
    <3> QED BY <3>1, <3>2
  <2> QED BY <2>1, <2>2
<1>8. Has(c, id) <=> \E n \in DOMAIN c : c[n].id = id
  BY DEF Has, Named
<1>9. Has(bs, id) <=> \E i \in DOMAIN bs : bs[i].id = id
  BY DEF Has, Named
<1>10. Has(c, id) <=> Has(bs, id) \/ id = b.id
  BY <1>5, <1>6, <1>7, <1>8, <1>9
<1> QED BY <1>10 DEF c

\* A block that is new to the collector is new to the client, and gets the same place.
LEMMA TrailsInserted ==
  ASSUME NEW bs, NEW t, NEW r, Collection(bs, t, r), r <= MaxModelRounds, NEW v, Trails(v, bs),
         NEW b \in Blocks, b.round <= r, ~Has(bs, b.id), b.id # FirstText
  PROVE  /\ ~Has(v, b.id)
         /\ Trails(InsertOrdered(v, b), CollectorInsert(bs, b))
<1>1. Has(WithEmpty(bs), b.id) <=> Has(bs, b.id) \/ b.id = FirstText
  BY EmptyHas
<1>2. ~Has(v, b.id)
  BY <1>1 DEF Trails
<1>3. InsertOrdered(bs, b) = CollectorInsert(bs, b)
  BY DEF InsertOrdered, CollectorInsert
<1>4. InsertOrdered(WithEmpty(bs), b) = WithEmpty(CollectorInsert(bs, b))
  BY InsertBeforeEmpty
<1>5. ~Has(bs, FirstText) => ~Has(CollectorInsert(bs, b), FirstText)
  BY InsertHas
<1> QED BY <1>2, <1>3, <1>4, <1>5 DEF Trails

\* Blocks that keep their ids have the same ids.
LEMMA AlikeHas ==
  ASSUME NEW bs, NEW t, NEW r, Collection(bs, t, r), NEW c, Alike(c, bs), NEW id
  PROVE  Has(c, id) <=> Has(bs, id)
<1>1. DOMAIN bs = 1..Len(bs) /\ DOMAIN c = 1..Len(bs)
  BY CollectionParts DEF Alike
<1> QED BY <1>1 DEF Alike, Has, Named

\* Before the empty text, the blocks are those of another sequence.
LEMMA EmptyBehind ==
  ASSUME NEW c \in Seq(Blocks), NEW g,
         g = [i \in 1..Len(c) + 1 |-> IF i \in 1..Len(c) THEN c[i] ELSE Placeholder]
  PROVE  g = WithEmpty(c)
<1>1. Len(c) \in Nat
  OBVIOUS
<1>2. WithEmpty(c) \in Seq(Blocks) /\ Len(WithEmpty(c)) = Len(c) + 1
  BY EmptyText DEF WithEmpty
<1>3. \A i \in 1..Len(c) + 1 : WithEmpty(c)[i] = IF i \in 1..Len(c) THEN c[i] ELSE Placeholder
  BY <1>1, EmptyText DEF WithEmpty
<1>4. WithEmpty(c) = [i \in 1..Len(c) + 1 |-> WithEmpty(c)[i]]
  BY <1>1, <1>2
<1> HIDE DEF WithEmpty
<1> QED BY <1>3, <1>4

\* A change of each block that leaves it its id and its place, and the empty text as it is.
LEMMA TrailsEach ==
  ASSUME NEW bs, NEW t, NEW r, Collection(bs, t, r), r <= MaxModelRounds, NEW v, Trails(v, bs),
         NEW f \in [Blocks -> Blocks],
         \A i \in DOMAIN bs : /\ f[bs[i]].id = bs[i].id /\ f[bs[i]].round = bs[i].round
                              /\ f[bs[i]].attempt = bs[i].attempt /\ f[bs[i]].pos = bs[i].pos,
         ~Has(bs, FirstText) => f[Placeholder] = Placeholder,
         NEW c, c = [i \in DOMAIN bs |-> f[bs[i]]], NEW w, w = [i \in DOMAIN v |-> f[v[i]]]
  PROVE  Alike(c, bs) /\ Trails(w, c)
<1>1. /\ Len(bs) \in Nat /\ DOMAIN bs = 1..Len(bs) /\ \A i \in 1..Len(bs) : bs[i] \in Blocks
  BY CollectionParts
<1>2. c \in Seq(Blocks) /\ Len(c) = Len(bs) /\ \A i \in 1..Len(bs) : c[i] = f[bs[i]]
  BY <1>1
<1>3. Alike(c, bs)
  BY <1>1, <1>2 DEF Alike
<1>4. ASSUME v = WithEmpty(bs), ~Has(bs, FirstText) PROVE w = WithEmpty(c)
  <2>1. /\ DOMAIN v = 1..Len(c) + 1 /\ v[Len(c) + 1] = Placeholder
        /\ \A i \in 1..Len(c) : v[i] = bs[i]
    BY <1>2, <1>4, EmptyAtEnd DEF EndsEmpty
  <2>2. \A i \in 1..Len(c) + 1 : f[v[i]] = IF i \in 1..Len(c) THEN c[i] ELSE Placeholder
    <3>1. \A i \in 1..Len(c) + 1 : i \in 1..Len(c) \/ i = Len(c) + 1
      BY <1>1, <1>2
    <3> QED BY <1>2, <1>4, <2>1, <3>1
  <2>3. w = [i \in 1..Len(c) + 1 |-> IF i \in 1..Len(c) THEN c[i] ELSE Placeholder]
    BY <2>1, <2>2
  <2> QED BY <1>2, <2>3, EmptyBehind
<1>5. Has(c, FirstText) <=> Has(bs, FirstText)
  BY <1>3, AlikeHas
<1> QED BY <1>3, <1>4, <1>5 DEF Trails

\* The blocks that the client shows then are blocks too.
LEMMA TrailsBlocks ==
  ASSUME NEW bs, NEW t, NEW r, Collection(bs, t, r), r <= MaxModelRounds, NEW v, Trails(v, bs)
  PROVE  /\ v \in Seq(Blocks) /\ DOMAIN v = 1..Len(v) /\ \A i \in DOMAIN v : v[i] \in Blocks
         /\ DOMAIN bs = 1..Len(bs) /\ \A i \in DOMAIN bs : bs[i] \in Blocks
<1>1. bs \in Seq(Blocks)
  BY CollectionParts
<1>2. v \in Seq(Blocks)
  BY <1>1, EmptyText DEF Trails, WithEmpty
<1> QED BY <1>1, <1>2

\* The state of a block with an id that the collector has.
LEMMA TrailsState ==
  ASSUME NEW bs, NEW t, NEW r, Collection(bs, t, r), r <= MaxModelRounds, NEW v, Trails(v, bs),
         NEW id, Has(bs, id), NEW s \in States
  PROVE  /\ Alike(WithState(bs, id, s), bs)
         /\ Trails(WithState(v, id, s), WithState(bs, id, s))
<1> DEFINE new(b) == IF b.id = id THEN [b EXCEPT !.state = s] ELSE b
           f == [b \in Blocks |-> new(b)]
<1>1. /\ \A i \in DOMAIN bs : bs[i] \in Blocks
      /\ \A i \in DOMAIN v : v[i] \in Blocks
  BY TrailsBlocks
<1>2. \A x : WithState(x, id, s) = [i \in DOMAIN x |-> new(x[i])]
  BY DEF WithState, Named
<1>3. \A b \in Blocks : /\ new(b) \in Blocks /\ new(b).id = b.id /\ new(b).round = b.round
                        /\ new(b).attempt = b.attempt /\ new(b).pos = b.pos
  BY DEF Blocks
<1>4. ~Has(bs, FirstText) => new(Placeholder) = Placeholder
  BY EmptyText
<1> HIDE DEF new
<1>5. f \in [Blocks -> Blocks] /\ \A b \in Blocks : f[b] = new(b)
  BY <1>3
<1> HIDE DEF f
<1>6. /\ WithState(bs, id, s) = [i \in DOMAIN bs |-> f[bs[i]]]
      /\ WithState(v, id, s) = [i \in DOMAIN v |-> f[v[i]]]
  BY <1>1, <1>2, <1>5
<1>7. \A i \in DOMAIN bs : /\ f[bs[i]].id = bs[i].id /\ f[bs[i]].round = bs[i].round
                           /\ f[bs[i]].attempt = bs[i].attempt /\ f[bs[i]].pos = bs[i].pos
  BY <1>1, <1>3, <1>5
<1>8. ~Has(bs, FirstText) => f[Placeholder] = Placeholder
  BY <1>4, <1>5, EmptyText
<1> QED BY <1>5, <1>6, <1>7, <1>8, TrailsEach

\* The end of the reasoning of a round.
LEMMA TrailsReasoning ==
  ASSUME NEW bs, NEW t, NEW r, Collection(bs, t, r), r <= MaxModelRounds, NEW v, Trails(v, bs),
         NEW round
  PROVE  /\ Alike(ReasoningDone(bs, round), bs)
         /\ Trails(ReasoningDone(v, round), ReasoningDone(bs, round))
<1> DEFINE new(b) == IF Kind(b) = "reasoning" /\ b.round = round THEN [b EXCEPT !.state = "done"] ELSE b
           f == [b \in Blocks |-> new(b)]
<1>1. /\ \A i \in DOMAIN bs : bs[i] \in Blocks
      /\ \A i \in DOMAIN v : v[i] \in Blocks
  BY TrailsBlocks
<1>2. \A x : ReasoningDone(x, round) = [i \in DOMAIN x |-> new(x[i])]
  BY DEF ReasoningDone
<1>3. \A b \in Blocks : /\ new(b) \in Blocks /\ new(b).id = b.id /\ new(b).round = b.round
                        /\ new(b).attempt = b.attempt /\ new(b).pos = b.pos
  BY DEF Blocks, States
<1>4. new(Placeholder) = Placeholder
  BY EmptyText
<1> HIDE DEF new
<1>5. f \in [Blocks -> Blocks] /\ \A b \in Blocks : f[b] = new(b)
  BY <1>3
<1> HIDE DEF f
<1>6. /\ ReasoningDone(bs, round) = [i \in DOMAIN bs |-> f[bs[i]]]
      /\ ReasoningDone(v, round) = [i \in DOMAIN v |-> f[v[i]]]
  BY <1>1, <1>2, <1>5
<1>7. \A i \in DOMAIN bs : /\ f[bs[i]].id = bs[i].id /\ f[bs[i]].round = bs[i].round
                           /\ f[bs[i]].attempt = bs[i].attempt /\ f[bs[i]].pos = bs[i].pos
  BY <1>1, <1>3, <1>5
<1>8. f[Placeholder] = Placeholder
  BY <1>4, <1>5, EmptyText
<1> QED BY <1>5, <1>6, <1>7, <1>8, TrailsEach

\* A block that grows by a delta.
LEMMA LongerIs ==
  ASSUME NEW c \in Blocks, NEW s \in States, NEW l, l = Longer(c, s)
  PROVE  /\ l \in Blocks /\ l.id = c.id /\ l.round = c.round /\ l.attempt = c.attempt /\ l.pos = c.pos
         /\ l.size = c.size + 1 /\ l.state = IF s = "none" THEN c.state ELSE s
<1> DEFINE z == c.size + 1
           y == IF s = "none" THEN c.state ELSE s
<1>1. z \in Nat /\ y \in States
  BY DEF Blocks
<1>2. l = [c EXCEPT !.size = z, !.state = y]
  BY DEF Longer
<1> HIDE DEF z, y
<1>3. l \in Blocks /\ l.id = c.id /\ l.round = c.round /\ l.attempt = c.attempt /\ l.pos = c.pos
      /\ l.size = z /\ l.state = y
  BY <1>1, <1>2 DEF Blocks
<1> QED BY <1>3 DEF z, y

\* The blocks of b's id, one delta longer.
Grown(bs, b) == [i \in DOMAIN bs |-> IF bs[i].id = b.id THEN Longer(bs[i], b.state) ELSE bs[i]]

\* A delta of a block that the collector has at that place.
LEMMA TrailsGrown ==
  ASSUME NEW bs, NEW t, NEW r, Collection(bs, t, r), r <= MaxModelRounds, NEW v, Trails(v, bs),
         NEW b \in Blocks, Has(bs, b.id),
         \A i \in DOMAIN bs : bs[i].id = b.id =>
           bs[i].round = b.round /\ bs[i].attempt = b.attempt /\ bs[i].pos = b.pos
  PROVE  Alike(Grown(bs, b), bs) /\ Trails(AppendDelta(v, b), Grown(bs, b))
<1> DEFINE grown(c) == [Longer(c, b.state) EXCEPT !.round = b.round, !.attempt = b.attempt, !.pos = b.pos]
           new(c) == IF c.id = b.id THEN grown(c) ELSE c
           f == [c \in Blocks |-> new(c)]
           w == [i \in DOMAIN v |-> f[v[i]]]
<1>1. /\ \A i \in DOMAIN bs : bs[i] \in Blocks
      /\ v \in Seq(Blocks) /\ \A i \in DOMAIN v : v[i] \in Blocks
  BY TrailsBlocks
<1>2. \A c \in Blocks : new(c) \in Blocks
  <2>1. ASSUME NEW c \in Blocks PROVE Longer(c, b.state) \in Blocks
    BY LongerIs DEF Blocks
  <2>2. ASSUME NEW c \in Blocks PROVE grown(c) \in Blocks
    <3> DEFINE l == Longer(c, b.state)
    <3>1. l \in Blocks
      BY <2>1
    <3> HIDE DEF l
    <3>2. [l EXCEPT !.round = b.round, !.attempt = b.attempt, !.pos = b.pos] \in Blocks
      BY <3>1 DEF Blocks
    <3> QED BY <3>2 DEF l
  <2> QED BY <2>2
<1>3. ASSUME NEW i \in DOMAIN bs
      PROVE  /\ new(bs[i]) = IF bs[i].id = b.id THEN Longer(bs[i], b.state) ELSE bs[i]
             /\ new(bs[i]).id = bs[i].id /\ new(bs[i]).round = bs[i].round
             /\ new(bs[i]).attempt = bs[i].attempt /\ new(bs[i]).pos = bs[i].pos
  BY <1>1 DEF Blocks, Longer
<1>4. ~Has(bs, FirstText) => new(Placeholder) = Placeholder
  BY EmptyText
<1> HIDE DEF new
<1>5. f \in [Blocks -> Blocks] /\ \A c \in Blocks : f[c] = new(c)
  BY <1>2
<1> HIDE DEF f
<1>6. Grown(bs, b) = [i \in DOMAIN bs |-> f[bs[i]]]
  BY <1>1, <1>3, <1>5 DEF Grown
<1>7. \A i \in DOMAIN bs : /\ f[bs[i]].id = bs[i].id /\ f[bs[i]].round = bs[i].round
                           /\ f[bs[i]].attempt = bs[i].attempt /\ f[bs[i]].pos = bs[i].pos
  BY <1>1, <1>3, <1>5
<1>8. ~Has(bs, FirstText) => f[Placeholder] = Placeholder
  BY <1>4, <1>5, EmptyText
<1>9. Alike(Grown(bs, b), bs) /\ Trails(w, Grown(bs, b))
  BY <1>5, <1>6, <1>7, <1>8, TrailsEach
<1>10. w = [i \in DOMAIN v |-> IF v[i].id = b.id THEN grown(v[i]) ELSE v[i]]
  BY <1>1, <1>5 DEF new
<1>11. Has(v, b.id)
  <2>1. Has(WithEmpty(bs), b.id)
    BY EmptyHas
  <2> QED BY <2>1 DEF Trails
<1>12. AppendDelta(v, b) = Ordered(w)
  BY <1>10, <1>11 DEF AppendDelta
<1>13. w \in Seq(Blocks) /\ InOrder(w)
  <2>1. Collection(Grown(bs, b), t, r)
    BY <1>9, AlikeIsCollected
  <2>2. w \in Seq(Blocks)
    BY <1>9, <2>1, TrailsBlocks
  <2>3. InOrder(WithEmpty(Grown(bs, b)))
    BY <2>1, EmptyAtEnd DEF EndsEmpty
  <2> QED BY <1>9, <2>1, <2>2, <2>3 DEF Trails, Collection
<1> HIDE DEF w
<1> QED BY <1>9, <1>12, <1>13, OrderedStays

\* The first text takes the place of the empty one.
LEMMA TrailsFirstText ==
  ASSUME NEW bs, NEW t, NEW r, Collection(bs, t, r), r <= MaxModelRounds, ~Has(bs, FirstText),
         NEW b \in Blocks, b.id = FirstText, b.size = 1
  PROVE  AppendDelta(WithEmpty(bs), b) = CollectorInsert(bs, b)
<1> DEFINE grown(c) == [Longer(c, b.state) EXCEPT !.round = b.round, !.attempt = b.attempt, !.pos = b.pos]
           g == WithEmpty(bs)
           new(c) == IF c.id = b.id THEN grown(c) ELSE c
           w == [i \in DOMAIN g |-> new(g[i])]
<1>1. /\ Len(bs) \in Nat /\ DOMAIN bs = 1..Len(bs) /\ bs \in Seq(Blocks) /\ InOrder(bs)
  BY CollectionParts DEF Collection
<1>2. /\ DOMAIN g = 1..Len(bs) + 1 /\ g[Len(bs) + 1] = Placeholder
      /\ \A i \in 1..Len(bs) : g[i] = bs[i]
  BY EmptyAtEnd DEF EndsEmpty
<1>3. grown(Placeholder) = b
  <2> DEFINE l == Longer(Placeholder, b.state)
             q == grown(Placeholder)
  <2>1. l \in Blocks /\ l.id = FirstText /\ l.size = 1 /\ l.state = b.state
    <3>1. b.state \in States
      BY DEF Blocks
    <3> QED BY <3>1, EmptyText, LongerIs
  <2>2. q = [l EXCEPT !.round = b.round, !.attempt = b.attempt, !.pos = b.pos]
    OBVIOUS
  <2> HIDE DEF l, q
  <2>3. /\ q \in Blocks /\ q.id = b.id /\ q.round = b.round /\ q.attempt = b.attempt /\ q.pos = b.pos
        /\ q.size = b.size /\ q.state = b.state
    BY <2>1, <2>2 DEF Blocks
  <2>4. q = b
    BY <2>3 DEF Blocks
  <2> QED BY <2>4 DEF q
<1>4. \A i \in 1..Len(bs) : bs[i].id # b.id
  BY <1>1 DEF Has, Named
<1> HIDE DEF grown
<1>5. new(Placeholder) = b /\ \A i \in 1..Len(bs) : new(bs[i]) = bs[i]
  BY <1>3, <1>4, EmptyText
<1>6. AppendDelta(g, b) = Ordered(w)
  <2>1. Has(g, b.id)
    BY EmptyHas
  <2> HIDE DEF g
  <2> QED BY <2>1 DEF AppendDelta, grown
<1> HIDE DEF g, new
<1>7. w = Append(bs, b)
  <2>1. \A i \in 1..Len(bs) + 1 : new(g[i]) = Append(bs, b)[i]
    <3>1. \A i \in 1..Len(bs) + 1 : i \in 1..Len(bs) \/ i = Len(bs) + 1
      BY <1>1
    <3> QED BY <1>1, <1>2, <1>5, <3>1
  <2> DEFINE a == Append(bs, b)
  <2>2. a \in Seq(Blocks) /\ Len(a) = Len(bs) + 1
    BY <1>1
  <2> HIDE DEF a
  <2>3. a = [i \in 1..Len(bs) + 1 |-> a[i]]
    BY <1>1, <2>2
  <2>4. w = [i \in 1..Len(bs) + 1 |-> new(g[i])]
    BY <1>2
  <2> HIDE DEF w
  <2> QED BY <2>1, <2>3, <2>4 DEF a
<1> HIDE DEF w
<1> QED BY <1>1, <1>6, <1>7, OrderedInserts DEF g

\* A block that is taken out.
LEMMA TrailsWithout ==
  ASSUME NEW bs, NEW t, NEW r, Collection(bs, t, r), r <= MaxModelRounds, NEW v, Trails(v, bs), NEW id
  PROVE  Trails(Without(v, id), Without(bs, id))
<1> DEFINE kept == {i \in DOMAIN bs : bs[i].id # id}
           g == WithEmpty(bs)
<1>1. /\ Len(bs) \in Nat /\ DOMAIN bs = 1..Len(bs) /\ bs \in Seq(Blocks) /\ Placeholder \in Blocks
      /\ \A i \in kept : i \in 1..Len(bs)
  BY CollectionParts, EmptyText
<1>2. /\ DOMAIN g = 1..Len(bs) + 1 /\ g[Len(bs) + 1] = Placeholder
      /\ \A i \in 1..Len(bs) : g[i] = bs[i]
  BY EmptyAtEnd DEF EndsEmpty
<1>3. \A i : i \in 1..Len(bs) + 1 <=> i \in 1..Len(bs) \/ i = Len(bs) + 1
  BY <1>1
<1>4. CASE v = bs
  BY <1>4 DEF Trails
<1>5. CASE v = g /\ ~Has(bs, FirstText) /\ id # FirstText
  <2>1. \A i : i \in {j \in DOMAIN g : g[j].id # id} <=> i \in kept \cup {Len(bs) + 1}
    BY <1>1, <1>2, <1>3, <1>5, EmptyText
  <2>2. {j \in DOMAIN g : g[j].id # id} = kept \cup {Len(bs) + 1}
    BY <2>1
  <2>3. Without(v, id) = Only(Append(bs, Placeholder), kept \cup {Len(bs) + 1})
    BY <1>5, <2>2 DEF Without, WithEmpty
  <2>4. Without(bs, id) = Only(bs, kept)
    BY DEF Without
  <2> HIDE DEF kept
  <2>5. Without(v, id) = WithEmpty(Without(bs, id))
    BY <1>1, <2>3, <2>4, OnlyOfLonger DEF WithEmpty
  <2>6. ~Has(Without(bs, id), FirstText)
    <3>1. Within(Without(bs, id), bs)
      BY WithoutIsCollected
    <3> QED BY <1>5, <3>1 DEF Within, Has, Named
  <2> QED BY <2>5, <2>6 DEF Trails
<1>6. CASE v = g /\ ~Has(bs, FirstText) /\ id = FirstText
  <2>1. \A i \in 1..Len(bs) : bs[i].id # id
    BY <1>1, <1>6 DEF Has, Named
  <2>2. \A i : i \in {j \in DOMAIN g : g[j].id # id} <=> i \in kept
    BY <1>1, <1>2, <1>3, <1>6, EmptyText
  <2>3. {j \in DOMAIN g : g[j].id # id} = kept
    BY <2>2
  <2>4. Without(v, id) = Only(Append(bs, Placeholder), kept) /\ Without(bs, id) = Only(bs, kept)
    BY <1>6, <2>3 DEF Without, WithEmpty
  <2> HIDE DEF kept
  <2>5. Without(v, id) = Without(bs, id)
    BY <1>1, <2>4, OnlyOfLonger, ZenonT(40)
  <2> QED BY <2>5 DEF Trails
<1> QED BY <1>4, <1>5, <1>6 DEF Trails

-----------------------------------------------------------------------------
(* The inductive invariant *)

ModelStages == {"asking", "streaming", "judged", "calling", "answered", "over"}
Models == [round : Nat, attempt : Nat, next : Nat, only : BOOLEAN, calls : Seq(Nat),
           text : Nat \cup {NoText}, stage : ModelStages]
EventTypes ==
  {"message.delta", "reasoning.delta", "message.phase.completed", "message.discarded",
   "model.round.completed", "user.intervention", "tool.started", "tool.ended", "tool.produced"}
Events == [type : EventTypes, block : Blocks]

TextsIn(bs) == \E i \in DOMAIN bs : Kind(bs[i]) = "text"

\* A tool that has made an artifact is told already.
ArtifactsFit(bs, m) ==
  \A i \in DOMAIN bs : Kind(bs[i]) = "artifact" /\ bs[i].round = m.round =>
    m.stage = "calling" /\ \A n \in DOMAIN m.calls : m.calls[n] # bs[i].pos

\* Where the runtime is fits what the collector has.
ModelFits(bs, m) ==
  /\ m \in Models /\ m.round <= MaxModelRounds
  /\ ~m.only => m.attempt = 1
  /\ m.only => m.calls = <<>>
  /\ \A k, n \in DOMAIN m.calls : m.calls[k] = m.calls[n] => k = n
  /\ \A n \in DOMAIN m.calls : m.calls[n] < m.next
  /\ m.text # NoText /\ m.stage \in {"asking", "streaming", "judged", "answered"} => TextsIn(bs)
  /\ m.stage = "answered" => m.text # NoText
  /\ ArtifactsFit(bs, m)

\* What the client shows after each of the events it has not applied.
IsChain(V, s, u, bs) ==
  /\ V[0] = s
  /\ \A k \in 1..Len(u) : V[k] = Reduced(V[k - 1], u[k])
  /\ Trails(V[Len(u)], bs)
Reaches(s, u, bs) == \E V : IsChain(V, s, u, bs)

CollectorInv == Collection(collected, texts, model.round) /\ ModelFits(collected, model)
ClientInv ==
  /\ unapplied \in Seq(Events) /\ excused \in BOOLEAN
  /\ ~excused => Reaches(shown, unapplied, collected)
TimelineInv == CollectorInv /\ ClientInv

\* One more event behind.
LEMMA ChainGrows ==
  ASSUME NEW s, NEW u \in Seq(Events), NEW bs, Reaches(s, u, bs), NEW e \in Events, NEW c,
         \A v : Trails(v, bs) => Trails(Reduced(v, e), c)
  PROVE  Reaches(s, Append(u, e), c)
<1>1. PICK V : IsChain(V, s, u, bs)
  BY DEF Reaches
<1> DEFINE n == Len(u)
           x == Append(u, e)
           W == [k \in 0..n + 1 |-> IF k <= n THEN V[k] ELSE Reduced(V[n], e)]
<1>2. n \in Nat /\ Len(x) = n + 1 /\ x[n + 1] = e /\ \A k \in 1..n : x[k] = u[k]
  OBVIOUS
<1>3. /\ V[0] = s /\ Trails(Reduced(V[n], e), c)
      /\ \A k \in 1..n : V[k] = Reduced(V[k - 1], u[k])
  BY <1>1 DEF IsChain
<1> HIDE DEF x, n
<1>4. /\ \A k \in 0..n : W[k] = V[k]
      /\ W[n + 1] = Reduced(V[n], e)
  BY <1>2
<1> HIDE DEF W
<1>5. ASSUME NEW k \in 1..n + 1 PROVE W[k] = Reduced(W[k - 1], x[k])
  <2>1. CASE k \in 1..n
    <3>1. k - 1 \in 0..n /\ k \in 0..n
      BY <1>2, <2>1
    <3> QED BY <1>2, <1>3, <1>4, <2>1, <3>1
  <2>2. CASE k = n + 1
    <3>1. k - 1 = n /\ n \in 0..n
      BY <1>2, <2>2
    <3> QED BY <1>2, <1>4, <2>2, <3>1
  <2> QED BY <1>2, <2>1, <2>2
<1>6. W[0] = s
  <2>1. 0 \in 0..n
    BY <1>2
  <2> QED BY <1>3, <1>4, <2>1
<1>7. Trails(W[Len(x)], c)
  BY <1>2, <1>3, <1>4
<1>8. IsChain(W, s, x, c)
  BY <1>2, <1>5, <1>6, <1>7 DEF IsChain
<1> QED BY <1>8 DEF Reaches, x

\* The first of them is applied.
LEMMA ChainShifts ==
  ASSUME NEW s, NEW u \in Seq(Events), u # <<>>, NEW bs, Reaches(s, u, bs)
  PROVE  Reaches(Reduced(s, Head(u)), Tail(u), bs)
<1>1. PICK V : IsChain(V, s, u, bs)
  BY DEF Reaches
<1> DEFINE n == Len(u) - 1
           x == Tail(u)
           W == [k \in 0..n |-> V[k + 1]]
<1>2. n \in Nat /\ Len(u) = n + 1 /\ Len(x) = n /\ Head(u) = u[1] /\ \A k \in 1..n : x[k] = u[k + 1]
  OBVIOUS
<1>3. /\ V[0] = s /\ Trails(V[n + 1], bs)
      /\ \A k \in 1..n + 1 : V[k] = Reduced(V[k - 1], u[k])
  BY <1>1, <1>2 DEF IsChain
<1> HIDE DEF x, n
<1>4. \A k \in 0..n : W[k] = V[k + 1]
  OBVIOUS
<1> HIDE DEF W
<1>5. ASSUME NEW k \in 1..n PROVE W[k] = Reduced(W[k - 1], x[k])
  <2>1. k - 1 \in 0..n /\ k \in 0..n /\ k + 1 \in 1..n + 1 /\ (k + 1) - 1 = k /\ (k - 1) + 1 = k
    BY <1>2
  <2>2. V[k + 1] = Reduced(V[k], u[k + 1])
    BY <1>3, <2>1
  <2> QED BY <1>2, <1>4, <2>1, <2>2
<1>6. W[0] = Reduced(s, Head(u))
  <2>1. 0 \in 0..n /\ 1 \in 1..n + 1 /\ 1 - 1 = 0 /\ 0 + 1 = 1
    BY <1>2
  <2>2. V[1] = Reduced(V[0], u[1])
    BY <1>3, <2>1
  <2> QED BY <1>2, <1>3, <1>4, <2>1, <2>2
<1>7. Trails(W[Len(x)], bs)
  <2>1. n \in 0..n
    BY <1>2
  <2> QED BY <1>2, <1>3, <1>4, <2>1
<1>8. IsChain(W, Reduced(s, Head(u)), x, bs)
  BY <1>2, <1>5, <1>6, <1>7 DEF IsChain
<1> QED BY <1>8 DEF Reaches, x

\* Nothing is behind.
LEMMA ChainStarts ==
  ASSUME NEW s, NEW bs
  PROVE  Reaches(s, <<>>, bs) <=> Trails(s, bs)
<1>1. Len(<<>>) = 0 /\ \A k : k \notin 1..0
  OBVIOUS
<1>2. ASSUME Trails(s, bs) PROVE Reaches(s, <<>>, bs)
  <2> DEFINE W == [k \in {0} |-> s]
  <2>1. W[0] = s
    OBVIOUS
  <2> HIDE DEF W
  <2>2. IsChain(W, s, <<>>, bs)
    BY <1>1, <1>2, <2>1 DEF IsChain
  <2> QED BY <2>2 DEF Reaches
<1>3. ASSUME Reaches(s, <<>>, bs) PROVE Trails(s, bs)
  <2>1. PICK V : IsChain(V, s, <<>>, bs)
    BY <1>3 DEF Reaches
  <2> QED BY <1>1, <2>1 DEF IsChain
<1> QED BY <1>2, <1>3

\* A step that publishes an event: the client comes to show the collector's new blocks.
LEMMA PublishKeeps ==
  ASSUME ClientInv, NEW bs, NEW type \in EventTypes, NEW b \in Blocks, Publish(bs, type, b),
         \A v : Trails(v, collected) => Trails(Reduced(v, [type |-> type, block |-> b]), bs)
  PROVE  ClientInv' /\ collected' = bs
<1> DEFINE e == [type |-> type, block |-> b]
<1>1. e \in Events
  BY DEF Events
<1>2. /\ collected' = bs /\ unapplied' = Append(unapplied, e) /\ shown' = shown /\ excused' = excused
      /\ unapplied \in Seq(Events)
  BY DEF Publish, ClientInv
<1>3. \A v : Trails(v, collected) => Trails(Reduced(v, e), bs)
  OBVIOUS
<1> HIDE DEF e
<1>4. unapplied' \in Seq(Events)
  BY <1>1, <1>2
<1>5. ~excused => Reaches(shown, unapplied', bs)
  BY <1>1, <1>2, <1>3, ChainGrows DEF ClientInv
<1> QED BY <1>2, <1>4, <1>5 DEF ClientInv

-----------------------------------------------------------------------------
(* What the steps are made of *)

\* The parts of a state that the steps use.
CollectorParts ==
  /\ Collection(collected, texts, model.round) /\ collected \in Seq(Blocks)
  /\ DOMAIN collected = 1..Len(collected) /\ Len(collected) \in Nat
  /\ \A i \in DOMAIN collected : collected[i] \in Blocks
  /\ texts \in Nat /\ model.round \in Nat /\ model.round <= MaxModelRounds
  /\ model.attempt \in Nat /\ model.next \in Nat /\ model.only \in BOOLEAN
  /\ model.calls \in Seq(Nat) /\ model.text \in Nat \cup {NoText} /\ model.stage \in ModelStages

\* The invariant gives these parts.
LEMMA CollectorHas ==
  ASSUME CollectorInv
  PROVE  CollectorParts
<1>1. Collection(collected, texts, model.round) /\ model \in Models /\ model.round <= MaxModelRounds
  BY DEF CollectorInv, ModelFits
<1>2. collected \in Seq(Blocks) /\ DOMAIN collected = 1..Len(collected) /\ Len(collected) \in Nat
      /\ \A i \in DOMAIN collected : collected[i] \in Blocks
  BY <1>1, CollectionParts
<1> QED BY <1>1, <1>2 DEF CollectorParts, Collection, Models

\* A block that is written now.
LEMMA DraftedIs ==
  ASSUME CollectorParts, NEW id \in BlockIds, NEW pos \in Nat, NEW s \in States, NEW b, b = Drafted(id, pos, s)
  PROVE  /\ b \in Blocks /\ b.id = id /\ b.round = model.round /\ b.attempt = model.attempt
         /\ b.pos = pos /\ b.size = 1 /\ b.state = s
BY DEF CollectorParts, Drafted, Block, Blocks

\* The kinds and places that blocks come with.
Stems(c, bs, b) ==
  /\ \A n \in DOMAIN c :
       \/ c[n] = b
       \/ \E i \in DOMAIN bs : Kind(c[n]) = Kind(bs[i]) /\ c[n].round = bs[i].round /\ c[n].pos = bs[i].pos
  /\ TextsIn(bs) => TextsIn(c)

\* Blocks that change in size and state only are where they were.
LEMMA AlikeStems ==
  ASSUME NEW bs, NEW t, NEW r, Collection(bs, t, r), NEW c, Alike(c, bs), NEW b
  PROVE  Stems(c, bs, b)
<1>1. DOMAIN bs = 1..Len(bs) /\ DOMAIN c = 1..Len(bs)
  BY CollectionParts DEF Alike
<1>2. \A i \in DOMAIN bs : Kind(c[i]) = Kind(bs[i]) /\ c[i].round = bs[i].round /\ c[i].pos = bs[i].pos
  BY <1>1 DEF Alike, Kind
<1> QED BY <1>1, <1>2 DEF Stems, TextsIn

\* A block that is no artifact leaves the model where it was.
LEMMA StemsFit ==
  ASSUME NEW bs, NEW m, ModelFits(bs, m), NEW c, NEW b, Stems(c, bs, b), Kind(b) # "artifact"
  PROVE  ModelFits(c, m)
<1>1. ArtifactsFit(c, m)
  BY DEF ModelFits, ArtifactsFit, Stems
<1>2. TextsIn(bs) => TextsIn(c)
  BY DEF Stems
<1> QED BY <1>1, <1>2 DEF ModelFits

\* A new block.
LEMMA InsertedStems ==
  ASSUME NEW bs, NEW t, NEW r, Collection(bs, t, r), NEW b \in Blocks, Fits(b, t, r),
         ~Has(bs, b.id), Kind(b) = "text" => \A i \in DOMAIN bs : ~SamePlace(bs[i], b),
         NEW c, c = CollectorInsert(bs, b)
  PROVE  Collection(c, t, r) /\ Stems(c, bs, b)
<1>1. /\ Collection(c, t, r) /\ Within(bs, c)
      /\ \A n \in DOMAIN c : c[n] = b \/ \E i \in DOMAIN bs : bs[i] = c[n]
  BY InsertedIsCollected
<1> QED BY <1>1 DEF Stems, TextsIn, Within

\* The block of a delta is the one at its place, or new.
AtItsPlace(bs, b) == \A i \in DOMAIN bs : SamePlace(bs[i], b) <=> bs[i].id = b.id

\* Collector and client put a delta into the same block, or insert the same one.
LEMMA DeltaIsCollected ==
  ASSUME NEW bs, NEW t, NEW r, Collection(bs, t, r), r <= MaxModelRounds,
         NEW b \in Blocks, Fits(b, t, r), b.size = 1, AtItsPlace(bs, b)
  PROVE  /\ Collection(CollectDelta(bs, b), t, r) /\ Stems(CollectDelta(bs, b), bs, b)
         /\ Has(CollectDelta(bs, b), b.id)
         /\ \A v : Trails(v, bs) => Trails(AppendDelta(v, b), CollectDelta(bs, b))
<1> DEFINE c == CollectDelta(bs, b)
           here == {i \in DOMAIN bs : SamePlace(bs[i], b)}
<1>1. here = Named(bs, b.id)
  BY DEF AtItsPlace, Named
<1>2. c = IF here = {} THEN CollectorInsert(bs, b)
          ELSE [i \in DOMAIN bs |-> IF i \in here THEN Longer(bs[i], b.state) ELSE bs[i]]
  BY DEF CollectDelta
<1> HIDE DEF c
<1>3. CASE Has(bs, b.id)
  <2>1. c = [i \in DOMAIN bs |-> IF i \in here THEN Longer(bs[i], b.state) ELSE bs[i]]
    BY <1>1, <1>2, <1>3 DEF Has
  <2>2. c = Grown(bs, b)
    BY <1>1, <2>1 DEF Grown, Named
  <2>3. \A i \in DOMAIN bs : bs[i].id = b.id =>
          bs[i].round = b.round /\ bs[i].attempt = b.attempt /\ bs[i].pos = b.pos
    BY DEF AtItsPlace, SamePlace
  <2>4. \A v : Trails(v, bs) => Alike(c, bs) /\ Trails(AppendDelta(v, b), c)
    BY <1>3, <2>2, <2>3, TrailsGrown
  <2>5. Alike(c, bs)
    BY <2>4 DEF Trails
  <2>6. Collection(c, t, r) /\ Stems(c, bs, b) /\ Has(c, b.id)
    BY <1>3, <2>5, AlikeIsCollected, AlikeStems, AlikeHas
  <2> QED BY <2>4, <2>6 DEF c
<1>4. CASE ~Has(bs, b.id)
  <2>1. c = CollectorInsert(bs, b) /\ \A i \in DOMAIN bs : ~SamePlace(bs[i], b)
    BY <1>1, <1>2, <1>4 DEF Has
  <2>2. Collection(c, t, r) /\ Stems(c, bs, b)
    BY <1>4, <2>1, InsertedStems
  <2>3. Has(c, b.id)
    BY <2>1, InsertHas
  <2>4. b.round <= r
    BY DEF Fits
  <2>5. ASSUME NEW v, Trails(v, bs) PROVE Trails(AppendDelta(v, b), c)
    <3>1. CASE b.id # FirstText
      <4>1. ~Has(v, b.id) /\ Trails(InsertOrdered(v, b), c)
        BY <1>4, <2>1, <2>4, <2>5, <3>1, TrailsInserted
      <4>2. AppendDelta(v, b) = InsertOrdered(v, b)
        BY <4>1, Zenon DEF AppendDelta
      <4> QED BY <4>1, <4>2
    <3>2. CASE b.id = FirstText /\ v = bs
      <4>1. AppendDelta(v, b) = InsertOrdered(v, b)
        BY <1>4, <3>2, Zenon DEF AppendDelta
      <4>2. InsertOrdered(bs, b) = CollectorInsert(bs, b)
        BY DEF InsertOrdered, CollectorInsert
      <4> QED BY <2>1, <3>2, <4>1, <4>2 DEF Trails
    <3>3. CASE b.id = FirstText /\ v = WithEmpty(bs)
      <4>1. AppendDelta(v, b) = c
        BY <1>4, <2>1, <3>3, TrailsFirstText
      <4> QED BY <4>1 DEF Trails
    <3> QED BY <2>5, <3>1, <3>2, <3>3 DEF Trails
  <2> QED BY <2>2, <2>3, <2>5 DEF c
<1> QED BY <1>3, <1>4

\* What the event of a delta does.
LEMMA DeltaReduced ==
  ASSUME NEW v, NEW b, NEW type \in {"message.delta", "reasoning.delta"}
  PROVE  Reduced(v, [type |-> type, block |-> b]) = AppendDelta(v, b)
BY DEF Reduced

\* What the other events do.
LEMMA OthersReduced ==
  ASSUME NEW v, NEW b
  PROVE  /\ Reduced(v, [type |-> "message.phase.completed", block |-> b]) = WithState(v, b.id, b.state)
         /\ Reduced(v, [type |-> "message.discarded", block |-> b]) = Without(v, b.id)
         /\ Reduced(v, [type |-> "model.round.completed", block |-> b]) = ReasoningDone(v, b.round)
         /\ Reduced(v, [type |-> "user.intervention", block |-> b]) = InsertOnce(v, b)
         /\ Reduced(v, [type |-> "tool.started", block |-> b]) = InsertOnce(v, b)
         /\ Reduced(v, [type |-> "tool.ended", block |-> b]) = ToolEnded(v, b)
         /\ Reduced(v, [type |-> "tool.produced", block |-> b]) = ToolProduced(v, b)
BY DEF Reduced

\* The model has written at a place.
LEMMA AdvancedFits ==
  ASSUME CollectorParts, ModelFits(collected, model), Writing, NEW pos \in Nat
  PROVE  ModelFits(collected, Advanced(pos)) /\ Advanced(pos).round = model.round
<1>1. /\ Advanced(pos) \in Models /\ Advanced(pos).round = model.round
      /\ Advanced(pos).only = model.only /\ Advanced(pos).attempt = model.attempt
      /\ Advanced(pos).calls = model.calls /\ Advanced(pos).text = model.text
      /\ Advanced(pos).stage = "streaming" /\ Advanced(pos).next >= model.next
  <2> DEFINE n == IF pos = model.next THEN model.next + 1 ELSE model.next
  <2>1. n \in Nat /\ n >= model.next
    BY SMTT(20) DEF CollectorParts
  <2>2. Advanced(pos) = [model EXCEPT !.next = n, !.stage = "streaming"] /\ model \in Models
    BY DEF Advanced, ModelFits
  <2> DEFINE a == Advanced(pos)
  <2> HIDE DEF n, a
  <2>3. a = [model EXCEPT !.next = n, !.stage = "streaming"]
    BY <2>2 DEF a
  <2>4. a \in Models
    BY <2>1, <2>2, <2>3 DEF Models, ModelStages
  <2>5. /\ a.round = model.round /\ a.only = model.only /\ a.attempt = model.attempt
        /\ a.calls = model.calls /\ a.text = model.text /\ a.stage = "streaming" /\ a.next = n
    BY <2>2, <2>3 DEF Models
  <2> QED BY <2>1, <2>4, <2>5 DEF a
<1>2. \A n \in DOMAIN model.calls : model.calls[n] \in Nat
  BY DEF CollectorParts
<1>3. \A n \in DOMAIN model.calls : model.calls[n] < Advanced(pos).next
  BY <1>1, <1>2 DEF ModelFits, Models
<1>4. model.stage \in {"asking", "streaming"}
  BY DEF Writing
<1> HIDE DEF Advanced
<1>5. ArtifactsFit(collected, Advanced(pos))
  BY <1>1, <1>4 DEF ModelFits, ArtifactsFit
<1> QED BY <1>1, <1>3, <1>4, <1>5 DEF ModelFits

\* A round has nothing yet.
LEMMA NewRoundFits ==
  ASSUME NEW bs, NEW t, NEW r, Collection(bs, t, r), r + 1 <= MaxModelRounds, NEW only \in BOOLEAN
  PROVE  /\ Collection(bs, t, r + 1) /\ ModelFits(bs, NewRound(r + 1, only))
         /\ NewRound(r + 1, only).round = r + 1
<1> DEFINE m == NewRound(r + 1, only)
<1>1. r \in Nat /\ t \in Nat /\ \A i \in DOMAIN bs : bs[i] \in Blocks /\ bs[i].round <= r
  BY CollectionParts DEF Collection, Fits
<1>2. Collection(bs, t, r + 1)
  BY <1>1, CollectionLater
<1>3. /\ m \in Models /\ m.round = r + 1 /\ m.attempt = 1 /\ m.calls = <<>> /\ m.text = NoText
      /\ m.stage = "asking"
  <2> DEFINE q == r + 1
  <2>1. q \in Nat /\ 1 \in Nat /\ 0 \in Nat /\ <<>> \in Seq(Nat) /\ NoText \in Nat \cup {NoText}
    BY <1>1
  <2>2. m = [round |-> q, attempt |-> 1, next |-> 0, only |-> only, calls |-> <<>>, text |-> NoText,
             stage |-> "asking"]
    BY DEF NewRound
  <2> HIDE DEF m, q
  <2>3. m \in Models
    BY <2>1, <2>2 DEF Models, ModelStages
  <2> QED BY <2>2, <2>3 DEF q
<1> HIDE DEF m
<1>4. ArtifactsFit(bs, m)
  <2>1. \A i \in DOMAIN bs : bs[i].round # m.round
    BY <1>1, <1>3 DEF Blocks
  <2> QED BY <2>1 DEF ArtifactsFit
<1> QED BY <1>2, <1>3, <1>4 DEF ModelFits, m

-----------------------------------------------------------------------------
(* The steps, one by one *)

\* user.intervention
LEMMA InterveneKeeps ==
  ASSUME TimelineInv, Intervene
  PROVE  TimelineInv'
<1> DEFINE id == <<"intervention", model.round>>
           b == Block(id, model.round, 0, 0, 1, "none")
           c == CollectorInsert(collected, b)
<1>1. CollectorParts /\ ModelFits(collected, model) /\ ClientInv
  BY CollectorHas DEF TimelineInv, CollectorInv
<1>2. /\ b \in Blocks /\ b.id = id /\ b.round = model.round /\ Kind(b) = "intervention"
      /\ Fits(b, texts, model.round)
  BY <1>1 DEF CollectorParts, Blocks, BlockIds, Block, Kind, Fits, States
<1>3. b.id # FirstText
  BY <1>2, EmptyText DEF Kind
<1>4. ~Has(collected, b.id) /\ Publish(c, "user.intervention", b) /\ texts' = texts /\ model' = model
  BY <1>2 DEF Intervene
<1> HIDE DEF b, id
<1>5. Collection(c, texts, model.round) /\ Stems(c, collected, b)
  BY <1>1, <1>2, <1>4, InsertedStems DEF CollectorParts
<1>6. ASSUME NEW v, Trails(v, collected)
      PROVE  Trails(Reduced(v, [type |-> "user.intervention", block |-> b]), c)
  <2>1. ~Has(v, b.id) /\ Trails(InsertOrdered(v, b), c)
    BY <1>1, <1>2, <1>3, <1>4, <1>6, TrailsInserted DEF CollectorParts
  <2>2. InsertOnce(v, b) = InsertOrdered(v, b)
    BY <2>1, Zenon DEF InsertOnce
  <2> QED BY <2>1, <2>2, OthersReduced
<1> HIDE DEF c
<1>7. ClientInv' /\ collected' = c
  BY <1>1, <1>2, <1>4, <1>6, PublishKeeps DEF EventTypes
<1>8. ModelFits(c, model)
  BY <1>1, <1>2, <1>5, StemsFit
<1> QED BY <1>4, <1>5, <1>7, <1>8 DEF TimelineInv, CollectorInv

\* What a delta of a new text, or of reasoning, keeps.
LEMMA DeltaKeeps ==
  ASSUME TimelineInv, NEW b \in Blocks, NEW t \in Nat, texts <= t, Fits(b, t, model.round), b.size = 1,
         AtItsPlace(collected, b), Kind(b) # "artifact", NEW type \in {"message.delta", "reasoning.delta"},
         Publish(CollectDelta(collected, b), type, b), texts' = t,
         NEW m, ModelFits(collected, m), m.round = model.round,
         \/ model' = m
         \/ Kind(b) = "text" /\ \E n \in Nat : model' = [m EXCEPT !.text = n]
  PROVE  TimelineInv' /\ Has(collected', b.id)
<1> DEFINE c == CollectDelta(collected, b)
<1>1. CollectorParts /\ ClientInv
  BY CollectorHas DEF TimelineInv
<1>2. Collection(collected, t, model.round)
  BY <1>1, CollectionLater DEF CollectorParts
<1>3. /\ Collection(c, t, model.round) /\ Stems(c, collected, b) /\ Has(c, b.id)
      /\ \A v : Trails(v, collected) => Trails(AppendDelta(v, b), c)
  BY <1>1, <1>2, DeltaIsCollected DEF CollectorParts
<1>4. Publish(c, type, b)
  OBVIOUS
<1> HIDE DEF c
<1>5. \A v : Trails(v, collected) => Trails(Reduced(v, [type |-> type, block |-> b]), c)
  BY <1>3, DeltaReduced
<1>6. type \in EventTypes
  BY DEF EventTypes
<1>7. ClientInv' /\ collected' = c
  BY <1>1, <1>4, <1>5, <1>6, PublishKeeps
<1>8. ModelFits(c, m)
  BY <1>3, StemsFit
<1>9. ModelFits(c, model') /\ model'.round = model.round
  <2>1. CASE model' = m
    BY <1>8, <2>1
  <2>2. ASSUME Kind(b) = "text", NEW n \in Nat, model' = [m EXCEPT !.text = n]
        PROVE  ModelFits(c, model') /\ model'.round = model.round
    <3>1. TextsIn(c)
      BY <1>3, <2>2 DEF Has, Named, TextsIn, Kind
    <3>2. m \in Models /\ n # NoText
      BY <1>8 DEF ModelFits, NoText
    <3> DEFINE w == [m EXCEPT !.text = n]
    <3>3. /\ w \in Models /\ w.round = m.round /\ w.attempt = m.attempt /\ w.next = m.next
          /\ w.only = m.only /\ w.calls = m.calls /\ w.stage = m.stage /\ w.text # NoText
      BY <3>2 DEF Models
    <3> HIDE DEF w
    <3>4. ArtifactsFit(c, w)
      BY <1>8, <3>3 DEF ModelFits, ArtifactsFit
    <3>5. ModelFits(c, w)
      BY <1>8, <3>1, <3>3, <3>4 DEF ModelFits
    <3> QED BY <2>2, <3>3, <3>5 DEF w
  <2> QED BY <2>1, <2>2
<1> QED BY <1>3, <1>7, <1>9 DEF TimelineInv, CollectorInv

\* The places of the blocks the model writes.
LEMMA PlacesAre ==
  ASSUME CollectorParts, NEW kind, NEW pos \in Places(kind)
  PROVE  pos \in Nat
<1>1. pos = model.next \/ \E i \in DOMAIN collected : pos = collected[i].pos
  BY DEF Places, Opened
<1> QED BY <1>1 DEF CollectorParts, Blocks

\* reasoning.delta
LEMMA ThinkKeeps ==
  ASSUME TimelineInv, Think
  PROVE  TimelineInv'
<1>1. CollectorParts /\ ModelFits(collected, model) /\ Collection(collected, texts, model.round)
  BY CollectorHas DEF TimelineInv, CollectorInv
<1>2. PICK pos \in Places("reasoning") :
        LET b == Drafted(<<"reasoning", model.round, pos>>, pos, "none")
        IN /\ Publish(CollectDelta(collected, b), "reasoning.delta", b)
           /\ model' = Advanced(pos)
  BY DEF Think
<1> DEFINE id == <<"reasoning", model.round, pos>>
           b == Drafted(id, pos, "none")
<1>3. pos \in Nat
  BY <1>1, PlacesAre
<1>4. id \in BlockIds /\ "none" \in States /\ id[1] = "reasoning"
  BY <1>1, <1>3 DEF CollectorParts, BlockIds, States
<1>5. /\ b \in Blocks /\ b.id = id /\ b.round = model.round /\ b.attempt = model.attempt
      /\ b.pos = pos /\ b.size = 1
  <2> HIDE DEF id
  <2> QED BY <1>1, <1>3, <1>4, DraftedIs
<1>6. /\ Publish(CollectDelta(collected, b), "reasoning.delta", b) /\ model' = Advanced(pos)
      /\ ~model.only /\ Writing /\ texts' = texts
  BY <1>2 DEF Think
<1>7. model.attempt = 1
  BY <1>1, <1>6 DEF ModelFits
<1> HIDE DEF b
<1>8. Kind(b) = "reasoning" /\ Fits(b, texts, model.round)
  BY <1>1, <1>4, <1>5, <1>7 DEF Fits, Kind, CollectorParts
<1>9. AtItsPlace(collected, b)
  <2>1. ASSUME NEW i \in DOMAIN collected PROVE SamePlace(collected[i], b) <=> collected[i].id = b.id
    <3>1. Fits(collected[i], texts, model.round)
      BY <1>1 DEF Collection
    <3>2. SamePlace(collected[i], b) => collected[i].id = b.id
      BY <1>5, <1>8, <3>1 DEF SamePlace, Fits
    <3>3. ASSUME collected[i].id = b.id PROVE SamePlace(collected[i], b)
      <4>1. Kind(collected[i]) = "reasoning"
        BY <1>4, <1>5, <3>3 DEF Kind
      <4>2. collected[i].id = <<"reasoning", collected[i].round, collected[i].pos>> /\ collected[i].attempt = 1
        BY <3>1, <4>1 DEF Fits
      <4>3. collected[i].round = model.round /\ collected[i].pos = pos
        BY <1>5, <3>3, <4>2
      <4> QED BY <1>5, <1>7, <1>8, <4>1, <4>2, <4>3 DEF SamePlace
    <3> QED BY <3>2, <3>3
  <2> QED BY <2>1 DEF AtItsPlace
<1>10. ModelFits(collected, Advanced(pos)) /\ Advanced(pos).round = model.round
  BY <1>1, <1>3, <1>6, AdvancedFits
<1>11. texts \in Nat /\ texts <= texts
  BY <1>1 DEF CollectorParts
<1> HIDE DEF Advanced
<1> QED BY <1>5, <1>6, <1>8, <1>9, <1>10, <1>11, DeltaKeeps

\* The number of the text at a place is its own.
TextHere(c, pos) ==
  Kind(c) = "text" /\ c.round = model.round /\ c.attempt = model.attempt /\ c.pos = pos

\* A text that is written is the one at its place, or has the next number.
LEMMA TextAtIs ==
  ASSUME CollectorParts, NEW pos \in Nat, NEW id, id = TextAt(pos)
  PROVE  /\ id \in BlockIds /\ id[1] = "text"
         /\ id[2] <= IF Has(collected, id) THEN texts ELSE texts + 1
         /\ \A i \in DOMAIN collected : TextHere(collected[i], pos) <=> collected[i].id = id
<1> DEFINE d == Drafted(<<"text", 0>>, pos, "none")
           known == {i \in DOMAIN collected : SamePlace(collected[i], d)}
<1>1. /\ collected \in Seq(Blocks) /\ texts \in Nat /\ model.round \in Nat
      /\ DOMAIN collected = 1..Len(collected) /\ Len(collected) \in Nat
      /\ \A i \in DOMAIN collected : collected[i] \in Blocks /\ Fits(collected[i], texts, model.round)
      /\ OwnIds(collected) /\ OwnPlaces(collected)
  BY DEF CollectorParts, Collection
<1>2. Kind(d) = "text" /\ d.round = model.round /\ d.attempt = model.attempt /\ d.pos = pos
  BY DEF Drafted, Block, Kind
<1>3. id = IF known = {} THEN <<"text", texts + 1>> ELSE collected[Min(known)].id
  BY DEF TextAt
<1> HIDE DEF d
<1>4. \A i \in DOMAIN collected : TextHere(collected[i], pos) <=> i \in known
  BY <1>2 DEF SamePlace, TextHere
<1>5. CASE known = {}
  <2> DEFINE n == texts + 1
  <2>1. id = <<"text", n>> /\ n \in Nat /\ ~(n <= texts)
    BY <1>1, <1>3, <1>5
  <2> HIDE DEF n
  <2>2. id \in BlockIds /\ id[1] = "text" /\ id[2] = n
    BY <2>1 DEF BlockIds
  <2>3. ASSUME NEW i \in DOMAIN collected PROVE collected[i].id # id
    <3>1. Kind(collected[i]) = "text" => collected[i].id[2] <= texts
      BY <1>1 DEF Fits
    <3> QED BY <2>1, <2>2, <3>1 DEF Kind
  <2>4. ~Has(collected, id)
    BY <2>3 DEF Has, Named
  <2>5. \A i \in DOMAIN collected : ~TextHere(collected[i], pos)
    BY <1>4, <1>5
  <2>6. id[2] <= texts + 1
    BY <1>1, <2>2 DEF n
  <2> QED BY <2>2, <2>3, <2>4, <2>5, <2>6
<1>6. CASE known # {}
  <2> DEFINE k == Min(known)
  <2>1. k \in known
    <3>1. known \subseteq Nat
      BY <1>1
    <3> HIDE DEF known
    <3> QED BY <1>6, <3>1, LeastOf
  <2>2. k \in DOMAIN collected /\ SamePlace(collected[k], d) /\ id = collected[k].id
    BY <1>3, <1>6, <2>1
  <2> HIDE DEF k
  <2>3. Kind(collected[k]) = "text" /\ Has(collected, id) /\ collected[k] \in Blocks
    BY <1>1, <1>2, <2>2 DEF SamePlace, Has, Named
  <2>4. id \in BlockIds /\ id[1] = "text" /\ id[2] <= texts
    <3>1. id \in BlockIds /\ id[1] = "text"
      BY <2>2, <2>3 DEF Blocks, Kind
    <3>2. Fits(collected[k], texts, model.round)
      BY <1>1, <2>2
    <3> QED BY <2>2, <2>3, <3>1, <3>2 DEF Fits
  <2>5. ASSUME NEW i \in DOMAIN collected PROVE i \in known <=> collected[i].id = id
    <3>1. i \in known => Kind(collected[i]) = "text" /\ SamePlace(collected[i], collected[k])
      BY <1>2, <2>2 DEF SamePlace
    <3>2. i \in known => i = k
      BY <1>1, <2>2, <3>1 DEF OwnPlaces
    <3>3. collected[i].id = id => i = k
      BY <1>1, <2>2 DEF OwnIds
    <3> QED BY <2>1, <2>2, <3>2, <3>3
  <2> HIDE DEF known
  <2> QED BY <1>4, <2>3, <2>4, <2>5
<1> QED BY <1>5, <1>6

\* text.delta
LEMMA WriteKeeps ==
  ASSUME TimelineInv, Write
  PROVE  TimelineInv'
<1>1. CollectorParts /\ ModelFits(collected, model)
  BY CollectorHas DEF TimelineInv, CollectorInv
<1>2. PICK pos \in Places("text"), phase \in {"none", "pending"} :
        LET b == Drafted(TextAt(pos), pos, phase)
        IN /\ Publish(CollectDelta(collected, b), "message.delta", b)
           /\ texts' = IF Has(collected, b.id) THEN texts ELSE texts + 1
           /\ model' = [Advanced(pos) EXCEPT !.text = pos]
  BY DEF Write
<1> DEFINE id == TextAt(pos)
           b == Drafted(id, pos, phase)
           t == IF Has(collected, b.id) THEN texts ELSE texts + 1
           a == Advanced(pos)
           m == [a EXCEPT !.text = pos]
<1>3. pos \in Nat /\ phase \in States
  BY <1>1, PlacesAre DEF States
<1>4. /\ id \in BlockIds /\ id[1] = "text"
      /\ id[2] <= IF Has(collected, id) THEN texts ELSE texts + 1
      /\ \A i \in DOMAIN collected : TextHere(collected[i], pos) <=> collected[i].id = id
  BY <1>1, <1>3, TextAtIs
<1> HIDE DEF id
<1>5. /\ b \in Blocks /\ b.id = id /\ b.round = model.round /\ b.attempt = model.attempt
      /\ b.pos = pos /\ b.size = 1
  BY <1>1, <1>3, <1>4, DraftedIs
<1>6. /\ Publish(CollectDelta(collected, b), "message.delta", b) /\ texts' = t /\ model' = m /\ Writing
  BY <1>2 DEF Write, id
<1> HIDE DEF b
<1>7. Kind(b) = "text" /\ AtItsPlace(collected, b)
  <2>1. Kind(b) = "text"
    BY <1>4, <1>5 DEF Kind
  <2>2. \A i \in DOMAIN collected : SamePlace(collected[i], b) <=> TextHere(collected[i], pos)
    BY <1>5, <2>1 DEF SamePlace, TextHere
  <2> QED BY <1>4, <1>5, <2>1, <2>2 DEF AtItsPlace
<1>8. t \in Nat /\ texts <= t /\ b.id[2] <= t
  BY <1>1, <1>4, <1>5 DEF CollectorParts
<1> HIDE DEF t
<1>9. Fits(b, t, model.round)
  BY <1>1, <1>5, <1>7, <1>8 DEF Fits, CollectorParts
<1>10. ModelFits(collected, a) /\ a.round = model.round
  BY <1>1, <1>3, <1>6, AdvancedFits
<1> HIDE DEF a
<1>11. \E n \in Nat : model' = [a EXCEPT !.text = n]
  BY <1>3, <1>6
<1>12. Kind(b) # "artifact"
  BY <1>7
<1> HIDE DEF m
<1> QED BY <1>5, <1>6, <1>7, <1>8, <1>9, <1>10, <1>11, <1>12, DeltaKeeps

\* A tool call takes its place.
LEMMA DeclareKeeps ==
  ASSUME TimelineInv, DeclareCall
  PROVE  TimelineInv'
<1> DEFINE n == model.next
           a == Advanced(n)
           m == [a EXCEPT !.calls = Append(@, n)]
<1>1. CollectorParts /\ ModelFits(collected, model) /\ ClientInv
  BY CollectorHas DEF TimelineInv, CollectorInv
<1>2. /\ Writing /\ ~model.only /\ model' = m
      /\ UNCHANGED <<collected, texts, sent, unapplied, shown, excused>>
  BY DEF DeclareCall
<1>3. ModelFits(collected, a) /\ a.round = model.round /\ a.calls = model.calls /\ a.only = model.only
      /\ a.next = n + 1 /\ a.stage = "streaming"
  <2>1. n \in Nat
    BY <1>1 DEF CollectorParts
  <2>2. ModelFits(collected, a) /\ a.round = model.round
    BY <1>1, <1>2, <2>1, AdvancedFits
  <2>3. model \in Models
    BY <1>1 DEF ModelFits
  <2> QED BY <2>2, <2>3 DEF Advanced, Models
<1> DEFINE cs == Append(model.calls, n)
<1>4. /\ model.calls \in Seq(Nat) /\ n \in Nat
      /\ \A k \in DOMAIN model.calls : model.calls[k] < n
      /\ \A k, l \in DOMAIN model.calls : model.calls[k] = model.calls[l] => k = l
  BY <1>1 DEF CollectorParts, ModelFits
<1>5. /\ cs \in Seq(Nat) /\ \A k \in DOMAIN cs : cs[k] < n + 1
      /\ \A k, l \in DOMAIN cs : cs[k] = cs[l] => k = l
  <2>1. cs \in Seq(Nat) /\ Len(cs) = Len(model.calls) + 1 /\ Len(model.calls) \in Nat
    BY <1>4
  <2>2. \A k \in DOMAIN cs : \/ k = Len(cs) /\ cs[k] = n
                             \/ k \in DOMAIN model.calls /\ cs[k] = model.calls[k]
    BY <1>4, <2>1
  <2>3. \A k \in DOMAIN model.calls : model.calls[k] \in Nat
    BY <1>4
  <2>4. ASSUME NEW k \in DOMAIN cs PROVE cs[k] < n + 1
    BY <1>4, <2>2, <2>3
  <2>5. ASSUME NEW k \in DOMAIN cs, NEW l \in DOMAIN cs, cs[k] = cs[l] PROVE k = l
    <3>1. \A j \in DOMAIN model.calls : model.calls[j] # n
      BY <1>4, <2>3
    <3> HIDE DEF cs
    <3> QED BY <1>4, <2>2, <2>5, <3>1
  <2> QED BY <2>1, <2>4, <2>5
<1>6. m = [a EXCEPT !.calls = cs]
  BY <1>3
<1> HIDE DEF a, cs, m, n
<1>7. /\ m \in Models /\ m.round = a.round /\ m.attempt = a.attempt /\ m.next = a.next /\ m.only = a.only
      /\ m.calls = cs /\ m.text = a.text /\ m.stage = a.stage
  BY <1>3, <1>5, <1>6 DEF ModelFits, Models
<1>8. ArtifactsFit(collected, m)
  BY <1>3, <1>7 DEF ModelFits, ArtifactsFit
<1>9. ModelFits(collected, m)
  BY <1>2, <1>3, <1>5, <1>7, <1>8 DEF ModelFits
<1>10. ClientInv'
  BY <1>1, <1>2 DEF ClientInv
<1>11. Collection(collected, texts, m.round)
  BY <1>1, <1>3, <1>7 DEF CollectorParts
<1> QED BY <1>2, <1>9, <1>10, <1>11 DEF TimelineInv, CollectorInv

\* A step that changes the blocks but not their places, and tells the client.
LEMMA AlikeKeeps ==
  ASSUME TimelineInv, NEW c, Alike(c, collected), NEW type \in EventTypes, NEW b \in Blocks,
         Publish(c, type, b), texts' = texts,
         \A v : Trails(v, collected) => Trails(Reduced(v, [type |-> type, block |-> b]), c),
         NEW m, model' = m, m.round = model.round, ModelFits(collected, m)
  PROVE  TimelineInv'
<1>1. CollectorParts /\ ClientInv
  BY CollectorHas DEF TimelineInv
<1>2. Collection(c, texts, model.round) /\ Stems(c, collected, Placeholder)
  BY <1>1, AlikeIsCollected, AlikeStems DEF CollectorParts
<1>3. ModelFits(c, m)
  BY <1>2, EmptyText, StemsFit
<1>4. ClientInv' /\ collected' = c
  BY <1>1, PublishKeeps
<1> QED BY <1>2, <1>3, <1>4 DEF TimelineInv, CollectorInv

\* text.phase.completed
LEMMA SettleKeeps ==
  ASSUME TimelineInv, SettlePhase
  PROVE  TimelineInv'
<1>1. CollectorParts /\ ModelFits(collected, model) /\ model \in Models
  BY CollectorHas DEF TimelineInv, CollectorInv, ModelFits
<1>2. PICK i \in DOMAIN collected, phase \in {"process", "final"} :
        LET b == collected[i]
        IN /\ SamePlace(b, Drafted(<<"text", 0>>, b.pos, "none"))
           /\ Publish(WithState(collected, b.id, phase), "message.phase.completed", [b EXCEPT !.state = phase])
           /\ model' = [model EXCEPT !.text = b.pos]
  BY DEF SettlePhase
<1> DEFINE b == collected[i]
           e == [b EXCEPT !.state = phase]
           c == WithState(collected, b.id, phase)
           n == b.pos
           m == [model EXCEPT !.text = n]
<1>3. b \in Blocks /\ phase \in States /\ Has(collected, b.id) /\ n \in Nat
  BY <1>1 DEF CollectorParts, States, Has, Named, Blocks
<1>4. e \in Blocks /\ e.id = b.id /\ e.state = phase
  BY <1>3 DEF Blocks
<1>5. Publish(c, "message.phase.completed", e) /\ model' = m /\ texts' = texts
  BY <1>2 DEF SettlePhase
<1>6. Kind(b) = "text"
  BY <1>2 DEF SamePlace, Drafted, Block, Kind
<1>7. TextsIn(collected)
  BY <1>6 DEF TextsIn
<1> HIDE DEF b, e, n
<1>8. \A v : Trails(v, collected) => Alike(c, collected) /\ Trails(WithState(v, b.id, phase), c)
  BY <1>1, <1>3, TrailsState DEF CollectorParts
<1>9. Alike(c, collected)
  BY <1>8 DEF Trails
<1> HIDE DEF c
<1>10. \A v : Trails(v, collected) => Trails(Reduced(v, [type |-> "message.phase.completed", block |-> e]), c)
  BY <1>4, <1>8, OthersReduced
<1>11. m.round = model.round /\ ModelFits(collected, m)
  <2>1. /\ m \in Models /\ m.round = model.round /\ m.attempt = model.attempt /\ m.next = model.next
        /\ m.only = model.only /\ m.calls = model.calls /\ m.stage = model.stage /\ m.text = n
    BY <1>1, <1>3 DEF Models
  <2>2. n # NoText
    BY <1>3 DEF NoText
  <2> HIDE DEF m
  <2>3. ArtifactsFit(collected, m)
    BY <1>1, <2>1 DEF ModelFits, ArtifactsFit
  <2> QED BY <1>1, <1>7, <2>1, <2>2, <2>3 DEF ModelFits
<1> HIDE DEF m
<1>12. "message.phase.completed" \in EventTypes
  BY DEF EventTypes
<1> QED BY <1>4, <1>5, <1>9, <1>10, <1>11, <1>12, AlikeKeeps

\* model.round.completed
LEMMA RoundCompletedKeeps ==
  ASSUME TimelineInv, RoundCompleted
  PROVE  TimelineInv'
<1> DEFINE id == <<"round", model.round>>
           z == 0
           b == Drafted(id, z, "done")
           c == ReasoningDone(collected, model.round)
           m == [model EXCEPT !.stage = "judged"]
<1>1. CollectorParts /\ ModelFits(collected, model) /\ model \in Models
  BY CollectorHas DEF TimelineInv, CollectorInv, ModelFits
<1>2. id \in BlockIds /\ z \in Nat /\ "done" \in States
  BY <1>1 DEF CollectorParts, BlockIds, States
<1>3. /\ Publish(c, "model.round.completed", b) /\ model' = m /\ texts' = texts
      /\ model.stage = "streaming"
  BY DEF RoundCompleted
<1> HIDE DEF id, z
<1>4. b \in Blocks /\ b.round = model.round
  BY <1>1, <1>2, DraftedIs
<1> HIDE DEF b
<1>5. \A v : Trails(v, collected) => Alike(c, collected) /\ Trails(ReasoningDone(v, model.round), c)
  BY <1>1, TrailsReasoning DEF CollectorParts
<1>6. Alike(c, collected)
  BY <1>5 DEF Trails
<1> HIDE DEF c
<1>7. \A v : Trails(v, collected) => Trails(Reduced(v, [type |-> "model.round.completed", block |-> b]), c)
  <2>1. \A v : Reduced(v, [type |-> "model.round.completed", block |-> b]) = ReasoningDone(v, model.round)
    BY <1>4, OthersReduced, ZenonT(40)
  <2> QED BY <1>5, <2>1, ZenonT(40)
<1>8. m.round = model.round /\ ModelFits(collected, m)
  <2>1. /\ m \in Models /\ m.round = model.round /\ m.attempt = model.attempt /\ m.next = model.next
        /\ m.only = model.only /\ m.calls = model.calls /\ m.stage = "judged" /\ m.text = model.text
    BY <1>1 DEF Models, ModelStages
  <2> HIDE DEF m
  <2>2. ArtifactsFit(collected, m)
    BY <1>1, <1>3, <2>1 DEF ModelFits, ArtifactsFit
  <2> QED BY <1>1, <1>3, <2>1, <2>2 DEF ModelFits
<1> HIDE DEF m
<1>9. "model.round.completed" \in EventTypes
  BY DEF EventTypes
<1> QED BY <1>3, <1>4, <1>6, <1>7, <1>8, <1>9, AlikeKeeps

\* A discarded text: what is left has no artifact of the round.
LEMMA DiscardKeeps ==
  ASSUME TimelineInv, Discard
  PROVE  /\ ClientInv' /\ Collection(collected', texts, model.round)
         /\ model.stage # "calling" =>
              \A i \in DOMAIN collected' : ~(Kind(collected'[i]) = "artifact" /\ collected'[i].round = model.round)
<1>1. CollectorParts /\ ModelFits(collected, model) /\ ClientInv
  BY CollectorHas DEF TimelineInv, CollectorInv
<1>2. model.stage # "calling" =>
        \A i \in DOMAIN collected : ~(Kind(collected[i]) = "artifact" /\ collected[i].round = model.round)
  BY <1>1 DEF ModelFits, ArtifactsFit
<1>3. CASE model.text = NoText
  <2>1. UNCHANGED <<collected, unapplied, shown, excused>>
    BY <1>3 DEF Discard
  <2> QED BY <1>1, <1>2, <2>1 DEF ClientInv, CollectorParts
<1>4. CASE model.text # NoText
  <2> DEFINE id == TextAt(model.text)
             b == Drafted(id, model.text, "none")
             c == Without(collected, id)
  <2>1. Publish(c, "message.discarded", b) /\ model.text \in Nat
    BY <1>1, <1>4 DEF Discard, CollectorParts
  <2>2. id \in BlockIds /\ "none" \in States
    BY <1>1, <2>1, TextAtIs DEF States
  <2> HIDE DEF id
  <2>3. b \in Blocks /\ b.id = id
    BY <1>1, <2>1, <2>2, DraftedIs
  <2> HIDE DEF b
  <2>4. Collection(c, texts, model.round) /\ Within(c, collected)
    BY <1>1, WithoutIsCollected DEF CollectorParts
  <2>5. \A v : Trails(v, collected) => Trails(Without(v, id), c)
    BY <1>1, TrailsWithout DEF CollectorParts
  <2> HIDE DEF c
  <2>6. \A v : Trails(v, collected) => Trails(Reduced(v, [type |-> "message.discarded", block |-> b]), c)
    BY <2>3, <2>5, OthersReduced
  <2>7. "message.discarded" \in EventTypes
    BY DEF EventTypes
  <2>8. ClientInv' /\ collected' = c
    BY <1>1, <2>1, <2>3, <2>6, <2>7, PublishKeeps
  <2> QED BY <1>2, <2>4, <2>8 DEF Within
<1> QED BY <1>3, <1>4

\* The runtime writes no more.
LEMMA OverFits ==
  ASSUME NEW bs, NEW m, ModelFits(bs, m), NEW c,
         \A i \in DOMAIN c : ~(Kind(c[i]) = "artifact" /\ c[i].round = m.round)
  PROVE  /\ ModelFits(c, [m EXCEPT !.stage = "over"])
         /\ [m EXCEPT !.stage = "over"].round = m.round
<1> DEFINE w == [m EXCEPT !.stage = "over"]
<1>1. m \in Models
  BY DEF ModelFits
<1>2. /\ w \in Models /\ w.round = m.round /\ w.attempt = m.attempt /\ w.next = m.next
      /\ w.only = m.only /\ w.calls = m.calls /\ w.stage = "over" /\ w.text = m.text
  BY <1>1 DEF Models, ModelStages
<1> HIDE DEF w
<1>3. ArtifactsFit(c, w)
  BY <1>2 DEF ArtifactsFit
<1>4. ModelFits(c, w)
  BY <1>2, <1>3 DEF ModelFits
<1> QED BY <1>2, <1>4 DEF w

\* The model's stream fails.
LEMMA BreaksKeeps ==
  ASSUME TimelineInv, StreamBreaks
  PROVE  TimelineInv'
<1>1. Discard /\ model.stage = "streaming" /\ model' = [model EXCEPT !.stage = "over"] /\ texts' = texts
  BY DEF StreamBreaks
<1>2. /\ ClientInv' /\ Collection(collected', texts, model.round)
      /\ \A i \in DOMAIN collected' : ~(Kind(collected'[i]) = "artifact" /\ collected'[i].round = model.round)
  BY <1>1, DiscardKeeps
<1>3. ModelFits(collected', model') /\ model'.round = model.round
  BY <1>1, <1>2, OverFits DEF TimelineInv, CollectorInv
<1> QED BY <1>1, <1>2, <1>3 DEF TimelineInv, CollectorInv

\* A truncated answer is asked for again, or given up.
LEMMA AskShorterKeeps ==
  ASSUME TimelineInv, AskShorter
  PROVE  TimelineInv'
<1>1. Discard /\ model.stage = "judged" /\ texts' = texts
  BY DEF AskShorter
<1>2. /\ ClientInv' /\ Collection(collected', texts, model.round)
      /\ \A i \in DOMAIN collected' : ~(Kind(collected'[i]) = "artifact" /\ collected'[i].round = model.round)
  BY <1>1, DiscardKeeps
<1>3. CollectorParts /\ ModelFits(collected, model)
  BY CollectorHas DEF TimelineInv, CollectorInv
<1>4. CASE model.round < MaxModelRounds /\ model' = NewRound(model.round + 1, FALSE)
  <2>1. model.round + 1 <= MaxModelRounds /\ FALSE \in BOOLEAN
    BY <1>3, <1>4, EmptyText DEF CollectorParts
  <2>2. /\ Collection(collected', texts, model.round + 1) /\ ModelFits(collected', model')
        /\ model'.round = model.round + 1
    BY <1>2, <1>4, <2>1, NewRoundFits
  <2> QED BY <1>1, <1>2, <2>2 DEF TimelineInv, CollectorInv
<1>5. CASE model' = [model EXCEPT !.stage = "over"]
  <2> DEFINE c == collected'
             w == [model EXCEPT !.stage = "over"]
  <2>1. ModelFits(collected, model)
    BY <1>3
  <2>2. \A i \in DOMAIN c : ~(Kind(c[i]) = "artifact" /\ c[i].round = model.round)
    BY <1>2
  <2> HIDE DEF c
  <2>3. ModelFits(c, w) /\ w.round = model.round
    BY <2>1, <2>2, OverFits
  <2> QED BY <1>1, <1>2, <1>5, <2>3 DEF TimelineInv, CollectorInv, c
<1>6. CASE model.only /\ model' = [NewRound(model.round, TRUE) EXCEPT !.attempt = model.attempt + 1]
  <2> DEFINE a == model.attempt + 1
             q == model.round
             n == NewRound(q, TRUE)
             m == [n EXCEPT !.attempt = a]
  <2>1. a \in Nat /\ q \in Nat /\ q <= MaxModelRounds
    BY <1>3 DEF CollectorParts
  <2> HIDE DEF a, q
  <2>2. n \in Models /\ n.round = q /\ n.only = TRUE /\ n.calls = <<>> /\ n.text = NoText /\ n.stage = "asking"
    <3>1. <<>> \in Seq(Nat)
      OBVIOUS
    <3> QED BY <2>1, <3>1 DEF NewRound, Models, ModelStages
  <2> HIDE DEF n
  <2>3. m \in Models
    BY <2>1, <2>2 DEF Models
  <2>4. m.round = q /\ m.only = TRUE /\ m.calls = <<>> /\ m.text = NoText /\ m.stage = "asking"
    BY <2>2 DEF Models
  <2> HIDE DEF m
  <2>5. ArtifactsFit(collected', m)
    BY <1>2, <2>4 DEF ArtifactsFit, q
  <2>6. ModelFits(collected', m)
    BY <2>1, <2>3, <2>4, <2>5 DEF ModelFits
  <2>7. model' = m /\ model'.round = model.round
    BY <1>6, <2>4 DEF m, n, a, q
  <2> QED BY <1>1, <1>2, <2>6, <2>7 DEF TimelineInv, CollectorInv
<1> QED BY <1>4, <1>5, <1>6 DEF AskShorter

\* The greatest of some positions.
LEMMA GreatestOf ==
  ASSUME NEW n \in Nat, NEW S, S # {}, \A i \in S : i \in 1..n
  PROVE  Max(S) \in S
<1> DEFINE D == {n - i : i \in S}
<1>1. D \subseteq Nat /\ D # {}
  OBVIOUS
<1>2. Min(D) \in D /\ \A x \in D : Min(D) <= x
  <2> HIDE DEF D
  <2> QED BY <1>1, LeastOf
<1>3. PICK k \in S : Min(D) = n - k
  BY <1>2
<1>4. \A i \in S : k >= i
  <2>1. \A i \in S : n - i \in D
    OBVIOUS
  <2>2. \A i \in S : n - k <= n - i
    BY <1>2, <1>3, <2>1
  <2>3. \A i \in S : i \in Int
    OBVIOUS
  <2> QED BY <2>2, <2>3
<1> QED BY <1>4 DEF Max

\* A step of the runtime that no client sees.
LEMMA ModelMoves ==
  ASSUME TimelineInv, UNCHANGED <<collected, texts, sent, unapplied, shown, excused>>,
         NEW m, model' = m, ModelFits(collected, m), Collection(collected, texts, m.round)
  PROVE  TimelineInv'
BY DEF TimelineInv, CollectorInv, ClientInv

\* The text is the answer, or one more round has to write one.
LEMMA NothingCalledKeeps ==
  ASSUME TimelineInv, NothingCalled
  PROVE  TimelineInv'
<1>1. CollectorParts /\ ModelFits(collected, model) /\ model \in Models
  BY CollectorHas DEF TimelineInv, CollectorInv, ModelFits
<1>2. UNCHANGED <<collected, texts, sent, unapplied, shown, excused>> /\ model.stage = "judged"
  BY DEF NothingCalled
<1>3. CASE model.text # NoText /\ model' = [model EXCEPT !.stage = "answered"]
  <2> DEFINE m == [model EXCEPT !.stage = "answered"]
  <2>1. /\ m \in Models /\ m.round = model.round /\ m.attempt = model.attempt /\ m.next = model.next
        /\ m.only = model.only /\ m.calls = model.calls /\ m.stage = "answered" /\ m.text = model.text
    BY <1>1 DEF Models, ModelStages
  <2>2. model' = m
    BY <1>3
  <2> HIDE DEF m
  <2>3. ArtifactsFit(collected, m)
    BY <1>1, <1>2, <2>1 DEF ModelFits, ArtifactsFit
  <2>4. TextsIn(collected)
    BY <1>1, <1>2, <1>3 DEF ModelFits
  <2>5. ModelFits(collected, m)
    BY <1>1, <1>3, <2>1, <2>3, <2>4 DEF ModelFits
  <2>6. Collection(collected, texts, m.round)
    BY <1>1, <2>1 DEF CollectorParts
  <2> QED BY <1>2, <2>2, <2>5, <2>6, ModelMoves
<1>4. CASE model.round < MaxModelRounds /\ model' = NewRound(model.round + 1, TRUE)
  <2> DEFINE m == NewRound(model.round + 1, TRUE)
  <2>1. model.round + 1 <= MaxModelRounds /\ TRUE \in BOOLEAN
    BY <1>1, <1>4, EmptyText DEF CollectorParts
  <2>2. /\ Collection(collected, texts, model.round + 1) /\ ModelFits(collected, m)
        /\ m.round = model.round + 1
    BY <1>1, <2>1, NewRoundFits DEF CollectorParts
  <2>3. model' = m
    BY <1>4
  <2> HIDE DEF m
  <2>4. Collection(collected, texts, m.round)
    BY <2>2
  <2> QED BY <1>2, <2>2, <2>3, <2>4, ModelMoves
<1> QED BY <1>3, <1>4 DEF NothingCalled

\* The next round, when a batch of calls is done.
LEMMA NextRoundKeeps ==
  ASSUME TimelineInv, NextModelRound
  PROVE  TimelineInv'
<1>1. CollectorParts
  BY CollectorHas DEF TimelineInv
<1>2. PICK only \in BOOLEAN : model' = NewRound(model.round + 1, only)
  BY DEF NextModelRound
<1> DEFINE m == NewRound(model.round + 1, only)
<1>3. /\ UNCHANGED <<collected, texts, sent, unapplied, shown, excused>> /\ model.round < MaxModelRounds
      /\ model' = m
  BY <1>2 DEF NextModelRound
<1>4. model.round + 1 <= MaxModelRounds
  BY <1>1, <1>3, EmptyText DEF CollectorParts
<1>5. /\ Collection(collected, texts, model.round + 1) /\ ModelFits(collected, m)
      /\ m.round = model.round + 1
  BY <1>1, <1>4, NewRoundFits DEF CollectorParts
<1> HIDE DEF m
<1>6. Collection(collected, texts, m.round)
  BY <1>5
<1> QED BY <1>3, <1>5, <1>6, ModelMoves

\* The links of the sources.
LEMMA LinkKeeps ==
  ASSUME TimelineInv, LinkSources
  PROVE  TimelineInv'
<1> DEFINE written == {i \in DOMAIN collected : Kind(collected[i]) = "text"}
           k == Max(written)
           o == collected[k]
           b == [o EXCEPT !.state = "none"]
           e == [b EXCEPT !.size = 1]
           m == [model EXCEPT !.stage = "over"]
<1>1. CollectorParts /\ ModelFits(collected, model) /\ Collection(collected, texts, model.round)
  BY CollectorHas DEF TimelineInv, CollectorInv
<1>2. /\ Publish(CollectDelta(collected, b), "message.delta", e) /\ model.stage = "answered"
      /\ model' = m /\ texts' = texts
  BY DEF LinkSources
<1>3. k \in written
  <2>1. TextsIn(collected)
    BY <1>1, <1>2 DEF ModelFits
  <2>2. written # {} /\ \A i \in written : i \in 1..Len(collected)
    BY <1>1, <2>1 DEF TextsIn, CollectorParts
  <2>3. Len(collected) \in Nat
    BY <1>1 DEF CollectorParts
  <2> HIDE DEF written
  <2> QED BY <2>2, <2>3, GreatestOf
<1>4. k \in DOMAIN collected /\ Kind(o) = "text"
  BY <1>3
<1> HIDE DEF k
<1>5. o \in Blocks /\ o = collected[k] /\ Fits(o, texts, model.round)
  BY <1>1, <1>4 DEF CollectorParts, Collection
<1> HIDE DEF o
<1>6. /\ b \in Blocks /\ b.id = o.id /\ b.round = o.round /\ b.attempt = o.attempt /\ b.pos = o.pos
      /\ b.state = "none"
  BY <1>5 DEF Blocks, States
<1> HIDE DEF b
<1>7. /\ e \in Blocks /\ e.id = o.id /\ e.round = o.round /\ e.attempt = o.attempt /\ e.pos = o.pos
      /\ e.state = "none" /\ e.size = 1
  BY <1>6 DEF Blocks
<1> HIDE DEF e
<1>8. Kind(b) = "text" /\ Kind(e) = "text" /\ Fits(e, texts, model.round)
  BY <1>4, <1>5, <1>6, <1>7 DEF Kind, Fits
<1>9. \A i \in DOMAIN collected : /\ SamePlace(collected[i], b) <=> SamePlace(collected[i], e)
                                  /\ SamePlace(collected[i], e) <=> SamePlace(collected[i], o)
  BY <1>4, <1>6, <1>7, <1>8 DEF SamePlace
<1>10. \A i \in DOMAIN collected : SamePlace(collected[i], o) <=> i = k
  <2>1. ASSUME NEW i \in DOMAIN collected, SamePlace(collected[i], o) PROVE i = k
    <3>1. Kind(collected[i]) = "text" /\ SamePlace(collected[i], collected[k])
      BY <1>4, <1>5, <2>1 DEF SamePlace
    <3> QED BY <1>1, <1>4, <3>1 DEF Collection, OwnPlaces
  <2>2. SamePlace(collected[k], o)
    BY <1>5 DEF SamePlace
  <2> QED BY <2>1, <2>2
<1>11. AtItsPlace(collected, e)
  <2>1. \A i \in DOMAIN collected : collected[i].id = o.id <=> i = k
    BY <1>1, <1>4, <1>5 DEF Collection, OwnIds
  <2> QED BY <1>7, <1>9, <1>10, <2>1 DEF AtItsPlace
<1>12. CollectDelta(collected, b) = CollectDelta(collected, e)
  <2>1. {i \in DOMAIN collected : SamePlace(collected[i], b)} = {i \in DOMAIN collected : SamePlace(collected[i], e)}
    BY <1>9
  <2>2. k \in {i \in DOMAIN collected : SamePlace(collected[i], e)}
    BY <1>4, <1>9, <1>10
  <2> QED BY <1>6, <1>7, <2>1, <2>2 DEF CollectDelta
<1>13. ModelFits(collected, m) /\ m.round = model.round
  <2>1. \A i \in DOMAIN collected : ~(Kind(collected[i]) = "artifact" /\ collected[i].round = model.round)
    BY <1>1, <1>2 DEF ModelFits, ArtifactsFit
  <2> QED BY <1>1, <2>1, OverFits
<1>14. texts \in Nat /\ texts <= texts /\ Kind(e) # "artifact"
  BY <1>1, <1>8 DEF CollectorParts
<1>15. Publish(CollectDelta(collected, e), "message.delta", e)
  BY <1>2, <1>12
<1> HIDE DEF m
<1> QED BY <1>2, <1>7, <1>8, <1>11, <1>13, <1>14, <1>15, DeltaKeeps

\* A batch of calls begins.
LEMMA CallToolsKeeps ==
  ASSUME TimelineInv, CallTools
  PROVE  TimelineInv'
<1> DEFINE m == [model EXCEPT !.stage = "calling"]
<1>1. CollectorParts /\ ModelFits(collected, model) /\ model \in Models
  BY CollectorHas DEF TimelineInv, CollectorInv, ModelFits
<1>2. /\ UNCHANGED <<collected, texts, sent, unapplied, shown, excused>> /\ model.stage = "judged"
      /\ model' = m
  BY DEF CallTools
<1>3. /\ m \in Models /\ m.round = model.round /\ m.attempt = model.attempt /\ m.next = model.next
      /\ m.only = model.only /\ m.calls = model.calls /\ m.stage = "calling" /\ m.text = model.text
  BY <1>1 DEF Models, ModelStages
<1> HIDE DEF m
<1>4. ArtifactsFit(collected, m)
  BY <1>1, <1>2, <1>3 DEF ModelFits, ArtifactsFit
<1>5. ModelFits(collected, m)
  BY <1>1, <1>3, <1>4 DEF ModelFits
<1>6. Collection(collected, texts, m.round)
  BY <1>1, <1>3 DEF CollectorParts
<1> QED BY <1>2, <1>5, <1>6, ModelMoves

\* The call that is next.
CallFacts ==
  /\ Call \in Nat /\ ToolId \in BlockIds /\ ToolId = <<"tool", model.round, Call>>
  /\ ToolId[1] = "tool" /\ ToolId # FirstText
  /\ \A s \in States :
       /\ Tool(s) \in Blocks /\ Tool(s).id = ToolId /\ Tool(s).round = model.round
       /\ Tool(s).attempt = model.attempt /\ Tool(s).pos = Call /\ Tool(s).state = s
       /\ Tool(s).size = 1 /\ Kind(Tool(s)) = "tool" /\ Fits(Tool(s), texts, model.round)

\* A call that is next was declared, and has an id of its own.
LEMMA CallHas ==
  ASSUME CollectorParts, Calling
  PROVE  CallFacts
<1>1. Call \in Nat /\ model.round \in Nat
  BY DEF CollectorParts, Calling, Call
<1>2. ToolId \in BlockIds /\ ToolId = <<"tool", model.round, Call>> /\ ToolId[1] = "tool"
  BY <1>1 DEF ToolId, BlockIds
<1>3. ToolId # FirstText
  BY <1>2, EmptyText DEF Kind
<1>4. ASSUME NEW s \in States
      PROVE  /\ Tool(s) \in Blocks /\ Tool(s).id = ToolId /\ Tool(s).round = model.round
             /\ Tool(s).attempt = model.attempt /\ Tool(s).pos = Call /\ Tool(s).state = s
             /\ Tool(s).size = 1
  BY <1>1, <1>2, DraftedIs DEF Tool
<1>5. ASSUME NEW s \in States PROVE Kind(Tool(s)) = "tool" /\ Fits(Tool(s), texts, model.round)
  <2> DEFINE b == Tool(s)
  <2>1. b.id = ToolId /\ b.round = model.round /\ b.pos = Call
    BY <1>4
  <2> HIDE DEF b
  <2>2. Kind(b) = "tool" /\ Fits(b, texts, model.round)
    BY <1>1, <1>2, <2>1 DEF Kind, Fits
  <2> QED BY <2>2 DEF b
<1> QED BY <1>1, <1>2, <1>3, <1>4, <1>5 DEF CallFacts

\* tool.started
LEMMA StartToolKeeps ==
  ASSUME TimelineInv, StartTool
  PROVE  TimelineInv'
<1> DEFINE b == Tool("running")
           c == CollectorInsert(collected, b)
<1>1. CollectorParts /\ ModelFits(collected, model) /\ ClientInv
  BY CollectorHas DEF TimelineInv, CollectorInv
<1>2. Calling /\ ~Has(collected, ToolId) /\ Publish(c, "tool.started", b) /\ texts' = texts /\ model' = model
  BY DEF StartTool
<1>3. CallFacts /\ "running" \in States
  BY <1>1, <1>2, CallHas DEF States
<1>4. /\ b \in Blocks /\ b.id = ToolId /\ b.round = model.round /\ Kind(b) = "tool"
      /\ Fits(b, texts, model.round) /\ ToolId # FirstText
  BY <1>3 DEF CallFacts
<1> HIDE DEF b
<1>5. Collection(c, texts, model.round) /\ Stems(c, collected, b)
  BY <1>1, <1>2, <1>4, InsertedStems DEF CollectorParts
<1>6. ASSUME NEW v, Trails(v, collected)
      PROVE  Trails(Reduced(v, [type |-> "tool.started", block |-> b]), c)
  <2>1. b.round <= model.round /\ model.round <= MaxModelRounds
    BY <1>1, <1>4 DEF CollectorParts
  <2>2. ~Has(v, b.id) /\ Trails(InsertOrdered(v, b), c)
    BY <1>1, <1>2, <1>4, <1>6, <2>1, TrailsInserted DEF CollectorParts
  <2>3. InsertOnce(v, b) = InsertOrdered(v, b)
    BY <2>2, Zenon DEF InsertOnce
  <2> QED BY <2>2, <2>3, OthersReduced
<1> HIDE DEF c
<1>7. ClientInv' /\ collected' = c
  BY <1>1, <1>2, <1>4, <1>6, PublishKeeps DEF EventTypes
<1>8. ModelFits(c, model)
  BY <1>1, <1>4, <1>5, StemsFit
<1> QED BY <1>2, <1>5, <1>7, <1>8 DEF TimelineInv, CollectorInv

\* A call is told: an artifact that came with it is at its place.
LEMMA ToldFits ==
  ASSUME CollectorParts, ModelFits(collected, model), Calling, NEW c,
         \A n \in DOMAIN c : Kind(c[n]) = "artifact" /\ c[n].round = model.round =>
           \/ c[n].pos = Call
           \/ \E i \in DOMAIN collected : /\ Kind(collected[i]) = "artifact"
                                          /\ collected[i].round = c[n].round /\ collected[i].pos = c[n].pos
  PROVE  ModelFits(c, Told) /\ Told.round = model.round
<1> DEFINE cs == Tail(model.calls)
           m == Told
<1>1. /\ model.calls \in Seq(Nat) /\ model.calls # <<>> /\ model.stage = "calling" /\ model \in Models
      /\ \A k, n \in DOMAIN model.calls : model.calls[k] = model.calls[n] => k = n
      /\ \A n \in DOMAIN model.calls : model.calls[n] < model.next
  BY DEF CollectorParts, Calling, ModelFits
<1>2. /\ cs \in Seq(Nat) /\ Len(cs) \in Nat /\ DOMAIN cs = 1..Len(cs) /\ Call = model.calls[1]
      /\ DOMAIN model.calls = 1..Len(cs) + 1
      /\ \A n \in 1..Len(cs) : cs[n] = model.calls[n + 1]
  BY <1>1 DEF Call
<1>3. m = [model EXCEPT !.calls = cs]
  BY DEF Told
<1> HIDE DEF cs, m
<1>4. /\ m \in Models /\ m.round = model.round /\ m.attempt = model.attempt /\ m.next = model.next
      /\ m.only = model.only /\ m.calls = cs /\ m.stage = "calling" /\ m.text = model.text
  BY <1>1, <1>2, <1>3 DEF Models
<1>5. \A n \in 1..Len(cs) : n + 1 \in DOMAIN model.calls /\ 1 \in DOMAIN model.calls /\ n + 1 # 1
  BY <1>2
<1>6. /\ \A k, n \in 1..Len(cs) : cs[k] = cs[n] => k = n
      /\ \A n \in 1..Len(cs) : cs[n] < m.next
      /\ \A n \in 1..Len(cs) : cs[n] # Call
  <2>1. ASSUME NEW k \in 1..Len(cs), NEW n \in 1..Len(cs), cs[k] = cs[n] PROVE k = n
    <3>1. k + 1 \in DOMAIN model.calls /\ n + 1 \in DOMAIN model.calls
      BY <1>5
    <3>2. model.calls[k + 1] = model.calls[n + 1]
      BY <1>2, <2>1
    <3>3. k + 1 = n + 1
      BY <1>1, <3>1, <3>2
    <3> QED BY <1>2, <3>3
  <2>2. ASSUME NEW n \in 1..Len(cs) PROVE cs[n] < m.next /\ cs[n] # Call
    <3>1. n + 1 \in DOMAIN model.calls /\ 1 \in DOMAIN model.calls /\ n + 1 # 1
      BY <1>5
    <3>2. cs[n] = model.calls[n + 1]
      BY <1>2
    <3>3. model.calls[n + 1] < model.next /\ model.calls[n + 1] # model.calls[1]
      BY <1>1, <3>1
    <3> QED BY <1>2, <1>4, <3>2, <3>3
  <2> QED BY <2>1, <2>2
<1>7. ArtifactsFit(c, m)
  <2>1. ASSUME NEW n \in DOMAIN c, Kind(c[n]) = "artifact", c[n].round = m.round, NEW k \in DOMAIN cs
        PROVE  cs[k] # c[n].pos
    <3>1. CASE c[n].pos = Call
      BY <1>2, <1>6, <3>1
    <3>2. CASE \E i \in DOMAIN collected : /\ Kind(collected[i]) = "artifact"
                                           /\ collected[i].round = c[n].round /\ collected[i].pos = c[n].pos
      <4>1. PICK i \in DOMAIN collected : /\ Kind(collected[i]) = "artifact"
                                          /\ collected[i].round = c[n].round /\ collected[i].pos = c[n].pos
        BY <3>2
      <4>2. model.calls[k + 1] # collected[i].pos
        BY <1>2, <1>4, <1>5, <2>1, <4>1 DEF ModelFits, ArtifactsFit
      <4> QED BY <1>2, <4>1, <4>2
    <3> QED BY <1>4, <2>1, <3>1, <3>2
  <2> QED BY <1>4, <2>1 DEF ArtifactsFit
<1>8. m.only => cs = <<>>
  BY <1>1, <1>4 DEF ModelFits
<1>9. ModelFits(c, m)
  BY <1>1, <1>2, <1>4, <1>6, <1>7, <1>8 DEF ModelFits
<1> QED BY <1>4, <1>9 DEF m

\* A plan, a rejected call.
LEMMA PassKeeps ==
  ASSUME TimelineInv, PassCall
  PROVE  TimelineInv'
<1>1. CollectorParts /\ ModelFits(collected, model)
  BY CollectorHas DEF TimelineInv, CollectorInv
<1>2. /\ UNCHANGED <<collected, texts, sent, unapplied, shown, excused>> /\ Calling /\ model' = Told
  BY DEF PassCall
<1>3. ModelFits(collected, Told) /\ Told.round = model.round
  BY <1>1, <1>2, ToldFits
<1>4. Collection(collected, texts, Told.round)
  BY <1>1, <1>3 DEF CollectorParts
<1> QED BY <1>2, <1>3, <1>4, ModelMoves

\* A new block and a state that another one gets come in either order.
LEMMA InsertCommutes ==
  ASSUME NEW bs, NEW t, NEW r, Collection(bs, t, r), NEW a \in Blocks, NEW id, id # a.id, NEW s,
         Alike(WithState(bs, id, s), bs)
  PROVE  WithState(CollectorInsert(bs, a), id, s) = CollectorInsert(WithState(bs, id, s), a)
<1> DEFINE new(b) == IF b.id = id THEN [b EXCEPT !.state = s] ELSE b
           w == WithState(bs, id, s)
           at == InsertPlace(bs, a)
           c == CollectorInsert(bs, a)
<1>1. Len(bs) \in Nat /\ DOMAIN bs = 1..Len(bs) /\ bs \in Seq(Blocks) /\ InOrder(bs)
  BY CollectionParts DEF Collection
<1>2. \A x : WithState(x, id, s) = [i \in DOMAIN x |-> new(x[i])]
  BY DEF WithState, Named
<1>3. new(a) = a
  OBVIOUS
<1> HIDE DEF new
<1>4. /\ w \in Seq(Blocks) /\ Len(w) = Len(bs) /\ InOrder(w) /\ Later(w, a) = Later(bs, a)
  BY AlikeIsCollected DEF Alike, Collection
<1>5. \A i \in 1..Len(bs) : w[i] = new(bs[i])
  BY <1>1, <1>2
<1> HIDE DEF w
<1>6. InsertPlace(w, a) = at /\ at \in 1..Len(bs) + 1
  BY <1>1, <1>4, PlaceOf DEF InsertPlace, InsertFacts
<1> HIDE DEF at
<1>7. c = Inserted(bs, a, at) /\ c \in Seq(Blocks) /\ Len(c) = Len(bs) + 1
  BY <1>1, <1>6, InsertionIs DEF at
<1>8. CollectorInsert(w, a) = Inserted(w, a, at)
  BY <1>4, <1>6, InsertionIs
<1> HIDE DEF c
<1>9. WithState(c, id, s) = [n \in 1..Len(bs) + 1 |-> new(c[n])]
  <2>1. DOMAIN c = 1..Len(bs) + 1
    BY <1>1, <1>7
  <2> QED BY <1>2, <2>1
<1>10. \A n \in 1..Len(bs) + 1 :
         new(c[n]) = IF n < at THEN w[n] ELSE IF n = at THEN a ELSE w[n - 1]
  <2>1. ASSUME NEW n \in 1..Len(bs) + 1
        PROVE  new(c[n]) = IF n < at THEN w[n] ELSE IF n = at THEN a ELSE w[n - 1]
    <3>1. c[n] = IF n < at THEN bs[n] ELSE IF n = at THEN a ELSE bs[n - 1]
      BY <1>7 DEF Inserted
    <3>2. n < at => n \in 1..Len(bs)
      BY <1>1, <1>6
    <3>3. ~(n < at) /\ n # at => n - 1 \in 1..Len(bs)
      BY <1>1, <1>6
    <3> QED BY <1>3, <1>5, <3>1, <3>2, <3>3
  <2> QED BY <2>1
<1>11. WithState(c, id, s) = Inserted(w, a, at)
  BY <1>4, <1>9, <1>10 DEF Inserted
<1> QED BY <1>8, <1>11 DEF c, w

Produced == WithState(CollectorInsert(collected, Artifact(Tool("none"))), ToolId, "completed")

\* A tool that makes an artifact: the client comes to show what the collector has.
LEMMA ProducedIs ==
  ASSUME CollectorParts, ModelFits(collected, model), Calling, Has(collected, ToolId)
  PROVE  /\ Collection(Produced, texts, model.round) /\ ModelFits(Produced, Told)
         /\ Told.round = model.round
         /\ \A v : Trails(v, collected) => Trails(ToolProduced(v, Tool("completed")), Produced)
<1> DEFINE a == Artifact(Tool("none"))
           w == WithState(collected, ToolId, "completed")
           c == CollectorInsert(collected, a)
<1>1. CallFacts /\ {"none", "completed"} \subseteq States /\ Collection(collected, texts, model.round)
      /\ model.round <= MaxModelRounds /\ model.round \in Nat
  BY CallHas DEF States, CollectorParts
<1>2. /\ a \in Blocks /\ a.id = <<"artifact", model.round, Call>> /\ a.round = model.round /\ a.pos = Call
      /\ Artifact(Tool("completed")) = a
  <2> DEFINE b == Tool("none")
             d == Tool("completed")
  <2>1. /\ b \in Blocks /\ b.round = model.round /\ b.pos = Call /\ b.attempt = model.attempt /\ b.size = 1
        /\ d \in Blocks /\ d.round = model.round /\ d.pos = Call /\ d.attempt = model.attempt /\ d.size = 1
        /\ Call \in Nat
    BY <1>1 DEF CallFacts
  <2> DEFINE id == <<"artifact", model.round, Call>>
             x == [b EXCEPT !.id = id, !.state = "none"]
             y == [d EXCEPT !.id = id, !.state = "none"]
  <2>2. id \in BlockIds /\ "none" \in States
    BY <1>1, <2>1 DEF BlockIds
  <2>3. a = x /\ Artifact(d) = y
    BY <2>1 DEF Artifact
  <2> HIDE DEF b, d, id
  <2>4. /\ x \in Blocks /\ x.id = id /\ x.round = model.round /\ x.pos = Call
        /\ x.attempt = model.attempt /\ x.size = 1 /\ x.state = "none"
    BY <2>1, <2>2 DEF Blocks
  <2>5. /\ y \in Blocks /\ y.id = id /\ y.round = model.round /\ y.pos = Call
        /\ y.attempt = model.attempt /\ y.size = 1 /\ y.state = "none"
    BY <2>1, <2>2 DEF Blocks
  <2> HIDE DEF x, y
  <2>6. x = y
    BY <2>4, <2>5 DEF Blocks
  <2> QED BY <2>3, <2>4, <2>6 DEF d, id
<1> HIDE DEF a
<1>3. Kind(a) = "artifact" /\ Fits(a, texts, model.round) /\ a.id # FirstText /\ a.id # ToolId
  BY <1>1, <1>2, EmptyText DEF Kind, Fits, CallFacts
<1>4. ~Has(collected, a.id)
  <2>1. ASSUME NEW i \in DOMAIN collected, collected[i].id = a.id PROVE FALSE
    <3>1. Kind(collected[i]) = "artifact" /\ Fits(collected[i], texts, model.round)
      BY <1>1, <1>3, <2>1 DEF Kind, Collection
    <3>2. collected[i].round = model.round /\ collected[i].pos = Call
      BY <1>2, <2>1, <3>1 DEF Fits
    <3>3. 1 \in DOMAIN model.calls /\ model.calls[1] = Call
      BY DEF Calling, Call, CollectorParts
    <3> QED BY <3>1, <3>2, <3>3 DEF ModelFits, ArtifactsFit
  <2> QED BY <2>1 DEF Has, Named
<1>5. \A v : Trails(v, collected) => Alike(w, collected) /\ Trails(WithState(v, ToolId, "completed"), w)
  BY <1>1, TrailsState
<1>6. Alike(w, collected)
  BY <1>5 DEF Trails
<1>7. Collection(w, texts, model.round) /\ ~Has(w, a.id)
  BY <1>1, <1>4, <1>6, AlikeIsCollected, AlikeHas
<1>8. Produced = CollectorInsert(w, a)
  <2>1. Produced = WithState(c, ToolId, "completed")
    BY DEF Produced, a
  <2> QED BY <1>1, <1>2, <1>3, <1>6, <2>1, InsertCommutes
<1>9. Collection(Produced, texts, model.round) /\ Stems(Produced, w, a)
  <2> HIDE DEF w
  <2> QED BY <1>2, <1>3, <1>7, <1>8, InsertedStems
<1>10. ModelFits(Produced, Told) /\ Told.round = model.round
  <2>1. ASSUME NEW n \in DOMAIN Produced, Kind(Produced[n]) = "artifact", Produced[n].round = model.round
        PROVE  \/ Produced[n].pos = Call
               \/ \E i \in DOMAIN collected :
                    /\ Kind(collected[i]) = "artifact"
                    /\ collected[i].round = Produced[n].round /\ collected[i].pos = Produced[n].pos
    <3>1. \/ Produced[n] = a
          \/ \E i \in DOMAIN w : /\ Kind(Produced[n]) = Kind(w[i]) /\ Produced[n].round = w[i].round
                                 /\ Produced[n].pos = w[i].pos
      BY <1>9 DEF Stems
    <3>2. \A i \in DOMAIN w : /\ i \in DOMAIN collected /\ Kind(w[i]) = Kind(collected[i])
                             /\ w[i].round = collected[i].round /\ w[i].pos = collected[i].pos
      <4>1. DOMAIN w = 1..Len(collected) /\ DOMAIN collected = 1..Len(collected)
        BY <1>6 DEF Alike, CollectorParts
      <4> HIDE DEF w
      <4> QED BY <1>6, <4>1 DEF Alike, Kind
    <3> HIDE DEF w
    <3> QED BY <1>2, <2>1, <3>1, <3>2
  <2> QED BY <2>1, ToldFits
<1>11. ASSUME NEW v, Trails(v, collected) PROVE Trails(ToolProduced(v, Tool("completed")), Produced)
  <2> DEFINE d == Tool("completed")
             x == WithState(v, ToolId, "completed")
  <2>1. d.id = ToolId /\ d.state = "completed"
    BY <1>1 DEF CallFacts
  <2>2. Trails(x, w)
    BY <1>5, <1>11
  <2>3. Has(v, d.id)
    <3>1. Has(WithEmpty(collected), ToolId)
      BY <1>1, EmptyHas
    <3> QED BY <1>11, <2>1, <3>1 DEF Trails
  <2>4. a.round <= model.round
    BY <1>3 DEF Fits
  <2> HIDE DEF w
  <2>5. ~Has(x, a.id) /\ Trails(InsertOrdered(x, a), Produced)
    <3> HIDE DEF x
    <3> QED BY <1>1, <1>2, <1>3, <1>7, <1>8, <2>2, <2>4, TrailsInserted
  <2>6. ToolProduced(v, d) = InsertOnce(x, a)
    <3> HIDE DEF d
    <3>1. ToolEnded(v, d) = x
      BY <2>1 DEF ToolEnded
    <3>2. Artifact(d) = a
      BY <1>2 DEF d
    <3> QED BY <2>3, <3>1, <3>2, Zenon DEF ToolProduced
  <2>7. InsertOnce(x, a) = InsertOrdered(x, a)
    BY <2>5, Zenon DEF InsertOnce
  <2> QED BY <2>5, <2>6, <2>7
<1> QED BY <1>9, <1>10, <1>11

\* tool.completed, tool.failed, tool.cancelled
LEMMA EndToolKeeps ==
  ASSUME TimelineInv, EndTool
  PROVE  TimelineInv'
<1>1. CollectorParts /\ ModelFits(collected, model) /\ ClientInv
  BY CollectorHas DEF TimelineInv, CollectorInv
<1>2. Calling /\ Has(collected, ToolId) /\ model' = Told /\ texts' = texts
  BY DEF EndTool
<1>3. CallFacts /\ {"completed", "failed"} \subseteq States
  BY <1>1, <1>2, CallHas DEF States
<1>4. ASSUME NEW end \in {"completed", "failed"},
             Publish(WithState(collected, ToolId, end), "tool.ended", Tool(end))
      PROVE  TimelineInv'
  <2> DEFINE b == Tool(end)
             c == WithState(collected, ToolId, end)
  <2>1. b \in Blocks /\ b.id = ToolId /\ b.state = end /\ end \in States /\ Publish(c, "tool.ended", b)
    BY <1>3, <1>4 DEF CallFacts
  <2> HIDE DEF b
  <2>2. \A v : Trails(v, collected) => Alike(c, collected) /\ Trails(WithState(v, ToolId, end), c)
    BY <1>1, <1>2, <2>1, TrailsState DEF CollectorParts
  <2>3. Alike(c, collected)
    BY <2>2 DEF Trails
  <2>4. \A v : Reduced(v, [type |-> "tool.ended", block |-> b]) = WithState(v, ToolId, end)
    BY <2>1, OthersReduced DEF ToolEnded
  <2> HIDE DEF c
  <2>5. ClientInv' /\ collected' = c
    BY <1>1, <2>1, <2>2, <2>4, PublishKeeps DEF EventTypes
  <2>6. Collection(c, texts, model.round)
    BY <1>1, <2>3, AlikeIsCollected DEF CollectorParts
  <2>7. ModelFits(c, Told) /\ Told.round = model.round
    <3>1. DOMAIN collected = 1..Len(collected) /\ DOMAIN c = 1..Len(collected)
      BY <1>1, <2>3 DEF CollectorParts, Alike
    <3>2. \A n \in DOMAIN c : /\ n \in DOMAIN collected /\ Kind(c[n]) = Kind(collected[n])
                             /\ c[n].round = collected[n].round /\ c[n].pos = collected[n].pos
      BY <2>3, <3>1 DEF Alike, Kind
    <3> QED BY <1>1, <1>2, <3>2, ToldFits
  <2> QED BY <1>2, <2>5, <2>6, <2>7 DEF TimelineInv, CollectorInv
<1>5. ASSUME Publish(Produced, "tool.produced", Tool("completed"))
      PROVE  TimelineInv'
  <2> DEFINE b == Tool("completed")
  <2>1. b \in Blocks
    BY <1>3 DEF CallFacts
  <2>2. /\ Collection(Produced, texts, model.round) /\ ModelFits(Produced, Told)
        /\ Told.round = model.round
        /\ \A v : Trails(v, collected) => Trails(ToolProduced(v, b), Produced)
    BY <1>1, <1>2, ProducedIs
  <2>3. Publish(Produced, "tool.produced", b)
    BY <1>5
  <2> HIDE DEF b
  <2>4. \A v : Reduced(v, [type |-> "tool.produced", block |-> b]) = ToolProduced(v, b)
    BY OthersReduced
  <2>5. ClientInv' /\ collected' = Produced
    BY <1>1, <2>1, <2>2, <2>3, <2>4, PublishKeeps DEF EventTypes
  <2> QED BY <1>2, <2>2, <2>5 DEF TimelineInv, CollectorInv
<1>6. \/ \E end \in {"completed", "failed"} :
           Publish(WithState(collected, ToolId, end), "tool.ended", Tool(end))
      \/ Publish(Produced, "tool.produced", Tool("completed"))
  BY DEF EndTool, Produced
<1> QED BY <1>4, <1>5, <1>6

\* create_report: the client is not told.
LEMMA EndReportKeeps ==
  ASSUME TimelineInv, EndReport
  PROVE  TimelineInv'
<1>1. CollectorParts /\ ModelFits(collected, model) /\ ClientInv
  BY CollectorHas DEF TimelineInv, CollectorInv
<1>2. /\ Calling /\ Has(collected, ToolId) /\ model' = Told /\ texts' = texts
      /\ collected' = Produced /\ excused' = TRUE /\ unapplied' = unapplied
  BY DEF EndReport, Produced
<1>3. /\ Collection(Produced, texts, model.round) /\ ModelFits(Produced, Told)
      /\ Told.round = model.round
  BY <1>1, <1>2, ProducedIs
<1>4. ClientInv'
  BY <1>1, <1>2 DEF ClientInv
<1> QED BY <1>2, <1>3, <1>4 DEF TimelineInv, CollectorInv

\* The client applies an event.
LEMMA ApplyEventKeeps ==
  ASSUME TimelineInv, ApplyEvent
  PROVE  TimelineInv'
<1>1. /\ unapplied # <<>> /\ shown' = Reduced(shown, Head(unapplied)) /\ unapplied' = Tail(unapplied)
      /\ UNCHANGED <<collected, texts, sent, model, excused>>
  BY DEF ApplyEvent
<1>2. unapplied \in Seq(Events) /\ excused \in BOOLEAN
      /\ (~excused => Reaches(shown, unapplied, collected))
  BY DEF TimelineInv, ClientInv
<1>3. Tail(unapplied) \in Seq(Events)
  BY <1>1, <1>2
<1>4. ~excused => Reaches(shown', Tail(unapplied), collected)
  BY <1>1, <1>2, ChainShifts
<1>5. ClientInv'
  BY <1>1, <1>2, <1>3, <1>4 DEF ClientInv
<1> QED BY <1>1, <1>5 DEF TimelineInv, CollectorInv

\* What a snapshot gives trails the collector.
LEMMA RestoredTrails ==
  ASSUME CollectorInv
  PROVE  Trails(Restored, collected)
<1>1. CASE collected = <<>>
  <2>1. Restored = WithEmpty(collected)
    BY <1>1 DEF Restored, WithEmpty
  <2>2. ~Has(collected, FirstText)
    BY <1>1 DEF Has, Named
  <2> QED BY <2>1, <2>2 DEF Trails
<1>2. CASE collected # <<>>
  <2>1. Ordered(collected) = collected
    BY OrderedStays DEF CollectorInv, Collection
  <2>2. Restored = Ordered(collected)
    BY <1>2, Zenon DEF Restored
  <2> QED BY <2>1, <2>2 DEF Trails
<1> QED BY <1>1, <1>2

\* The client takes a snapshot.
LEMMA ApplyRunSnapshotKeeps ==
  ASSUME TimelineInv, ApplyRunSnapshot
  PROVE  TimelineInv'
<1>1. /\ shown' = (IF Richer THEN shown ELSE Restored)
      /\ excused' = (Richer /\ (excused \/ unapplied # <<>>))
      /\ unapplied' = <<>> /\ UNCHANGED <<collected, texts, sent, model>>
  BY DEF ApplyRunSnapshot
<1>2. CollectorInv /\ excused \in BOOLEAN /\ (~excused => Reaches(shown, unapplied, collected))
  BY DEF TimelineInv, ClientInv
<1>3. ~excused' => Reaches(shown', <<>>, collected)
  <2>1. CASE Richer
    BY <1>1, <1>2, <2>1
  <2>2. CASE ~Richer
    <3>1. shown' = Restored
      BY <1>1, <2>2
    <3> QED BY <1>2, <3>1, RestoredTrails, ChainStarts
  <2> QED BY <2>1, <2>2
<1>4. excused' \in BOOLEAN
  <2> HIDE DEF Richer
  <2> QED BY <1>1
<1>5. <<>> \in Seq(Events)
  OBVIOUS
<1>6. ClientInv'
  BY <1>1, <1>3, <1>4, <1>5 DEF ClientInv
<1> QED BY <1>1, <1>2, <1>6 DEF TimelineInv, CollectorInv

\* A new run, and a client that has created it or found it.
LEMMA TimelineStarts ==
  ASSUME TimelineInit
  PROVE  TimelineInv
<1>1. /\ collected = <<>> /\ texts = 0 /\ model = NewRound(1, FALSE) /\ unapplied = <<>>
      /\ shown \in {<<>>, <<Placeholder>>} /\ excused = FALSE
  BY DEF TimelineInit
<1>2. MaxModelRounds \in Nat /\ MaxModelRounds > 0
  BY TimelineBounds
<1>3. Collection(<<>>, 0, 0)
  BY DEF Collection, InOrder, OwnIds, OwnPlaces
<1>4. 0 + 1 = 1 /\ 1 <= MaxModelRounds
  BY <1>2
<1>5. Collection(<<>>, 0, 1) /\ ModelFits(<<>>, NewRound(1, FALSE)) /\ NewRound(1, FALSE).round = 1
  <2>1. /\ Collection(<<>>, 0, 0 + 1) /\ ModelFits(<<>>, NewRound(0 + 1, FALSE))
        /\ NewRound(0 + 1, FALSE).round = 0 + 1
    BY <1>3, <1>4, NewRoundFits
  <2> QED BY <1>4, <2>1
<1>6. CollectorInv
  BY <1>1, <1>5 DEF CollectorInv
<1>7. Trails(shown, <<>>)
  <2>1. ~Has(<<>>, FirstText)
    BY DEF Has, Named
  <2>2. WithEmpty(<<>>) = <<Placeholder>>
    BY DEF WithEmpty
  <2> QED BY <1>1, <2>1, <2>2 DEF Trails
<1>8. ClientInv
  <2>1. Reaches(shown, <<>>, <<>>)
    BY <1>7, ChainStarts
  <2>2. <<>> \in Seq(Events) /\ FALSE \in BOOLEAN
    OBVIOUS
  <2> QED BY <1>1, <2>1, <2>2 DEF ClientInv
<1> QED BY <1>6, <1>8 DEF TimelineInv

\* Every step keeps the invariant.
LEMMA TimelineStepKeeps ==
  ASSUME TimelineInv, [TimelineNext]_timelineVars
  PROVE  TimelineInv'
<1>1. CASE Intervene          BY <1>1, InterveneKeeps
<1>2. CASE Think              BY <1>2, ThinkKeeps
<1>3. CASE Write              BY <1>3, WriteKeeps
<1>4. CASE DeclareCall        BY <1>4, DeclareKeeps
<1>5. CASE SettlePhase        BY <1>5, SettleKeeps
<1>6. CASE RoundCompleted     BY <1>6, RoundCompletedKeeps
<1>7. CASE StreamBreaks       BY <1>7, BreaksKeeps
<1>8. CASE AskShorter         BY <1>8, AskShorterKeeps
<1>9. CASE NothingCalled      BY <1>9, NothingCalledKeeps
<1>10. CASE LinkSources       BY <1>10, LinkKeeps
<1>11. CASE CallTools         BY <1>11, CallToolsKeeps
<1>12. CASE StartTool         BY <1>12, StartToolKeeps
<1>13. CASE EndTool           BY <1>13, EndToolKeeps
<1>14. CASE EndReport         BY <1>14, EndReportKeeps
<1>15. CASE PassCall          BY <1>15, PassKeeps
<1>16. CASE NextModelRound    BY <1>16, NextRoundKeeps
<1>17. CASE ApplyEvent        BY <1>17, ApplyEventKeeps
<1>18. CASE ApplyRunSnapshot  BY <1>18, ApplyRunSnapshotKeeps
<1>19. CASE UNCHANGED timelineVars
  BY <1>19 DEF timelineVars, TimelineInv, CollectorInv, ClientInv
<1> QED
  BY <1>1, <1>2, <1>3, <1>4, <1>5, <1>6, <1>7, <1>8, <1>9, <1>10, <1>11, <1>12, <1>13, <1>14,
     <1>15, <1>16, <1>17, <1>18, <1>19 DEF TimelineNext

\* An empty text at the end is not seen.
LEMMA TrailsLooksSame ==
  ASSUME CollectorInv, NEW v, Trails(v, collected)
  PROVE  Visible(v) = Visible(collected)
<1> DEFINE seen == {i \in DOMAIN collected : collected[i].size > 0}
           w == WithEmpty(collected)
<1>1. Collection(collected, texts, model.round) /\ model.round <= MaxModelRounds
  BY DEF CollectorInv, ModelFits
<1>2. EndsEmpty(w, collected, model.round)
  BY <1>1, EmptyAtEnd
<1>3. collected \in Seq(Blocks) /\ Placeholder \in Blocks /\ Len(collected) \in Nat
      /\ DOMAIN collected = 1..Len(collected)
  BY <1>1, CollectionParts, EmptyText
<1>4. {i \in DOMAIN w : w[i].size > 0} = seen
  <2> HIDE DEF w
  <2>1. /\ DOMAIN w = 1..Len(collected) + 1
        /\ \A i \in 1..Len(collected) : w[i] = collected[i]
        /\ w[Len(collected) + 1] = Placeholder
    BY <1>2 DEF EndsEmpty
  <2>2. ~(Placeholder.size > 0)
    BY EmptyText
  <2> QED BY <1>3, <2>1, <2>2
<1>5. \A i \in seen : i \in 1..Len(collected)
  BY <1>3
<1>6. Only(w, seen) = Only(collected, seen)
  <2> HIDE DEF seen
  <2> QED BY <1>3, <1>5, OnlyOfLonger, ZenonT(40) DEF WithEmpty
<1>7. Visible(w) = Visible(collected)
  BY <1>4, <1>6 DEF Visible
<1> QED BY <1>7 DEF Trails

\* The invariant of the conversation: the collector's blocks are in order and have ids of their
\* own, they fit the place of the runtime, and the events that a client has not applied take
\* what it shows to the collector's blocks, whatever it joined with.
THEOREM TimelineInductive == TimelineSpec => []TimelineInv
<1>1. TimelineInit => TimelineInv
  BY TimelineStarts
<1>2. TimelineInv /\ [TimelineNext]_timelineVars => TimelineInv'
  BY TimelineStepKeeps
<1> QED BY <1>1, <1>2, PTL DEF TimelineSpec

\* conversation-blocks.ts: live events, a replayed tail and a snapshot of history show the same.
\* However a client mixed them, when it has applied every event it shows what the server has
\* collected, unless it was not told of a report or kept more blocks than a snapshot had.
THEOREM ClientShowsTheSameBlocks == TimelineSpec => []SameBlocks
<1>1. TimelineInv => SameBlocks
  <2>1. SUFFICES ASSUME TimelineInv, unapplied = <<>>, ~excused
                 PROVE  Visible(shown) = Visible(collected)
    BY DEF SameBlocks
  <2>2. CollectorInv /\ Reaches(shown, <<>>, collected)
    BY <2>1 DEF TimelineInv, ClientInv
  <2>3. Trails(shown, collected)
    BY <2>2, ChainStarts
  <2> QED BY <2>2, <2>3, TrailsLooksSame
<1> QED BY <1>1, TimelineInductive, PTL

=================================================================================
