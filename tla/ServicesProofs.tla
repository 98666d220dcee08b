---------------------------- MODULE ServicesProofs ----------------------------
(* What holds of three services that runs call: the catalogue of the MCP servers, the memories *)
(* of a user, and the background jobs of a sandbox. They share no state: each part has its own *)
(* inductive invariant.                                                                        *)
EXTENDS McpCatalog, Memories, SandboxJobs, TLAPS

------------------------------------------------------------------------------
(* What holds of the catalogue for any servers, configurations, runs and numbers of calls. The *)
(* inductive invariant says what type everything has (McpShape), which servers a reconcile     *)
(* still has before it (TodoInv) and, until two reconciles overlap, that the one under way has *)
(* the next generation and that a run which latched the published generation has its entries   *)
(* (GenerationInv).                                                                            *)

Versions == Endpoints \cup {Off}
AllEntries == [server : Servers, version : Endpoints, generation : Nat]
Catalogs == [generation : Nat, status : [Servers -> {"none", "connected", "degraded"}],
             entries : SUBSET AllEntries]
Runtimes == [known : BOOLEAN, version : Versions,
             status : {"none", "disconnected", "connected", "degraded"}]
McpPoints == {"idle", "list", "close", "connect", "list tools", "relist", "latch", "running", "done"}
ActorShape == [pc : McpPoints, run : BOOLEAN, configs : [Servers -> Versions],
               todo : SUBSET Servers, previous : SUBSET AllEntries, next : Catalogs]
Latched == [generation : Nat, entries : SUBSET AllEntries]

McpShape ==
  /\ config \in [Servers -> Versions] /\ runtime \in [Servers -> Runtimes] /\ catalog \in Catalogs
  /\ actors \in [Actors -> ActorShape] /\ snapshots \in [Actors -> Latched]
  /\ calls \in [Actors -> SUBSET AllEntries] /\ overlapped \in BOOLEAN

\* What a reconcile connects to is enabled in the configuration it has read.
TodoInv ==
  \A a \in Actors :
    /\ actors[a].pc \in {"connect", "list tools"} => actors[a].todo \subseteq Enabled(actors[a].configs)
    /\ actors[a].pc = "list tools" => actors[a].todo # {}

\* What a run has latched of the servers it uses, if no catalogue was published since.
Current(snapshot, published) ==
  /\ snapshot.generation <= published.generation
  /\ snapshot.generation = published.generation =>
       snapshot.entries =
         {e \in published.entries : \E x \in snapshot.entries : x.server = e.server}

GenerationInv ==
  overlapped \/
    /\ \A a, b \in Actors : Reconciling(a) /\ Reconciling(b) => a = b
    /\ \A a \in Actors : actors[a].pc \in {"connect", "list tools"} =>
         actors[a].next.generation = catalog.generation + 1
    /\ \A a \in Actors : Current(snapshots[a], catalog)

McpInv == McpShape /\ TodoInv /\ GenerationInv

------------------------------------------------------------------------------
(* Values *)

\* An actor and a catalogue that have nothing yet.
LEMMA NothingYet == Empty \in Catalogs /\ Idle \in ActorShape /\ NoServer \in Runtimes /\ NoSnapshot \in Latched
<1>1. Empty \in Catalogs
  BY DEF Empty, Catalogs
<1>2. [s \in Servers |-> Off] \in [Servers -> Versions]
  BY DEF Versions
<1>3. Idle \in ActorShape
  BY <1>1, <1>2 DEF Idle, ActorShape, McpPoints
<1>4. NoServer \in Runtimes /\ NoSnapshot \in Latched
  BY DEF NoServer, Runtimes, Versions, NoSnapshot, Latched
<1> QED BY <1>1, <1>3, <1>4

\* The first catalogue, and the one an earlier run has published.
LEMMA InitInv == McpInit => McpInv
<1> SUFFICES ASSUME McpInit PROVE McpInv
  OBVIOUS
<1> USE McpBounds
<1>1. config \in [Servers -> Versions]
  BY DEF McpInit, Versions
<1>2. runtime \in [Servers -> Runtimes]
  <2>1. [known |-> TRUE, version |-> 1, status |-> "connected"] \in Runtimes
    BY DEF Runtimes, Versions
  <2> QED BY <2>1, NothingYet DEF McpInit
<1>3. catalog \in Catalogs
  <2>1. CASE catalog = Empty
    BY <2>1, NothingYet
  <2>2. CASE catalog = [generation |-> 1, status |-> [s \in Servers |-> "connected"],
                        entries |-> {Entry(s, 1, 1) : s \in Servers}]
    <3>1. {Entry(s, 1, 1) : s \in Servers} \subseteq AllEntries
      BY DEF Entry, AllEntries
    <3>2. [s \in Servers |-> "connected"] \in [Servers -> {"none", "connected", "degraded"}]
      OBVIOUS
    <3> QED BY <2>2, <3>1, <3>2 DEF Catalogs
  <2> QED BY <2>1, <2>2 DEF McpInit
<1>4. McpShape
  BY <1>1, <1>2, <1>3, NothingYet DEF McpInit, McpShape
<1>5. TodoInv
  BY DEF McpInit, TodoInv, Idle
<1>6. GenerationInv
  <2>1. \A a \in Actors : ~Reconciling(a) /\ actors[a].pc \notin {"connect", "list tools"}
    BY DEF McpInit, Reconciling, Idle
  <2>2. \A a \in Actors : Current(snapshots[a], catalog)
    BY <1>3 DEF McpInit, Current, NoSnapshot, Catalogs, Empty
  <2> QED BY <2>1, <2>2 DEF GenerationInv
<1> QED BY <1>4, <1>5, <1>6 DEF McpInv

------------------------------------------------------------------------------
(* Kinds of steps *)

Becomes(a, n) == actors' = [actors EXCEPT ![a] = n]
Connecting(n) == n.pc \in {"connect", "list tools"}
Reconciles(n) == n.pc \in {"close", "connect", "list tools"}
Numbered(n) == n.next.generation = catalog.generation + 1
TodoOf(n) ==
  /\ Connecting(n) => n.todo \subseteq Enabled(n.configs)
  /\ n.pc = "list tools" => n.todo # {}

\* The actor goes on, and a reconcile keeps the generation it has read.
QuietStep(a, n) ==
  /\ UNCHANGED <<catalog, snapshots, overlapped>>
  /\ Reconciles(n) => Reconciles(actors[a])
  /\ Connecting(n) => Numbered(n) \/ (Connecting(actors[a]) /\ n.next.generation = actors[a].next.generation)

\* A reconcile begins.
ListStep(n) ==
  /\ n.pc = "close" /\ UNCHANGED <<catalog, snapshots>>
  /\ overlapped' = (overlapped \/ \E b \in Actors : Reconciling(b))

\* It ends, and its catalogue is published.
PublishStep(a, n) ==
  /\ Connecting(actors[a]) /\ ~Reconciles(n) /\ catalog' = actors[a].next
  /\ UNCHANGED <<snapshots, overlapped>>

\* A run takes the entries of some servers.
LatchStep(a, n) ==
  /\ ~Reconciles(n) /\ UNCHANGED <<catalog, overlapped>>
  /\ \E servers \in SUBSET Servers :
       snapshots' = [snapshots EXCEPT ![a] =
         [generation |-> catalog.generation,
          entries |-> {e \in catalog.entries : e.server \in servers}]]

ActorStep(a, n) ==
  /\ n \in ActorShape /\ Becomes(a, n) /\ TodoOf(n)
  /\ config' \in [Servers -> Versions] /\ runtime' \in [Servers -> Runtimes]
  /\ calls' \in [Actors -> SUBSET AllEntries]
  /\ QuietStep(a, n) \/ ListStep(n) \/ PublishStep(a, n) \/ LatchStep(a, n)

\* Each kind keeps the types.
LEMMA StepShape ==
  ASSUME McpInv, NEW a \in Actors, NEW n, ActorStep(a, n)
  PROVE  McpShape'
<1>1. actors' \in [Actors -> ActorShape]
  BY DEF McpInv, McpShape, ActorStep, Becomes
<1>2. overlapped' \in BOOLEAN
  BY DEF McpInv, McpShape, ActorStep, QuietStep, ListStep, PublishStep, LatchStep
<1>3. catalog' \in Catalogs
  <2>1. actors[a].next \in Catalogs /\ catalog \in Catalogs
    BY DEF McpInv, McpShape, ActorShape
  <2> QED BY <2>1 DEF ActorStep, QuietStep, ListStep, PublishStep, LatchStep
<1>4. snapshots' \in [Actors -> Latched]
  <2>1. CASE LatchStep(a, n)
    <3>1. PICK servers \in SUBSET Servers :
            snapshots' = [snapshots EXCEPT ![a] =
              [generation |-> catalog.generation,
               entries |-> {e \in catalog.entries : e.server \in servers}]]
      BY <2>1 DEF LatchStep
    <3>2. [generation |-> catalog.generation,
           entries |-> {e \in catalog.entries : e.server \in servers}] \in Latched
      BY DEF McpInv, McpShape, Catalogs, Latched
    <3> QED BY <3>1, <3>2 DEF McpInv, McpShape
  <2> QED BY <2>1 DEF McpInv, McpShape, ActorStep, QuietStep, ListStep, PublishStep
<1> QED BY <1>1, <1>2, <1>3, <1>4 DEF McpShape, ActorStep

\* Only the start of a reconcile's connections fills what it still has before it.
LEMMA StepTodo ==
  ASSUME McpInv, NEW a \in Actors, NEW n, ActorStep(a, n)
  PROVE  TodoInv'
<1>1. SUFFICES ASSUME NEW b \in Actors PROVE TodoOf(actors'[b])
  BY DEF TodoInv, TodoOf, Connecting, Enabled
<1>2. actors'[b] = IF b = a THEN n ELSE actors[b]
  BY DEF McpInv, McpShape, ActorStep, Becomes
<1>3. TodoOf(actors[b])
  BY DEF McpInv, TodoInv, TodoOf, Connecting
<1> QED BY <1>2, <1>3 DEF ActorStep

\* Until two reconciles overlap, the one under way has the next generation, and what is latched of
\* a generation is what was published as that one.
LEMMA StepGeneration ==
  ASSUME McpInv, NEW a \in Actors, NEW n, ActorStep(a, n)
  PROVE  GenerationInv'
<1>1. CASE overlapped'
  BY <1>1 DEF GenerationInv
<1>2. CASE ~overlapped'
  <2>1. ~overlapped
    BY <1>2 DEF ActorStep, QuietStep, ListStep, PublishStep, LatchStep
  <2>2. /\ \A b, c \in Actors : Reconciles(actors[b]) /\ Reconciles(actors[c]) => b = c
        /\ \A b \in Actors : Connecting(actors[b]) => Numbered(actors[b])
        /\ \A b \in Actors : Current(snapshots[b], catalog)
    BY <2>1 DEF McpInv, GenerationInv, Reconciling, Reconciles, Connecting, Numbered
  <2>3. \A b \in Actors : actors'[b] = IF b = a THEN n ELSE actors[b]
    BY DEF McpInv, McpShape, ActorStep, Becomes
  <2>4. \A b \in Actors : Connecting(actors[b]) => Reconciles(actors[b])
    BY DEF Connecting, Reconciles
  <2>5. \A b, c \in Actors : Reconciles(actors'[b]) /\ Reconciles(actors'[c]) => b = c
    <3>1. CASE ListStep(n)
      <4>1. \A b \in Actors : ~Reconciles(actors[b])
        BY <1>2, <3>1 DEF ListStep, Reconciling, Reconciles
      <4> QED BY <2>3, <4>1
    <3>2. CASE ~ListStep(n)
      <4>1. Reconciles(n) => Reconciles(actors[a])
        BY <3>2 DEF ActorStep, QuietStep, PublishStep, LatchStep
      <4> QED BY <2>2, <2>3, <4>1
    <3> QED BY <3>1, <3>2
  <2>6. \A b \in Actors : Connecting(actors'[b]) => actors'[b].next.generation = catalog'.generation + 1
    <3>1. CASE PublishStep(a, n)
      <4>1. \A b \in Actors : ~Reconciles(actors'[b])
        BY <2>2, <2>3, <2>4, <3>1 DEF PublishStep
      <4> QED BY <4>1 DEF Reconciles, Connecting
    <3>2. CASE ~PublishStep(a, n)
      <4>1. catalog' = catalog
        BY <3>2 DEF ActorStep, QuietStep, ListStep, LatchStep
      <4>2. Connecting(n) => Numbered(n)
        BY <2>2, <3>2 DEF ActorStep, QuietStep, ListStep, LatchStep, Connecting, Reconciles, Numbered
      <4> QED BY <2>2, <2>3, <4>1, <4>2 DEF Numbered
    <3> QED BY <3>1, <3>2
  <2>7. \A b \in Actors : Current(snapshots'[b], catalog')
    <3>1. CASE PublishStep(a, n)
      <4>1. catalog'.generation = catalog.generation + 1 /\ snapshots' = snapshots
        BY <2>2, <3>1 DEF PublishStep, Numbered
      <4>2. catalog.generation \in Nat /\ \A b \in Actors : snapshots[b].generation \in Nat
        BY DEF McpInv, McpShape, Catalogs, Latched
      <4> QED BY <2>2, <4>1, <4>2 DEF Current
    <3>2. CASE LatchStep(a, n)
      <4>1. PICK servers \in SUBSET Servers :
              snapshots' = [snapshots EXCEPT ![a] =
                [generation |-> catalog.generation,
                 entries |-> {e \in catalog.entries : e.server \in servers}]]
        BY <3>2 DEF LatchStep
      <4> DEFINE t == [generation |-> catalog.generation,
                       entries |-> {e \in catalog.entries : e.server \in servers}]
      <4>2. Current(t, catalog)
        BY DEF McpInv, McpShape, Catalogs, Current
      <4>3. \A b \in Actors : snapshots'[b] = IF b = a THEN t ELSE snapshots[b]
        BY <4>1 DEF McpInv, McpShape
      <4> QED BY <2>2, <3>2, <4>2, <4>3 DEF LatchStep
    <3> QED BY <2>2, <3>1, <3>2 DEF ActorStep, QuietStep, ListStep
  <2> QED BY <2>5, <2>6, <2>7 DEF GenerationInv, Reconciling, Reconciles, Connecting
<1> QED BY <1>1, <1>2

------------------------------------------------------------------------------
(* Every action is a step of one of these kinds *)

\* An actor that has nothing in hand any more.
LEMMA ForgetsNothingElse ==
  ASSUME NEW pc \in McpPoints \ {"close", "connect", "list tools"}
  PROVE  LET n == [Idle EXCEPT !.pc = pc]
         IN  n \in ActorShape /\ n.pc = pc /\ TodoOf(n) /\ ~Reconciles(n)
<1> DEFINE n == [Idle EXCEPT !.pc = pc]
<1>1. n \in ActorShape /\ n.pc = pc
  BY NothingYet DEF ActorShape
<1> HIDE DEF n
<1>2. TodoOf(n) /\ ~Reconciles(n)
  BY <1>1 DEF TodoOf, Connecting, Reconciles
<1> QED BY <1>1, <1>2 DEF n

\* An action changes one actor, and the rest as one of the kinds does.
LEMMA StepKinds ==
  ASSUME McpInv, NEW a \in Actors,
         \/ StartRun(a) \/ ChangeConfig(a) \/ ListEnabled(a) \/ ReadCatalog(a) \/ Connect(a) \/ ListTools(a)
         \/ Degrade(a) \/ PublishCatalog(a) \/ Relist(a) \/ Latch(a) \/ EndRun(a)
         \/ \E s \in Servers : CloseGone(a, s)
         \/ \E e \in snapshots[a].entries : CallServer(a, e)
  PROVE  \E n : ActorStep(a, n)
<1> DEFINE q == actors[a]
<1>1. /\ q \in ActorShape /\ actors \in [Actors -> ActorShape] /\ TodoOf(q)
      /\ config \in [Servers -> Versions] /\ runtime \in [Servers -> Runtimes]
      /\ calls \in [Actors -> SUBSET AllEntries] /\ catalog \in Catalogs
  BY DEF McpInv, McpShape, TodoInv, TodoOf, Connecting
<1> HIDE DEF q
<1>2. CASE StartRun(a)
  <2> DEFINE n == [q EXCEPT !.pc = "list", !.run = TRUE]
  <2>1. n \in ActorShape /\ n.pc = "list"
    BY <1>1 DEF ActorShape, McpPoints
  <2>2. Becomes(a, n)
    BY <1>1, <1>2 DEF StartRun, Becomes, q
  <2> HIDE DEF n
  <2>3. TodoOf(n) /\ QuietStep(a, n)
    BY <1>2, <2>1 DEF StartRun, TodoOf, QuietStep, Connecting, Reconciles
  <2> QED BY <1>1, <1>2, <2>1, <2>2, <2>3 DEF StartRun, ActorStep
<1>3. CASE ChangeConfig(a)
  <2> DEFINE n == [q EXCEPT !.pc = "list"]
  <2>1. n \in ActorShape /\ n.pc = "list"
    BY <1>1 DEF ActorShape, McpPoints
  <2>2. Becomes(a, n)
    BY <1>1, <1>3 DEF ChangeConfig, Moves, Becomes, q
  <2> HIDE DEF n
  <2>3. TodoOf(n) /\ QuietStep(a, n)
    BY <1>3, <2>1 DEF ChangeConfig, TodoOf, QuietStep, Connecting, Reconciles
  <2>4. config' \in [Servers -> Versions] /\ runtime' \in [Servers -> Runtimes]
    BY <1>1, <1>3, NothingYet DEF ChangeConfig, Versions
  <2> QED BY <1>1, <1>3, <2>1, <2>2, <2>3, <2>4 DEF ChangeConfig, ActorStep
<1>4. CASE ListEnabled(a)
  <2> DEFINE gone == {s \in Servers : runtime[s].known /\ config[s] = Off}
             n == [q EXCEPT !.pc = "close", !.configs = config, !.todo = gone]
  <2>0. gone \in SUBSET Servers
    OBVIOUS
  <2> HIDE DEF gone
  <2>1. n \in ActorShape /\ n.pc = "close"
    BY <1>1, <2>0 DEF ActorShape, McpPoints
  <2>2. Becomes(a, n)
    BY <1>1, <1>4 DEF ListEnabled, Becomes, q, gone
  <2> HIDE DEF n
  <2>3. TodoOf(n) /\ ListStep(n)
    BY <1>4, <2>1 DEF ListEnabled, TodoOf, ListStep, Connecting
  <2> QED BY <1>1, <1>4, <2>1, <2>2, <2>3 DEF ListEnabled, ActorStep
<1>5. CASE ReadCatalog(a)
  <2> DEFINE empty == [Empty EXCEPT !.generation = NextGeneration(a)]
             n == [q EXCEPT !.pc = "connect", !.todo = Enabled(q.configs), !.previous = catalog.entries,
                            !.next = empty]
  <2>1. empty \in Catalogs /\ empty.generation = catalog.generation + 1
    BY <1>1, NothingYet DEF Catalogs, NextGeneration
  <2>2. Enabled(q.configs) \in SUBSET Servers /\ catalog.entries \in SUBSET AllEntries
    BY <1>1 DEF Enabled, Catalogs
  <2>3. Becomes(a, n)
    BY <1>1, <1>5 DEF ReadCatalog, Becomes, q
  <2> HIDE DEF empty
  <2>4. /\ n \in ActorShape /\ n.pc = "connect" /\ n.next = empty
        /\ n.todo = Enabled(q.configs) /\ n.configs = q.configs
    BY <1>1, <2>1, <2>2 DEF ActorShape, McpPoints
  <2> HIDE DEF n
  <2>5. TodoOf(n) /\ QuietStep(a, n)
    BY <1>5, <2>1, <2>4 DEF ReadCatalog, At, TodoOf, QuietStep, Connecting, Reconciles, Numbered
  <2> QED BY <1>1, <1>5, <2>3, <2>4, <2>5 DEF ReadCatalog, ActorStep
<1>6. CASE Connect(a)
  <2> DEFINE n == [q EXCEPT !.pc = "list tools"]
  <2>1. /\ n \in ActorShape /\ n.pc = "list tools" /\ n.next = q.next
        /\ n.todo = q.todo /\ n.configs = q.configs
    BY <1>1 DEF ActorShape, McpPoints
  <2>2. Becomes(a, n) /\ q.pc = "connect" /\ q.todo # {}
    BY <1>1, <1>6 DEF Connect, At, Moves, Becomes, q
  <2> HIDE DEF n
  <2>3. TodoOf(n) /\ QuietStep(a, n)
    BY <1>1, <1>6, <2>1, <2>2 DEF Connect, TodoOf, QuietStep, Connecting, Reconciles, q
  <2>4. Server(a) \in Servers
    BY <1>1, <2>2 DEF Server, ActorShape, q
  <2>5. runtime' \in [Servers -> Runtimes]
    <3> DEFINE s == Server(a)
    <3>1. PICK status : status \in {"disconnected", runtime[s].status}
                        /\ runtime' = [runtime EXCEPT ![s] =
                             [known |-> TRUE, version |-> q.configs[s], status |-> status]]
      BY <1>6 DEF Connect, HasServer, q
    <3>2. [known |-> TRUE, version |-> q.configs[s], status |-> status] \in Runtimes
      BY <1>1, <2>4, <3>1 DEF Runtimes, ActorShape
    <3> QED BY <1>1, <3>1, <3>2
  <2> QED BY <1>1, <1>6, <2>1, <2>2, <2>3, <2>5 DEF Connect, ActorStep
<1>7. CASE ListTools(a) \/ Degrade(a)
  <2> DEFINE s == Server(a)
  <2>1. Connecting(q) /\ q.todo # {} /\ s \in q.todo /\ s \in Servers /\ q.configs[s] \in Endpoints
    <3>1. Connecting(q) /\ q.todo # {}
      BY <1>1, <1>7 DEF ListTools, Degrade, At, Connecting, TodoOf, q
    <3>2. s \in q.todo
      BY <3>1 DEF Server, q
    <3>3. s \in Servers /\ q.configs[s] # Off /\ q.configs[s] \in Versions
      BY <1>1, <3>1, <3>2 DEF TodoOf, Enabled, ActorShape
    <3> QED BY <3>1, <3>2, <3>3 DEF Versions
  <2>2. runtime' \in [Servers -> Runtimes]
    <3>1. \A version \in Versions, status \in {"connected", "degraded"} :
            [runtime EXCEPT ![s] = [known |-> TRUE, version |-> version, status |-> status]]
              \in [Servers -> Runtimes]
      BY <1>1 DEF Runtimes
    <3>2. runtime[s].version \in Versions /\ Off \in Versions
      BY <1>1, <2>1 DEF Runtimes, Versions
    <3> HIDE DEF s
    <3>3. CASE ListTools(a)
      BY <1>1, <3>1, <3>2, <3>3 DEF ListTools, HasServer, s
    <3>4. CASE Degrade(a)
      BY <1>1, <3>1, <3>2, <3>4 DEF Degrade, HasServer, s
    <3> QED BY <1>7, <3>3, <3>4
  <2>3. PICK status \in {"connected", "degraded"}, entries \in SUBSET AllEntries : Lists(a, s, status, entries)
    <3>1. CASE ListTools(a)
      <4>1. {Entry(s, q.configs[s], q.next.generation)} \in SUBSET AllEntries
        BY <1>1, <2>1 DEF Entry, AllEntries, ActorShape, Catalogs
      <4> QED BY <3>1, <4>1 DEF ListTools, q
    <3>2. CASE Degrade(a)
      <4> DEFINE kept == {[e EXCEPT !.generation = q.next.generation] : e \in Entries(q.previous, s)}
      <4>0. \A e \in AllEntries, g \in Nat : [e EXCEPT !.generation = g] \in AllEntries
        BY DEF AllEntries
      <4>1. kept \in SUBSET AllEntries
        <5>1. q.next.generation \in Nat /\ Entries(q.previous, s) \subseteq AllEntries
          BY <1>1 DEF Entries, ActorShape, Catalogs
        <5> QED BY <4>0, <5>1
      <4> QED BY <3>2, <4>1 DEF Degrade, q
    <3> QED BY <1>7, <3>1, <3>2
  <2> HIDE DEF s
  <2> DEFINE next == [q.next EXCEPT !.status[s] = status, !.entries = @ \cup entries]
             n == [q EXCEPT !.pc = "connect", !.todo = @ \ {s}, !.next = next]
  <2>4. next \in Catalogs /\ next.generation = q.next.generation
    BY <1>1, <2>1, <2>3 DEF ActorShape, Catalogs
  <2>5. Becomes(a, n)
    BY <1>1, <2>3, ZenonT(40) DEF Lists, Becomes, ActorShape, Catalogs, q
  <2> HIDE DEF next
  <2>6. /\ n \in ActorShape /\ n.pc = "connect" /\ n.next = next
        /\ n.todo \subseteq q.todo /\ n.configs = q.configs
    BY <1>1, <2>4 DEF ActorShape, McpPoints
  <2> HIDE DEF n
  <2>7. TodoOf(n) /\ QuietStep(a, n)
    BY <1>1, <2>1, <2>3, <2>4, <2>6 DEF Lists, TodoOf, QuietStep, Connecting, Reconciles, q
  <2> QED BY <1>1, <2>2, <2>3, <2>5, <2>6, <2>7 DEF Lists, ActorStep
<1>8. CASE PublishCatalog(a)
  <2> DEFINE pc == IF actors[a].run THEN "relist" ELSE "done"
             n == [Idle EXCEPT !.pc = pc]
  <2>0. pc \in McpPoints \ {"close", "connect", "list tools"}
    BY DEF McpPoints
  <2> HIDE DEF pc
  <2>1. n \in ActorShape /\ TodoOf(n) /\ ~Reconciles(n)
    BY <2>0, ForgetsNothingElse
  <2>2. Becomes(a, n)
    BY <1>8 DEF PublishCatalog, Forgets, Becomes, pc
  <2> HIDE DEF n
  <2>3. PublishStep(a, n)
    BY <1>8, <2>1 DEF PublishCatalog, PublishStep, At, Connecting
  <2> QED BY <1>1, <1>8, <2>1, <2>2, <2>3 DEF PublishCatalog, ActorStep
<1>9. CASE Relist(a)
  <2> DEFINE n == [q EXCEPT !.pc = "latch", !.configs = config]
  <2>1. n \in ActorShape /\ n.pc = "latch"
    BY <1>1 DEF ActorShape, McpPoints
  <2>2. Becomes(a, n)
    BY <1>1, <1>9 DEF Relist, Becomes, q
  <2> HIDE DEF n
  <2>3. TodoOf(n) /\ QuietStep(a, n)
    BY <1>9, <2>1 DEF Relist, TodoOf, QuietStep, Connecting, Reconciles
  <2> QED BY <1>1, <1>9, <2>1, <2>2, <2>3 DEF Relist, ActorStep
<1>10. CASE Latch(a)
  <2> DEFINE enabled == Enabled(actors[a].configs)
             servers == {s \in Servers : s \in enabled /\ Connected(s)}
             entries == {e \in catalog.entries : e.server \in enabled /\ Connected(e.server)}
  <2>1. entries = {e \in catalog.entries : e.server \in servers}
    BY <1>1 DEF Enabled
  <2> HIDE DEF servers, entries
  <2>2. servers \in SUBSET Servers
    BY DEF servers
  <2>3. CASE Forgets(a, "running") /\ snapshots' = [snapshots EXCEPT ![a] =
                [generation |-> catalog.generation, entries |-> entries]]
    <3> DEFINE n == [Idle EXCEPT !.pc = "running"]
    <3>1. n \in ActorShape /\ TodoOf(n) /\ ~Reconciles(n)
      BY ForgetsNothingElse DEF McpPoints
    <3>2. Becomes(a, n)
      BY <2>3 DEF Forgets, Becomes
    <3> HIDE DEF n
    <3>3. LatchStep(a, n)
      BY <1>10, <2>1, <2>2, <2>3, <3>1 DEF Latch, LatchStep
    <3> QED BY <1>1, <1>10, <3>1, <3>2, <3>3 DEF Latch, ActorStep
  <2>4. CASE Forgets(a, "done") /\ UNCHANGED snapshots
    <3> DEFINE n == [Idle EXCEPT !.pc = "done"]
    <3>1. n \in ActorShape /\ TodoOf(n) /\ ~Reconciles(n)
      BY ForgetsNothingElse DEF McpPoints
    <3>2. Becomes(a, n)
      BY <2>4 DEF Forgets, Becomes
    <3> HIDE DEF n
    <3>3. QuietStep(a, n)
      BY <1>10, <2>4, <3>1 DEF Latch, QuietStep, Reconciles, Connecting
    <3> QED BY <1>1, <1>10, <3>1, <3>2, <3>3 DEF Latch, ActorStep
  <2> QED BY <1>10, <2>3, <2>4 DEF Latch, entries
<1>11. CASE EndRun(a)
  <2> DEFINE n == [q EXCEPT !.pc = "done"]
  <2>1. n \in ActorShape /\ n.pc = "done"
    BY <1>1 DEF ActorShape, McpPoints
  <2>2. Becomes(a, n)
    BY <1>1, <1>11 DEF EndRun, Moves, Becomes, q
  <2> HIDE DEF n
  <2>3. TodoOf(n) /\ QuietStep(a, n)
    BY <1>11, <2>1 DEF EndRun, TodoOf, QuietStep, Connecting, Reconciles
  <2> QED BY <1>1, <1>11, <2>1, <2>2, <2>3 DEF EndRun, ActorStep
<1>12. ASSUME NEW s \in Servers, CloseGone(a, s) PROVE \E n : ActorStep(a, n)
  <2>1. runtime' \in [Servers -> Runtimes]
    BY <1>1, <1>12, NothingYet DEF CloseGone
  <2>2. CASE actors' = [actors EXCEPT ![a].todo = @ \ {s}]
    <3> DEFINE n == [q EXCEPT !.todo = @ \ {s}]
    <3>1. n \in ActorShape /\ n.pc = q.pc
      BY <1>1 DEF ActorShape
    <3>2. Becomes(a, n) /\ q.pc = "close"
      BY <1>1, <1>12, <2>2 DEF CloseGone, At, Becomes, q
    <3> HIDE DEF n
    <3>3. TodoOf(n) /\ QuietStep(a, n)
      BY <1>12, <3>1, <3>2 DEF CloseGone, TodoOf, QuietStep, Connecting, Reconciles, q
    <3> QED BY <1>1, <1>12, <2>1, <3>1, <3>2, <3>3 DEF CloseGone, ActorStep
  <2>3. CASE Forgets(a, "done")
    <3> DEFINE n == [Idle EXCEPT !.pc = "done"]
    <3>1. n \in ActorShape /\ TodoOf(n) /\ ~Reconciles(n)
      BY ForgetsNothingElse DEF McpPoints
    <3>2. Becomes(a, n)
      BY <2>3 DEF Forgets, Becomes
    <3> HIDE DEF n
    <3>3. QuietStep(a, n)
      BY <1>12, <3>1 DEF CloseGone, QuietStep, Reconciles, Connecting
    <3> QED BY <1>1, <1>12, <2>1, <3>1, <3>2, <3>3 DEF CloseGone, ActorStep
  <2> QED BY <1>12, <2>2, <2>3 DEF CloseGone
<1>13. ASSUME NEW e \in snapshots[a].entries, CallServer(a, e) PROVE \E n : ActorStep(a, n)
  <2>1. Becomes(a, q) /\ QuietStep(a, q)
    BY <1>1, <1>13 DEF CallServer, Becomes, QuietStep, q
  <2>2. e \in AllEntries
    BY DEF McpInv, McpShape, Latched
  <2>3. calls' \in [Actors -> SUBSET AllEntries]
    BY <1>1, <1>13, <2>2 DEF CallServer
  <2> QED BY <1>1, <1>13, <2>1, <2>3 DEF CallServer, ActorStep
<1> QED BY <1>2, <1>3, <1>4, <1>5, <1>6, <1>7, <1>8, <1>9, <1>10, <1>11, <1>12, <1>13

\* The inductive invariant of the catalogue.
LEMMA NextInv == McpInv /\ [McpNext]_mcpVars => McpInv'
<1>1. ASSUME McpInv, McpNext PROVE McpInv'
  <2>1. PICK a \in Actors : \E n : ActorStep(a, n)
    BY <1>1, StepKinds DEF McpNext
  <2>2. PICK n : ActorStep(a, n)
    BY <2>1
  <2> QED BY <1>1, <2>2, StepShape, StepTodo, StepGeneration DEF McpInv
<1>2. ASSUME McpInv, UNCHANGED mcpVars PROVE McpInv'
  BY <1>2 DEF mcpVars, McpInv, McpShape, TodoInv, GenerationInv, Reconciling, Enabled
<1> QED BY <1>1, <1>2

------------------------------------------------------------------------------
(* The theorems *)

\* The configuration, the connections, what is published, latched and called, and the progress of
\* every reconcile (mcp-connection.manager.ts) keep their types.
THEOREM McpTypes == McpSpec => []McpTypeOK
<1>1. McpInv => McpTypeOK
  <2> SUFFICES ASSUME McpInv PROVE McpTypeOK
    OBVIOUS
  <2>1. ASSUME NEW s \in Servers
        PROVE  /\ {config[s], runtime[s].version} \subseteq Endpoints \cup {Off}
               /\ runtime[s].known \in BOOLEAN
               /\ catalog.status[s] \in {"none", "connected", "degraded"}
               /\ runtime[s].status \in {"none", "disconnected", "connected", "degraded"}
    BY DEF McpInv, McpShape, Runtimes, Versions, Catalogs
  <2>2. ASSUME NEW a \in Actors, NEW e \in snapshots[a].entries \cup calls[a]
        PROVE  e.server \in Servers /\ e.version \in Endpoints /\ e.generation \in Nat
    <3>1. e \in AllEntries
      BY DEF McpInv, McpShape, Latched
    <3> QED BY <3>1 DEF AllEntries
  <2>3. \A a \in Actors : actors[a].pc \in McpPoints
    BY DEF McpInv, McpShape, ActorShape
  <2>4. overlapped \in BOOLEAN
    BY DEF McpInv, McpShape
  <2> QED BY <2>1, <2>2, <2>3, <2>4 DEF McpTypeOK, McpPoints
<1> QED BY <1>1, InitInv, NextInv, PTL DEF McpSpec

\* A call that reaches a server (mcp-tool-executor.ts execute) belongs to the catalogue that is
\* published: as long as no two reconciles overlapped, equal generations mean equal entries.
THEOREM CallsBelongToTheCatalog == McpSpec => CallsMatchTheirCatalog
<1> DEFINE Matches ==
           \A a \in Actors :
             calls'[a] # calls[a] => overlapped \/ snapshots[a].entries =
               {e \in catalog.entries : \E x \in snapshots[a].entries : x.server = e.server}
<1>1. McpInv /\ [McpNext]_mcpVars => [Matches]_mcpVars
  <2> SUFFICES ASSUME McpInv, McpNext, NEW a \in Actors, calls'[a] # calls[a], ~overlapped
               PROVE  snapshots[a].entries =
                        {e \in catalog.entries : \E x \in snapshots[a].entries : x.server = e.server}
    BY DEF Matches
  <2>1. PICK b \in Actors : \E e \in snapshots[b].entries : CallServer(b, e)
    BY ZenonT(40) DEF McpNext, StartRun, ChangeConfig, ListEnabled, ReadCatalog, Connect, ListTools, Degrade, Lists,
           PublishCatalog, Relist, Latch, EndRun, CloseGone
  <2>2. a = b
    BY <2>1 DEF CallServer, McpInv, McpShape
  <2>3. snapshots[a].generation = catalog.generation
    BY <2>1, <2>2 DEF CallServer, Stale
  <2> QED BY <2>3 DEF McpInv, GenerationInv, Current
<1> QED BY <1>1, InitInv, NextInv, PTL DEF McpSpec, CallsMatchTheirCatalog

------------------------------------------------------------------------------
(* What holds of the memories of a user for any number of calls. The inductive invariant says  *)
(* what type everything has (MemShape), which record a call, its embedding and its scan are    *)
(* about (CallInv), that the record of a call that has yet to scan is active (KeptInv), and    *)
(* that one embedding or rewriting of a record is under way at a time and its column is made   *)
(* from its text, unless the record is blurred (TextInv).                                      *)

Texts == Records \cup {NoMemoryText}
RowShape == [status : {"none", "active", "superseded", "expired"}, text : Texts, title : {1, 2},
             vector : Texts]
CallPoints == {"new", "compare", "found", "insert", "inserting", "clearing", "waiting", "deleting",
               "expiring", "done"}
CallShape == [pc : CallPoints, by : {"tool", "settings"}, id : Texts, title : {1, 2},
              sync : BOOLEAN, listed : SUBSET Records]
EmbedShape == [pc : {"idle", "computing", "column", "clear"}, id : Texts]
ScanShape == [pc : {"idle", "computing", "marking"}, victims : SUBSET Records]

MemShape ==
  /\ memories \in [Records -> RowShape] /\ column \in [Records -> Texts]
  /\ writes \in [Writes -> CallShape] /\ embeds \in [Writes -> EmbedShape]
  /\ scans \in [Writes -> ScanShape]
  /\ asked \in BOOLEAN /\ crossed \in BOOLEAN /\ blurred \subseteq Records

Written(m) == m \in Records /\ memories[m].status # "none"

\* A call writes before it embeds and scans, and both are about the record it has written. A record
\* that a call creates does not exist before.
CallInv ==
  /\ \A m \in Records : memories[m].status = "none" =>
       memories[m].vector = NoMemoryText /\ column[m] = NoMemoryText
  /\ \A w \in Writes :
       /\ memories[w].status # "none" => writes[w].pc \in {"waiting", "done"}
       /\ writes[w].pc \in {"found", "clearing", "waiting", "deleting", "expiring"} => Written(writes[w].id)
       /\ \A m \in writes[w].listed : Written(m)
       /\ embeds[w].pc # "idle" =>
            writes[w].pc \in {"waiting", "done"} /\ embeds[w].id = writes[w].id /\ Written(embeds[w].id)
       /\ scans[w].pc # "idle" => writes[w].pc = "done" /\ Written(writes[w].id)
       /\ scans[w].pc = "marking" => writes[w].id \notin scans[w].victims
       /\ \A m \in scans[w].victims : Written(m)
       /\ writes[w].pc \in {"deleting", "expiring"} => asked

KeptInv ==
  asked \/ crossed \/
    /\ (\E m \in Records : Written(m)) => Active # {}
    /\ \A w \in Writes : ToScan(w) => writes[w].id \in Active

Embeds(w, m) == embeds[w].pc # "idle" /\ embeds[w].id = m
Clears(w, m) == writes[w].pc = "clearing" /\ writes[w].id = m

TextOf(m) ==
  /\ \A v, w \in Writes :
       (Embeds(v, m) \/ Clears(v, m)) /\ (Embeds(w, m) \/ Clears(w, m)) => v = w
  /\ \A w \in Writes : Embeds(w, m) \/ Clears(w, m) => memories[m].text = w
  /\ \A w \in Writes : Clears(w, m) => memories[m].vector = NoMemoryText
  /\ column[m] \in {NoMemoryText, memories[m].text} \/ \E w \in Writes : Clears(w, m)

TextInv == \A m \in Records \ blurred : TextOf(m)

MemInv == MemShape /\ CallInv /\ KeptInv /\ TextInv

------------------------------------------------------------------------------
\* A user without memories, or with one that is embedded.
LEMMA MemInitInv == MemInit => MemInv
<1> SUFFICES ASSUME MemInit PROVE MemInv
  OBVIOUS
<1> USE DEF NoMemoryText
<1>1. PICK row \in {NoMemory, Stored} :
        /\ memories = [m \in Records |-> IF m = OldRecord THEN row ELSE NoMemory]
        /\ column = [m \in Records |-> IF m = OldRecord THEN row.vector ELSE NoMemoryText]
  BY DEF MemInit
<1>2. /\ NoMemory \in RowShape /\ row \in RowShape /\ row.vector \in {NoMemoryText, row.text}
      /\ row.status \in {"none", "active"} /\ (row.status = "none" => row.vector = NoMemoryText)
  <2>1. NoMemory \in RowShape /\ NoMemory.status = "none" /\ NoMemory.vector = NoMemoryText
    BY DEF NoMemory, RowShape, Texts
  <2>2. Stored \in RowShape /\ Stored.status = "active" /\ Stored.vector = Stored.text
    <3> HIDE DEF NoMemory
    <3> QED BY <2>1 DEF Stored, RowShape, Texts, Records
  <2> QED BY <1>1, <2>1, <2>2
<1>3. MemShape
  <2>1. memories \in [Records -> RowShape] /\ column \in [Records -> Texts]
    BY <1>1, <1>2 DEF RowShape, Texts
  <2>2. NewCall \in CallShape /\ NoEmbedding \in EmbedShape /\ [pc |-> "idle", victims |-> {}] \in ScanShape
    BY DEF NewCall, CallShape, CallPoints, NoEmbedding, EmbedShape, ScanShape, Texts
  <2> QED BY <2>1, <2>2 DEF MemInit, MemShape
<1>4. CallInv
  <2>1. \A m \in Records : memories[m].status = "none" =>
          memories[m].vector = NoMemoryText /\ column[m] = NoMemoryText
    BY <1>1, <1>2 DEF NoMemory
  <2>2. \A w \in Writes : memories[w].status = "none"
    BY <1>1, RecordNames DEF NoMemory, Records
  <2> QED BY <2>1, <2>2 DEF MemInit, CallInv, NewCall, NoEmbedding
<1>5. KeptInv
  BY <1>1, <1>2 DEF MemInit, KeptInv, Active, Written, ToScan, NewCall, NoMemory
<1>6. TextInv
  BY <1>1, <1>2 DEF MemInit, TextInv, TextOf, Embeds, Clears, NewCall, NoEmbedding, NoMemory
<1> QED BY <1>3, <1>4, <1>5, <1>6 DEF MemInv

------------------------------------------------------------------------------
(* Steps before a record is written *)

\* A call that does not write a record goes on, or clears the column of one that was deleted.
PreludeStep(w, q) ==
  /\ writes[w].pc \notin {"clearing", "waiting", "done"} /\ q \in CallShape
  /\ q.pc \notin {"clearing", "waiting"} /\ writes' = [writes EXCEPT ![w] = q]
  /\ q.pc \in {"found", "deleting", "expiring"} => Written(q.id)
  /\ q.pc \in {"deleting", "expiring"} => asked'
  /\ \A m \in q.listed : Written(m)
  /\ column' \in [Records -> Texts] /\ \A m \in Records : column'[m] \in {NoMemoryText, column[m]}
  /\ asked' \in BOOLEAN /\ (asked => asked')
  /\ UNCHANGED <<memories, embeds, scans, crossed, blurred>>

\* Nothing is claimed of such a call.
LEMMA PreludeKeeps ==
  ASSUME MemInv, NEW w \in Writes, NEW q, PreludeStep(w, q)
  PROVE  MemInv'
<1>1. \A v \in Writes : writes'[v] = IF v = w THEN q ELSE writes[v]
  BY DEF PreludeStep, MemInv, MemShape
<1>2. embeds[w].pc = "idle" /\ scans[w].pc = "idle" /\ memories[w].status = "none"
  BY DEF PreludeStep, MemInv, CallInv
<1>3. MemShape'
  BY DEF PreludeStep, MemInv, MemShape
<1>4. CallInv'
  <2>1. \A m : Written(m)' = Written(m)
    BY DEF PreludeStep, Written
  <2>2. \A m \in Records : memories[m].status = "none" => column'[m] = NoMemoryText
    BY DEF PreludeStep, MemInv, CallInv
  <2> QED BY <1>1, <1>2, <2>1, <2>2 DEF PreludeStep, MemInv, CallInv
<1>5. KeptInv'
  <2>1. \A v \in Writes : ToScan(v)' => ToScan(v) /\ writes'[v].id = writes[v].id
    BY <1>1, <1>2 DEF PreludeStep, ToScan
  <2>2. Active' = Active /\ \A m : Written(m)' = Written(m)
    BY DEF PreludeStep, Active, Written
  <2> QED BY <2>1, <2>2 DEF PreludeStep, MemInv, KeptInv
<1>6. TextInv'
  <2>1. \A v \in Writes, m \in Records : Clears(v, m)' = Clears(v, m) /\ Embeds(v, m)' = Embeds(v, m)
    BY <1>1 DEF PreludeStep, Clears, Embeds
  <2> QED BY <2>1 DEF PreludeStep, MemInv, TextInv, TextOf
<1> QED BY <1>3, <1>4, <1>5, <1>6 DEF MemInv

\* The actions that are such steps.
LEMMA Preludes ==
  ASSUME MemInv, NEW w \in Writes,
         \/ BeginRemember(w) \/ Compare(w) \/ BeginRememberFromSettings(w) \/ CountActive(w)
         \/ ClearDeleted(w) \/ \E m \in Records : BeginUpdate(w, m) \/ BeginForget(w, m)
  PROVE  MemInv'
<1> DEFINE c == writes[w]
<1>1. /\ c \in CallShape /\ writes \in [Writes -> CallShape] /\ column \in [Records -> Texts]
      /\ asked \in BOOLEAN /\ NewCall \in CallShape /\ Active \subseteq Records
  BY DEF MemInv, MemShape, NewCall, CallShape, CallPoints, Texts, Active
<1>2. \A m \in Active : Written(m)
  BY DEF Active, Written
<1>3. Embedded \in SUBSET Active
  BY DEF Embedded
<1> HIDE DEF c
<1>4. CASE BeginRemember(w)
  <2> DEFINE Call(title, sync) == [NewCall EXCEPT !.title = title, !.sync = sync]
             Same(title) == {m \in Active : memories[m].title = title}
             Steps(title, sync) ==
               IF Same(title) # {} THEN {[Call(title, sync) EXCEPT !.pc = "found", !.id = m] : m \in Same(title)}
               ELSE IF Embedded = {} THEN {[Call(title, sync) EXCEPT !.pc = "insert"]}
               ELSE {[Call(title, sync) EXCEPT !.pc = "compare", !.listed = Embedded]}
  <2>0. PICK title \in {1, 2}, sync \in BOOLEAN :
          \E step \in Steps(title, sync) : writes' = [writes EXCEPT ![w] = step]
    BY <1>4 DEF BeginRemember
  <2> DEFINE call == Call(title, sync)
  <2>1. PICK q :
          /\ writes' = [writes EXCEPT ![w] = q]
          /\ \/ \E m \in Active : q = [call EXCEPT !.pc = "found", !.id = m]
             \/ q = [call EXCEPT !.pc = "insert"]
             \/ q = [call EXCEPT !.pc = "compare", !.listed = Embedded]
    <3>1. PICK q \in Steps(title, sync) : writes' = [writes EXCEPT ![w] = q]
      BY <2>0
    <3> HIDE DEF call
    <3>2. q \in IF Same(title) # {} THEN {[call EXCEPT !.pc = "found", !.id = m] : m \in Same(title)}
               ELSE IF Embedded = {} THEN {[call EXCEPT !.pc = "insert"]}
               ELSE {[call EXCEPT !.pc = "compare", !.listed = Embedded]}
      BY <3>1 DEF call
    <3> QED BY <3>1, <3>2
  <2>2. call \in CallShape /\ call.listed = {}
    BY <1>1 DEF CallShape, NewCall
  <2> HIDE DEF call
  <2>3. /\ q \in CallShape /\ q.pc \in {"found", "insert", "compare"}
        /\ q.pc = "found" => q.id \in Active
        /\ q.listed \subseteq Active
    <3>1. CASE q = [call EXCEPT !.pc = "insert"]
      BY <2>2, <3>1 DEF CallShape, CallPoints
    <3>2. CASE q = [call EXCEPT !.pc = "compare", !.listed = Embedded]
      BY <1>1, <1>3, <2>2, <3>2 DEF CallShape, CallPoints
    <3>3. ASSUME NEW m \in Active, q = [call EXCEPT !.pc = "found", !.id = m]
          PROVE  q \in CallShape /\ q.pc = "found" /\ q.id = m /\ q.listed = {}
      BY <1>1, <2>2, <3>3 DEF CallShape, CallPoints, Texts
    <3> QED BY <2>1, <3>1, <3>2, <3>3, <2>2, <1>3 DEF call, CallShape
  <2>4. PreludeStep(w, q)
    BY <1>1, <1>2, <1>4, <2>1, <2>3 DEF BeginRemember, PreludeStep
  <2> QED BY <2>4, PreludeKeeps
<1>5. CASE Compare(w)
  <2> DEFINE call == [writes[w] EXCEPT !.listed = {}]
  <2>1. PICK q : /\ writes' = [writes EXCEPT ![w] = q]
                 /\ \/ \E m \in c.listed : q = [call EXCEPT !.pc = "found", !.id = m]
                    \/ q = [call EXCEPT !.pc = "insert"]
    BY <1>5 DEF Compare, c
  <2>2. call \in CallShape /\ call.listed = {}
    BY <1>1 DEF CallShape, c
  <2> HIDE DEF call
  <2>3. /\ q \in CallShape /\ q.pc \in {"found", "insert"} /\ q.listed = {}
        /\ q.pc = "found" => q.id \in c.listed
    <3>1. CASE q = [call EXCEPT !.pc = "insert"]
      BY <2>2, <3>1 DEF CallShape, CallPoints
    <3>2. ASSUME NEW m \in c.listed, q = [call EXCEPT !.pc = "found", !.id = m]
          PROVE  q \in CallShape /\ q.pc = "found" /\ q.id = m /\ q.listed = {}
      BY <1>1, <2>2, <3>2 DEF CallShape, CallPoints, Texts
    <3> QED BY <2>1, <3>1, <3>2
  <2>4. \A m \in c.listed : Written(m)
    BY DEF MemInv, CallInv, c
  <2>5. PreludeStep(w, q)
    BY <1>1, <1>5, <2>1, <2>3, <2>4 DEF Compare, PreludeStep
  <2> QED BY <2>5, PreludeKeeps
<1>6. CASE BeginRememberFromSettings(w)
  <2>1. PICK title \in {1, 2} :
          writes' = [writes EXCEPT ![w] = [NewCall EXCEPT !.pc = "insert", !.by = "settings", !.title = title]]
    BY <1>6 DEF BeginRememberFromSettings
  <2> DEFINE q == [NewCall EXCEPT !.pc = "insert", !.by = "settings", !.title = title]
  <2>2. q \in CallShape /\ q.pc = "insert" /\ q.listed = {}
    BY <1>1 DEF CallShape, CallPoints, NewCall
  <2> HIDE DEF q
  <2>3. writes' = [writes EXCEPT ![w] = q]
    BY <2>1 DEF q
  <2>4. PreludeStep(w, q)
    BY <1>1, <1>6, <2>2, <2>3 DEF BeginRememberFromSettings, PreludeStep
  <2> QED BY <2>4, PreludeKeeps
<1>7. CASE CountActive(w)
  <2>1. PICK pc \in {"inserting", "done"} : writes' = [writes EXCEPT ![w].pc = pc]
    BY <1>7 DEF CountActive, Reaches
  <2> DEFINE q == [c EXCEPT !.pc = pc]
  <2>2. q \in CallShape /\ q.pc \in {"inserting", "done"} /\ q.listed = c.listed
    BY <1>1 DEF CallShape, CallPoints
  <2>3. writes' = [writes EXCEPT ![w] = q]
    BY <1>1, <2>1 DEF c
  <2> HIDE DEF q
  <2>4. PreludeStep(w, q)
    BY <1>1, <1>7, <2>2, <2>3 DEF CountActive, PreludeStep, MemInv, CallInv, c
  <2> QED BY <2>4, PreludeKeeps
<1>8. CASE ClearDeleted(w)
  <2> DEFINE q == [c EXCEPT !.pc = "done"]
  <2>1. q \in CallShape /\ q.pc = "done" /\ q.listed = c.listed
    BY <1>1 DEF CallShape, CallPoints
  <2>2. writes' = [writes EXCEPT ![w] = q]
    BY <1>1, <1>8 DEF ClearDeleted, Reaches, c
  <2> HIDE DEF q
  <2>3. column' \in [Records -> Texts] /\ \A m \in Records : column'[m] \in {NoMemoryText, column[m]}
    BY <1>1, <1>8 DEF ClearDeleted, Texts
  <2>4. PreludeStep(w, q)
    BY <1>1, <1>8, <2>1, <2>2, <2>3 DEF ClearDeleted, PreludeStep, MemInv, CallInv, c
  <2> QED BY <2>4, PreludeKeeps
<1>9. ASSUME NEW m \in Records, BeginUpdate(w, m) PROVE MemInv'
  <2>1. Written(m)
    BY <1>9 DEF BeginUpdate, Written
  <2>2. PICK q : /\ writes' = [writes EXCEPT ![w] = q]
                 /\ \/ \E sync \in BOOLEAN : q = [NewCall EXCEPT !.pc = "found", !.id = m, !.sync = sync]
                    \/ q = [NewCall EXCEPT !.pc = "found", !.id = m, !.by = "settings"]
    BY <1>9 DEF BeginUpdate
  <2>3. q \in CallShape /\ q.pc = "found" /\ q.id = m /\ q.listed = {}
    BY <1>1, <2>2 DEF CallShape, CallPoints, NewCall, Texts
  <2>4. PreludeStep(w, q)
    BY <1>1, <1>9, <2>1, <2>2, <2>3 DEF BeginUpdate, PreludeStep
  <2> QED BY <2>4, PreludeKeeps
<1>10. ASSUME NEW m \in Records, BeginForget(w, m) PROVE MemInv'
  <2> DEFINE q == [c EXCEPT !.pc = "deleting", !.id = m]
  <2>1. q \in CallShape /\ q.pc = "deleting" /\ q.id = m /\ q.listed = c.listed
    BY <1>1 DEF CallShape, CallPoints, Texts
  <2>2. writes' = [writes EXCEPT ![w] = q]
    BY <1>1, <1>10 DEF BeginForget, c
  <2> HIDE DEF q
  <2>3. PreludeStep(w, q)
    BY <1>1, <1>10, <2>1, <2>2 DEF BeginForget, PreludeStep, Written, MemInv, CallInv, c
  <2> QED BY <2>3, PreludeKeeps
<1> QED BY <1>4, <1>5, <1>6, <1>7, <1>8, <1>9, <1>10

------------------------------------------------------------------------------
(* The steps that write *)

\* What follows a record that is written: its embedding, and for the tool its scan.
LEMMA FollowsFacts ==
  ASSUME MemInv, NEW w \in Writes, NEW m \in Records, Follows(w, m), scans[w].pc = "idle"
  PROVE  /\ writes' \in [Writes -> CallShape] /\ embeds' \in [Writes -> EmbedShape]
         /\ scans' \in [Writes -> ScanShape]
         /\ writes'[w].pc \in {"waiting", "done"} /\ writes'[w].id = m /\ writes'[w].listed = {}
         /\ embeds'[w].pc = "computing" /\ embeds'[w].id = m
         /\ scans'[w].pc \in {"idle", "computing"} /\ (scans'[w].pc = "computing" => writes'[w].pc = "done")
         /\ scans'[w].victims = scans[w].victims
         /\ \A v \in Writes : v # w =>
              writes'[v] = writes[v] /\ embeds'[v] = embeds[v] /\ scans'[v] = scans[v]
<1> DEFINE wpc == IF writes[w].by = "tool" /\ writes[w].sync THEN "waiting" ELSE "done"
           scansNow == writes[w].by = "tool" /\ ~writes[w].sync
           q == [NewCall EXCEPT !.pc = wpc, !.id = m]
           e == [pc |-> "computing", id |-> m]
           spc == IF scansNow THEN "computing" ELSE "idle"
           c == [scans[w] EXCEPT !.pc = spc]
<1>1. /\ writes \in [Writes -> CallShape] /\ embeds \in [Writes -> EmbedShape]
      /\ scans \in [Writes -> ScanShape] /\ NewCall \in CallShape /\ NewCall.listed = {} /\ e \in EmbedShape
  BY DEF MemInv, MemShape, NewCall, CallShape, CallPoints, Texts, EmbedShape
<1>2. writes' = [writes EXCEPT ![w] = q] /\ embeds' = [embeds EXCEPT ![w] = e]
  BY DEF Follows
<1>3. scans' = [scans EXCEPT ![w] = c]
  BY <1>1 DEF Follows, ScanShape
<1>4. wpc \in {"waiting", "done"} /\ spc \in {"idle", "computing"} /\ (spc = "computing" => wpc = "done")
  OBVIOUS
<1> HIDE DEF wpc, spc
<1>5. q \in CallShape /\ q.pc = wpc /\ q.id = m /\ q.listed = {}
  BY <1>1, <1>4 DEF CallShape, CallPoints, Texts
<1>6. c \in ScanShape /\ c.pc = spc /\ c.victims = scans[w].victims
  BY <1>1, <1>4 DEF ScanShape
<1> HIDE DEF q, c
<1> QED BY <1>1, <1>2, <1>3, <1>4, <1>5, <1>6

\* A record that no call is about yet.
LEMMA CreateKeeps ==
  ASSUME MemInv, NEW w \in Writes, CreateRecord(w)
  PROVE  MemInv'
<1> DEFINE r == [NoMemory EXCEPT !.status = "active", !.text = w, !.title = writes[w].title]
<1>1. r \in RowShape /\ r.status = "active" /\ r.text = w /\ r.vector = NoMemoryText
  BY DEF MemInv, MemShape, RowShape, CallShape, NoMemory, Texts, Records
<1>2. memories' = [memories EXCEPT ![w] = r]
  BY DEF CreateRecord
<1> HIDE DEF r
<1>3. w \in Records /\ writes[w].pc = "inserting" /\ Follows(w, w)
  BY DEF CreateRecord, Records
<1>4. embeds[w].pc = "idle" /\ scans[w].pc = "idle" /\ memories[w].status = "none"
      /\ column[w] = NoMemoryText
  BY <1>3 DEF MemInv, CallInv
<1>5. /\ writes' \in [Writes -> CallShape] /\ embeds' \in [Writes -> EmbedShape]
      /\ scans' \in [Writes -> ScanShape]
      /\ writes'[w].pc \in {"waiting", "done"} /\ writes'[w].id = w /\ writes'[w].listed = {}
      /\ embeds'[w].pc = "computing" /\ embeds'[w].id = w
      /\ scans'[w].pc \in {"idle", "computing"} /\ (scans'[w].pc = "computing" => writes'[w].pc = "done")
      /\ scans'[w].victims = scans[w].victims
      /\ \A v \in Writes : v # w =>
           writes'[v] = writes[v] /\ embeds'[v] = embeds[v] /\ scans'[v] = scans[v]
  BY <1>3, <1>4, FollowsFacts
<1>6. /\ \A m \in Records : memories'[m] = IF m = w THEN r ELSE memories[m]
      /\ memories' \in [Records -> RowShape]
  BY <1>1, <1>2, <1>3 DEF MemInv, MemShape
<1>7. UNCHANGED <<column, asked, crossed, blurred>>
  BY DEF CreateRecord
<1>8. MemShape'
  BY <1>5, <1>6, <1>7 DEF MemInv, MemShape
<1>9. \A m : Written(m) => Written(m)'
  BY <1>1, <1>6 DEF Written
<1>10. Written(w)'
  BY <1>1, <1>3, <1>6 DEF Written
<1>11. CallInv'
  <2>1. \A m \in Records : memories'[m].status = "none" =>
          memories'[m].vector = NoMemoryText /\ column'[m] = NoMemoryText
    BY <1>1, <1>6, <1>7 DEF MemInv, CallInv
  <2>2. \A v \in Writes : memories'[v].status # "none" => writes'[v].pc \in {"waiting", "done"}
    BY <1>5, <1>6 DEF MemInv, CallInv, Records
  <2> QED BY <1>4, <1>5, <1>7, <1>9, <1>10, <2>1, <2>2 DEF MemInv, CallInv
<1>12. KeptInv'
  <2>1. w \in Active'
    BY <1>1, <1>3, <1>6 DEF Active
  <2>2. Active \subseteq Active'
    BY <1>1, <1>6 DEF Active
  <2>3. \A v \in Writes : v # w => (ToScan(v)' = ToScan(v) /\ writes'[v].id = writes[v].id)
    BY <1>5 DEF ToScan
  <2> QED BY <1>5, <1>7, <2>1, <2>2, <2>3 DEF MemInv, KeptInv
<1>13. TextInv'
  <2>1. \A v \in Writes : ~Clears(v, w) /\ ~Embeds(v, w)
    BY <1>4 DEF MemInv, CallInv, Clears, Embeds, Written
  <2>2. \A v \in Writes, m \in Records :
          /\ Clears(v, m)' = Clears(v, m)
          /\ Embeds(v, m)' = (Embeds(v, m) \/ (v = w /\ m = w))
    BY <1>3, <1>4, <1>5 DEF Clears, Embeds
  <2>3. ASSUME NEW m \in Records \ blurred PROVE TextOf(m)'
    <3>1. CASE m = w
      BY <1>1, <1>4, <1>6, <1>7, <2>1, <2>2, <3>1 DEF TextOf
    <3>2. CASE m # w
      <4>1. TextOf(m)
        BY DEF MemInv, TextInv
      <4> QED BY <1>6, <1>7, <2>2, <3>2, <4>1 DEF TextOf
    <3> QED BY <3>1, <3>2
  <2> QED BY <1>7, <2>3 DEF TextInv
<1> QED BY <1>8, <1>11, <1>12, <1>13 DEF MemInv

\* A record that is rewritten while nothing else is done to it has its vector cleared, then its column.
LEMMA UpdateKeeps ==
  ASSUME MemInv, NEW w \in Writes, UpdateContent(w)
  PROVE  MemInv'
<1> DEFINE n == writes[w].id
           r == NewContent(memories[n], w)
           q == [writes[w] EXCEPT !.pc = "clearing"]
<1>1. n \in Records /\ writes[w].pc = "found" /\ Written(n)
  BY DEF UpdateContent, MemInv, CallInv, Written
<1>2. /\ q \in CallShape /\ q.pc = "clearing" /\ q.id = n /\ q.listed = writes[w].listed
      /\ writes' = [writes EXCEPT ![w] = q]
  BY DEF UpdateContent, Reaches, MemInv, MemShape, CallShape, CallPoints
<1>3. r \in RowShape /\ r.status = "active" /\ r.text = w /\ r.vector = NoMemoryText
  <2>1. memories[n] \in RowShape /\ w \in Texts /\ writes[w].title \in {1, 2} /\ NoMemoryText \in Texts
    BY <1>1 DEF MemInv, MemShape, CallShape, Texts, Records
  <2> HIDE DEF n
  <2> QED BY <2>1 DEF NewContent, RowShape
<1>4. memories' = [memories EXCEPT ![n] = r]
  BY <1>1 DEF UpdateContent, MemInv, MemShape
<1>5. embeds[w].pc = "idle" /\ scans[w].pc = "idle" /\ memories[w].status = "none"
  BY <1>1 DEF MemInv, CallInv
<1>6. /\ \A v \in Writes : writes'[v] = IF v = w THEN q ELSE writes[v]
      /\ \A m \in Records : memories'[m] = IF m = n THEN r ELSE memories[m]
      /\ UNCHANGED <<column, embeds, scans, asked, crossed>>
      /\ blurred' = blurred \cup {m \in {n} : Busy(m)}
  BY <1>1, <1>2, <1>4 DEF UpdateContent, MemInv, MemShape
<1>7. MemShape'
  BY <1>1, <1>2, <1>3, <1>4, <1>6 DEF MemInv, MemShape
<1> HIDE DEF q, r
<1>8. \A m : Written(m) => Written(m)'
  BY <1>3, <1>6 DEF Written
<1>9. n # w
  BY <1>1, <1>5 DEF Written
<1>10. CallInv'
  <2>1. \A m \in Records : memories'[m].status = "none" =>
          memories'[m].vector = NoMemoryText /\ column'[m] = NoMemoryText
    BY <1>3, <1>6 DEF MemInv, CallInv
  <2>2. \A v \in Writes : memories'[v].status # "none" => writes'[v].pc \in {"waiting", "done"}
    BY <1>1, <1>5, <1>6, <1>9 DEF MemInv, CallInv, Records, Written
  <2> HIDE DEF n
  <2> QED BY <1>1, <1>2, <1>5, <1>6, <1>8, <2>1, <2>2 DEF MemInv, CallInv
<1>11. KeptInv'
  <2>1. n \in Active' /\ Active \subseteq Active'
    BY <1>1, <1>3, <1>6 DEF Active
  <2>2. \A v \in Writes : v # w => (ToScan(v)' = ToScan(v) /\ writes'[v].id = writes[v].id)
    BY <1>6 DEF ToScan
  <2>3. writes'[w].id = n
    BY <1>2, <1>6
  <2> QED BY <1>6, <2>1, <2>2, <2>3 DEF MemInv, KeptInv
<1>12. TextInv'
  <2>1. \A v \in Writes, m \in Records :
          /\ Embeds(v, m)' = Embeds(v, m)
          /\ Clears(v, m)' = (Clears(v, m) \/ (v = w /\ m = n))
    BY <1>1, <1>2, <1>6 DEF Clears, Embeds
  <2>2. ASSUME NEW m \in Records \ blurred' PROVE TextOf(m)'
    <3>1. CASE m = n
      <4>1. ~Busy(n)
        BY <1>6, <2>2, <3>1
      <4>2. \A v \in Writes : ~Clears(v, n) /\ ~Embeds(v, n)
        BY <4>1 DEF Busy, Embedding, Clears, Embeds
      <4> QED BY <1>3, <1>6, <2>1, <3>1, <4>2 DEF TextOf
    <3>2. CASE m # n
      <4>1. TextOf(m)
        BY <1>6, <2>2 DEF MemInv, TextInv
      <4> HIDE DEF n
      <4> QED BY <1>6, <2>1, <3>2, <4>1 DEF TextOf
    <3> QED BY <3>1, <3>2
  <2> QED BY <2>2 DEF TextInv
<1> QED BY <1>7, <1>10, <1>11, <1>12 DEF MemInv

\* The column of a rewritten record is cleared, or the record is blurred; then it is embedded.
LEMMA ClearKeeps ==
  ASSUME MemInv, NEW w \in Writes, ClearColumn(w)
  PROVE  MemInv'
<1> DEFINE n == writes[w].id
<1>1. n \in Records /\ writes[w].pc = "clearing" /\ Written(n) /\ Follows(w, n)
  BY DEF ClearColumn, MemInv, CallInv, Written
<1>2. embeds[w].pc = "idle" /\ scans[w].pc = "idle" /\ memories[w].status = "none"
  BY <1>1 DEF MemInv, CallInv
<1> HIDE DEF n
<1>3. /\ writes' \in [Writes -> CallShape] /\ embeds' \in [Writes -> EmbedShape]
      /\ scans' \in [Writes -> ScanShape]
      /\ writes'[w].pc \in {"waiting", "done"} /\ writes'[w].id = n /\ writes'[w].listed = {}
      /\ embeds'[w].pc = "computing" /\ embeds'[w].id = n
      /\ scans'[w].pc \in {"idle", "computing"} /\ (scans'[w].pc = "computing" => writes'[w].pc = "done")
      /\ scans'[w].victims = scans[w].victims
      /\ \A v \in Writes : v # w =>
           writes'[v] = writes[v] /\ embeds'[v] = embeds[v] /\ scans'[v] = scans[v]
  BY <1>1, <1>2, FollowsFacts
<1>4. /\ UNCHANGED <<memories, asked, crossed>>
      /\ \/ column' = [column EXCEPT ![n] = NoMemoryText] /\ blurred' = blurred
         \/ blurred' = blurred \cup {n} /\ column' = column
  BY DEF ClearColumn, n
<1>5. MemShape'
  BY <1>1, <1>3, <1>4 DEF MemInv, MemShape, Texts
<1>6. \A m : Written(m) = Written(m)'
  BY <1>4 DEF Written
<1>7. CallInv'
  <2>1. \A m \in Records : memories'[m].status = "none" =>
          memories'[m].vector = NoMemoryText /\ column'[m] = NoMemoryText
    BY <1>1, <1>4 DEF MemInv, MemShape, CallInv
  <2> QED BY <1>1, <1>2, <1>3, <1>4, <1>6, <2>1 DEF MemInv, CallInv
<1>8. KeptInv'
  <2>1. \A v \in Writes : v # w => (ToScan(v)' = ToScan(v) /\ writes'[v].id = writes[v].id)
    BY <1>3 DEF ToScan
  <2>2. ToScan(w) /\ writes'[w].id = writes[w].id
    BY <1>1, <1>3 DEF ToScan, n
  <2>3. Active' = Active
    BY <1>4 DEF Active
  <2> QED BY <1>4, <1>6, <2>1, <2>2, <2>3 DEF MemInv, KeptInv
<1>9. TextInv'
  <2>1. \A v \in Writes, m \in Records :
          /\ v # w => Embeds(v, m)' = Embeds(v, m) /\ Clears(v, m)' = Clears(v, m)
          /\ ~Embeds(w, m) /\ ~Clears(w, m)'
          /\ Embeds(w, m)' = (m = n) /\ Clears(w, m) = (m = n)
    BY <1>1, <1>2, <1>3 DEF Clears, Embeds, n
  <2>2. ASSUME NEW m \in Records \ blurred' PROVE TextOf(m)'
    <3>0. TextOf(m)
      BY <1>4, <2>2 DEF MemInv, TextInv
    <3>1. CASE m = n
      <4>1. column'[m] = NoMemoryText
        BY <1>4, <2>2, <3>1 DEF MemInv, MemShape
      <4>2. memories'[m].text = w
        BY <1>4, <2>1, <3>0, <3>1 DEF TextOf
      <4> QED BY <1>4, <2>1, <3>0, <3>1, <4>1, <4>2 DEF TextOf
    <3>2. CASE m # n
      <4>1. column'[m] = column[m]
        BY <1>4, <3>2 DEF MemInv, MemShape
      <4> QED BY <1>4, <2>1, <3>0, <3>2, <4>1, ZenonT(40) DEF TextOf
    <3> QED BY <3>1, <3>2
  <2> QED BY <2>2 DEF TextInv
<1> QED BY <1>5, <1>7, <1>8, <1>9 DEF MemInv

\* Nothing is claimed of what stays active once a deletion was asked for.
LEMMA DeleteKeeps ==
  ASSUME MemInv, NEW w \in Writes, SoftDelete(w)
  PROVE  MemInv'
<1> DEFINE n == writes[w].id
           r == [memories[n] EXCEPT !.status = "expired", !.vector = NoMemoryText]
           q == [writes[w] EXCEPT !.pc = "expiring"]
<1>1. n \in Records /\ writes[w].pc = "deleting" /\ Written(n) /\ asked
  BY DEF SoftDelete, MemInv, CallInv, Written
<1>2. /\ q \in CallShape /\ q.pc = "expiring" /\ q.id = n /\ q.listed = writes[w].listed
      /\ writes' = [writes EXCEPT ![w] = q]
  BY DEF SoftDelete, Reaches, MemInv, MemShape, CallShape, CallPoints
<1> HIDE DEF n
<1>3. /\ r \in RowShape /\ r.status = "expired" /\ r.text = memories[n].text /\ r.vector = NoMemoryText
  BY <1>1 DEF MemInv, MemShape, RowShape, Texts
<1>4. memories' = [memories EXCEPT ![n] = r]
  BY <1>1 DEF SoftDelete, MemInv, MemShape, RowShape, n
<1> HIDE DEF q, r
<1>5. /\ \A v \in Writes : writes'[v] = IF v = w THEN q ELSE writes[v]
      /\ \A m \in Records : memories'[m] = IF m = n THEN r ELSE memories[m]
      /\ UNCHANGED <<column, embeds, scans, asked, crossed, blurred>>
  BY <1>2, <1>4 DEF SoftDelete, MemInv, MemShape
<1>6. MemShape'
  BY <1>1, <1>2, <1>3, <1>4, <1>5 DEF MemInv, MemShape
<1>7. \A m : Written(m)' = Written(m)
  BY <1>1, <1>3, <1>5 DEF Written
<1>8. CallInv'
  <2>1. \A m \in Records : memories'[m].status = "none" =>
          memories'[m].vector = NoMemoryText /\ column'[m] = NoMemoryText
    BY <1>3, <1>5 DEF MemInv, CallInv
  <2>2. \A v \in Writes : memories'[v].status # "none" => memories[v].status # "none"
    BY <1>1, <1>5 DEF Records, Written
  <2>3. embeds[w].pc = "idle" /\ scans[w].pc = "idle" /\ memories[w].status = "none"
    BY <1>1 DEF MemInv, CallInv
  <2> QED BY <1>1, <1>2, <1>5, <1>7, <2>1, <2>2, <2>3 DEF MemInv, CallInv
<1>9. TextInv'
  <2>1. \A v \in Writes, m \in Records : Embeds(v, m)' = Embeds(v, m) /\ Clears(v, m)' = Clears(v, m)
    BY <1>1, <1>2, <1>5 DEF Clears, Embeds
  <2>2. \A m \in Records :
          /\ memories'[m].text = memories[m].text
          /\ memories[m].vector = NoMemoryText => memories'[m].vector = NoMemoryText
    BY <1>3, <1>5
  <2>3. ASSUME NEW m \in Records \ blurred PROVE TextOf(m)'
    <3>1. TextOf(m)
      BY DEF MemInv, TextInv
    <3> QED BY <1>5, <2>1, <2>2, <3>1 DEF TextOf
  <2> QED BY <1>5, <2>3 DEF TextInv
<1>10. KeptInv'
  BY <1>1, <1>5 DEF KeptInv
<1> QED BY <1>6, <1>8, <1>9, <1>10 DEF MemInv

\* An embedding is of the call that wrote the record last, unless the record is blurred.
LEMMA SaveKeeps ==
  ASSUME MemInv, NEW w \in Writes, SaveEmbedding(w) \/ EmbeddingFails(w)
  PROVE  MemInv'
<1> DEFINE n == embeds[w].id
<1>0. PICK pc \in {"column", "clear"}, x \in {w, NoMemoryText} :
        embeds' = [embeds EXCEPT ![w].pc = pc] /\ memories' = [memories EXCEPT ![n].vector = x]
  BY DEF SaveEmbedding, EmbeddingFails
<1> DEFINE r == [memories[n] EXCEPT !.vector = x]
           e == [embeds[w] EXCEPT !.pc = pc]
<1>1. /\ n \in Records /\ embeds[w].pc # "idle" /\ Written(n) /\ n = writes[w].id
      /\ writes[w].pc \in {"waiting", "done"}
  BY DEF SaveEmbedding, EmbeddingFails, MemInv, CallInv, Written
<1>2. /\ e \in EmbedShape /\ e.pc # "idle" /\ e.id = n
      /\ embeds' = [embeds EXCEPT ![w] = e]
  BY <1>0 DEF MemInv, MemShape, EmbedShape
<1> HIDE DEF n
<1>3. r \in RowShape /\ r.status = memories[n].status /\ r.text = memories[n].text
  BY <1>1 DEF MemInv, MemShape, RowShape, Texts, Records
<1>4. memories' = [memories EXCEPT ![n] = r]
  BY <1>0, <1>1 DEF MemInv, MemShape, RowShape
<1> HIDE DEF e, r
<1>5. /\ \A v \in Writes : embeds'[v] = IF v = w THEN e ELSE embeds[v]
      /\ \A m \in Records : memories'[m] = IF m = n THEN r ELSE memories[m]
      /\ UNCHANGED <<column, writes, scans, asked, crossed, blurred>>
  BY <1>2, <1>4 DEF SaveEmbedding, EmbeddingFails, MemInv, MemShape
<1>6. MemShape'
  BY <1>1, <1>2, <1>3, <1>4, <1>5 DEF MemInv, MemShape
<1>7. \A m : Written(m)' = Written(m)
  BY <1>1, <1>3, <1>5 DEF Written
<1>8. CallInv'
  <2>1. \A m \in Records : memories'[m].status = "none" =>
          memories'[m].vector = NoMemoryText /\ column'[m] = NoMemoryText
    BY <1>1, <1>3, <1>5 DEF MemInv, CallInv, Written
  <2>2. \A v \in Writes : memories'[v].status # "none" => memories[v].status # "none"
    BY <1>3, <1>5 DEF Records
  <2> QED BY <1>1, <1>2, <1>5, <1>7, <2>1, <2>2 DEF MemInv, CallInv
<1>9. TextInv'
  <2>1. \A v \in Writes, m \in Records : Embeds(v, m)' = Embeds(v, m) /\ Clears(v, m)' = Clears(v, m)
    BY <1>1, <1>2, <1>5 DEF Clears, Embeds, n
  <2>2. ASSUME NEW m \in Records \ blurred PROVE TextOf(m)'
    <3>1. TextOf(m)
      BY DEF MemInv, TextInv
    <3>2. Embeds(w, n) /\ ~Clears(w, n)
      BY <1>1 DEF Embeds, Clears, n
    <3>3. CASE m = n
      <4>1. \A v \in Writes : ~Clears(v, m)
        BY <3>1, <3>2, <3>3 DEF TextOf
      <4> QED BY <1>3, <1>5, <2>1, <3>1, <3>3, <4>1 DEF TextOf
    <3>4. CASE m # n
      BY <1>5, <2>1, <3>1, <3>4 DEF TextOf
    <3> QED BY <3>3, <3>4
  <2> QED BY <1>5, <2>2 DEF TextInv
<1>10. KeptInv'
  <2>1. Active' = Active
    BY <1>3, <1>5 DEF Active
  <2>2. \A v \in Writes : ToScan(v)' = ToScan(v)
    BY <1>5 DEF ToScan
  <2> QED BY <1>5, <1>7, <2>1, <2>2 DEF MemInv, KeptInv
<1> QED BY <1>6, <1>8, <1>9, <1>10 DEF MemInv

\* The column is made from the same text as the vector, and a call that waited goes on to its scan.
LEMMA ColumnKeeps ==
  ASSUME MemInv, NEW w \in Writes, SetColumn(w)
  PROVE  MemInv'
<1> DEFINE n == embeds[w].id
           waits == writes[w].pc = "waiting"
           wpc == IF waits THEN "done" ELSE writes[w].pc
           spc == IF waits THEN "computing" ELSE scans[w].pc
           q == [writes[w] EXCEPT !.pc = wpc]
           c == [scans[w] EXCEPT !.pc = spc]
<1>1. /\ n \in Records /\ embeds[w].pc # "idle" /\ Written(n) /\ n = writes[w].id
      /\ writes[w].pc \in {"waiting", "done"}
  BY DEF SetColumn, MemInv, CallInv, Written
<1>2. waits => scans[w].pc = "idle"
  BY DEF MemInv, CallInv
<1>3. /\ writes \in [Writes -> CallShape] /\ embeds \in [Writes -> EmbedShape]
      /\ scans \in [Writes -> ScanShape] /\ NoEmbedding \in EmbedShape /\ column \in [Records -> Texts]
  BY DEF MemInv, MemShape, NoEmbedding, EmbedShape, Texts
<1>4. wpc = "done" /\ spc \in {"idle", "computing", "marking"}
  BY <1>1, <1>3 DEF ScanShape
<1>5. /\ writes' = [writes EXCEPT ![w] = q] /\ scans' = [scans EXCEPT ![w] = c]
      /\ embeds' = [embeds EXCEPT ![w] = NoEmbedding]
  <2>1. CASE waits
    BY <1>3, <2>1 DEF SetColumn, Reaches, CallShape, ScanShape
  <2>2. CASE ~waits
    <3>1. writes' = writes /\ scans' = scans
      BY <2>2 DEF SetColumn
    <3>2. q = writes[w] /\ c = scans[w]
      BY <1>3, <2>2 DEF CallShape, ScanShape
    <3> QED BY <1>3, <3>1, <3>2 DEF SetColumn
  <2> QED BY <2>1, <2>2
<1>6. PICK x \in {w, NoMemoryText} : column' \in {column, [column EXCEPT ![n] = x]}
  BY DEF SetColumn
<1> HIDE DEF n
<1>7. q \in CallShape /\ q.pc = "done" /\ q.id = n /\ q.listed = writes[w].listed
  BY <1>1, <1>3, <1>4 DEF CallShape, CallPoints
<1> HIDE DEF wpc
<1>8. /\ c \in ScanShape /\ c.victims = scans[w].victims
      /\ IF waits THEN c.pc = "computing" ELSE c.pc = scans[w].pc
  BY <1>3, <1>4 DEF ScanShape
<1> HIDE DEF q, c, spc
<1>9. /\ \A v \in Writes : /\ writes'[v] = IF v = w THEN q ELSE writes[v]
                           /\ scans'[v] = IF v = w THEN c ELSE scans[v]
                           /\ embeds'[v] = IF v = w THEN NoEmbedding ELSE embeds[v]
      /\ UNCHANGED <<memories, asked, crossed, blurred>>
  BY <1>3, <1>5 DEF SetColumn
<1>10. /\ column' \in [Records -> Texts] /\ column'[n] \in {column[n], w, NoMemoryText}
       /\ \A m \in Records : m # n => column'[m] = column[m]
  <2>1. w \in Texts /\ NoMemoryText \in Texts
    BY DEF Texts, Records
  <2> QED BY <1>1, <1>3, <1>6, <2>1
<1>11. MemShape'
  BY <1>3, <1>5, <1>7, <1>8, <1>9, <1>10 DEF MemInv, MemShape
<1>12. \A m : Written(m)' = Written(m)
  BY <1>9 DEF Written
<1>13. CallInv'
  <2>1. \A m \in Records : memories'[m].status = "none" =>
          memories'[m].vector = NoMemoryText /\ column'[m] = NoMemoryText
    BY <1>1, <1>9, <1>10 DEF MemInv, CallInv, Written
  <2>2. NoEmbedding.pc = "idle"
    BY DEF NoEmbedding
  <2> QED BY <1>1, <1>2, <1>7, <1>8, <1>9, <1>12, <2>1, <2>2 DEF MemInv, CallInv
<1>14. TextInv'
  <2>1. \A v \in Writes, m \in Records :
          /\ Embeds(v, m)' => Embeds(v, m)
          /\ Clears(v, m)' = Clears(v, m)
    BY <1>1, <1>7, <1>9 DEF Clears, Embeds, NoEmbedding
  <2>2. ASSUME NEW m \in Records \ blurred PROVE TextOf(m)'
    <3>1. TextOf(m)
      BY DEF MemInv, TextInv
    <3>2. CASE m = n
      <4>1. Embeds(w, m) /\ ~Clears(w, m)
        BY <1>1, <3>2 DEF Embeds, Clears, n
      <4>2. memories[m].text = w
        BY <3>1, <4>1 DEF TextOf
      <4>3. column[m] \in {NoMemoryText, w}
        BY <3>1, <4>1, <4>2 DEF TextOf
      <4> QED BY <1>9, <1>10, <2>1, <3>1, <3>2, <4>2, <4>3 DEF TextOf
    <3>3. CASE m # n
      BY <1>9, <1>10, <2>1, <3>1, <3>3 DEF TextOf
    <3> QED BY <3>2, <3>3
  <2> QED BY <1>9, <2>2 DEF TextInv
<1>15. KeptInv'
  <2>1. Active' = Active
    BY <1>9 DEF Active
  <2>2. \A v \in Writes : ToScan(v)' = ToScan(v) /\ writes'[v].id = writes[v].id
    BY <1>1, <1>7, <1>8, <1>9 DEF ToScan
  <2> QED BY <1>9, <1>12, <2>1, <2>2 DEF MemInv, KeptInv
<1> QED BY <1>11, <1>13, <1>14, <1>15 DEF MemInv

\* A scan leaves out the record of its own call, which is active unless another scan has crossed it.
LEMMA ScanKeeps ==
  ASSUME MemInv, NEW w \in Writes, NEW c \in ScanShape, scans[w].pc # "idle",
         scans' = [scans EXCEPT ![w] = c],
         c.pc = "marking" => writes[w].id \notin c.victims, \A m \in c.victims : Written(m),
         UNCHANGED <<column, writes, embeds, asked, blurred>>,
         \/ UNCHANGED <<memories, crossed>>
         \/ \E m \in Records : MarkSuperseded(w, m)
  PROVE  MemInv'
<1>1. \A v \in Writes : scans'[v] = IF v = w THEN c ELSE scans[v]
  BY DEF MemInv, MemShape
<1>2. writes[w].pc = "done" /\ Written(writes[w].id)
  BY DEF MemInv, CallInv
<1>3. ASSUME NEW m \in Records
      PROVE  /\ memories'[m].text = memories[m].text /\ memories'[m].vector = memories[m].vector
             /\ (memories'[m].status = "none") = (memories[m].status = "none")
  <2>1. CASE UNCHANGED memories
    BY <2>1
  <2>2. ASSUME NEW n \in Records, MarkSuperseded(w, n)
        PROVE  /\ memories'[m].text = memories[m].text /\ memories'[m].vector = memories[m].vector
               /\ (memories'[m].status = "none") = (memories[m].status = "none")
    <3>1. memories' = [memories EXCEPT ![n].status = "superseded"] /\ n \in scans[w].victims
      BY <2>2 DEF MarkSuperseded
    <3>2. memories[n].status # "none"
      BY <2>2, <3>1 DEF MarkSuperseded, MemInv, CallInv, Written
    <3> QED BY <3>1, <3>2 DEF MemInv, MemShape, RowShape
  <2> QED BY <2>1, <2>2
<1>4. \A m : Written(m)' = Written(m)
  BY <1>3 DEF Written
<1>5. MemShape'
  <2>1. CASE UNCHANGED <<memories, crossed>>
    BY <2>1 DEF MemInv, MemShape
  <2>2. ASSUME NEW n \in Records, MarkSuperseded(w, n) PROVE MemShape'
    <3>1. memories' \in [Records -> RowShape] /\ crossed' \in BOOLEAN
      <4>1. memories' = [memories EXCEPT ![n].status = "superseded"]
        BY <2>2 DEF MarkSuperseded
      <4>2. memories' \in [Records -> RowShape]
        BY <4>1 DEF MemInv, MemShape, RowShape
      <4>3. crossed' \in BOOLEAN
        BY <2>2 DEF MarkSuperseded
      <4> QED BY <4>2, <4>3
    <3> QED BY <3>1 DEF MemInv, MemShape
  <2> QED BY <2>1, <2>2
<1>6. CallInv'
  <2>1. \A m \in Records : memories'[m].status = "none" =>
          memories'[m].vector = NoMemoryText /\ column'[m] = NoMemoryText
    BY <1>3 DEF MemInv, CallInv
  <2>2. \A v \in Writes : memories'[v].status # "none" => memories[v].status # "none"
    BY <1>3 DEF Records
  <2> QED BY <1>1, <1>2, <1>4, <2>1, <2>2 DEF MemInv, CallInv
<1>7. TextInv'
  <2>1. \A v \in Writes, m \in Records : Embeds(v, m)' = Embeds(v, m) /\ Clears(v, m)' = Clears(v, m)
    BY DEF Clears, Embeds
  <2>2. ASSUME NEW m \in Records \ blurred PROVE TextOf(m)'
    <3>1. TextOf(m)
      BY DEF MemInv, TextInv
    <3> QED BY <1>3, <2>1, <3>1 DEF TextOf
  <2> QED BY <2>2 DEF TextInv
<1>8. KeptInv'
  <2>1. \A v \in Writes : ToScan(v)' => ToScan(v)
    BY <1>1 DEF ToScan
  <2>2. CASE UNCHANGED <<memories, crossed>>
    BY <1>4, <2>1, <2>2 DEF MemInv, KeptInv, Active
  <2>3. ASSUME NEW n \in Records, MarkSuperseded(w, n), ~asked, ~crossed' PROVE KeptInv'
    <3>1. /\ ~crossed /\ \A v \in Writes \ {w} : writes[v].id = n => ~ToScan(v)
          /\ scans[w].pc = "marking" /\ n \in scans[w].victims
          /\ memories' = [memories EXCEPT ![n].status = "superseded"]
      BY <2>3 DEF MarkSuperseded, Keeper
    <3>2. ToScan(w) /\ writes[w].id # n
      BY <3>1 DEF ToScan, MemInv, CallInv
    <3>3. \A m \in Active : m # n => m \in Active'
      BY <3>1 DEF Active, MemInv, MemShape
    <3>4. \A v \in Writes : ToScan(v) => writes[v].id \in Active
      BY <2>3, <3>1 DEF MemInv, KeptInv
    <3>5. \A v \in Writes : ToScan(v) => writes[v].id # n
      BY <3>1, <3>2
    <3> QED BY <2>1, <3>2, <3>3, <3>4, <3>5 DEF KeptInv
  <2>4. asked \/ crossed' => KeptInv'
    BY DEF KeptInv
  <2> QED BY <2>2, <2>3, <2>4
<1> QED BY <1>5, <1>6, <1>7, <1>8 DEF MemInv

\* The actions that are such steps.
LEMMA Scans ==
  ASSUME MemInv, NEW w \in Writes,
         ScanDuplicates(w) \/ \E m \in Records : MarkSuperseded(w, m)
  PROVE  MemInv'
<1>1. scans \in [Writes -> ScanShape]
  BY DEF MemInv, MemShape
<1>2. CASE ScanDuplicates(w)
  <2>1. PICK victims \in {{}, Duplicates(w)} :
          scans' = [scans EXCEPT ![w].pc = IF victims = {} THEN "idle" ELSE "marking", ![w].victims = victims]
    BY <1>2 DEF ScanDuplicates
  <2> DEFINE pc == IF victims = {} THEN "idle" ELSE "marking"
             c == [scans[w] EXCEPT !.pc = pc, !.victims = victims]
  <2>2. victims \subseteq Active /\ victims \subseteq Records /\ writes[w].id \notin victims
    BY <2>1 DEF Duplicates, Keeper, Embedded, Active
  <2>3. \A m \in victims : Written(m)
    BY <2>2 DEF Active, Written
  <2>4. pc \in {"idle", "marking"} /\ scans' = [scans EXCEPT ![w] = c]
    BY <1>1, <2>1 DEF ScanShape
  <2> HIDE DEF pc
  <2>5. c \in ScanShape /\ c.victims = victims
    BY <1>1, <2>2, <2>4 DEF ScanShape
  <2> HIDE DEF c
  <2>6. /\ scans[w].pc # "idle"
        /\ UNCHANGED <<memories, column, writes, embeds, asked, crossed, blurred>>
    BY <1>2 DEF ScanDuplicates
  <2> QED BY <2>2, <2>3, <2>4, <2>5, <2>6, ScanKeeps
<1>3. ASSUME NEW m \in Records, MarkSuperseded(w, m) PROVE MemInv'
  <2> DEFINE rest == scans[w].victims \ {m}
             pc == IF rest = {} THEN "idle" ELSE scans[w].pc
             c == [scans[w] EXCEPT !.pc = pc, !.victims = rest]
  <2>1. scans' = [scans EXCEPT ![w] = c] /\ scans[w].pc = "marking"
    BY <1>1, <1>3 DEF MarkSuperseded, ScanShape
  <2>2. pc \in {"idle", "marking"} /\ rest \subseteq scans[w].victims /\ rest \subseteq Records
    BY <1>1, <2>1 DEF ScanShape
  <2> HIDE DEF pc, rest
  <2>3. c \in ScanShape /\ c.victims = rest
    BY <1>1, <2>2 DEF ScanShape
  <2> HIDE DEF c
  <2>4. writes[w].id \notin rest /\ \A n \in rest : Written(n)
    BY <2>1, <2>2 DEF MemInv, CallInv
  <2>5. UNCHANGED <<column, writes, embeds, asked, blurred>>
    BY <1>3 DEF MarkSuperseded
  <2> QED BY <1>3, <2>1, <2>3, <2>4, <2>5, ScanKeeps
<1> QED BY <1>2, <1>3

\* The inductive invariant of the memories.
LEMMA MemNextInv == MemInv /\ [MemNext]_memVars => MemInv'
<1>1. ASSUME MemInv, MemNext PROVE MemInv'
  <2>1. PICK w \in Writes :
          \/ BeginRemember(w) \/ BeginRememberFromSettings(w) \/ Compare(w) \/ CountActive(w) \/ CreateRecord(w)
          \/ UpdateContent(w) \/ ClearColumn(w) \/ SoftDelete(w) \/ ClearDeleted(w)
          \/ SaveEmbedding(w) \/ EmbeddingFails(w) \/ SetColumn(w) \/ ScanDuplicates(w)
          \/ \E m \in Records : BeginUpdate(w, m) \/ BeginForget(w, m) \/ MarkSuperseded(w, m)
    BY <1>1 DEF MemNext
  <2>2. CASE \/ BeginRemember(w) \/ Compare(w) \/ BeginRememberFromSettings(w) \/ CountActive(w)
             \/ ClearDeleted(w) \/ \E m \in Records : BeginUpdate(w, m) \/ BeginForget(w, m)
    BY <1>1, <2>2, Preludes
  <2>3. CASE ScanDuplicates(w) \/ \E m \in Records : MarkSuperseded(w, m)
    BY <1>1, <2>3, Scans
  <2> QED BY <1>1, <2>1, <2>2, <2>3, CreateKeeps, UpdateKeeps, ClearKeeps, DeleteKeeps, SaveKeeps, ColumnKeeps
<1>2. ASSUME MemInv, UNCHANGED memVars PROVE MemInv'
  <2>1. \A w \in Writes, m \in Records : Embeds(w, m)' = Embeds(w, m) /\ Clears(w, m)' = Clears(w, m)
    BY <1>2 DEF memVars, Embeds, Clears
  <2>2. TextInv'
    BY <1>2, <2>1 DEF memVars, MemInv, TextInv, TextOf
  <2>3. MemShape' /\ CallInv' /\ KeptInv'
    BY <1>2 DEF memVars, MemInv, MemShape, CallInv, Written, KeptInv, Active, ToScan
  <2> QED BY <2>2, <2>3 DEF MemInv
<1> QED BY <1>1, <1>2

------------------------------------------------------------------------------
(* The theorems *)

\* Rows, column, calls and embeddings keep their types.
THEOREM MemoryTypes == MemSpec => []MemTypeOK
<1>1. MemInv => MemTypeOK
  BY DEF MemInv, MemShape, CallInv, MemTypeOK, RowShape, Texts, Written
<1> QED BY <1>1, MemInitInv, MemNextInv, PTL DEF MemSpec

\* What a user told is not forgotten (memory.service.ts supersedeNearDuplicates): a scan never marks the
\* record of its own call, so whoever marks leaves one active.
THEOREM FactsAreKept == MemSpec => []FactIsKept
<1>1. MemInv => FactIsKept
  BY DEF MemInv, KeptInv, Written, FactIsKept
<1> QED BY <1>1, MemInitInv, MemNextInv, PTL DEF MemSpec

\* What the search returns and the gate lets pass was embedded from its present text
\* (memory.repository.ts updateContent, saveEmbedding).
THEOREM MemoriesAreFoundByTheirText == MemSpec => []FoundByItsText
<1>1. MemInv => FoundByItsText
  <2> SUFFICES ASSUME MemInv, NEW m \in Retrievable \ blurred PROVE column[m] = memories[m].text
    BY DEF FoundByItsText
  <2>1. m \in Records /\ memories[m].vector # NoMemoryText /\ column[m] # NoMemoryText
    BY DEF Retrievable, Embedded, Active
  <2>2. TextOf(m)
    BY <2>1 DEF MemInv, TextInv
  <2> QED BY <2>1, <2>2 DEF TextOf
<1> QED BY <1>1, MemInitInv, MemNextInv, PTL DEF MemSpec

------------------------------------------------------------------------------
(* What holds of the background jobs of a sandbox for any jobs, ticks and bounds. JobShape     *)
(* says what type everything has, StartInv that a job known to a tool or a tick was started.    *)

TickShape == [pc : {"rest", "deliver", "wake"}, todo : SUBSET Jobs, job : Jobs \cup {"none"}, budget : Nat]

JobShape ==
  /\ starting \in [Jobs -> {"no", "launched", "started"}]
  /\ meta \in [Jobs -> {"absent", "running", "finished", "killed"}]
  /\ reported \in [Jobs -> {"no", "queued", "yes"}]
  /\ running \subseteq Jobs /\ told \subseteq Jobs /\ wakeups \subseteq Jobs
  /\ ticks \in [Ticks -> TickShape]
  /\ budget \in Nat /\ active \in BOOLEAN
  /\ userRuns \in 0..MaxUserRuns /\ tickErrors \in 0..MaxTickErrors

Begun(j) == j \in Jobs /\ starting[j] # "no"

StartInv ==
  /\ \A j \in Jobs : meta[j] # "absent" => Begun(j)
  /\ \A j \in running \cup told : Begun(j)
  /\ \A t \in Ticks : /\ \A j \in ticks[t].todo : Begun(j)
                      /\ ticks[t].pc = "wake" => Begun(ticks[t].job)

JobInv == JobShape /\ StartInv /\ MarkedWasTold

\* No job has been started at first.
LEMMA JobInitInv == JobInit => JobInv
<1> SUFFICES ASSUME JobInit PROVE JobInv
  OBVIOUS
<1>1. JobShape
  <2>1. Rest \in TickShape
    BY DEF Rest, TickShape
  <2>2. 0 \in 0..MaxTickErrors /\ userRuns \in 0..MaxUserRuns
    BY SandboxBounds DEF JobInit
  <2> QED BY <2>1, <2>2 DEF JobInit, JobShape
<1>2. StartInv
  BY DEF JobInit, StartInv, Rest
<1>3. MarkedWasTold
  BY DEF JobInit, MarkedWasTold
<1> QED BY <1>1, <1>2, <1>3 DEF JobInv

\* Steps of bash, of the job tools and of the job itself leave the watcher and the runs alone.
JobStep ==
  /\ UNCHANGED <<watcher, session>>
  /\ starting' \in [Jobs -> {"no", "launched", "started"}]
  /\ meta' \in [Jobs -> {"absent", "running", "finished", "killed"}]
  /\ reported' \in [Jobs -> {"no", "queued", "yes"}]
  /\ \A j \in Jobs : Begun(j) => Begun(j)'
  /\ \A j \in Jobs : meta'[j] # meta[j] => Begun(j)'
  /\ \A j \in running' : j \in running \/ Begun(j)'
  /\ told \subseteq told' /\ \A j \in told' : j \in told \/ Begun(j)'
  /\ \A j \in Jobs : reported'[j] = reported[j] \/ j \in told'

\* What every such step keeps.
LEMMA JobStepKeeps == JobInv /\ JobStep => JobInv'
<1> SUFFICES ASSUME JobInv, JobStep PROVE JobInv'
  OBVIOUS
<1> USE DEF JobStep, watcher, session
<1>1. running' \subseteq Jobs /\ told' \subseteq Jobs
  BY DEF JobInv, JobShape, Begun
<1>2. JobShape'
  BY <1>1 DEF JobInv, JobShape
<1>3. StartInv'
  <2>1. \A j \in Jobs : meta'[j] # "absent" => Begun(j)'
    BY DEF JobInv, StartInv
  <2>2. \A j \in running' \cup told' : Begun(j)'
    BY <1>1 DEF JobInv, JobShape, StartInv
  <2>3. \A t \in Ticks : \A j \in ticks[t].todo : Begun(j)'
    BY DEF JobInv, StartInv, Begun
  <2>4. \A t \in Ticks : ticks[t].pc = "wake" => Begun(ticks[t].job)'
    BY DEF JobInv, StartInv, Begun
  <2> QED BY <2>1, <2>2, <2>3, <2>4 DEF StartInv
<1>4. MarkedWasTold'
  <2>1. \A j \in Jobs : reported'[j] # "no" => j \in told'
    BY DEF JobInv, MarkedWasTold
  <2>2. \A j \in told' : starting'[j] # "no"
    BY DEF JobInv, StartInv, Begun
  <2> QED BY <2>1, <2>2 DEF JobInv, MarkedWasTold
<1> QED BY <1>2, <1>3, <1>4 DEF JobInv

\* Bash, the job, its tools and the queued mark take such steps.
LEMMA JobStepsAre ==
  ASSUME JobInv, NEW j \in Jobs,
         \/ StartBackground(j) \/ UploadMeta(j) \/ Exit(j)
         \/ MarkReported(j) \/ JobOutput(j) \/ KillJob(j)
  PROVE  JobStep
<1>1. /\ starting \in [Jobs -> {"no", "launched", "started"}]
      /\ meta \in [Jobs -> {"absent", "running", "finished", "killed"}]
      /\ reported \in [Jobs -> {"no", "queued", "yes"}]
      /\ \A i \in Jobs : meta[i] # "absent" => Begun(i)
      /\ \A i \in running \cup told : Begun(i)
  BY DEF JobInv, JobShape, StartInv
<1>2. CASE StartBackground(j)
  BY <1>1, <1>2 DEF StartBackground, JobStep, Begun
<1>3. CASE UploadMeta(j)
  BY <1>1, <1>3 DEF UploadMeta, JobStep, Begun
<1>4. CASE Exit(j)
  BY <1>1, <1>4 DEF Exit, JobStep, Begun
<1>5. CASE MarkReported(j)
  <2>1. j \in told
    BY <1>5 DEF MarkReported, JobInv, MarkedWasTold
  <2> QED BY <1>1, <1>5, <2>1 DEF MarkReported, sandbox, JobStep, Begun
<1>6. CASE JobOutput(j)
  BY <1>1, <1>6 DEF JobOutput, Settled, QueuesMark, sandbox, JobStep, Begun
<1>7. CASE KillJob(j)
  BY <1>1, <1>7 DEF KillJob, QueuesMark, JobStep, Begun
<1> QED BY <1>2, <1>3, <1>4, <1>5, <1>6, <1>7

\* Steps of the watcher and of the runs leave the sandbox alone.
WatchStep ==
  /\ UNCHANGED sandbox
  /\ reported' \in [Jobs -> {"no", "queued", "yes"}]
  /\ ticks' \in [Ticks -> TickShape]
  /\ budget' \in Nat /\ active' \in BOOLEAN
  /\ userRuns' \in 0..MaxUserRuns /\ tickErrors' \in 0..MaxTickErrors
  /\ told \subseteq told' /\ \A j \in told' : j \in told \/ Begun(j)
  /\ wakeups' \subseteq wakeups \cup told'
  /\ \A j \in Jobs : reported'[j] = reported[j] \/ j \in told'
  /\ \A t \in Ticks : /\ \A j \in ticks'[t].todo : Begun(j)
                      /\ ticks'[t].pc = "wake" => Begun(ticks'[t].job)

\* What every such step keeps.
LEMMA WatchStepKeeps == JobInv /\ WatchStep => JobInv'
<1> SUFFICES ASSUME JobInv, WatchStep PROVE JobInv'
  OBVIOUS
<1> USE DEF WatchStep, sandbox
<1>1. told' \subseteq Jobs /\ wakeups' \subseteq told'
  BY DEF JobInv, JobShape, Begun, MarkedWasTold
<1>2. JobShape'
  BY <1>1 DEF JobInv, JobShape
<1>3. StartInv'
  BY DEF JobInv, StartInv, Begun
<1>4. MarkedWasTold'
  <2>1. \A j \in Jobs : reported'[j] # "no" => j \in told'
    BY DEF JobInv, MarkedWasTold
  <2>2. \A j \in told' : starting[j] # "no"
    BY DEF JobInv, StartInv, Begun
  <2> QED BY <1>1, <2>1, <2>2 DEF MarkedWasTold
<1> QED BY <1>2, <1>3, <1>4 DEF JobInv

\* A tick goes on with fewer jobs, none of which it is waking the session for.
LEMMA AfterFacts ==
  ASSUME JobInv, NEW t \in Ticks, NEW j \in Jobs, After(t, j)
  PROVE  /\ ticks' \in [Ticks -> TickShape]
         /\ \A u \in Ticks : /\ \A i \in ticks'[u].todo : Begun(i)
                             /\ ticks'[u].pc = "wake" => Begun(ticks'[u].job)
<1>1. /\ ticks \in [Ticks -> TickShape]
      /\ \A u \in Ticks : /\ \A i \in ticks[u].todo : Begun(i)
                          /\ ticks[u].pc = "wake" => Begun(ticks[u].job)
  BY DEF JobInv, JobShape, StartInv
<1>2. PICK n \in TickShape : /\ ticks' = [ticks EXCEPT ![t] = n] /\ n.pc # "wake"
                             /\ n.todo \subseteq ticks[t].todo
  <2> DEFINE rest == ticks[t].todo \ {j}
             on == [Rest EXCEPT !.pc = "deliver", !.todo = rest]
  <2>1. Rest \in TickShape /\ Rest.pc = "rest" /\ Rest.todo = {}
    BY DEF Rest, TickShape
  <2>2. on \in TickShape /\ on.pc = "deliver" /\ on.todo = rest
    BY <1>1 DEF Rest, TickShape
  <2>3. ticks' = [ticks EXCEPT ![t] = Rest] \/ ticks' = [ticks EXCEPT ![t] = on]
    BY DEF After
  <2> HIDE DEF on
  <2> QED BY <2>1, <2>2, <2>3
<1> QED BY <1>1, <1>2

\* The steps of the watcher.
LEMMA TickStepsAre ==
  ASSUME JobInv, NEW t \in Ticks, TickStep(t) \/ TickFails(t)
  PROVE  WatchStep
<1>1. /\ reported \in [Jobs -> {"no", "queued", "yes"}] /\ ticks \in [Ticks -> TickShape]
      /\ budget \in Nat /\ active \in BOOLEAN
      /\ userRuns \in 0..MaxUserRuns /\ tickErrors \in 0..MaxTickErrors
      /\ \A j \in Jobs : meta[j] # "absent" => Begun(j)
      /\ \A j \in told : Begun(j)
      /\ \A u \in Ticks : /\ \A j \in ticks[u].todo : Begun(j)
                          /\ ticks[u].pc = "wake" => Begun(ticks[u].job)
  BY DEF JobInv, JobShape, StartInv
<1>2. CASE ListJobs(t)
  <2> DEFINE todo == {j \in Jobs : Unreported(j)}
             n == [Rest EXCEPT !.pc = "deliver", !.todo = todo]
  <2>1. todo \subseteq Jobs /\ \A j \in todo : Begun(j)
    BY <1>1 DEF Unreported, Settled
  <2>2. n \in TickShape /\ n.pc = "deliver" /\ n.todo = todo
    BY <2>1 DEF Rest, TickShape
  <2>3. /\ ticks' = [ticks EXCEPT ![t] = n]
        /\ UNCHANGED <<sandbox, reported, told, wakeups, budget, tickErrors, session>>
    BY <1>2 DEF ListJobs
  <2> HIDE DEF n, todo
  <2>4. /\ ticks' \in [Ticks -> TickShape]
        /\ \A u \in Ticks : /\ \A j \in ticks'[u].todo : Begun(j)
                            /\ ticks'[u].pc = "wake" => Begun(ticks'[u].job)
    BY <1>1, <2>1, <2>2, <2>3
  <2> QED BY <1>1, <2>3, <2>4 DEF WatchStep, session
<1>3. CASE \E j \in Jobs : Notify(t, j)
  <2>1. PICK j \in Jobs : Notify(t, j)
    BY <1>3
  <2>2. Begun(j) /\ After(t, j) /\ told' = told \cup {j}
    BY <1>1, <2>1 DEF Notify
  <2>3. /\ reported' \in [Jobs -> {"no", "queued", "yes"}]
        /\ \A i \in Jobs : reported'[i] = reported[i] \/ i \in told'
    BY <1>1, <2>1, <2>2 DEF Notify, QueuesMark
  <2>4. UNCHANGED <<sandbox, wakeups, budget, tickErrors, session>>
    BY <2>1 DEF Notify
  <2> QED BY <1>1, <2>2, <2>3, <2>4, AfterFacts DEF WatchStep, session
<1>4. CASE \E j \in Jobs : DecideToWake(t, j)
  <2>1. PICK j \in Jobs : DecideToWake(t, j)
    BY <1>4
  <2>2. /\ j \in ticks[t].todo /\ Begun(j)
        /\ UNCHANGED <<sandbox, reported, told, wakeups, budget, tickErrors, session>>
    BY <1>1, <2>1 DEF DecideToWake
  <2>3. PICK n \in TickShape : /\ ticks' = [ticks EXCEPT ![t] = n] /\ n.job = j /\ n.todo = ticks[t].todo
    <3> DEFINE n == [ticks[t] EXCEPT !.pc = "wake", !.job = j, !.budget = budget]
    <3>1. n \in TickShape /\ n.job = j /\ n.todo = ticks[t].todo
      BY <1>1 DEF TickShape
    <3>2. ticks' = [ticks EXCEPT ![t] = n]
      BY <1>1, <2>1 DEF DecideToWake, TickShape
    <3> HIDE DEF n
    <3> QED BY <3>1, <3>2
  <2>4. /\ ticks' \in [Ticks -> TickShape]
        /\ \A u \in Ticks : /\ \A i \in ticks'[u].todo : Begun(i)
                            /\ ticks'[u].pc = "wake" => Begun(ticks'[u].job)
    BY <1>1, <2>2, <2>3
  <2> QED BY <1>1, <2>2, <2>4 DEF WatchStep, session
<1>5. CASE CreateRun(t)
  <2> DEFINE j == ticks[t].job
             created == j \in wakeups \/ ~active
  <2>1. Begun(j) /\ ticks[t].budget \in Nat
    BY <1>1, <1>5 DEF CreateRun, TickShape
  <2>2. j \in Jobs /\ After(t, j) /\ MarksIfCreated(j, created)
        /\ UNCHANGED <<sandbox, tickErrors, userRuns>>
    BY <1>5, <2>1 DEF CreateRun, Begun
  <2>3. \/ /\ created /\ told' = told \cup {j} /\ wakeups' = wakeups \cup {j}
           /\ active' = (active \/ j \notin wakeups) /\ budget' = ticks[t].budget + 1
        \/ ~created /\ UNCHANGED <<told, wakeups, active, budget>>
    BY <1>5 DEF CreateRun
  <2>4. /\ told \subseteq told' /\ \A i \in told' : i \in told \/ Begun(i)
        /\ wakeups' \subseteq wakeups \cup told' /\ (created => j \in told')
    BY <2>1, <2>3
  <2>5. budget' \in Nat
    BY <1>1, <2>1, <2>3
  <2>6. active' \in BOOLEAN
    BY <1>1, <2>3
  <2>7. /\ reported' \in [Jobs -> {"no", "queued", "yes"}]
        /\ \A i \in Jobs : reported'[i] = reported[i] \/ i \in told'
    <3>1. CASE created /\ QueuesMark(j)
      BY <1>1, <2>2, <2>4, <3>1 DEF QueuesMark
    <3>2. CASE UNCHANGED reported
      BY <1>1, <3>2
    <3> QED BY <2>2, <3>1, <3>2 DEF MarksIfCreated
  <2> HIDE DEF j, created
  <2> QED BY <1>1, <2>2, <2>4, <2>5, <2>6, <2>7, AfterFacts DEF WatchStep
<1>6. CASE TickFails(t)
  <2>1. Rest \in TickShape /\ Rest.pc = "rest" /\ Rest.todo = {}
    BY DEF Rest, TickShape
  <2>2. /\ ticks' = [ticks EXCEPT ![t] = Rest] /\ tickErrors < MaxTickErrors /\ tickErrors' = tickErrors + 1
        /\ UNCHANGED <<sandbox, reported, told, wakeups, budget, session>>
    BY <1>6 DEF TickFails
  <2>3. tickErrors' \in 0..MaxTickErrors
    BY <1>1, <2>2, SandboxBounds
  <2>4. /\ ticks' \in [Ticks -> TickShape]
        /\ \A u \in Ticks : /\ \A i \in ticks'[u].todo : Begun(i)
                            /\ ticks'[u].pc = "wake" => Begun(ticks'[u].job)
    BY <1>1, <2>1, <2>2
  <2> QED BY <1>1, <2>2, <2>3, <2>4 DEF WatchStep, session
<1> QED BY <1>2, <1>3, <1>4, <1>5, <1>6 DEF TickStep

\* The steps of the runs.
LEMMA RunStepsAre ==
  ASSUME JobInv, UserRun \/ RunEnds
  PROVE  WatchStep
<1>1. /\ reported \in [Jobs -> {"no", "queued", "yes"}] /\ ticks \in [Ticks -> TickShape]
      /\ budget \in Nat /\ userRuns \in 0..MaxUserRuns /\ tickErrors \in 0..MaxTickErrors
      /\ \A u \in Ticks : /\ \A j \in ticks[u].todo : Begun(j)
                          /\ ticks[u].pc = "wake" => Begun(ticks[u].job)
  BY DEF JobInv, JobShape, StartInv
<1>2. /\ UNCHANGED <<sandbox, reported, told, ticks, wakeups, tickErrors>>
      /\ active' \in BOOLEAN /\ budget' \in {0, budget}
  BY DEF UserRun, RunEnds, watcher
<1>3. userRuns' \in 0..MaxUserRuns
  BY <1>1, SandboxBounds DEF UserRun, RunEnds
<1> QED BY <1>1, <1>2, <1>3 DEF WatchStep

\* Every step keeps the invariant.
LEMMA JobNextInv == JobInv /\ [JobNext]_jobVars => JobInv'
<1> SUFFICES ASSUME JobInv, [JobNext]_jobVars PROVE JobInv'
  OBVIOUS
<1>1. CASE UNCHANGED jobVars
  BY <1>1 DEF jobVars, JobInv, JobShape, StartInv, MarkedWasTold, Begun
<1>2. ASSUME NEW j \in Jobs,
             \/ StartBackground(j) \/ UploadMeta(j) \/ Exit(j)
             \/ MarkReported(j) \/ JobOutput(j) \/ KillJob(j)
      PROVE  JobInv'
  BY <1>2, JobStepsAre, JobStepKeeps
<1>3. ASSUME NEW t \in Ticks, TickStep(t) \/ TickFails(t)
      PROVE  JobInv'
  BY <1>3, TickStepsAre, WatchStepKeeps
<1>4. CASE UserRun \/ RunEnds
  BY <1>4, RunStepsAre, WatchStepKeeps
<1> QED BY <1>1, <1>2, <1>3, <1>4 DEF JobNext

\* The invariant holds always.
LEMMA JobAlways == JobSpec => []JobInv
<1> QED BY JobInitInv, JobNextInv, PTL DEF JobSpec

\* Jobs, ticks and the counts of runs and errors keep their types, for any jobs, ticks and bounds.
THEOREM JobTypes == JobSpec => []JobTypeOK
<1>1. JobInv => JobTypeOK
  BY DEF JobInv, JobShape, JobTypeOK
<1> QED BY <1>1, JobAlways, PTL

\* For any jobs, ticks and bounds, a completion is marked only of a job whose end was told, though
\* ticks overlap and runs come and go between the check and the wake-up (deliverCompletion).
THEOREM MarkedJobsWereTold == JobSpec => []MarkedWasTold
<1>1. JobInv => MarkedWasTold
  BY DEF JobInv
<1> QED BY <1>1, JobAlways, PTL
==============================================================================
