----------------------------- MODULE McpCatalog -----------------------------
(* The MCP servers of a user: their configuration (mcp-admin.service.ts), the connections and   *)
(* the catalogue of tools that a reconcile publishes (mcp-connection.manager.ts), the snapshot  *)
(* of it that a run latches (mcp-run-latch.service.ts) and the calls a run makes through it     *)
(* (mcp-tool-executor.ts). Every start of a run and every change of the configuration           *)
(* reconciles, and reconciles may overlap.                                                      *)
EXTENDS Naturals, FiniteSets

CONSTANTS Servers, Required,
          Endpoints,       \* what a server may be configured with
          Actors,         \* starts of runs and changes of the configuration
          MaxCalls        \* bound: calls of a run
ASSUME McpBounds ==
  /\ Required \subseteq Servers /\ MaxCalls \in Nat
  /\ Endpoints \subseteq Nat \ {0} /\ 1 \in Endpoints

VARIABLES config,         \* the enabled servers with their version; Off for the others
          runtime,        \* the connection of each server, with the version it was made for
          catalog,        \* what is published
          actors,         \* the progress of each actor
          snapshots,      \* what each run has latched
          calls,          \* calls made so far, by run
          overlapped      \* two reconciles were under way at once

mcpVars == <<config, runtime, catalog, actors, snapshots, calls, overlapped>>

Off == 0
NoServer == [known |-> FALSE, version |-> Off, status |-> "none"]
Empty == [generation |-> 0, status |-> [s \in Servers |-> "none"], entries |-> {}]
Idle == [pc |-> "idle", run |-> FALSE, configs |-> [s \in Servers |-> Off], todo |-> {},
         previous |-> {}, next |-> Empty]
NoSnapshot == [generation |-> 0, entries |-> {}]

Entry(s, version, generation) == [server |-> s, version |-> version, generation |-> generation]

\* The process has just started, or an earlier run has connected every server.
McpInit ==
  /\ config = [s \in Servers |-> 1] /\ actors = [a \in Actors |-> Idle]
  /\ \/ runtime = [s \in Servers |-> NoServer] /\ catalog = Empty
     \/ /\ runtime = [s \in Servers |-> [known |-> TRUE, version |-> 1, status |-> "connected"]]
        /\ catalog = [generation |-> 1, status |-> [s \in Servers |-> "connected"],
                      entries |-> {Entry(s, 1, 1) : s \in Servers}]
  /\ snapshots = [a \in Actors |-> NoSnapshot] /\ calls = [a \in Actors |-> {}]
  /\ overlapped = FALSE

Enabled(configs) == {s \in Servers : configs[s] # Off}
Entries(entries, s) == {e \in entries : e.server = s}
At(a, pc) == actors[a].pc = pc
Moves(a, pc) == actors' = [actors EXCEPT ![a].pc = pc]
Forgets(a, pc) == actors' = [actors EXCEPT ![a] = [Idle EXCEPT !.pc = pc]]
Reconciling(a) == actors[a].pc \in {"close", "connect", "list tools"}

------------------------------------------------------------------------------
StartRun(a) ==
  /\ At(a, "idle")
  /\ actors' = [actors EXCEPT ![a].pc = "list", ![a].run = TRUE]
  /\ UNCHANGED <<config, runtime, catalog, snapshots, calls, overlapped>>

\* create, update and patch set a version; a server that is deleted loses its connection at once.
ChangeConfig(a) ==
  /\ At(a, "idle") /\ Moves(a, "list")
  /\ \E s \in Servers, v \in Endpoints \cup {Off} :
       /\ v # config[s] /\ config' = [config EXCEPT ![s] = v]
       /\ \/ v = Off /\ runtime' = [runtime EXCEPT ![s] = NoServer]
          \/ UNCHANGED runtime
  /\ UNCHANGED <<catalog, snapshots, calls, overlapped>>

ListEnabled(a) ==
  /\ At(a, "list")
  /\ actors' = [actors EXCEPT ![a].pc = "close", ![a].configs = config,
                              ![a].todo = {s \in Servers : runtime[s].known /\ config[s] = Off}]
  /\ overlapped' = (overlapped \/ \E b \in Actors : Reconciling(b))
  /\ UNCHANGED <<config, runtime, catalog, snapshots, calls>>

\* A server that is no longer enabled is closed; one that another reconcile has removed by then is
\* an error that ends this one.
CloseGone(a, s) ==
  /\ At(a, "close") /\ s \in actors[a].todo
  /\ \/ /\ runtime[s].known /\ runtime' = [runtime EXCEPT ![s] = NoServer]
        /\ actors' = [actors EXCEPT ![a].todo = @ \ {s}]
     \/ ~runtime[s].known /\ Forgets(a, "done") /\ UNCHANGED runtime
  /\ UNCHANGED <<config, catalog, snapshots, calls, overlapped>>

\* Mutant: the generation grows only with the set of servers.
NextGenerationOfServers(a) ==
  catalog.generation + (IF Enabled(actors[a].configs) = {s \in Servers : catalog.status[s] # "none"} THEN 0 ELSE 1)
NextGeneration(a) == catalog.generation + 1

ReadCatalog(a) ==
  /\ At(a, "close") /\ actors[a].todo = {}
  /\ actors' = [actors EXCEPT ![a].pc = "connect", ![a].todo = Enabled(actors[a].configs),
       ![a].previous = catalog.entries, ![a].next = [Empty EXCEPT !.generation = NextGeneration(a)]]
  /\ UNCHANGED <<config, runtime, catalog, snapshots, calls, overlapped>>

\* The servers come one after the other: a connection of the same version is kept, another one is
\* closed and made anew. The server's state is entered, when it has none, before that.
Server(a) == CHOOSE s \in actors[a].todo : TRUE
HasServer(s, version, status) == runtime' = [runtime EXCEPT ![s] = [known |-> TRUE, version |-> version, status |-> status]]

Connect(a) ==
  /\ At(a, "connect") /\ actors[a].todo # {} /\ Moves(a, "list tools")
  /\ LET s == Server(a)
     IN  HasServer(s, actors[a].configs[s], IF runtime[s].known THEN runtime[s].status ELSE "disconnected")
  /\ UNCHANGED <<config, catalog, snapshots, calls, overlapped>>

\* What the reconcile will publish of the server it is at.
Lists(a, s, status, entries) ==
  /\ actors' = [actors EXCEPT ![a].pc = "connect", ![a].todo = @ \ {s},
                              ![a].next.status[s] = status, ![a].next.entries = @ \cup entries]
  /\ UNCHANGED <<config, catalog, snapshots, calls, overlapped>>

\* Its tools, unless another reconcile has closed the connection. The state of a server that was
\* removed meanwhile is no longer the one calls look at.
ListTools(a) == LET s == Server(a) IN
  /\ At(a, "list tools") /\ (runtime[s].known => runtime[s].version # Off)
  /\ IF runtime[s].known THEN HasServer(s, runtime[s].version, "connected") ELSE UNCHANGED runtime
  /\ Lists(a, s, "connected", {Entry(s, actors[a].configs[s], actors[a].next.generation)})

\* A server that cannot be reached keeps the entries it had, under the new generation.
Degrade(a) == LET s == Server(a) IN
  /\ At(a, "list tools") \/ (At(a, "connect") /\ actors[a].todo # {})
  /\ IF runtime[s].known \/ At(a, "connect")
     THEN \E version \in {Off, runtime[s].version} : HasServer(s, version, "degraded") ELSE UNCHANGED runtime
  /\ Lists(a, s, "degraded",
           {[e EXCEPT !.generation = actors[a].next.generation] : e \in Entries(actors[a].previous, s)})

PublishCatalog(a) ==
  /\ At(a, "connect") /\ actors[a].todo = {} /\ catalog' = actors[a].next
  /\ Forgets(a, IF actors[a].run THEN "relist" ELSE "done")
  /\ UNCHANGED <<config, runtime, snapshots, calls, overlapped>>

------------------------------------------------------------------------------
\* The run reads the enabled servers once more, then the catalogue.
Relist(a) ==
  /\ At(a, "relist")
  /\ actors' = [actors EXCEPT ![a].pc = "latch", ![a].configs = config]
  /\ UNCHANGED <<config, runtime, catalog, snapshots, calls, overlapped>>

Connected(s) == catalog.status[s] = "connected"

\* A required server that is not connected refuses the run, another one is left out.
Latch(a) ==
  /\ At(a, "latch")
  /\ LET enabled == Enabled(actors[a].configs)
     IN  \/ /\ \A s \in Required \cap enabled : Connected(s)
            /\ snapshots' = [snapshots EXCEPT ![a] =
                 [generation |-> catalog.generation,
                  entries |-> {e \in catalog.entries : e.server \in enabled /\ Connected(e.server)}]]
            /\ Forgets(a, "running")
         \/ /\ \E s \in Required \cap enabled : ~Connected(s)
            /\ Forgets(a, "done") /\ UNCHANGED snapshots
  /\ UNCHANGED <<config, runtime, catalog, calls, overlapped>>

Stale(a) == snapshots[a].generation # catalog.generation
CallServer(a, e) ==
  /\ At(a, "running") /\ e \in snapshots[a].entries /\ Cardinality(calls[a]) < MaxCalls
  /\ e.generation = snapshots[a].generation /\ ~Stale(a)
  /\ runtime[e.server].version # Off /\ runtime[e.server].status = "connected"
  /\ calls' = [calls EXCEPT ![a] = @ \cup {e}]
  /\ UNCHANGED <<config, runtime, catalog, actors, snapshots, overlapped>>

EndRun(a) ==
  /\ At(a, "running") /\ Moves(a, "done")
  /\ UNCHANGED <<config, runtime, catalog, snapshots, calls, overlapped>>

McpNext == \E a \in Actors :
  \/ StartRun(a) \/ ChangeConfig(a) \/ ListEnabled(a) \/ ReadCatalog(a) \/ Connect(a) \/ ListTools(a)
  \/ Degrade(a) \/ PublishCatalog(a) \/ Relist(a) \/ Latch(a) \/ EndRun(a)
  \/ \E s \in Servers : CloseGone(a, s)
  \/ \E e \in snapshots[a].entries : CallServer(a, e)

McpSpec == McpInit /\ [][McpNext]_mcpVars
------------------------------------------------------------------------------
McpTypeOK ==
  /\ \A s \in Servers :
       /\ {config[s], runtime[s].version} \subseteq Endpoints \cup {Off} /\ runtime[s].known \in BOOLEAN
       /\ catalog.status[s] \in {"none", "connected", "degraded"}
       /\ runtime[s].status \in {"none", "disconnected", "connected", "degraded"}
  /\ \A a \in Actors :
       /\ actors[a].pc \in {"idle", "list", "close", "connect", "list tools", "relist", "latch", "running", "done"}
       /\ \A e \in snapshots[a].entries \cup calls[a] :
            e.server \in Servers /\ e.version \in Endpoints /\ e.generation \in Nat
  /\ overlapped \in BOOLEAN

\* A call that reaches a server (mcp-tool-executor.ts execute) belongs to the catalogue that is
\* published at that moment: equal generations mean equal entries, whatever servers changed, failed
\* or came back since the run latched. Two reconciles under way at once may publish two catalogues
\* under one generation, so the claim ends with the first such overlap.
CallsMatchTheirCatalog == [][\A a \in Actors :
  calls'[a] # calls[a] => overlapped \/ snapshots[a].entries =
    {e \in catalog.entries : \E x \in snapshots[a].entries : x.server = e.server}]_mcpVars
==============================================================================
