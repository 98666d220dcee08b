------------------------------ MODULE MCEndings ------------------------------
(* A behaviour exercises one of three components that must bring something to an end and share *)
(* no state: the loop of a run, the files uploaded to a session, or its background jobs.       *)
EXTENDS AgentTurn, FileUploads, SandboxJobs

VARIABLE focus

\* Each way to admit or withhold a call, in batches of two; one that only delivers.
MCBatches == {<<"web", "create_report">>, <<"bash", "update_plan">>, <<"mcp1", "tool_search">>,
              <<"denied", "mcp2">>, <<"create_report">>}

\* The components that a behaviour does not exercise stay in one initial state.
Init ==
  /\ TurnInit /\ UploadInit /\ JobInit
  /\ focus \in {"turn", "uploads", "jobs"}
  /\ focus # "uploads" => startup = Running

Loop(A) == focus = "turn" /\ A /\ UNCHANGED <<focus, uploadVars, jobVars>>
Uploads(A) == focus = "uploads" /\ A /\ UNCHANGED <<focus, turnVars, jobVars>>
BackgroundJobs(A) == focus = "jobs" /\ A /\ UNCHANGED <<focus, turnVars, uploadVars>>

Next == Loop(TurnNext) \/ Uploads(UploadNext) \/ BackgroundJobs(JobNext)
vars == <<focus, turnVars, uploadVars, jobVars>>

\* The awaits of a turn settle; uploads, parses and start hooks settle; the interval timer keeps
\* ticking, and a call to the sandbox returns.
Spec ==
  /\ Init /\ [][Next]_vars
  /\ WF_vars(Loop(Runtime))
  /\ WF_vars(Uploads(UploadStep))
  /\ \A p \in Files \cup Retries : WF_vars(Uploads(ParseStep(p)))
  /\ \A t \in Ticks : WF_vars(BackgroundJobs(TickStep(t)))
  /\ \A j \in Jobs : WF_vars(BackgroundJobs(UploadMeta(j)))

\* The state of every component keeps to the values the code gives it.
TypeOK ==
  /\ focus = "turn" => TurnTypeOK
  /\ focus = "uploads" => UploadTypeOK
  /\ focus = "jobs" => JobTypeOK

==============================================================================
