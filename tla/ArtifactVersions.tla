-------------------------- MODULE ArtifactVersions --------------------------
(* The version series of generated files (artifacts.service.ts) with the files that hold them   *)
(* (files.service.ts) and the clean-up of files whose removal failed (sessions.service.ts).     *)
(* A request is a tool call that generates a file, an import from the sandbox, a restore or a   *)
(* delete; the artifact and the file it makes have its name. The database runs transactions at  *)
(* READ COMMITTED: what one reads before its last statement may have changed by its commit.     *)
EXTENDS Naturals, FiniteSets

CONSTANTS Requests,       \* numbered in the order in which they begin
          Keys,           \* a run with its tool call, or the idempotency key of a restore
          NoArtifact
ASSUME ArtRequests == Requests \subseteq Nat /\ IsFiniteSet(Requests) /\ NoArtifact \notin Requests

VARIABLES requests,       \* the progress of each request
          artifacts,      \* rows of the artifacts
          current,        \* current version of each series, which has the name of its first one
          files,          \* status of the file rows
          objects,        \* files that have objects in the storage
          attached,       \* files a message refers to
          cleanup,        \* status of the clean-up tasks
          boot,           \* what the start of the server has left to do
          restarted

artVars == <<requests, artifacts, current, files, objects, attached, cleanup, boot, restarted>>
store == <<artifacts, current, objects, attached, cleanup, boot, restarted>>

NoRow == [kind |-> "none"]
Fresh == [pc |-> "new", kind |-> "none", key |-> "none", base |-> NoArtifact,
          expected |-> NoArtifact, latest |-> 0, duplicate |-> FALSE, answer |-> NoArtifact]

Up == [files |-> FALSE, tasks |-> FALSE, retry |-> {}]

ArtInit ==
  /\ requests = [r \in Requests |-> Fresh] /\ artifacts = [r \in Requests |-> NoRow]
  /\ current = [r \in Requests |-> NoArtifact] /\ files = [r \in Requests |-> "none"]
  /\ objects = {} /\ attached = {} /\ cleanup = [r \in Requests |-> "none"]
  /\ boot = Up /\ restarted = FALSE

------------------------------------------------------------------------------
Rows == {a \in Requests : artifacts[a] # NoRow}
Ready(a) == a \in Rows /\ artifacts[a].ready
Versions(s) == {a \in Rows : artifacts[a].series = s}
Latest(s) ==
  CHOOSE n \in 0..Cardinality(Requests) :
    /\ n = 0 \/ \E a \in Versions(s) : artifacts[a].number = n
    /\ \A a \in Versions(s) : artifacts[a].number <= n

\* A call of a run has one name; a restore makes a run of its own, named by its key.
Namespace(kind) == IF kind = "restore" THEN "restore" ELSE "call"
SameRequest(x, kind, key) == x.kind # "none" /\ x.key = key /\ Namespace(x.kind) = Namespace(kind)
Replay(kind, key) == {a \in Rows : SameRequest(artifacts[a], kind, key)}

InProgress(r) == requests[r].pc \notin {"new", "done", "lost"}
Goes(r, pc) == requests' = [requests EXCEPT ![r].pc = pc]
Fails(r) == Goes(r, "done")
Waits(r) == boot = Up /\ requests[r].pc = "new" /\ \A q \in Requests : q < r => requests[q].pc # "new"

------------------------------------------------------------------------------
\* A request that finds its earlier answer repeats it, another starts the row of its file.
Begins(r, request, replayed) ==
  \/ \E a \in Replay(request.kind, request.key) :
       /\ requests' = [requests EXCEPT ![r] =
            [request EXCEPT !.pc = "done", !.answer = IF replayed[a] THEN a ELSE NoArtifact]]
       /\ UNCHANGED <<files, attached>>
  \/ /\ Replay(request.kind, request.key) = {}
     /\ requests' = [requests EXCEPT ![r] = [request EXCEPT !.pc = "making"]]
     /\ files' = [files EXCEPT ![r] = "processing"]
     /\ attached' = attached \cup IF request.kind = "create" THEN {request.base} \ {NoArtifact} ELSE {}

\* A run that revises was accepted for the version that was current; its message holds the base.
Revisable(base, expected) == \E s \in Requests :
  /\ current[s] = expected /\ base \in Versions(s) /\ Ready(base)

BeginCreate(r) ==
  /\ Waits(r)
  /\ \E kind \in {"create", "import"}, key \in Keys, base, expected \in Requests \cup {NoArtifact} :
       /\ \/ base = NoArtifact /\ expected = NoArtifact
          \/ kind = "create" /\ Revisable(base, expected)
       /\ \A q \in Requests : SameRequest(requests[q], kind, key) =>
            requests[q].base = base /\ requests[q].expected = expected
       /\ Begins(r, [Fresh EXCEPT !.kind = kind, !.key = key, !.base = base, !.expected = expected],
                 [a \in Requests |-> Ready(a) /\ files[a] = "ready"])
  /\ UNCHANGED <<artifacts, current, objects, cleanup, boot, restarted>>

\* A restore repeated with the key of another restore is refused.
BeginRestore(r) ==
  /\ Waits(r)
  /\ \E key \in Keys, source, expected \in Rows :
       /\ Ready(source)
       /\ \/ Replay("restore", key) # {}
          \/ current[artifacts[source].series] = expected /\ files[source] = "ready" /\ source \in objects
       /\ Begins(r, [Fresh EXCEPT !.kind = "restore", !.key = key, !.base = source, !.expected = expected],
                 [a \in Requests |-> a \in Rows /\ artifacts[a].source = source])
  /\ UNCHANGED <<artifacts, current, objects, cleanup, boot, restarted>>

SaveFile(r) ==
  /\ requests[r].pc = "making"
  /\ Goes(r, "made") /\ files' = [files EXCEPT ![r] = "ready"] /\ objects' = objects \cup {r}
  /\ UNCHANGED <<artifacts, current, attached, cleanup, boot, restarted>>

\* The row goes; objects the storage does not give up get a task, but for a copy and an import.
SaveFails(r) ==
  /\ requests[r].pc = "making"
  /\ Fails(r) /\ files' = [files EXCEPT ![r] = "none"]
  /\ \/ UNCHANGED <<objects, cleanup>>
     \/ /\ objects' = objects \cup {r}
        /\ cleanup' = [cleanup EXCEPT ![r] = IF requests[r].kind = "create" THEN "failed" ELSE @]
  /\ UNCHANGED <<artifacts, current, attached, boot, restarted>>

------------------------------------------------------------------------------
\* Mutant: the file of a failed transaction is left.
UndoesNothing(r, duplicate) == requests' = [requests EXCEPT ![r].pc = "done", ![r].duplicate = duplicate]
\* A failed transaction takes the file back; only an import leaves it.
Undoes(r, duplicate) == requests' = [requests EXCEPT ![r].pc = "undo", ![r].duplicate = duplicate]

Abort(r) ==
  /\ requests[r].pc = "made" /\ requests[r].kind = "create" /\ Undoes(r, FALSE)
  /\ UNCHANGED <<files, store>>

\* Mutant: versions are numbered from zero.
RowFromZero(r, s, number, parent) ==
  [kind |-> requests[r].kind, key |-> requests[r].key, series |-> s, number |-> number - 1, parent |-> parent,
   source |-> IF requests[r].kind = "restore" THEN requests[r].base ELSE NoArtifact, ready |-> TRUE]
Row(r, s, number, parent) ==
  [kind |-> requests[r].kind, key |-> requests[r].key, series |-> s, number |-> number, parent |-> parent,
   source |-> IF requests[r].kind = "restore" THEN requests[r].base ELSE NoArtifact, ready |-> TRUE]

StartsSeries(r) == requests[r].expected = NoArtifact
Commits(r, row) ==
  /\ artifacts' = [artifacts EXCEPT ![r] = row] /\ current' = [current EXCEPT ![row.series] = r]
  /\ requests' = [requests EXCEPT ![r].pc = "done", ![r].answer = r]

\* A series of its own for a file that revises nothing.
CommitFirst(r) ==
  /\ requests[r].pc = "made" /\ StartsSeries(r)
  /\ \/ /\ Replay(requests[r].kind, requests[r].key) = {}
        /\ Commits(r, Row(r, r, 1, NoArtifact))
     \/ /\ Replay(requests[r].kind, requests[r].key) # {}
        /\ IF requests[r].kind = "import" THEN Fails(r) ELSE Undoes(r, TRUE)
        /\ UNCHANGED <<artifacts, current>>
  /\ UNCHANGED <<files, objects, attached, cleanup, boot, restarted>>

SeriesOf(r) == artifacts[requests[r].base].series

\* The version that must still be there: the base of a revision, the current one for a restore.
MustBeReady(r) == IF requests[r].kind = "restore" THEN requests[r].expected ELSE requests[r].base

ReadSeries(r) ==
  /\ requests[r].pc = "made" /\ ~StartsSeries(r)
  /\ IF current[SeriesOf(r)] = requests[r].expected /\ Ready(MustBeReady(r))
     THEN Goes(r, "read") ELSE Undoes(r, FALSE)
  /\ UNCHANGED <<files, store>>

ReadLatest(r) ==
  /\ requests[r].pc = "read"
  /\ requests' = [requests EXCEPT ![r].pc = "numbered", ![r].latest = Latest(SeriesOf(r))]
  /\ UNCHANGED <<files, store>>

\* Unique keys of the tables: a version of the series, a call of a run, a restore of the session.
Taken(r) ==
  \/ Replay(requests[r].kind, requests[r].key) # {}
  \/ \E a \in Versions(SeriesOf(r)) : artifacts[a].number = requests[r].latest + 1

\* Mutant: the series is advanced whatever became current since it was read.
StillCurrentAsRead(r) == TRUE
StillCurrent(r) == current[SeriesOf(r)] = requests[r].expected

CommitVersion(r) ==
  /\ requests[r].pc = "numbered"
  /\ \/ /\ ~Taken(r) /\ StillCurrent(r)
        /\ Commits(r, Row(r, SeriesOf(r), requests[r].latest + 1, requests[r].expected))
     \/ /\ Taken(r) \/ ~StillCurrent(r)
        /\ Undoes(r, Taken(r)) /\ UNCHANGED <<artifacts, current>>
  /\ UNCHANGED <<files, objects, attached, cleanup, boot, restarted>>

\* deleteGeneratedFile() removes the objects, then the row; a task is left for either. The one that
\* lost to its own duplicate answers with what that made.
Undo(r) ==
  /\ requests[r].pc = "undo"
  /\ \/ /\ objects' = objects \ {r} /\ files' = [files EXCEPT ![r] = "none"] /\ UNCHANGED cleanup
     \/ /\ objects' \in {objects, objects \ {r}} /\ UNCHANGED files
        /\ cleanup' = [cleanup EXCEPT ![r] = "failed"]
  /\ LET made == Replay(requests[r].kind, requests[r].key)
     IN  IF requests[r].duplicate /\ made # {}
         THEN \E a \in made : requests' = [requests EXCEPT ![r].pc = "done", ![r].answer = a]
         ELSE Fails(r)
  /\ UNCHANGED <<artifacts, current, attached, boot, restarted>>

------------------------------------------------------------------------------
\* Only an artifact without other ready versions may be deleted, as far as the count then told.
BeginDelete(r) ==
  /\ Waits(r)
  /\ \E a \in Rows :
       /\ Ready(a) /\ \A b \in Versions(artifacts[a].series) \ {a} : ~Ready(b)
       /\ requests' = [requests EXCEPT ![r] = [Fresh EXCEPT !.pc = "deleting", !.kind = "delete", !.base = a]]
  /\ UNCHANGED <<files, store>>

DeleteObjects(r) ==
  /\ requests[r].pc = "deleting"
  /\ \/ Goes(r, "unlinking") /\ objects' = objects \ {requests[r].base} /\ UNCHANGED cleanup
     \/ /\ Fails(r) /\ cleanup' = [cleanup EXCEPT ![requests[r].base] = "failed"] /\ UNCHANGED objects
  /\ UNCHANGED <<artifacts, current, files, attached, boot, restarted>>

Unset(a) == [s \in Requests |-> IF current[s] = a THEN NoArtifact ELSE current[s]]

CommitDelete(r) ==
  /\ requests[r].pc = "unlinking"
  /\ LET a == requests[r].base IN
     /\ current' = Unset(a) /\ artifacts' = [artifacts EXCEPT ![a].ready = FALSE]
     /\ files' = [files EXCEPT ![a] = "rejected"]
  /\ Fails(r)
  /\ UNCHANGED <<objects, attached, cleanup, boot, restarted>>

------------------------------------------------------------------------------
\* The server stops, once. Its start recovers the files being processed and the failed clean-ups.
Restart ==
  /\ ~restarted /\ restarted' = TRUE /\ boot' = [files |-> TRUE, tasks |-> TRUE, retry |-> {}]
  /\ requests' = [r \in Requests |-> IF InProgress(r) THEN [requests[r] EXCEPT !.pc = "lost"] ELSE requests[r]]
  /\ UNCHANGED <<artifacts, current, files, objects, attached, cleanup>>

Processing == {f \in Requests : files[f] = "processing"}
RecoverFiles ==
  /\ boot.files /\ boot' = [boot EXCEPT !.files = FALSE]
  /\ files' = [f \in Requests |-> IF f \in Processing THEN "none" ELSE files[f]]
  /\ \E kept \in SUBSET Processing :
       /\ objects' = (objects \ Processing) \cup kept
       /\ cleanup' = [f \in Requests |-> IF f \in kept THEN "failed" ELSE cleanup[f]]
  /\ UNCHANGED <<requests, artifacts, current, attached, restarted>>

ReadTasks ==
  /\ boot.tasks
  /\ boot' = [boot EXCEPT !.tasks = FALSE, !.retry = {f \in Requests : cleanup[f] = "failed"}]
  /\ UNCHANGED <<requests, artifacts, current, files, objects, attached, cleanup, restarted>>

\* A version that another one came from keeps its row, and with it the row of its file.
Referred(a) == \E b \in Rows : a \in {artifacts[b].parent, artifacts[b].source}

RetryTask(f) ==
  /\ f \in boot.retry /\ boot' = [boot EXCEPT !.retry = @ \ {f}]
  /\ \/ UNCHANGED <<artifacts, current, files, objects, cleanup>>
     \/ /\ objects' = objects \ {f}
        /\ IF files[f] # "none" /\ f \notin attached
           THEN IF Referred(f) THEN UNCHANGED <<artifacts, current, files, cleanup>>
                ELSE /\ files' = [files EXCEPT ![f] = "none"] /\ current' = Unset(f)
                     /\ artifacts' = [artifacts EXCEPT ![f] = NoRow]
                     /\ cleanup' = [cleanup EXCEPT ![f] = "completed"]
           ELSE cleanup' = [cleanup EXCEPT ![f] = "completed"] /\ UNCHANGED <<artifacts, current, files>>
  /\ UNCHANGED <<requests, attached, restarted>>

ArtNext ==
  \/ \E r \in Requests :
       \/ BeginCreate(r) \/ BeginRestore(r) \/ SaveFile(r) \/ SaveFails(r) \/ Abort(r) \/ CommitFirst(r)
       \/ ReadSeries(r) \/ ReadLatest(r) \/ CommitVersion(r) \/ Undo(r)
       \/ BeginDelete(r) \/ DeleteObjects(r) \/ CommitDelete(r) \/ RetryTask(r)
  \/ Restart \/ RecoverFiles \/ ReadTasks

ArtSpec == ArtInit /\ [][ArtNext]_artVars

------------------------------------------------------------------------------
ArtTypeOK ==
  /\ \A r \in Requests :
       /\ requests[r].pc \in {"new", "making", "made", "read", "numbered", "undo", "deleting", "unlinking",
                              "done", "lost"}
       /\ artifacts[r] # NoRow => artifacts[r].series \in Requests /\ artifacts[r].number \in Nat \ {0}
       /\ current[r] \in Requests \cup {NoArtifact}
       /\ files[r] \in {"none", "processing", "ready", "rejected"}
       /\ cleanup[r] \in {"none", "failed", "completed"}
  /\ objects \subseteq Requests /\ attached \subseteq Requests
  /\ {boot.files, boot.tasks, restarted} \subseteq BOOLEAN /\ boot.retry \subseteq Requests

\* However revisions, restores, deletes, clean-ups and a restart interleave, a series is one line
\* (artifacts.service.ts create, restore, delete): the versions that remain have the numbers 1 to n,
\* each came from the one before it, and the current one, if there is one, is ready and the newest.
VersionsFormAChain == \A s \in Requests :
  /\ {artifacts[a].number : a \in Versions(s)} = 1..Cardinality(Versions(s))
  /\ \A a \in Versions(s) :
       IF artifacts[a].number = 1 THEN artifacts[a].parent = NoArtifact
       ELSE artifacts[a].parent \in Versions(s) /\ artifacts[artifacts[a].parent].number = artifacts[a].number - 1
  /\ current[s] \in Requests =>
       Ready(current[s]) /\ current[s] \in Versions(s) /\ artifacts[current[s]].number = Cardinality(Versions(s))

\* A request tells the truth (artifacts.service.ts create, restore): one that was refused or failed
\* left no version, the row of its file is gone or has a clean-up task, and no file of another's
\* version was taken with it. Exempt are an import, which does not clean up, and what a stop lost.
Owned(f) == f \in Rows \/ cleanup[f] = "failed" \/ InProgress(f)
FilesAccountedFor ==
  /\ \A f \in Requests : files[f] = "ready" => Owned(f) \/ requests[f].pc = "lost" \/ requests[f].kind = "import"
  /\ boot = Up => \A f \in Requests : files[f] = "processing" => InProgress(f)
  /\ \A a \in Rows : files[a] # "none"
  /\ \A r \in Requests : requests[r].pc = "done" /\ requests[r].answer = NoArtifact => r \notin Rows
==============================================================================
