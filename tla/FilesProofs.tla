------------------------------ MODULE FilesProofs ------------------------------
(* Proofs about files: the version series of the artifacts with the files that hold them, and   *)
(* the uploads.                                                                                 *)
EXTENDS ArtifactVersions, FileUploads, FiniteSetTheorems, TLAPS

------------------------------------------------------------------------------
(* Part 1. Versions and their files: whatever the requests, the keys and the interleaving, a    *)
(* series is one line of versions and every file is accounted for. The inductive invariant has  *)
(* five parts: the shapes of the tables (ShapeInv), what a request in progress relies on        *)
(* (FlightInv), whose answer a version is (RowInv), where the file of a request stands          *)
(* (FileInv), and the line itself (ChainInv). An action of a request is first seen as one of    *)
(* seven kinds of step (Step), and the parts are kept by those.                                 *)

Names == Requests \union {NoArtifact}
Makers == {"create", "import", "restore"}
Making == {"making", "made", "read", "numbered", "undo"}
Deleting == {"deleting", "unlinking"}
Settled == {"new", "done", "lost"}

RequestShape == [pc : Making \union Deleting \union Settled, kind : Makers \union {"none", "delete"},
                 key : Keys \union {"none"}, base : Names, expected : Names, latest : Nat,
                 duplicate : BOOLEAN, answer : Names]
RowShape == [kind : Makers, key : Keys \union {"none"}, series : Requests, number : Nat,
             parent : Names, source : Names, ready : BOOLEAN]

RowsOf(art) == {a \in Requests : art[a] # NoRow}
VersionsOf(art, s) == {a \in RowsOf(art) : art[a].series = s}

ShapeInv ==
  /\ requests \in [Requests -> RequestShape]
  /\ artifacts \in [Requests -> RowShape \union {NoRow}]
  /\ current \in [Requests -> Names]
  /\ files \in [Requests -> {"none", "processing", "ready", "rejected"}]
  /\ cleanup \in [Requests -> {"none", "failed", "completed"}]
  /\ boot \in [files : BOOLEAN, tasks : BOOLEAN, retry : SUBSET Requests]

\* A request in progress, of a server that is up, refers to rows that stay; the number it has read
\* is that of a version.
Flight(q, art, up) ==
  /\ q.pc \notin Settled => up
  /\ q.pc \in Making => q.kind \in Makers /\ (q.expected # NoArtifact => q.base \in RowsOf(art))
  /\ q.pc \in {"read", "numbered"} => q.expected # NoArtifact
  /\ q.pc = "numbered" =>
       q.latest = 0 \/ \E a \in VersionsOf(art, art[q.base].series) : art[a].number = q.latest
  /\ q.pc \in Deleting => q.base \in RowsOf(art)

FlightInv == \A r \in Requests : Flight(requests[r], artifacts, boot = Up)

\* A version is the answer of its request, and the request that began its series is done.
RowInv ==
  \A a \in RowsOf(artifacts) :
    /\ requests[a].pc = "done" /\ requests[a].answer = a
    /\ requests[artifacts[a].series].pc = "done" /\ artifacts[a].number # 0

FileInv ==
  /\ attached \subseteq RowsOf(artifacts)
  /\ \A r \in Requests :
       /\ requests[r].pc \in {"new"} \union Deleting => files[r] = "none"
       /\ requests[r].pc \in Making =>
            files[r] = IF requests[r].pc = "making" THEN "processing" ELSE "ready"
       /\ r \in RowsOf(artifacts) => files[r] \in {"ready", "rejected"}
       /\ ~boot.files /\ files[r] = "processing" => requests[r].pc \notin Settled
       /\ files[r] = "ready" => \/ r \in RowsOf(artifacts) \/ cleanup[r] = "failed"
                                \/ requests[r].pc \notin Settled \/ requests[r].pc = "lost"
                                \/ requests[r].kind = "import"

\* The versions of a series are one line, and the current one is its end.
Chain(art, cur, s) ==
  LET V == VersionsOf(art, s)
  IN /\ \A a \in V : art[a].number \in 1..Cardinality(V)
     /\ \A n \in 1..Cardinality(V) : \E a \in V : art[a].number = n
     /\ \A a, b \in V : art[a].number = art[b].number => a = b
     /\ \A a \in V : IF art[a].number = 1 THEN art[a].parent = NoArtifact
                     ELSE art[a].parent \in V /\ art[art[a].parent].number = art[a].number - 1
     /\ cur[s] \in Requests =>
          cur[s] \in V /\ art[cur[s]].ready /\ art[cur[s]].number = Cardinality(V)

ChainInv == \A s \in Requests : Chain(artifacts, current, s)

-----------------------------------------------------------------------------
(* What a step does to a request and to the tables *)

\* A request goes on as it was begun.
Keeps(q, x) == q.kind = x.kind /\ q.base = x.base /\ q.expected = x.expected /\ q.latest = x.latest

Begun(r, q) ==
  /\ requests[r].pc = "new" /\ boot = Up /\ q.pc = "making" /\ q.kind \in Makers
  /\ q.expected # NoArtifact => q.base \in RowsOf(artifacts)
  /\ files' = [files EXCEPT ![r] = "processing"]
  /\ attached' \subseteq attached \union RowsOf(artifacts)
  /\ UNCHANGED <<artifacts, current, cleanup, boot>>

Moved(r, q) ==
  /\ UNCHANGED <<artifacts, current, files, attached, cleanup, boot>>
  /\ \/ requests[r].pc = "new" /\ q.pc = "done"
     \/ requests[r].pc = "new" /\ q.pc = "deleting" /\ boot = Up /\ q.base \in RowsOf(artifacts)
     \/ requests[r].pc \in {"made", "read", "numbered"} /\ q.pc = "undo" /\ Keeps(q, requests[r])
     \/ requests[r].pc = "made" /\ q.pc = "done" /\ q.kind = "import"
     \/ requests[r].pc = "made" /\ q.pc = "read" /\ q.expected # NoArtifact /\ Keeps(q, requests[r])
     \/ /\ requests[r].pc = "read" /\ q.pc = "numbered" /\ q.latest = Latest(SeriesOf(r))
        /\ q.kind = requests[r].kind /\ q.base = requests[r].base /\ q.expected = requests[r].expected
     \/ requests[r].pc = "deleting" /\ q.pc = "unlinking" /\ Keeps(q, requests[r])

Saved(r, q) ==
  /\ requests[r].pc = "making" /\ q.pc = "made" /\ Keeps(q, requests[r])
  /\ files' = [files EXCEPT ![r] = "ready"]
  /\ UNCHANGED <<artifacts, current, attached, cleanup, boot>>

\* The file is gone, or its clean-up is on record.
Cleaned(r, q) ==
  /\ requests[r].pc \in {"making", "undo"} /\ q.pc = "done"
  /\ \/ files' = [files EXCEPT ![r] = "none"]
     \/ /\ requests[r].pc = "undo" /\ files' = files /\ cleanup' = [cleanup EXCEPT ![r] = "failed"]
  /\ cleanup' = cleanup \/ \E c \in {"none", "failed", "completed"} : cleanup' = [cleanup EXCEPT ![r] = c]
  /\ UNCHANGED <<artifacts, current, attached, boot>>

Committed(r, q) ==
  /\ requests[r].pc \in {"made", "numbered"} /\ q.pc = "done" /\ q.answer = r
  /\ \E row \in RowShape :
       /\ artifacts' = [artifacts EXCEPT ![r] = row] /\ current' = [current EXCEPT ![row.series] = r]
       /\ row.ready
       /\ \/ row.series = r /\ row.number = 1 /\ row.parent = NoArtifact
          \/ /\ requests[r].pc = "numbered" /\ row.series = SeriesOf(r)
             /\ row.number = requests[r].latest + 1 /\ row.parent = current[row.series]
             /\ current[row.series] \in Requests
             /\ \A a \in VersionsOf(artifacts, row.series) : artifacts[a].number # row.number
  /\ UNCHANGED <<files, attached, cleanup, boot>>

Removed(r, q) ==
  /\ requests[r].pc = "deleting" /\ q.pc = "done"
  /\ cleanup' = [cleanup EXCEPT ![requests[r].base] = "failed"]
  /\ UNCHANGED <<artifacts, current, files, attached, boot>>

Deleted(r, q) ==
  /\ requests[r].pc = "unlinking" /\ q.pc = "done"
  /\ current' = Unset(requests[r].base)
  /\ artifacts' = [artifacts EXCEPT ![requests[r].base].ready = FALSE]
  /\ files' = [files EXCEPT ![requests[r].base] = "rejected"]
  /\ UNCHANGED <<attached, cleanup, boot>>

Step(r, q) ==
  /\ requests' = [requests EXCEPT ![r] = q]
  /\ \/ Begun(r, q) \/ Moved(r, q) \/ Saved(r, q) \/ Cleaned(r, q)
     \/ Committed(r, q) \/ Removed(r, q) \/ Deleted(r, q)

\* The number read for a series is that of a version, or zero.
LEMMA LatestOfSeries ==
  ASSUME ShapeInv, ChainInv, NEW s \in Requests
  PROVE  /\ Latest(s) \in Nat
         /\ Latest(s) = 0 \/ \E a \in VersionsOf(artifacts, s) : artifacts[a].number = Latest(s)
<1> DEFINE V == VersionsOf(artifacts, s)
<1>1. V = Versions(s) /\ V \in SUBSET Requests /\ IsFiniteSet(Requests)
  BY ArtRequests DEF Versions, Rows, VersionsOf, RowsOf
<1>2. Cardinality(V) \in 0..Cardinality(Requests) /\ Cardinality(Requests) \in Nat
  BY <1>1, FS_Subset, FS_CardinalityType
<1>3. /\ \A a \in V : artifacts[a].number \in 1..Cardinality(V)
      /\ \A m \in 1..Cardinality(V) : \E a \in V : artifacts[a].number = m
  BY DEF ChainInv, Chain
<1>4. /\ Cardinality(V) = 0 \/ \E a \in V : artifacts[a].number = Cardinality(V)
      /\ \A a \in V : artifacts[a].number <= Cardinality(V)
  BY <1>2, <1>3
<1>5. Latest(s) = CHOOSE m \in 0..Cardinality(Requests) :
                    /\ m = 0 \/ \E a \in V : artifacts[a].number = m
                    /\ \A a \in V : artifacts[a].number <= m
  BY <1>1 DEF Latest
<1> HIDE DEF V
<1>6. /\ Latest(s) \in 0..Cardinality(Requests)
      /\ Latest(s) = 0 \/ \E a \in V : artifacts[a].number = Latest(s)
  BY <1>2, <1>4, <1>5
<1> QED BY <1>2, <1>6 DEF V

\* Every action of a request is one of the seven kinds of step.
LEMMA StepOfRequest ==
  ASSUME ShapeInv, FlightInv, ChainInv, NEW r \in Requests,
         \/ BeginCreate(r) \/ BeginRestore(r) \/ SaveFile(r) \/ SaveFails(r) \/ Abort(r) \/ CommitFirst(r)
         \/ ReadSeries(r) \/ ReadLatest(r) \/ CommitVersion(r) \/ Undo(r)
         \/ BeginDelete(r) \/ DeleteObjects(r) \/ CommitDelete(r)
  PROVE  \E q \in RequestShape : Step(r, q)
<1> DEFINE x == requests[r]
<1>0. x \in RequestShape
  BY DEF ShapeInv
<1>1. /\ \A s : Versions(s) = VersionsOf(artifacts, s)
      /\ Rows = RowsOf(artifacts)
  BY DEF Versions, Rows, VersionsOf, RowsOf
<1>2. ASSUME NEW p \in Making \union Deleting \union Settled, requests' = [requests EXCEPT ![r].pc = p]
      PROVE  \E q \in RequestShape : /\ requests' = [requests EXCEPT ![r] = q]
                                     /\ q.pc = p /\ Keeps(q, x) /\ q.answer = x.answer
  <2> DEFINE q == [x EXCEPT !.pc = p]
  <2>1. q \in RequestShape /\ q.pc = p /\ Keeps(q, x) /\ q.answer = x.answer
    <3> HIDE DEF x
    <3> QED BY <1>0 DEF RequestShape, Keeps
  <2>2. requests' = [requests EXCEPT ![r] = q]
    BY <1>2
  <2> HIDE DEF q
  <2> QED BY <2>1, <2>2
<1>3. ASSUME NEW d \in BOOLEAN, Undoes(r, d)
      PROVE  \E q \in RequestShape : /\ requests' = [requests EXCEPT ![r] = q]
                                     /\ q.pc = "undo" /\ Keeps(q, x)
  <2> DEFINE q == [x EXCEPT !.pc = "undo", !.duplicate = d]
  <2>1. q \in RequestShape /\ q.pc = "undo" /\ Keeps(q, x)
    <3>1. "undo" \in Making \union Deleting \union Settled
      BY DEF Making
    <3> HIDE DEF x
    <3> QED BY <1>0, <3>1 DEF RequestShape, Keeps
  <2>2. requests' = [requests EXCEPT ![r] = q]
    BY <1>3 DEF Undoes
  <2> HIDE DEF q
  <2> QED BY <2>1, <2>2
<1>4. ASSUME NEW kind \in Makers, NEW key \in Keys, NEW base \in Names, NEW expected \in Names,
             NEW replayed, requests[r].pc = "new", boot = Up,
             (kind = "create" /\ base # NoArtifact) \/ expected # NoArtifact => base \in RowsOf(artifacts),
             Begins(r, [Fresh EXCEPT !.kind = kind, !.key = key, !.base = base, !.expected = expected], replayed),
             UNCHANGED <<artifacts, current, objects, cleanup, boot, restarted>>
      PROVE  \E q \in RequestShape : Step(r, q)
  <2> DEFINE request == [Fresh EXCEPT !.kind = kind, !.key = key, !.base = base, !.expected = expected]
             q == [request EXCEPT !.pc = "making"]
             done(a) == [request EXCEPT !.pc = "done", !.answer = IF replayed[a] THEN a ELSE NoArtifact]
  <2>1. /\ request \in RequestShape /\ request.kind = kind /\ request.base = base
        /\ request.expected = expected /\ request.key = key
    BY DEF Fresh, RequestShape, Settled, Names
  <2>2. \/ \E a \in Replay(request.kind, request.key) :
             requests' = [requests EXCEPT ![r] = done(a)] /\ UNCHANGED <<files, attached>>
        \/ /\ requests' = [requests EXCEPT ![r] = q]
           /\ files' = [files EXCEPT ![r] = "processing"]
           /\ attached' = attached \union IF request.kind = "create" THEN {request.base} \ {NoArtifact} ELSE {}
    BY <1>4 DEF Begins
  <2>3. \A a \in Replay(request.kind, request.key) : a \in Requests
    BY DEF Replay, Rows
  <2> HIDE DEF request
  <2>4. ASSUME NEW a \in Requests, requests' = [requests EXCEPT ![r] = done(a)], UNCHANGED <<files, attached>>
        PROVE  \E y \in RequestShape : Step(r, y)
    <3> DEFINE n == IF replayed[a] THEN a ELSE NoArtifact
               d == [request EXCEPT !.pc = "done", !.answer = n]
    <3>1. n \in Names
      BY DEF Names
    <3>2. requests' = [requests EXCEPT ![r] = d]
      BY <2>4
    <3> HIDE DEF n
    <3>3. d \in RequestShape /\ d.pc = "done"
      <4>1. "done" \in Making \union Deleting \union Settled
        BY DEF Settled
      <4>2. request \in RequestShape
        BY <2>1
      <4> QED BY <3>1, <4>1, <4>2 DEF RequestShape
    <3> HIDE DEF d
    <3>4. Moved(r, d)
      BY <1>4, <2>4, <3>3 DEF Moved
    <3> QED BY <3>2, <3>3, <3>4 DEF Step
  <2>5. CASE /\ requests' = [requests EXCEPT ![r] = q]
             /\ files' = [files EXCEPT ![r] = "processing"]
             /\ attached' = attached \union IF request.kind = "create" THEN {request.base} \ {NoArtifact} ELSE {}
    <3>1. q \in RequestShape /\ q.pc = "making" /\ Keeps(q, request)
      <4>1. "making" \in Making \union Deleting \union Settled
        BY DEF Making
      <4>2. request \in RequestShape
        BY <2>1
      <4> QED BY <4>1, <4>2 DEF RequestShape, Keeps
    <3> HIDE DEF q
    <3>2. attached' \subseteq attached \union RowsOf(artifacts)
      BY <1>4, <2>1, <2>5
    <3>3. Begun(r, q)
      BY <1>4, <2>1, <2>5, <3>1, <3>2 DEF Begun, Keeps
    <3> QED BY <2>5, <3>1, <3>3 DEF Step
  <2> QED BY <2>2, <2>3, <2>4, <2>5
<1>5. CASE BeginCreate(r)
  <2>1. PICK kind \in {"create", "import"}, key \in Keys, base \in Names, expected \in Names :
          /\ \/ base = NoArtifact /\ expected = NoArtifact
             \/ kind = "create" /\ Revisable(base, expected)
          /\ Begins(r, [Fresh EXCEPT !.kind = kind, !.key = key, !.base = base, !.expected = expected],
                    [a \in Requests |-> Ready(a) /\ files[a] = "ready"])
    BY <1>5 DEF BeginCreate, Names
  <2>2. base # NoArtifact \/ expected # NoArtifact => base \in RowsOf(artifacts)
    BY <2>1, <1>1 DEF Revisable, VersionsOf
  <2>3. requests[r].pc = "new" /\ boot = Up /\ UNCHANGED <<artifacts, current, objects, cleanup, boot, restarted>>
    BY <1>5 DEF BeginCreate, Waits
  <2> QED BY <1>4, <2>1, <2>2, <2>3 DEF Makers
<1>6. CASE BeginRestore(r)
  <2>1. PICK key \in Keys, source \in Rows, expected \in Rows :
          Begins(r, [Fresh EXCEPT !.kind = "restore", !.key = key, !.base = source, !.expected = expected],
                 [a \in Requests |-> a \in Rows /\ artifacts[a].source = source])
    BY <1>6 DEF BeginRestore
  <2>2. source \in RowsOf(artifacts) /\ source \in Names /\ expected \in Names
    BY <1>1 DEF RowsOf, Names
  <2>3. requests[r].pc = "new" /\ boot = Up /\ UNCHANGED <<artifacts, current, objects, cleanup, boot, restarted>>
    BY <1>6 DEF BeginRestore, Waits
  <2> QED BY <1>4, <2>1, <2>2, <2>3 DEF Makers
<1>7. CASE SaveFile(r)
  <2>1. PICK q \in RequestShape : /\ requests' = [requests EXCEPT ![r] = q] /\ q.pc = "made" /\ Keeps(q, x)
    BY <1>2, <1>7 DEF SaveFile, Goes, Making
  <2>2. Saved(r, q)
    BY <1>7, <2>1 DEF SaveFile, Saved
  <2> QED BY <2>1, <2>2 DEF Step
<1>8. CASE SaveFails(r)
  <2>1. PICK q \in RequestShape : requests' = [requests EXCEPT ![r] = q] /\ q.pc = "done"
    BY <1>2, <1>8 DEF SaveFails, Fails, Goes, Settled
  <2>2. cleanup' = cleanup \/ \E c \in {"none", "failed", "completed"} : cleanup' = [cleanup EXCEPT ![r] = c]
    BY <1>8 DEF SaveFails, ShapeInv
  <2>3. Cleaned(r, q)
    BY <1>8, <2>1, <2>2 DEF SaveFails, Cleaned
  <2> QED BY <2>1, <2>3 DEF Step
<1>9. CASE Abort(r)
  <2>1. PICK q \in RequestShape : requests' = [requests EXCEPT ![r] = q] /\ q.pc = "undo" /\ Keeps(q, x)
    BY <1>3, <1>9 DEF Abort
  <2>2. Moved(r, q)
    BY <1>9, <2>1 DEF Abort, Moved, store
  <2> QED BY <2>1, <2>2 DEF Step
<1>10. ASSUME NEW row, row \in RowShape, row.ready, Commits(r, row), UNCHANGED <<files, attached, cleanup, boot>>,
              requests[r].pc \in {"made", "numbered"},
              \/ row.series = r /\ row.number = 1 /\ row.parent = NoArtifact
              \/ /\ requests[r].pc = "numbered" /\ row.series = SeriesOf(r)
                 /\ row.number = requests[r].latest + 1 /\ row.parent = current[row.series]
                 /\ current[row.series] \in Requests
                 /\ \A a \in VersionsOf(artifacts, row.series) : artifacts[a].number # row.number
       PROVE  \E q \in RequestShape : Step(r, q)
  <2> DEFINE q == [x EXCEPT !.pc = "done", !.answer = r]
  <2>1. q \in RequestShape /\ q.pc = "done" /\ q.answer = r
    <3>1. "done" \in Making \union Deleting \union Settled /\ r \in Names
      BY DEF Settled, Names
    <3> HIDE DEF x
    <3> QED BY <1>0, <3>1 DEF RequestShape
  <2>2. requests' = [requests EXCEPT ![r] = q]
    BY <1>10 DEF Commits
  <2> HIDE DEF q
  <2>3. Committed(r, q)
    BY <1>10, <2>1 DEF Committed, Commits
  <2> QED BY <2>1, <2>2, <2>3 DEF Step
<1>11. ASSUME requests[r].pc \in {"made", "numbered"}, NEW s \in Requests, NEW number \in Nat, NEW parent \in Names
       PROVE  LET row == Row(r, s, number, parent)
              IN row \in RowShape /\ row.ready /\ row.series = s /\ row.number = number /\ row.parent = parent
  <2>1. x.kind \in Makers /\ x.key \in Keys \union {"none"} /\ x.base \in Names
    BY <1>0, <1>11 DEF FlightInv, Flight, Making, RequestShape
  <2> DEFINE source == IF x.kind = "restore" THEN x.base ELSE NoArtifact
  <2>2. source \in Names
    BY <2>1 DEF Names
  <2> HIDE DEF source
  <2>3. Row(r, s, number, parent) = [kind |-> x.kind, key |-> x.key, series |-> s, number |-> number,
                                     parent |-> parent, source |-> source, ready |-> TRUE]
    BY DEF Row, source
  <2> QED BY <2>1, <2>2, <2>3 DEF RowShape
<1>12. CASE CommitFirst(r)
  <2>1. /\ requests[r].pc = "made" /\ UNCHANGED <<files, attached, cleanup, boot>>
        /\ \/ Commits(r, Row(r, r, 1, NoArtifact))
           \/ /\ IF requests[r].kind = "import" THEN Fails(r) ELSE Undoes(r, TRUE)
              /\ UNCHANGED <<artifacts, current>>
    BY <1>12 DEF CommitFirst
  <2>2. CASE Commits(r, Row(r, r, 1, NoArtifact))
    <3> DEFINE row == Row(r, r, 1, NoArtifact)
    <3>1. row \in RowShape /\ row.ready /\ row.series = r /\ row.number = 1 /\ row.parent = NoArtifact
      BY <1>11, <2>1 DEF Names
    <3> HIDE DEF row
    <3>2. Commits(r, row)
      BY <2>2 DEF row
    <3> QED BY <1>10, <2>1, <3>1, <3>2
  <2>3. CASE requests[r].kind = "import" /\ Fails(r) /\ UNCHANGED <<artifacts, current>>
    <3>1. PICK q \in RequestShape : requests' = [requests EXCEPT ![r] = q] /\ q.pc = "done" /\ Keeps(q, x)
      BY <1>2, <2>3 DEF Fails, Goes, Settled
    <3>2. Moved(r, q)
      BY <2>1, <2>3, <3>1 DEF Moved, Keeps
    <3> QED BY <3>1, <3>2 DEF Step
  <2>4. CASE Undoes(r, TRUE) /\ UNCHANGED <<artifacts, current>>
    <3>1. PICK q \in RequestShape : requests' = [requests EXCEPT ![r] = q] /\ q.pc = "undo" /\ Keeps(q, x)
      BY <1>3, <2>4
    <3>2. Moved(r, q)
      BY <2>1, <2>4, <3>1 DEF Moved
    <3> QED BY <3>1, <3>2 DEF Step
  <2> QED BY <2>1, <2>2, <2>3, <2>4
<1>13. CASE ReadSeries(r)
  <2>1. /\ requests[r].pc = "made" /\ x.expected # NoArtifact /\ UNCHANGED <<files, store>>
        /\ Goes(r, "read") \/ Undoes(r, FALSE)
    BY <1>13 DEF ReadSeries, StartsSeries
  <2>2. CASE Goes(r, "read")
    <3>1. PICK q \in RequestShape : requests' = [requests EXCEPT ![r] = q] /\ q.pc = "read" /\ Keeps(q, x)
      BY <1>2, <2>2 DEF Goes, Making
    <3>2. Moved(r, q)
      BY <2>1, <3>1 DEF Moved, Keeps, store
    <3> QED BY <3>1, <3>2 DEF Step
  <2>3. CASE Undoes(r, FALSE)
    <3>1. PICK q \in RequestShape : requests' = [requests EXCEPT ![r] = q] /\ q.pc = "undo" /\ Keeps(q, x)
      BY <1>3, <2>3
    <3>2. Moved(r, q)
      BY <2>1, <3>1 DEF Moved, store
    <3> QED BY <3>1, <3>2 DEF Step
  <2> QED BY <2>1, <2>2, <2>3
<1>14. CASE ReadLatest(r)
  <2> DEFINE n == Latest(SeriesOf(r))
             q == [x EXCEPT !.pc = "numbered", !.latest = n]
  <2>1. requests[r].pc = "read" /\ requests' = [requests EXCEPT ![r] = q] /\ UNCHANGED <<files, store>>
    BY <1>14 DEF ReadLatest
  <2>2. n \in Nat
    <3>1. x.base \in RowsOf(artifacts)
      BY <2>1 DEF FlightInv, Flight, Making
    <3>2. SeriesOf(r) \in Requests
      BY <3>1 DEF SeriesOf, ShapeInv, RowsOf, RowShape
    <3> QED BY <3>2, LatestOfSeries
  <2> HIDE DEF n
  <2>3. q \in RequestShape /\ q.pc = "numbered" /\ q.kind = x.kind /\ q.base = x.base
        /\ q.expected = x.expected /\ q.latest = n
    <3>1. "numbered" \in Making \union Deleting \union Settled
      BY DEF Making
    <3> HIDE DEF x
    <3> QED BY <1>0, <2>2, <3>1 DEF RequestShape
  <2> HIDE DEF q
  <2>4. Moved(r, q)
    BY <2>1, <2>3 DEF Moved, store, n
  <2> QED BY <2>1, <2>3, <2>4 DEF Step
<1>15. CASE CommitVersion(r)
  <2>1. /\ requests[r].pc = "numbered" /\ UNCHANGED <<files, attached, cleanup, boot>>
        /\ \/ /\ ~Taken(r) /\ StillCurrent(r)
              /\ Commits(r, Row(r, SeriesOf(r), requests[r].latest + 1, requests[r].expected))
           \/ Undoes(r, Taken(r)) /\ UNCHANGED <<artifacts, current>>
    BY <1>15 DEF CommitVersion
  <2>2. CASE /\ ~Taken(r) /\ StillCurrent(r)
             /\ Commits(r, Row(r, SeriesOf(r), requests[r].latest + 1, requests[r].expected))
    <3> DEFINE s == SeriesOf(r)
               row == Row(r, s, requests[r].latest + 1, requests[r].expected)
    <3>1. x.base \in RowsOf(artifacts) /\ x.expected # NoArtifact /\ x.latest \in Nat /\ x.expected \in Names
      BY <1>0, <2>1 DEF FlightInv, Flight, Making, RequestShape
    <3>2. s \in Requests
      BY <3>1 DEF SeriesOf, ShapeInv, RowsOf, RowShape
    <3>3. current[s] = x.expected /\ current[s] \in Requests
      BY <2>2, <3>1 DEF StillCurrent, Names
    <3>4. \A a \in VersionsOf(artifacts, s) : artifacts[a].number # x.latest + 1
      BY <1>1, <2>2 DEF Taken
    <3> HIDE DEF s
    <3>5. row \in RowShape /\ row.ready /\ row.series = s /\ row.number = x.latest + 1 /\ row.parent = x.expected
      BY <1>11, <2>1, <3>1, <3>2
    <3>6. Commits(r, row)
      BY <2>2 DEF s
    <3> HIDE DEF row
    <3>7. SeriesOf(r) = s
      BY DEF s
    <3> QED BY <1>10, <2>1, <3>3, <3>4, <3>5, <3>6, <3>7
  <2>3. CASE Undoes(r, Taken(r)) /\ UNCHANGED <<artifacts, current>>
    <3>1. Taken(r) \in BOOLEAN
      BY DEF Taken
    <3>2. PICK q \in RequestShape : requests' = [requests EXCEPT ![r] = q] /\ q.pc = "undo" /\ Keeps(q, x)
      BY <1>3, <2>3, <3>1
    <3>3. Moved(r, q)
      BY <2>1, <2>3, <3>2 DEF Moved
    <3> QED BY <3>2, <3>3 DEF Step
  <2> QED BY <2>1, <2>2, <2>3
<1>16. CASE Undo(r)
  <2>1. /\ requests[r].pc = "undo" /\ UNCHANGED <<artifacts, current, attached, boot>>
        /\ \/ files' = [files EXCEPT ![r] = "none"] /\ cleanup' = cleanup
           \/ files' = files /\ cleanup' = [cleanup EXCEPT ![r] = "failed"]
    BY <1>16 DEF Undo
  <2>2. \/ \E a \in Rows : requests' = [requests EXCEPT ![r].pc = "done", ![r].answer = a]
        \/ Fails(r)
    BY <1>16 DEF Undo, Replay
  <2>3. ASSUME NEW q \in RequestShape, requests' = [requests EXCEPT ![r] = q], q.pc = "done"
        PROVE  Step(r, q)
    <3>1. Cleaned(r, q)
      BY <2>1, <2>3 DEF Cleaned
    <3> QED BY <2>3, <3>1 DEF Step
  <2>4. CASE \E a \in Rows : requests' = [requests EXCEPT ![r].pc = "done", ![r].answer = a]
    <3>1. PICK a \in Rows : requests' = [requests EXCEPT ![r].pc = "done", ![r].answer = a]
      BY <2>4
    <3> DEFINE q == [x EXCEPT !.pc = "done", !.answer = a]
    <3>2. q \in RequestShape /\ q.pc = "done"
      <4>1. "done" \in Making \union Deleting \union Settled /\ a \in Names
        BY DEF Settled, Names, Rows
      <4> HIDE DEF x
      <4> QED BY <1>0, <4>1 DEF RequestShape
    <3>3. requests' = [requests EXCEPT ![r] = q]
      BY <3>1
    <3> HIDE DEF q
    <3> QED BY <2>3, <3>2, <3>3
  <2>5. CASE Fails(r)
    BY <1>2, <2>3, <2>5 DEF Fails, Goes, Settled
  <2> QED BY <2>2, <2>4, <2>5
<1>17. CASE BeginDelete(r)
  <2>1. PICK a \in Rows : requests' = [requests EXCEPT ![r] = [Fresh EXCEPT !.pc = "deleting", !.kind = "delete", !.base = a]]
    BY <1>17 DEF BeginDelete
  <2> DEFINE q == [Fresh EXCEPT !.pc = "deleting", !.kind = "delete", !.base = a]
  <2>2. q \in RequestShape /\ q.pc = "deleting" /\ q.base = a
    BY DEF Fresh, RequestShape, Deleting, Names, Rows
  <2>3. requests' = [requests EXCEPT ![r] = q]
    BY <2>1
  <2> HIDE DEF q
  <2>4. Moved(r, q)
    BY <1>1, <1>17, <2>2 DEF BeginDelete, Waits, Moved, store
  <2> QED BY <2>2, <2>3, <2>4 DEF Step
<1>18. CASE DeleteObjects(r)
  <2>1. /\ requests[r].pc = "deleting" /\ UNCHANGED <<artifacts, current, files, attached, boot>>
        /\ \/ Goes(r, "unlinking") /\ UNCHANGED cleanup
           \/ Fails(r) /\ cleanup' = [cleanup EXCEPT ![requests[r].base] = "failed"]
    BY <1>18 DEF DeleteObjects
  <2>2. CASE Goes(r, "unlinking") /\ UNCHANGED cleanup
    <3>1. PICK q \in RequestShape : requests' = [requests EXCEPT ![r] = q] /\ q.pc = "unlinking" /\ Keeps(q, x)
      BY <1>2, <2>2 DEF Goes, Deleting
    <3>2. Moved(r, q)
      BY <2>1, <2>2, <3>1 DEF Moved
    <3> QED BY <3>1, <3>2 DEF Step
  <2>3. CASE Fails(r) /\ cleanup' = [cleanup EXCEPT ![requests[r].base] = "failed"]
    <3>1. PICK q \in RequestShape : requests' = [requests EXCEPT ![r] = q] /\ q.pc = "done"
      BY <1>2, <2>3 DEF Fails, Goes, Settled
    <3>2. Removed(r, q)
      BY <2>1, <2>3, <3>1 DEF Removed
    <3> QED BY <3>1, <3>2 DEF Step
  <2> QED BY <2>1, <2>2, <2>3
<1>19. CASE CommitDelete(r)
  <2>1. PICK q \in RequestShape : requests' = [requests EXCEPT ![r] = q] /\ q.pc = "done"
    BY <1>2, <1>19 DEF CommitDelete, Fails, Goes, Settled
  <2>2. Deleted(r, q)
    BY <1>19, <2>1 DEF CommitDelete, Deleted
  <2> QED BY <2>1, <2>2 DEF Step
<1> QED BY <1>5, <1>6, <1>7, <1>8, <1>9, <1>12, <1>13, <1>14, <1>15, <1>16, <1>17, <1>18, <1>19


AllInv == ShapeInv /\ FlightInv /\ RowInv /\ FileInv /\ ChainInv

\* A row that is not the empty one is a version's.
LEMMA RowFacts ==
  ASSUME ShapeInv
  PROVE  /\ \A a \in RowsOf(artifacts) : artifacts[a] \in RowShape
         /\ \A row \in RowShape : row # NoRow
BY DEF ShapeInv, RowsOf, RowShape, NoRow, Makers

\* A step of a request leaves the versions in their series, and only a commit adds one.
LEMMA StepRows ==
  ASSUME AllInv, NEW r \in Requests, NEW q \in RequestShape, Step(r, q)
  PROVE  /\ r \notin RowsOf(artifacts)
         /\ \A a \in RowsOf(artifacts) :
              /\ a \in RowsOf(artifacts') /\ requests'[a] = requests[a]
              /\ artifacts'[a].series = artifacts[a].series /\ artifacts'[a].number = artifacts[a].number
              /\ artifacts'[a].parent = artifacts[a].parent
         /\ Committed(r, q) \/ RowsOf(artifacts') = RowsOf(artifacts)
         /\ RowsOf(artifacts') \subseteq RowsOf(artifacts) \union {r}
<1>1. requests[r].pc # "done"
  BY DEF Step, Begun, Moved, Saved, Cleaned, Committed, Removed, Deleted
<1>2. r \notin RowsOf(artifacts)
  BY <1>1 DEF AllInv, RowInv
<1>3. \A a \in RowsOf(artifacts) : requests'[a] = requests[a] /\ a \in Requests
  BY <1>2 DEF Step, RowsOf, AllInv, ShapeInv
<1>4. CASE artifacts' = artifacts
  BY <1>2, <1>3, <1>4
<1>5. CASE Committed(r, q)
  <2>1. PICK row \in RowShape : artifacts' = [artifacts EXCEPT ![r] = row]
    BY <1>5 DEF Committed
  <2>2. \A a \in Requests : artifacts'[a] = IF a = r THEN row ELSE artifacts[a]
    BY <2>1 DEF AllInv, ShapeInv
  <2>3. \A a \in RowsOf(artifacts) : artifacts'[a] = artifacts[a]
    BY <1>2, <2>2 DEF RowsOf
  <2>4. RowsOf(artifacts) \subseteq RowsOf(artifacts')
    BY <2>3 DEF RowsOf
  <2>5. RowsOf(artifacts') \subseteq RowsOf(artifacts) \union {r}
    BY <2>2 DEF RowsOf
  <2> QED BY <1>2, <1>3, <1>5, <2>3, <2>4, <2>5
<1>6. CASE Deleted(r, q)
  <2> DEFINE b == requests[r].base
             gone == [artifacts[b] EXCEPT !.ready = FALSE]
  <2>1. b \in RowsOf(artifacts)
    BY <1>6 DEF Deleted, AllInv, FlightInv, Flight, Deleting
  <2>2. artifacts[b] \in RowShape /\ \A row \in RowShape : row # NoRow
    BY <2>1, RowFacts DEF AllInv
  <2>3. /\ gone \in RowShape /\ gone.series = artifacts[b].series
        /\ gone.number = artifacts[b].number /\ gone.parent = artifacts[b].parent
    BY <2>2 DEF RowShape
  <2>4. artifacts' = [artifacts EXCEPT ![b] = gone]
    BY <1>6 DEF Deleted
  <2> HIDE DEF gone, b
  <2>5. \A a \in Requests : artifacts'[a] = IF a = b THEN gone ELSE artifacts[a]
    BY <2>4 DEF AllInv, ShapeInv
  <2>6. RowsOf(artifacts') = RowsOf(artifacts)
    BY <2>1, <2>2, <2>3, <2>5 DEF RowsOf
  <2>7. ASSUME NEW a \in RowsOf(artifacts)
        PROVE  /\ artifacts'[a].series = artifacts[a].series /\ artifacts'[a].number = artifacts[a].number
               /\ artifacts'[a].parent = artifacts[a].parent
    BY <2>3, <2>5 DEF RowsOf
  <2> QED BY <1>2, <1>3, <2>6, <2>7
<1> QED BY <1>4, <1>5, <1>6 DEF Step, Begun, Moved, Saved, Cleaned, Removed

\* A step of a request keeps every shape.
LEMMA StepKeepsShape ==
  ASSUME AllInv, NEW r \in Requests, NEW q \in RequestShape, Step(r, q)
  PROVE  ShapeInv'
<1>1. requests' \in [Requests -> RequestShape]
  BY DEF Step, AllInv, ShapeInv
<1>2. artifacts' \in [Requests -> RowShape \union {NoRow}] /\ current' \in [Requests -> Names]
  <2>1. CASE artifacts' = artifacts /\ current' = current
    BY <2>1 DEF AllInv, ShapeInv
  <2>2. CASE Committed(r, q)
    <3>1. PICK row \in RowShape :
            artifacts' = [artifacts EXCEPT ![r] = row] /\ current' = [current EXCEPT ![row.series] = r]
      BY <2>2 DEF Committed
    <3>2. row.series \in Requests
      BY DEF RowShape
    <3> QED BY <3>1, <3>2 DEF AllInv, ShapeInv, Names
  <2>3. CASE Deleted(r, q)
    <3> DEFINE b == requests[r].base
               gone == [artifacts[b] EXCEPT !.ready = FALSE]
    <3>1. b \in RowsOf(artifacts)
      BY <2>3 DEF Deleted, AllInv, FlightInv, Flight, Deleting
    <3>2. artifacts[b] \in RowShape
      BY <3>1, RowFacts DEF AllInv
    <3>3. gone \in RowShape
      BY <3>2 DEF RowShape
    <3>4. artifacts' = [artifacts EXCEPT ![b] = gone]
      BY <2>3 DEF Deleted
    <3> HIDE DEF gone
    <3>5. artifacts' \in [Requests -> RowShape \union {NoRow}]
      BY <3>3, <3>4 DEF AllInv, ShapeInv
    <3>6. current' \in [Requests -> Names]
      BY <2>3 DEF Deleted, Unset, AllInv, ShapeInv, Names
    <3> QED BY <3>5, <3>6
  <2> QED BY <2>1, <2>2, <2>3 DEF Step, Begun, Moved, Saved, Cleaned, Removed
<1>3. files' \in [Requests -> {"none", "processing", "ready", "rejected"}]
  BY DEF Step, Begun, Moved, Saved, Cleaned, Committed, Removed, Deleted, AllInv, ShapeInv
<1>4. cleanup' \in [Requests -> {"none", "failed", "completed"}]
  BY DEF Step, Begun, Moved, Saved, Cleaned, Committed, Removed, Deleted, AllInv, ShapeInv
<1>5. boot' = boot
  BY DEF Step, Begun, Moved, Saved, Cleaned, Committed, Removed, Deleted
<1> QED BY <1>1, <1>2, <1>3, <1>4, <1>5 DEF AllInv, ShapeInv

\* A step of a request keeps what the requests in progress rely on.
LEMMA StepKeepsFlight ==
  ASSUME AllInv, NEW r \in Requests, NEW q \in RequestShape, Step(r, q)
  PROVE  FlightInv'
<1>1. boot' = boot /\ requests' = [requests EXCEPT ![r] = q] /\ requests \in [Requests -> RequestShape]
  BY DEF Step, Begun, Moved, Saved, Cleaned, Committed, Removed, Deleted, AllInv, ShapeInv
<1>2. \A a \in RowsOf(artifacts) :
        /\ a \in RowsOf(artifacts')
        /\ artifacts'[a].series = artifacts[a].series /\ artifacts'[a].number = artifacts[a].number
  BY StepRows
<1>3. \A s : \A a \in VersionsOf(artifacts, s) :
        a \in VersionsOf(artifacts', s) /\ artifacts'[a].number = artifacts[a].number
  BY <1>2 DEF VersionsOf
<1>4. ASSUME NEW x \in RequestShape, Flight(x, artifacts, boot = Up)
      PROVE  Flight(x, artifacts', boot' = Up)
  BY <1>1, <1>2, <1>3, <1>4 DEF Flight, Making, Deleting
<1>5. Flight(q, artifacts, boot = Up)
  <2> DEFINE x == requests[r]
  <2>1. Flight(x, artifacts, boot = Up) /\ x \in RequestShape
    BY DEF AllInv, FlightInv, ShapeInv
  <2>2. CASE q.pc \in Settled
    BY <2>2 DEF Flight, Settled, Making, Deleting
  <2>3. CASE Begun(r, q)
    BY <2>3 DEF Begun, Flight, Settled, Making, Deleting
  <2>4. CASE x.pc = "new" /\ q.pc = "deleting" /\ boot = Up /\ q.base \in RowsOf(artifacts)
    BY <2>4 DEF Flight, Settled, Making, Deleting
  <2>5. CASE x.pc \in {"made", "read", "numbered"} /\ q.pc = "undo" /\ Keeps(q, x)
    BY <2>1, <2>5 DEF Keeps, Flight, Settled, Making, Deleting
  <2>6. CASE x.pc = "made" /\ q.pc = "read" /\ q.expected # NoArtifact /\ Keeps(q, x)
    BY <2>1, <2>6 DEF Keeps, Flight, Settled, Making, Deleting
  <2>7. CASE /\ x.pc = "read" /\ q.pc = "numbered" /\ q.latest = Latest(SeriesOf(r))
             /\ q.kind = x.kind /\ q.base = x.base /\ q.expected = x.expected
    <3> DEFINE s == SeriesOf(r)
    <3>1. x.base \in RowsOf(artifacts)
      BY <2>1, <2>7 DEF Flight, Making
    <3>2. s \in Requests /\ s = artifacts[q.base].series
      BY <2>7, <3>1, RowFacts DEF SeriesOf, RowShape, AllInv
    <3>3. q.latest = 0 \/ \E a \in VersionsOf(artifacts, s) : artifacts[a].number = q.latest
      BY <2>7, <3>2, LatestOfSeries DEF AllInv
    <3> HIDE DEF s
    <3> QED BY <2>1, <2>7, <3>2, <3>3 DEF Flight, Settled, Making, Deleting
  <2>8. CASE x.pc = "deleting" /\ q.pc = "unlinking" /\ Keeps(q, x)
    BY <2>1, <2>8 DEF Keeps, Flight, Settled, Making, Deleting
  <2>9. CASE Saved(r, q)
    BY <2>1, <2>9 DEF Saved, Keeps, Flight, Settled, Making, Deleting
  <2>10. CASE Moved(r, q)
    BY <2>2, <2>4, <2>5, <2>6, <2>7, <2>8, <2>10 DEF Moved, Settled
  <2> QED BY <2>2, <2>3, <2>9, <2>10 DEF Step, Cleaned, Committed, Removed, Deleted, Settled
<1>6. \A p \in Requests : requests'[p] = IF p = r THEN q ELSE requests[p]
  BY <1>1
<1>7. ASSUME NEW p \in Requests
      PROVE  Flight(requests'[p], artifacts', boot' = Up)
  <2>1. CASE p = r
    BY <1>4, <1>5, <1>6, <2>1
  <2>2. CASE p # r
    <3>1. requests'[p] = requests[p] /\ requests[p] \in RequestShape /\ Flight(requests[p], artifacts, boot = Up)
      BY <1>1, <1>6, <2>2 DEF AllInv, FlightInv
    <3> QED BY <1>4, <3>1
  <2> QED BY <2>1, <2>2
<1> QED BY <1>7 DEF FlightInv


\* A step of a request leaves every version the answer of a request that is done.
LEMMA StepKeepsRows ==
  ASSUME AllInv, NEW r \in Requests, NEW q \in RequestShape, Step(r, q)
  PROVE  RowInv'
<1>1. /\ r \notin RowsOf(artifacts)
      /\ \A a \in RowsOf(artifacts) :
           /\ requests'[a] = requests[a] /\ artifacts'[a].series = artifacts[a].series
           /\ artifacts'[a].number = artifacts[a].number
      /\ Committed(r, q) \/ RowsOf(artifacts') = RowsOf(artifacts)
      /\ RowsOf(artifacts') \subseteq RowsOf(artifacts) \union {r}
  BY StepRows
<1>2. requests[r].pc # "done" /\ \A p \in Requests : requests'[p] = IF p = r THEN q ELSE requests[p]
  BY DEF Step, Begun, Moved, Saved, Cleaned, Committed, Removed, Deleted, AllInv, ShapeInv
<1>3. \A a \in RowsOf(artifacts) :
        /\ artifacts[a].series \in Requests /\ requests[a].pc = "done" /\ requests[a].answer = a
        /\ requests[artifacts[a].series].pc = "done" /\ artifacts[a].number # 0
  BY RowFacts DEF AllInv, RowInv, RowShape
<1>4. ASSUME NEW a \in RowsOf(artifacts)
      PROVE  /\ requests'[a].pc = "done" /\ requests'[a].answer = a
             /\ requests'[artifacts'[a].series].pc = "done" /\ artifacts'[a].number # 0
  BY <1>1, <1>2, <1>3
<1>5. CASE RowsOf(artifacts') = RowsOf(artifacts)
  BY <1>4, <1>5 DEF RowInv
<1>6. CASE Committed(r, q)
  <2>1. PICK row \in RowShape :
          /\ artifacts' = [artifacts EXCEPT ![r] = row]
          /\ \/ row.series = r /\ row.number = 1
             \/ /\ requests[r].pc = "numbered" /\ row.series = SeriesOf(r)
                /\ row.number = requests[r].latest + 1
    BY <1>6 DEF Committed
  <2>2. artifacts'[r] = row /\ requests'[r] = q /\ q.pc = "done" /\ q.answer = r
    BY <1>2, <1>6, <2>1 DEF Committed, AllInv, ShapeInv
  <2>3. row.number # 0 /\ requests'[row.series].pc = "done"
    <3>1. CASE row.series = r /\ row.number = 1
      BY <2>2, <3>1
    <3>2. CASE /\ requests[r].pc = "numbered" /\ row.series = SeriesOf(r)
               /\ row.number = requests[r].latest + 1
      <4>1. requests[r].base \in RowsOf(artifacts) /\ requests[r].latest \in Nat
        BY <3>2 DEF AllInv, ShapeInv, RequestShape, FlightInv, Flight, Making
      <4>2. requests[row.series].pc = "done" /\ row.series \in Requests
        BY <1>3, <3>2, <4>1 DEF SeriesOf
      <4> QED BY <1>2, <3>2, <4>1, <4>2
    <3> QED BY <2>1, <3>1, <3>2
  <2> QED BY <1>1, <1>4, <2>2, <2>3 DEF RowInv
<1> QED BY <1>1, <1>5, <1>6

\* A step of a request keeps every file in the place its request has for it.
LEMMA StepKeepsFiles ==
  ASSUME AllInv, NEW r \in Requests, NEW q \in RequestShape, Step(r, q)
  PROVE  FileInv'
<1> DEFINE Of(x, set, f, c, booting, p) ==
      /\ x.pc \in {"new"} \union Deleting => f = "none"
      /\ x.pc \in Making => f = IF x.pc = "making" THEN "processing" ELSE "ready"
      /\ p \in set => f \in {"ready", "rejected"}
      /\ ~booting /\ f = "processing" => x.pc \notin Settled
      /\ f = "ready" => \/ p \in set \/ c = "failed" \/ x.pc \notin Settled \/ x.pc = "lost"
                        \/ x.kind = "import"
<1>1. /\ attached \subseteq RowsOf(artifacts)
      /\ \A p \in Requests : Of(requests[p], RowsOf(artifacts), files[p], cleanup[p], boot.files, p)
  BY DEF AllInv, FileInv
<1>2. /\ r \notin RowsOf(artifacts)
      /\ RowsOf(artifacts) \subseteq RowsOf(artifacts')
      /\ RowsOf(artifacts') \subseteq RowsOf(artifacts) \union {r}
      /\ Committed(r, q) \/ RowsOf(artifacts') = RowsOf(artifacts)
  BY StepRows
<1>3. boot' = boot /\ attached' \subseteq attached \union RowsOf(artifacts)
  BY DEF Step, Begun, Moved, Saved, Cleaned, Committed, Removed, Deleted
<1>4. /\ requests' = [requests EXCEPT ![r] = q]
      /\ \A p \in Requests : requests'[p] = IF p = r THEN q ELSE requests[p]
      /\ files \in [Requests -> {"none", "processing", "ready", "rejected"}]
      /\ cleanup \in [Requests -> {"none", "failed", "completed"}]
  BY DEF Step, AllInv, ShapeInv
<1>5. ASSUME NEW p \in Requests, p # r
      PROVE  Of(requests'[p], RowsOf(artifacts'), files'[p], cleanup'[p], boot.files, p)
  <2>1. requests'[p] = requests[p] /\ (p \in RowsOf(artifacts') <=> p \in RowsOf(artifacts))
    BY <1>2, <1>4, <1>5
  <2>2. CASE files'[p] = files[p] /\ (cleanup'[p] = cleanup[p] \/ cleanup'[p] = "failed")
    BY <1>1, <2>1, <2>2
  <2>3. CASE Deleted(r, q)
    <3>1. requests[r].base \in RowsOf(artifacts)
      BY <2>3 DEF Deleted, AllInv, FlightInv, Flight, Deleting
    <3>2. cleanup' = cleanup /\ files'[p] = IF p = requests[r].base THEN "rejected" ELSE files[p]
      BY <1>4, <2>3 DEF Deleted
    <3>3. p \in RowsOf(artifacts) => requests[p].pc = "done"
      BY DEF AllInv, RowInv
    <3>4. CASE p = requests[r].base
      BY <2>1, <3>1, <3>2, <3>3, <3>4 DEF Deleting, Making
    <3> QED BY <2>2, <3>2, <3>4
  <2> HIDE DEF Of
  <2>4. CASE Begun(r, q)
    BY <1>4, <1>5, <2>2, <2>4 DEF Begun
  <2>5. CASE Saved(r, q)
    BY <1>4, <1>5, <2>2, <2>5 DEF Saved
  <2>6. CASE Cleaned(r, q)
    BY <1>4, <1>5, <2>2, <2>6 DEF Cleaned
  <2>7. CASE Removed(r, q)
    BY <1>4, <1>5, <2>2, <2>7 DEF Removed
  <2> QED BY <2>2, <2>3, <2>4, <2>5, <2>6, <2>7 DEF Step, Moved, Committed
<1>6. Of(q, RowsOf(artifacts'), files'[r], cleanup'[r], boot.files, r)
  <2> DEFINE x == requests[r]
  <2>1. Of(x, RowsOf(artifacts), files[r], cleanup[r], boot.files, r)
    BY <1>1
  <2>2. CASE Begun(r, q)
    <3>1. files'[r] = "processing" /\ r \notin RowsOf(artifacts')
      BY <1>2, <1>4, <2>2 DEF Begun
    <3> QED BY <2>2, <3>1 DEF Begun, Making, Deleting, Settled
  <2>3. CASE Saved(r, q)
    <3>1. files'[r] = "ready" /\ r \notin RowsOf(artifacts')
      BY <1>2, <1>4, <2>3 DEF Saved
    <3> QED BY <2>3, <3>1 DEF Saved, Making, Deleting, Settled
  <2>4. CASE Cleaned(r, q)
    <3>1. r \notin RowsOf(artifacts')
      BY <1>2, <2>4 DEF Cleaned
    <3>2. \/ files'[r] = "none"
          \/ files[r] = "ready" /\ files'[r] = files[r] /\ cleanup'[r] = "failed"
      BY <1>4, <2>1, <2>4 DEF Cleaned, Making
    <3> QED BY <2>4, <3>1, <3>2 DEF Cleaned, Making, Deleting, Settled
  <2>5. CASE Committed(r, q)
    <3>1. files'[r] = "ready"
      BY <2>1, <2>5 DEF Committed, Making
    <3>2. r \in RowsOf(artifacts')
      <4>1. PICK row \in RowShape : artifacts' = [artifacts EXCEPT ![r] = row]
        BY <2>5 DEF Committed
      <4>2. artifacts'[r] = row /\ row # NoRow
        BY <4>1, RowFacts DEF AllInv, ShapeInv
      <4> QED BY <4>2 DEF RowsOf
    <3> QED BY <2>5, <3>1, <3>2 DEF Committed, Making, Deleting, Settled
  <2>6. CASE Removed(r, q)
    <3>1. files'[r] = "none" /\ r \notin RowsOf(artifacts')
      BY <1>2, <2>1, <2>6 DEF Removed, Deleting
    <3> QED BY <2>6, <3>1 DEF Removed, Making, Deleting, Settled
  <2>7. CASE Deleted(r, q)
    <3>1. requests[r].base \in RowsOf(artifacts)
      BY <2>7 DEF Deleted, AllInv, FlightInv, Flight, Deleting
    <3>2. files'[r] = files[r]
      BY <1>2, <1>4, <2>7, <3>1 DEF Deleted
    <3>3. files'[r] = "none" /\ r \notin RowsOf(artifacts')
      BY <1>2, <2>1, <2>7, <3>2 DEF Deleted, Committed, Deleting
    <3> QED BY <2>7, <3>3 DEF Deleted, Making, Deleting, Settled
  <2>8. CASE Moved(r, q)
    <3>1. files'[r] = files[r] /\ r \notin RowsOf(artifacts')
      BY <1>2, <2>8 DEF Moved
    <3>2. CASE x.pc = "new" /\ q.pc \in {"done", "deleting"}
      BY <2>1, <3>1, <3>2 DEF Making, Deleting, Settled
    <3>3. CASE x.pc \in {"made", "read", "numbered"} /\ q.pc \in {"undo", "read", "numbered"}
      BY <2>1, <3>1, <3>3 DEF Making, Deleting, Settled
    <3>4. CASE x.pc = "made" /\ q.pc = "done" /\ q.kind = "import"
      BY <2>1, <3>1, <3>4 DEF Making, Deleting, Settled
    <3>5. CASE x.pc = "deleting" /\ q.pc = "unlinking"
      BY <2>1, <3>1, <3>5 DEF Making, Deleting, Settled
    <3> QED BY <2>8, <3>2, <3>3, <3>4, <3>5 DEF Moved
  <2> QED BY <2>2, <2>3, <2>4, <2>5, <2>6, <2>7, <2>8 DEF Step
<1>7. requests'[r] = q
  BY <1>4
<1>8. \A p \in Requests : Of(requests'[p], RowsOf(artifacts'), files'[p], cleanup'[p], boot'.files, p)
  <2> HIDE DEF Of
  <2> QED BY <1>3, <1>5, <1>6, <1>7
<1>9. attached' \subseteq RowsOf(artifacts')
  BY <1>1, <1>2, <1>3
<1> QED BY <1>8, <1>9 DEF FileInv


-----------------------------------------------------------------------------
(* A series stays one line *)

\* A series whose versions stay is a line as before, if its current version stays or goes.
LEMMA ChainUntouched ==
  ASSUME NEW art, NEW cur, NEW art2, NEW cur2, NEW s, Chain(art, cur, s),
         VersionsOf(art2, s) = VersionsOf(art, s),
         \A a \in VersionsOf(art, s) : art2[a].number = art[a].number /\ art2[a].parent = art[a].parent,
         \/ cur2[s] \notin Requests
         \/ cur2[s] = cur[s] /\ (cur[s] \in VersionsOf(art, s) /\ art[cur[s]].ready => art2[cur[s]].ready)
  PROVE  Chain(art2, cur2, s)
BY DEF Chain

\* A version that comes from the newest one and has the next number makes the line longer.
LEMMA ChainExtended ==
  ASSUME NEW art, NEW cur, NEW art2, NEW cur2, NEW s, NEW r \in Requests, NEW row,
         Chain(art, cur, s), IsFiniteSet(VersionsOf(art, s)), r \notin VersionsOf(art, s),
         VersionsOf(art2, s) = VersionsOf(art, s) \union {r},
         \A a \in VersionsOf(art, s) : art2[a].number = art[a].number /\ art2[a].parent = art[a].parent,
         art2[r] = row, row.ready, row.number = Cardinality(VersionsOf(art, s)) + 1, cur2[s] = r,
         IF row.number = 1 THEN row.parent = NoArtifact
         ELSE row.parent \in VersionsOf(art, s) /\ art[row.parent].number = row.number - 1
  PROVE  Chain(art2, cur2, s)
<1> DEFINE V == VersionsOf(art, s)
           W == VersionsOf(art2, s)
           n == Cardinality(V)
<1>1. n \in Nat /\ Cardinality(W) = n + 1
  BY FS_CardinalityType, FS_AddElement
<1>2. /\ \A a \in V : art[a].number \in 1..n
      /\ \A m \in 1..n : \E a \in V : art[a].number = m
      /\ \A a, b \in V : art[a].number = art[b].number => a = b
      /\ \A a \in V : IF art[a].number = 1 THEN art[a].parent = NoArtifact
                      ELSE art[a].parent \in V /\ art[art[a].parent].number = art[a].number - 1
  BY DEF Chain
<1>3. /\ W = V \union {r} /\ r \notin V
      /\ \A a \in V : art2[a].number = art[a].number /\ art2[a].parent = art[a].parent
      /\ art2[r] = row /\ row.ready /\ row.number = n + 1 /\ cur2[s] = r
      /\ IF row.number = 1 THEN row.parent = NoArtifact
         ELSE row.parent \in V /\ art[row.parent].number = row.number - 1
  OBVIOUS
<1> HIDE DEF V, W, n
<1>5. \A a \in W : art2[a].number \in 1..(n + 1)
  BY <1>1, <1>2, <1>3
<1>6. ASSUME NEW m \in 1..(n + 1) PROVE \E a \in W : art2[a].number = m
  <2>1. CASE m = n + 1
    BY <1>3, <2>1
  <2>2. CASE m \in 1..n
    BY <1>2, <1>3, <2>2
  <2> QED BY <1>1, <2>1, <2>2
<1>7. ASSUME NEW a \in W, NEW b \in W, art2[a].number = art2[b].number PROVE a = b
  <2>1. \A c \in V : art2[c].number # n + 1
    BY <1>1, <1>2, <1>3
  <2>2. CASE a \in V /\ b \in V
    BY <1>2, <1>3, <1>7, <2>2
  <2> QED BY <1>3, <1>7, <2>1, <2>2
<1>8. ASSUME NEW a \in W
      PROVE  IF art2[a].number = 1 THEN art2[a].parent = NoArtifact
             ELSE art2[a].parent \in W /\ art2[art2[a].parent].number = art2[a].number - 1
  <2>1. CASE a \in V
    BY <1>2, <1>3, <2>1
  <2>2. CASE a = r
    BY <1>3, <2>2
  <2> QED BY <1>3, <2>1, <2>2
<1>9. cur2[s] \in W /\ art2[cur2[s]].ready /\ art2[cur2[s]].number = n + 1
  BY <1>3
<1> QED BY <1>1, <1>5, <1>6, <1>7, <1>8, <1>9 DEF Chain, W

\* A version that no other came from is the newest, and its removal makes the line shorter.
LEMMA ChainShortened ==
  ASSUME NEW art, NEW cur, NEW art2, NEW cur2, NEW s, NEW f,
         Chain(art, cur, s), IsFiniteSet(VersionsOf(art, s)), f \in VersionsOf(art, s),
         VersionsOf(art2, s) = VersionsOf(art, s) \ {f}, NoArtifact \notin Requests,
         \A a \in VersionsOf(art, s) : art[a].parent # f,
         \A a \in VersionsOf(art2, s) : art2[a] = art[a],
         cur2[s] = IF cur[s] = f THEN NoArtifact ELSE cur[s]
  PROVE  Chain(art2, cur2, s)
<1> DEFINE V == VersionsOf(art, s)
           W == VersionsOf(art2, s)
           n == Cardinality(V)
<1>1. n \in Nat /\ Cardinality(W) = n - 1
  BY FS_CardinalityType, FS_RemoveElement
<1>2. /\ \A a \in V : art[a].number \in 1..n
      /\ \A m \in 1..n : \E a \in V : art[a].number = m
      /\ \A a, b \in V : art[a].number = art[b].number => a = b
      /\ \A a \in V : IF art[a].number = 1 THEN art[a].parent = NoArtifact
                      ELSE art[a].parent \in V /\ art[art[a].parent].number = art[a].number - 1
      /\ cur[s] \in Requests => cur[s] \in V /\ art[cur[s]].ready /\ art[cur[s]].number = n
  BY DEF Chain
<1>3. /\ W = V \ {f} /\ f \in V /\ NoArtifact \notin Requests
      /\ \A a \in V : art[a].parent # f
      /\ \A a \in W : art2[a] = art[a]
      /\ cur2[s] = IF cur[s] = f THEN NoArtifact ELSE cur[s]
  OBVIOUS
<1> HIDE DEF V, W, n
<1>4. art[f].number = n
  <2>1. SUFFICES ASSUME art[f].number # n PROVE FALSE
    OBVIOUS
  <2>2. art[f].number + 1 \in 1..n /\ art[f].number \in 1..n
    BY <1>1, <1>2, <1>3, <2>1
  <2>3. PICK a \in V : art[a].number = art[f].number + 1
    BY <1>2, <2>2
  <2>4. art[a].parent \in V /\ art[art[a].parent].number = art[f].number
    BY <1>2, <2>2, <2>3
  <2>5. art[a].parent = f
    BY <1>2, <1>3, <2>4
  <2> QED BY <1>3, <2>5
<1>5. \A a \in W : art2[a].number \in 1..(n - 1)
  <2>1. ASSUME NEW a \in W PROVE art2[a].number \in 1..n /\ art2[a].number # n
    BY <1>2, <1>3, <1>4
  <2> QED BY <1>1, <2>1
<1>6. ASSUME NEW m \in 1..(n - 1) PROVE \E a \in W : art2[a].number = m
  <2>1. m \in 1..n /\ m # n
    BY <1>1
  <2>2. PICK a \in V : art[a].number = m
    BY <1>2, <2>1
  <2>3. a \in W
    BY <1>3, <1>4, <2>1, <2>2
  <2> QED BY <1>3, <2>2, <2>3
<1>7. \A a, b \in W : art2[a].number = art2[b].number => a = b
  BY <1>2, <1>3
<1>8. ASSUME NEW a \in W
      PROVE  IF art2[a].number = 1 THEN art2[a].parent = NoArtifact
             ELSE art2[a].parent \in W /\ art2[art2[a].parent].number = art2[a].number - 1
  BY <1>2, <1>3
<1>9. cur2[s] \notin Requests
  <2>1. cur[s] \in Requests => cur[s] = f
    BY <1>2, <1>3, <1>4
  <2> QED BY <1>3, <2>1
<1> QED BY <1>1, <1>5, <1>6, <1>7, <1>8, <1>9 DEF Chain, W


\* The versions of a series are finitely many.
LEMMA FiniteSeries ==
  \A art, s : IsFiniteSet(VersionsOf(art, s))
BY ArtRequests, FS_Subset DEF VersionsOf, RowsOf

\* A step of a request keeps every series one line.
LEMMA StepKeepsChain ==
  ASSUME AllInv, NEW r \in Requests, NEW q \in RequestShape, Step(r, q)
  PROVE  ChainInv'
<1>1. /\ r \notin RowsOf(artifacts)
      /\ \A a \in RowsOf(artifacts) :
           /\ a \in RowsOf(artifacts')
           /\ artifacts'[a].series = artifacts[a].series /\ artifacts'[a].number = artifacts[a].number
           /\ artifacts'[a].parent = artifacts[a].parent
      /\ Committed(r, q) \/ RowsOf(artifacts') = RowsOf(artifacts)
      /\ RowsOf(artifacts') \subseteq RowsOf(artifacts) \union {r}
  BY StepRows
<1> SUFFICES ASSUME NEW s \in Requests PROVE Chain(artifacts', current', s)
  BY DEF ChainInv
<1>2. Chain(artifacts, current, s)
  BY DEF AllInv, ChainInv
<1>3. /\ r \notin VersionsOf(artifacts, s)
      /\ \A a \in VersionsOf(artifacts, s) :
           artifacts'[a].number = artifacts[a].number /\ artifacts'[a].parent = artifacts[a].parent
  BY <1>1 DEF VersionsOf
<1>4. CASE artifacts' = artifacts /\ current' = current
  BY <1>2, <1>4
<1>5. CASE Deleted(r, q)
  <2> DEFINE b == requests[r].base
  <2>1. b \in RowsOf(artifacts)
    BY <1>5 DEF Deleted, AllInv, FlightInv, Flight, Deleting
  <2>2. RowsOf(artifacts') = RowsOf(artifacts)
    BY <1>1, <1>5 DEF Deleted, Committed
  <2>3. VersionsOf(artifacts', s) = VersionsOf(artifacts, s)
    BY <1>1, <2>2 DEF VersionsOf
  <2>4. /\ \A a \in Requests : a # b => artifacts'[a] = artifacts[a]
        /\ current'[s] = IF current[s] = b THEN NoArtifact ELSE current[s]
    BY <1>5 DEF Deleted, Unset, AllInv, ShapeInv
  <2>5. \/ current'[s] \notin Requests
        \/ /\ current'[s] = current[s]
           /\ current[s] \in VersionsOf(artifacts, s) /\ artifacts[current[s]].ready => artifacts'[current[s]].ready
    <3>1. CASE current[s] = b
      BY <2>4, <3>1, ArtRequests
    <3>2. CASE current[s] # b
      BY <2>4, <3>2 DEF VersionsOf, RowsOf
    <3> QED BY <3>1, <3>2
  <2> QED BY <1>2, <1>3, <2>3, <2>5, ChainUntouched
<1>6. CASE Committed(r, q)
  <2>1. PICK row \in RowShape :
          /\ artifacts' = [artifacts EXCEPT ![r] = row] /\ current' = [current EXCEPT ![row.series] = r]
          /\ row.ready
          /\ \/ row.series = r /\ row.number = 1 /\ row.parent = NoArtifact
             \/ /\ requests[r].pc = "numbered" /\ row.series = SeriesOf(r)
                /\ row.number = requests[r].latest + 1 /\ row.parent = current[row.series]
                /\ current[row.series] \in Requests
                /\ \A a \in VersionsOf(artifacts, row.series) : artifacts[a].number # row.number
    BY <1>6 DEF Committed
  <2>2. /\ row.series \in Requests /\ row # NoRow
        /\ \A a \in Requests : artifacts'[a] = IF a = r THEN row ELSE artifacts[a]
        /\ \A z \in Requests : current'[z] = IF z = row.series THEN r ELSE current[z]
    BY <2>1, RowFacts DEF AllInv, ShapeInv, RowShape
  <2>3. CASE s # row.series
    <3>1. VersionsOf(artifacts', s) = VersionsOf(artifacts, s)
      BY <1>1, <2>2, <2>3 DEF VersionsOf
    <3>2. current'[s] = current[s]
      BY <2>2, <2>3
    <3>3. current[s] \in VersionsOf(artifacts, s) => artifacts'[current[s]] = artifacts[current[s]]
      BY <1>1, <2>2 DEF VersionsOf, RowsOf
    <3> QED BY <1>2, <1>3, <3>1, <3>2, <3>3, ChainUntouched
  <2>4. CASE s = row.series
    <3> DEFINE V == VersionsOf(artifacts, s)
               n == Cardinality(V)
    <3>1. IsFiniteSet(V) /\ n \in Nat
      BY FiniteSeries, FS_CardinalityType
    <3>2. VersionsOf(artifacts', s) = V \union {r}
      <4>1. r \in RowsOf(artifacts') /\ artifacts'[r].series = s
        BY <2>2, <2>4 DEF RowsOf
      <4>2. ASSUME NEW a \in RowsOf(artifacts'), a # r
            PROVE  a \in RowsOf(artifacts) /\ artifacts'[a].series = artifacts[a].series
        BY <1>1, <4>2
      <4>3. \A a \in VersionsOf(artifacts, s) : a \in VersionsOf(artifacts', s)
        BY <1>1 DEF VersionsOf
      <4>4. \A a \in VersionsOf(artifacts', s) : a = r \/ a \in VersionsOf(artifacts, s)
        BY <4>2 DEF VersionsOf
      <4>5. r \in VersionsOf(artifacts', s)
        BY <4>1 DEF VersionsOf
      <4> QED BY <4>3, <4>4, <4>5
    <3>3. artifacts'[r] = row /\ current'[s] = r
      BY <2>2, <2>4
    <3>4. ASSUME row.number = n + 1,
                 IF row.number = 1 THEN row.parent = NoArtifact
                 ELSE row.parent \in V /\ artifacts[row.parent].number = row.number - 1
          PROVE  Chain(artifacts', current', s)
      <4>1. /\ Chain(artifacts, current, s) /\ IsFiniteSet(VersionsOf(artifacts, s))
            /\ r \notin VersionsOf(artifacts, s) /\ VersionsOf(artifacts', s) = VersionsOf(artifacts, s) \union {r}
            /\ \A a \in VersionsOf(artifacts, s) :
                 artifacts'[a].number = artifacts[a].number /\ artifacts'[a].parent = artifacts[a].parent
            /\ artifacts'[r] = row /\ row.ready /\ row.number = Cardinality(VersionsOf(artifacts, s)) + 1
            /\ current'[s] = r
        BY <1>2, <1>3, <2>1, <3>1, <3>2, <3>3, <3>4
      <4>2. IF row.number = 1 THEN row.parent = NoArtifact
            ELSE row.parent \in VersionsOf(artifacts, s) /\ artifacts[row.parent].number = row.number - 1
        BY <3>4
      <4> QED BY <4>1, <4>2, ChainExtended, Zenon
    <3>5. CASE row.series = r /\ row.number = 1 /\ row.parent = NoArtifact
      <4>1. requests[r].pc # "done"
        BY <1>6 DEF Committed
      <4>2. V = {}
        BY <2>4, <3>5, <4>1 DEF AllInv, RowInv, VersionsOf
      <4>3. n = 0
        BY <4>2, FS_EmptySet
      <4> HIDE DEF n
      <4>4. row.number = n + 1
        BY <3>5, <4>3
      <4> QED BY <3>5, <3>4, <4>4
    <3>6. CASE /\ requests[r].pc = "numbered" /\ row.series = SeriesOf(r)
               /\ row.number = requests[r].latest + 1 /\ row.parent = current[row.series]
               /\ current[row.series] \in Requests
               /\ \A a \in VersionsOf(artifacts, row.series) : artifacts[a].number # row.number
      <4> DEFINE l == requests[r].latest
                 c == current[s]
      <4>1. l \in Nat /\ (l = 0 \/ \E a \in V : artifacts[a].number = l)
        BY <2>4, <3>6 DEF AllInv, ShapeInv, RequestShape, FlightInv, Flight, SeriesOf
      <4>2. c \in V /\ artifacts[c].number = n
        BY <1>2, <2>4, <3>6 DEF Chain
      <4>3. /\ \A a \in V : artifacts[a].number \in 1..n
            /\ \A m \in 1..n : \E a \in V : artifacts[a].number = m
        BY <1>2 DEF Chain
      <4>4. /\ row.number = l + 1 /\ row.parent = c
            /\ \A a \in V : artifacts[a].number # l + 1
        BY <2>4, <3>6
      <4> HIDE DEF V, n, l, c
      <4>5. l \in 0..n
        BY <3>1, <4>1, <4>3
      <4>6. l = n
        <5>1. SUFFICES ASSUME l # n PROVE FALSE
          OBVIOUS
        <5>2. l + 1 \in 1..n
          BY <3>1, <4>5, <5>1
        <5> QED BY <4>3, <4>4, <5>2
      <4>7. /\ row.number = n + 1 /\ n \in 1..n /\ row.number # 1
            /\ row.parent \in V /\ artifacts[row.parent].number = row.number - 1
        BY <3>1, <4>2, <4>3, <4>4, <4>6
      <4> QED BY <3>4, <4>7
    <3> QED BY <2>1, <3>5, <3>6
  <2> QED BY <2>3, <2>4
<1> QED BY <1>4, <1>5, <1>6 DEF Step, Begun, Moved, Saved, Cleaned, Removed


-----------------------------------------------------------------------------
(* The server stops and starts *)

\* With work of the start left, nothing is in progress.
LEMMA NothingInProgress ==
  ASSUME AllInv, boot # Up
  PROVE  \A r \in Requests : requests[r].pc \in Settled
BY DEF AllInv, FlightInv, Flight

\* The start finds every request settled and its tables as they were.
LEMMA RestartKeepsAll ==
  ASSUME AllInv, Restart
  PROVE  AllInv'
<1>1. /\ boot' = [files |-> TRUE, tasks |-> TRUE, retry |-> {}]
      /\ UNCHANGED <<artifacts, current, files, attached, cleanup>>
  BY DEF Restart
<1>2. ASSUME NEW r \in Requests
      PROVE  /\ requests'[r] \in RequestShape
             /\ IF requests[r].pc \in Settled THEN requests'[r] = requests[r] ELSE requests'[r].pc = "lost"
             /\ requests'[r].kind = requests[r].kind
  <2> DEFINE x == requests[r]
             q == [x EXCEPT !.pc = "lost"]
  <2>1. x \in RequestShape
    BY DEF AllInv, ShapeInv
  <2>2. q \in RequestShape /\ q.pc = "lost" /\ q.kind = x.kind
    BY <2>1 DEF RequestShape, Settled
  <2>3. requests'[r] = IF InProgress(r) THEN q ELSE x
    BY DEF Restart
  <2> HIDE DEF q
  <2> QED BY <2>1, <2>2, <2>3 DEF InProgress, Settled
<1>3. ShapeInv'
  <2>1. requests' \in [Requests -> RequestShape]
    <3>1. requests' = [r \in Requests |-> requests'[r]]
      BY DEF Restart
    <3> QED BY <1>2, <3>1
  <2> QED BY <1>1, <2>1 DEF AllInv, ShapeInv
<1>4. FlightInv'
  <2>1. \A r \in Requests : requests'[r].pc \in Settled
    BY <1>2 DEF Settled
  <2> QED BY <2>1 DEF FlightInv, Flight, Settled, Making, Deleting
<1>5. RowInv'
  <2>1. \A a \in RowsOf(artifacts) : a \in Requests /\ artifacts[a].series \in Requests
    BY RowFacts DEF AllInv, RowShape, RowsOf
  <2> QED BY <1>1, <1>2, <2>1 DEF AllInv, RowInv, Settled
<1>6. FileInv'
  <2>1. attached' \subseteq RowsOf(artifacts')
    BY <1>1 DEF AllInv, FileInv
  <2>2. ASSUME NEW r \in Requests, requests[r].pc \in Settled
        PROVE  /\ requests'[r].pc \in {"new"} \union Deleting => files'[r] = "none"
               /\ requests'[r].pc \in Making => FALSE
               /\ r \in RowsOf(artifacts') => files'[r] \in {"ready", "rejected"}
               /\ files'[r] = "ready" => \/ r \in RowsOf(artifacts') \/ cleanup'[r] = "failed"
                                         \/ requests'[r].pc = "lost" \/ requests'[r].kind = "import"
    BY <1>1, <1>2, <2>2 DEF AllInv, FileInv, Settled, Making, Deleting
  <2>3. ASSUME NEW r \in Requests, requests[r].pc \notin Settled
        PROVE  /\ requests'[r].pc = "lost"
               /\ r \in RowsOf(artifacts') => files'[r] \in {"ready", "rejected"}
    BY <1>1, <1>2, <2>3 DEF AllInv, FileInv
  <2> QED BY <1>1, <2>1, <2>2, <2>3 DEF FileInv, Settled, Making, Deleting
<1>7. ChainInv'
  BY <1>1 DEF AllInv, ChainInv
<1> QED BY <1>3, <1>4, <1>5, <1>6, <1>7 DEF AllInv

\* The start takes back the files that were being processed.
LEMMA RecoverKeepsAll ==
  ASSUME AllInv, RecoverFiles
  PROVE  AllInv'
<1>1. PICK kept \in SUBSET Processing :
        /\ boot.files /\ boot' = [boot EXCEPT !.files = FALSE]
        /\ files' = [f \in Requests |-> IF f \in Processing THEN "none" ELSE files[f]]
        /\ cleanup' = [f \in Requests |-> IF f \in kept THEN "failed" ELSE cleanup[f]]
        /\ UNCHANGED <<requests, artifacts, current, attached, restarted>>
  BY DEF RecoverFiles
<1>2. \A r \in Requests : requests[r].pc \in Settled
  <2>1. boot # Up
    BY <1>1 DEF Up
  <2> QED BY <2>1, NothingInProgress
<1>3. ShapeInv'
  BY <1>1 DEF AllInv, ShapeInv
<1>4. FlightInv'
  BY <1>1, <1>2 DEF FlightInv, Flight, Settled, Making, Deleting
<1>5. FileInv'
  <2>1. attached' \subseteq RowsOf(artifacts')
    BY <1>1 DEF AllInv, FileInv
  <2>2. \A r \in Requests :
          /\ files'[r] = IF files[r] = "processing" THEN "none" ELSE files[r]
          /\ files'[r] = "ready" => cleanup'[r] = cleanup[r]
    BY <1>1 DEF Processing
  <2> QED BY <1>1, <1>2, <2>1, <2>2 DEF AllInv, FileInv, Settled, Making, Deleting
<1>6. RowInv' /\ ChainInv'
  BY <1>1 DEF AllInv, RowInv, ChainInv
<1> QED BY <1>3, <1>4, <1>5, <1>6 DEF AllInv

\* The start reads the tasks that failed.
LEMMA ReadTasksKeepsAll ==
  ASSUME AllInv, ReadTasks
  PROVE  AllInv'
<1>1. /\ boot.tasks /\ UNCHANGED <<requests, artifacts, current, files, objects, attached, cleanup, restarted>>
      /\ boot' = [boot EXCEPT !.tasks = FALSE, !.retry = {f \in Requests : cleanup[f] = "failed"}]
  BY DEF ReadTasks
<1>2. \A r \in Requests : requests[r].pc \in Settled
  <2>1. boot # Up
    BY <1>1 DEF Up
  <2> QED BY <2>1, NothingInProgress
<1>3. boot' \in [files : BOOLEAN, tasks : BOOLEAN, retry : SUBSET Requests] /\ boot'.files = boot.files
  BY <1>1 DEF AllInv, ShapeInv
<1>4. ShapeInv'
  BY <1>1, <1>3 DEF AllInv, ShapeInv
<1>5. FlightInv'
  BY <1>1, <1>2 DEF FlightInv, Flight, Settled, Making, Deleting
<1>6. FileInv' /\ RowInv' /\ ChainInv'
  BY <1>1, <1>3 DEF AllInv, FileInv, RowInv, ChainInv
<1> QED BY <1>4, <1>5, <1>6 DEF AllInv

\* A clean-up that is tried again takes away the newest version of a series, or none.
LEMMA RetryKeepsAll ==
  ASSUME AllInv, NEW f \in Requests, RetryTask(f)
  PROVE  AllInv'
<1>1. /\ f \in boot.retry /\ boot' = [boot EXCEPT !.retry = @ \ {f}]
      /\ UNCHANGED <<requests, attached, restarted>>
  BY DEF RetryTask
<1>2. \A r \in Requests : requests[r].pc \in Settled
  <2>1. boot # Up
    BY <1>1 DEF Up
  <2> QED BY <2>1, NothingInProgress
<1>3. boot' \in [files : BOOLEAN, tasks : BOOLEAN, retry : SUBSET Requests] /\ boot'.files = boot.files
  BY <1>1 DEF AllInv, ShapeInv
<1>4. FlightInv'
  BY <1>1, <1>2 DEF FlightInv, Flight, Settled, Making, Deleting
<1>5. CASE UNCHANGED <<artifacts, current, files, cleanup>>
  <2>1. ShapeInv'
    BY <1>1, <1>3, <1>5 DEF AllInv, ShapeInv
  <2>2. FileInv' /\ RowInv' /\ ChainInv'
    BY <1>1, <1>3, <1>5 DEF AllInv, FileInv, RowInv, ChainInv
  <2> QED BY <1>4, <2>1, <2>2 DEF AllInv
<1>6. CASE /\ files[f] = "none" \/ f \in attached
           /\ cleanup' = [cleanup EXCEPT ![f] = "completed"] /\ UNCHANGED <<artifacts, current, files>>
  <2>1. ShapeInv'
    BY <1>1, <1>3, <1>6 DEF AllInv, ShapeInv
  <2>2. RowInv' /\ ChainInv'
    BY <1>1, <1>6 DEF AllInv, RowInv, ChainInv
  <2>3. files[f] = "ready" => f \in RowsOf(artifacts)
    BY <1>6 DEF AllInv, FileInv
  <2>4. \A r \in Requests : cleanup'[r] = IF r = f THEN "completed" ELSE cleanup[r]
    BY <1>6 DEF AllInv, ShapeInv
  <2>5. FileInv'
    BY <1>1, <1>3, <1>6, <2>3, <2>4 DEF AllInv, FileInv
  <2> QED BY <1>4, <2>1, <2>2, <2>5 DEF AllInv
<1>7. CASE /\ f \notin attached /\ ~Referred(f) /\ files' = [files EXCEPT ![f] = "none"] /\ current' = Unset(f)
           /\ artifacts' = [artifacts EXCEPT ![f] = NoRow] /\ cleanup' = [cleanup EXCEPT ![f] = "completed"]
  <2>1. ShapeInv'
    BY <1>1, <1>3, <1>7 DEF AllInv, ShapeInv, Unset, Names
  <2>2. /\ \A a \in Requests : artifacts'[a] = IF a = f THEN NoRow ELSE artifacts[a]
        /\ \A s \in Requests : current'[s] = IF current[s] = f THEN NoArtifact ELSE current[s]
        /\ \A r \in Requests : files'[r] = IF r = f THEN "none" ELSE files[r]
        /\ \A r \in Requests : cleanup'[r] = IF r = f THEN "completed" ELSE cleanup[r]
    BY <1>7 DEF AllInv, ShapeInv, Unset
  <2>3. RowsOf(artifacts') = RowsOf(artifacts) \ {f}
    BY <2>2 DEF RowsOf
  <2>4. RowInv'
    BY <1>1, <2>2, <2>3 DEF AllInv, RowInv, RowsOf
  <2>5. FileInv'
    <3>1. attached' \subseteq RowsOf(artifacts')
      BY <1>1, <1>7, <2>3 DEF AllInv, FileInv
    <3>2. ASSUME NEW r \in Requests, r # f
          PROVE  files'[r] = files[r] /\ cleanup'[r] = cleanup[r] /\ (r \in RowsOf(artifacts') <=> r \in RowsOf(artifacts))
      BY <2>2, <2>3, <3>2
    <3>3. files'[f] = "none" /\ f \notin RowsOf(artifacts') /\ requests[f].pc \notin Making
      BY <1>2, <2>2, <2>3 DEF Settled, Making
    <3> QED BY <1>1, <1>3, <3>1, <3>2, <3>3 DEF AllInv, FileInv
  <2>6. ASSUME NEW s \in Requests PROVE Chain(artifacts', current', s)
    <3>1. Chain(artifacts, current, s) /\ IsFiniteSet(VersionsOf(artifacts, s)) /\ NoArtifact \notin Requests
      BY FiniteSeries, ArtRequests DEF AllInv, ChainInv
    <3>2. VersionsOf(artifacts', s) = VersionsOf(artifacts, s) \ {f}
      BY <2>2, <2>3 DEF VersionsOf, RowsOf
    <3>3. \A a \in VersionsOf(artifacts, s) : a # f => artifacts'[a] = artifacts[a]
      BY <2>2 DEF VersionsOf, RowsOf
    <3>4. CASE f \in VersionsOf(artifacts, s)
      <4>1. \A a \in VersionsOf(artifacts, s) : artifacts[a].parent # f
        BY <1>7 DEF Referred, Rows, VersionsOf, RowsOf
      <4>2. /\ \A a \in VersionsOf(artifacts', s) : artifacts'[a] = artifacts[a]
            /\ current'[s] = IF current[s] = f THEN NoArtifact ELSE current[s]
        BY <2>2, <3>2, <3>3
      <4> QED BY <3>1, <3>2, <3>4, <4>1, <4>2, ChainShortened, Zenon
    <3>5. CASE f \notin VersionsOf(artifacts, s)
      <4>1. /\ VersionsOf(artifacts', s) = VersionsOf(artifacts, s)
            /\ \A a \in VersionsOf(artifacts, s) : artifacts'[a] = artifacts[a]
        BY <3>2, <3>3, <3>5
      <4>2. current'[s] = IF current[s] = f THEN NoArtifact ELSE current[s]
        BY <2>2
      <4> QED BY <3>1, <4>1, <4>2, ChainUntouched
    <3> QED BY <3>4, <3>5
  <2> QED BY <1>4, <2>1, <2>4, <2>5, <2>6 DEF AllInv, ChainInv
<1> QED BY <1>5, <1>6, <1>7 DEF RetryTask

-----------------------------------------------------------------------------
(* Every behaviour *)

\* Nothing has begun.
LEMMA InitMeetsAll ==
  ASSUME ArtInit
  PROVE  AllInv
<1>1. Fresh \in RequestShape /\ Fresh.pc = "new"
  BY DEF Fresh, RequestShape, Settled, Names
<1>2. RowsOf(artifacts) = {} /\ \A s : VersionsOf(artifacts, s) = {}
  BY DEF ArtInit, RowsOf, VersionsOf
<1>3. ShapeInv
  BY <1>1 DEF ArtInit, ShapeInv, Names, Up
<1>4. FlightInv
  BY <1>1 DEF ArtInit, FlightInv, Flight, Settled, Making, Deleting
<1>5. RowInv /\ FileInv
  BY <1>1, <1>2 DEF ArtInit, RowInv, FileInv, Settled, Making, Deleting
<1>6. ChainInv
  <2>1. \A s \in Requests : current[s] \notin Requests
    BY ArtRequests DEF ArtInit
  <2>2. Cardinality({}) = 0
    BY FS_EmptySet
  <2> QED BY <1>2, <2>1, <2>2 DEF ChainInv, Chain
<1> QED BY <1>3, <1>4, <1>5, <1>6 DEF AllInv

\* Every step keeps the invariant.
LEMMA NextKeepsAll ==
  ASSUME AllInv, [ArtNext]_artVars
  PROVE  AllInv'
<1>1. CASE UNCHANGED artVars
  BY <1>1 DEF artVars, AllInv, ShapeInv, FlightInv, RowInv, FileInv, ChainInv
<1>2. CASE Restart
  BY <1>2, RestartKeepsAll
<1>3. CASE RecoverFiles
  BY <1>3, RecoverKeepsAll
<1>4. CASE ReadTasks
  BY <1>4, ReadTasksKeepsAll
<1>5. ASSUME NEW r \in Requests, RetryTask(r) PROVE AllInv'
  BY <1>5, RetryKeepsAll
<1>6. ASSUME NEW r \in Requests,
             \/ BeginCreate(r) \/ BeginRestore(r) \/ SaveFile(r) \/ SaveFails(r) \/ Abort(r) \/ CommitFirst(r)
             \/ ReadSeries(r) \/ ReadLatest(r) \/ CommitVersion(r) \/ Undo(r)
             \/ BeginDelete(r) \/ DeleteObjects(r) \/ CommitDelete(r)
      PROVE  AllInv'
  <2>1. PICK q \in RequestShape : Step(r, q)
    BY <1>6, StepOfRequest DEF AllInv
  <2> QED BY <2>1, StepKeepsShape, StepKeepsFlight, StepKeepsRows, StepKeepsFiles, StepKeepsChain DEF AllInv
<1> QED BY <1>1, <1>2, <1>3, <1>4, <1>5, <1>6 DEF ArtNext

\* However revisions, restores, deletes, clean-ups and a restart interleave, the versions that remain
\* of a series (artifacts.service.ts create, restore, delete; sessions.service.ts clean-up) have the
\* numbers 1 to n, each came from the one before it, and the current one is ready and the newest.
THEOREM VersionsAreOneLine ==
  ArtSpec => []VersionsFormAChain
<1>1. AllInv => VersionsFormAChain
  <2> SUFFICES ASSUME AllInv PROVE VersionsFormAChain
    OBVIOUS
  <2>1. ASSUME NEW s \in Requests
        PROVE  /\ Versions(s) = VersionsOf(artifacts, s) /\ Rows = RowsOf(artifacts)
               /\ Chain(artifacts, current, s)
               /\ {artifacts[a].number : a \in VersionsOf(artifacts, s)} = 1..Cardinality(VersionsOf(artifacts, s))
    <3>1. Chain(artifacts, current, s)
      BY DEF AllInv, ChainInv
    <3>2. {artifacts[a].number : a \in VersionsOf(artifacts, s)} = 1..Cardinality(VersionsOf(artifacts, s))
      BY <3>1 DEF Chain
    <3> QED BY <3>1, <3>2 DEF Versions, Rows, VersionsOf, RowsOf
  <2>2. ASSUME NEW s \in Requests
        PROVE  /\ {artifacts[a].number : a \in Versions(s)} = 1..Cardinality(Versions(s))
               /\ \A a \in Versions(s) :
                    IF artifacts[a].number = 1 THEN artifacts[a].parent = NoArtifact
                    ELSE /\ artifacts[a].parent \in Versions(s)
                         /\ artifacts[artifacts[a].parent].number = artifacts[a].number - 1
    BY <2>1 DEF Chain
  <2>3. ASSUME NEW s \in Requests, current[s] \in Requests
        PROVE  /\ Ready(current[s]) /\ current[s] \in Versions(s)
               /\ artifacts[current[s]].number = Cardinality(Versions(s))
    <3>1. current[s] \in VersionsOf(artifacts, s) /\ artifacts[current[s]].ready
          /\ artifacts[current[s]].number = Cardinality(VersionsOf(artifacts, s))
      BY <2>1, <2>3 DEF Chain
    <3>2. current[s] \in Rows
      BY <2>1, <3>1 DEF VersionsOf
    <3> QED BY <2>1, <3>1, <3>2 DEF Ready
  <2> QED BY <2>2, <2>3 DEF VersionsFormAChain
<1> QED BY <1>1, InitMeetsAll, NextKeepsAll, PTL DEF ArtSpec

\* A ready file belongs to a version, a clean-up task or a request in progress, but for an import or
\* a stop (files.service.ts), no version loses the row of its file, and a request that was refused or
\* failed has left no version.
THEOREM EveryFileIsAccountedFor ==
  ArtSpec => []FilesAccountedFor
<1>1. AllInv => FilesAccountedFor
  <2> SUFFICES ASSUME AllInv PROVE FilesAccountedFor
    OBVIOUS
  <2>1. Rows = RowsOf(artifacts) /\ \A r \in Requests : InProgress(r) <=> requests[r].pc \notin Settled
    BY DEF Rows, RowsOf, InProgress, Settled
  <2>2. \A f \in Requests : files[f] = "ready" => Owned(f) \/ requests[f].pc = "lost" \/ requests[f].kind = "import"
    BY <2>1 DEF AllInv, FileInv, Owned
  <2>3. boot = Up => \A f \in Requests : files[f] = "processing" => InProgress(f)
    BY <2>1 DEF AllInv, FileInv, Up
  <2>4. \A a \in Rows : files[a] # "none"
    BY <2>1 DEF AllInv, FileInv, RowsOf
  <2>5. \A r \in Requests : requests[r].pc = "done" /\ requests[r].answer = NoArtifact => r \notin Rows
    BY <2>1, ArtRequests DEF AllInv, RowInv
  <2> QED BY <2>2, <2>3, <2>4, <2>5 DEF FilesAccountedFor
<1> QED BY <1>1, InitMeetsAll, NextKeepsAll, PTL DEF ArtSpec

\* Objects, messages and the restart, which no other part of the invariant needs.
RestInv == objects \subseteq Requests /\ attached \subseteq Requests /\ restarted \in BOOLEAN

\* A step stores the object of its request, or attaches the base a request was made with.
LEMMA RestKeeps ==
  ASSUME RestInv, [ArtNext]_artVars
  PROVE  RestInv'
<1>1. CASE UNCHANGED artVars
  BY <1>1 DEF artVars, RestInv
<1>2. ASSUME NEW r \in Requests, BeginCreate(r) \/ BeginRestore(r)
      PROVE  RestInv'
  <2>1. objects' = objects /\ restarted' = restarted
    BY <1>2 DEF BeginCreate, BeginRestore
  <2>2. attached' \subseteq Requests
    <3>0. ASSUME NEW q, NEW can, Begins(r, q, can), q.base \in Names
          PROVE  attached' \subseteq Requests
      <4>1. attached' \subseteq attached \cup ({q.base} \ {NoArtifact})
        BY <3>0 DEF Begins
      <4> QED BY <3>0, <4>1 DEF RestInv, Names
    <3>1. CASE BeginCreate(r)
      BY <3>0, <3>1 DEF BeginCreate, Names, Fresh
    <3>2. CASE BeginRestore(r)
      BY <3>0, <3>2 DEF BeginRestore, Names, Fresh, Rows
    <3> QED BY <1>2, <3>1, <3>2
  <2> QED BY <2>1, <2>2 DEF RestInv
<1>3. ASSUME NEW r \in Requests,
             \/ SaveFile(r) \/ SaveFails(r) \/ Abort(r) \/ CommitFirst(r)
             \/ ReadSeries(r) \/ ReadLatest(r) \/ CommitVersion(r) \/ Undo(r)
             \/ BeginDelete(r) \/ DeleteObjects(r) \/ CommitDelete(r) \/ RetryTask(r)
      PROVE  RestInv'
  BY <1>3 DEF SaveFile, SaveFails, Abort, CommitFirst, ReadSeries, ReadLatest, CommitVersion, Undo,
              BeginDelete, DeleteObjects, CommitDelete, RetryTask, store, RestInv
<1>4. CASE Restart \/ RecoverFiles \/ ReadTasks
  BY <1>4 DEF Restart, RecoverFiles, ReadTasks, RestInv, Processing
<1> QED BY <1>1, <1>2, <1>3, <1>4 DEF ArtNext

\* Requests, versions, files, objects and tasks keep their types, for any requests and keys: no
\* version has the number 0, though a revision reads the newest number before it inserts.
THEOREM ArtifactTypes ==
  ArtSpec => []ArtTypeOK
<1>1. ArtInit => RestInv
  BY DEF ArtInit, RestInv
<1>2. AllInv /\ RestInv => ArtTypeOK
  <2> SUFFICES ASSUME AllInv, RestInv PROVE ArtTypeOK
    OBVIOUS
  <2>1. \A r \in Requests :
          /\ requests[r].pc \in Making \union Deleting \union Settled
          /\ current[r] \in Names
          /\ files[r] \in {"none", "processing", "ready", "rejected"}
          /\ cleanup[r] \in {"none", "failed", "completed"}
    BY DEF AllInv, ShapeInv, RequestShape
  <2>2. \A r \in Requests : artifacts[r] # NoRow =>
          artifacts[r].series \in Requests /\ artifacts[r].number \in Nat \ {0}
    BY RowFacts DEF AllInv, RowInv, RowsOf, RowShape
  <2>3. {boot.files, boot.tasks, restarted} \subseteq BOOLEAN /\ boot.retry \subseteq Requests
    BY DEF AllInv, ShapeInv, RestInv
  <2> QED BY <2>1, <2>2, <2>3 DEF ArtTypeOK, RestInv, Making, Deleting, Settled, Names
<1> QED BY <1>1, <1>2, InitMeetsAll, NextKeepsAll, RestKeeps, PTL DEF ArtSpec

------------------------------------------------------------------------------
(* Part 2. Uploaded files, for any number of files and retries. Files meet in the deletion of   *)
(* their session and in the start of the server only, so the inductive invariant is one of each *)
(* file: what an upload, a removal and a task imply (FlowOf), what the row says of the objects  *)
(* (ObjectsOf), that what is ready is not parsed and what is sent is ready (ReadyOf), and who   *)
(* will remove the objects (OwnerOf). A request changes one file; the others stay as they were  *)
(* (Untouched).                                                                                 *)

Parsers == Files \cup Retries
ObjectNames == {"original", "text"}
UploadPoints == {"new", "storing", "keying", "failing", "done"}
FileRow == [status : {"none", "processing", "ready", "failed", "rejected"}, retryable : BOOLEAN,
            original : BOOLEAN, text : BOOLEAN]
ParseShape == [file : Files \cup {"none"}, pc : {"idle", "reading", "parsing", "saving"}]

UploadShape ==
  /\ uploads \in [Files -> UploadPoints] /\ rows \in [Files -> FileRow]
  /\ stored \subseteq Files \X ObjectNames
  /\ parses \in [Parsers -> ParseShape]
  /\ removals \in [Files -> {"no", "objects", "row", "done"}]
  /\ sends \in [Files -> {"no", "checked", "done"}]
  /\ tasks \in [Files -> {"none", "pending", "failed", "completed"}]
  /\ closing \in {"open", "closing", "gone"}
  /\ startup \in [recover : BOOLEAN, backfill : BOOLEAN, tasks : BOOLEAN]
  /\ images \subseteq Files /\ sent \subseteq Files /\ retrying \subseteq Files

Kept(f, o) == <<f, o>> \in stored
Parses(p, f) == parses[p].file = f
ParsedAt(f, points) == \E p \in Parsers : parses[p].file = f /\ parses[p].pc \in points
Uploading(f) == uploads[f] \in {"storing", "keying", "failing"}

ParseInv ==
  /\ \A p \in Parsers : (parses[p].file = "none") = (parses[p].pc = "idle")
  /\ \A f \in Files : parses[f].file \in {"none", f}

\* What an upload, a removal and a task imply of their file.
FlowOf(f) ==
  /\ rows[f].status = "none" => rows[f] = NoUpload
  /\ uploads[f] # "done" =>
       /\ ~rows[f].original /\ ~rows[f].text /\ ~rows[f].retryable
       /\ rows[f].status \in {"none", "processing"}
       /\ sends[f] = "no" /\ f \notin sent /\ removals[f] = "no"
       /\ \A p \in Parsers : ~Parses(p, f)
  /\ uploads[f] = "new" => tasks[f] = "none" /\ rows[f].status = "none"
  /\ removals[f] # "no" \/ tasks[f] # "none" => f \in condemned
  /\ f \in retrying => tasks[f] # "none"
  /\ startup.recover => ~Uploading(f)

\* What the row of a file whose deletion was not granted says of its objects.
ObjectsOf(f) ==
  f \in condemned \/
    /\ uploads[f] = "keying" => Kept(f, "original")
    /\ rows[f].text => rows[f].original /\ Kept(f, "original") /\ Kept(f, "text")
    /\ \A p \in Parsers : Parses(p, f) =>
         /\ Exists(f) => rows[f].original
         /\ parses[p].pc # "reading" => Kept(f, "original")
         /\ parses[p].pc = "saving" => Kept(f, "text")
    /\ rows[f].status = "ready" =>
         /\ rows[f].original
         /\ f \in images => Kept(f, "original")
         /\ f \in images \/ rows[f].text \/ startup.backfill
    /\ sends[f] # "no" /\ closing # "gone" => Exists(f)

\* A file that is ready is not parsed, and one that is sent is ready.
ReadyOf(f) ==
  f \in condemned \/ f \in twice \/
    /\ \A p, q \in Parsers : Parses(p, f) /\ Parses(q, f) => p = q
    /\ rows[f].status = "ready" => ~rows[f].retryable /\ \A p \in Parsers : ~Parses(p, f)
    /\ f \in sent \/ (sends[f] = "checked" /\ Exists(f)) =>
         rows[f].status = "ready" /\ (f \in images \/ rows[f].text)

\* Nothing writes an object of the file.
Still(f) ==
  /\ uploads[f] \notin {"storing", "keying"}
  /\ \A p \in Parsers : Parses(p, f) => parses[p].pc = "reading"
Bare(f) == Still(f) /\ \A o \in ObjectNames : ~Kept(f, o)

\* Where the objects of a file are gone or its row, nothing writes them.
OwnerOf(f) ==
  f \in strays \/
    /\ removals[f] = "row" \/ tasks[f] = "completed" => Bare(f)
    /\ ~Exists(f) => Still(f)
    /\ closing = "closing" /\ Exists(f) => tasks[f] # "none"
    /\ (\E o \in ObjectNames : Kept(f, o)) => Exists(f) \/ tasks[f] \in {"pending", "failed"}

FileOf(f) == FlowOf(f) /\ ObjectsOf(f) /\ ReadyOf(f) /\ OwnerOf(f)

UploadInv == UploadShape /\ ParseInv /\ \A f \in Files : FileOf(f)

------------------------------------------------------------------------------
(* A new session, or an old file without its text. *)
\* No file has been uploaded at first.
LEMMA UploadInitInv == UploadInit => UploadInv
<1> SUFFICES ASSUME UploadInit PROVE UploadInv
  OBVIOUS
<1>1. NoUpload \in FileRow /\ NoParse \in ParseShape /\ NoParse.file = "none" /\ NoParse.pc = "idle"
  BY DEF NoUpload, FileRow, NoParse, ParseShape
<1>2. /\ parses = [p \in Parsers |-> NoParse] /\ images = {} /\ sent = {} /\ retrying = {}
      /\ condemned = {} /\ twice = {} /\ strays = {} /\ closing = "open"
      /\ removals = [f \in Files |-> "no"] /\ sends = [f \in Files |-> "no"]
      /\ tasks = [f \in Files |-> "none"]
  BY DEF UploadInit, Parsers
<1>3. ParseInv
  BY <1>1, <1>2 DEF ParseInv, Parsers
<1>4. \A f \in Files, p \in Parsers : ~Parses(p, f)
  BY <1>1, <1>2, UploadNames DEF Parses
<1>5. CASE /\ uploads = [f \in Files |-> "new"] /\ rows = [f \in Files |-> NoUpload]
           /\ stored = {} /\ startup = Running
  <2>1. UploadShape
    BY <1>1, <1>2, <1>5 DEF UploadShape, UploadPoints, Running
  <2>2. ASSUME NEW f \in Files PROVE FileOf(f)
    <3>1. /\ rows[f] = NoUpload /\ uploads[f] = "new" /\ \A o \in ObjectNames : ~Kept(f, o)
          /\ removals[f] = "no" /\ sends[f] = "no" /\ tasks[f] = "none"
      BY <1>2, <1>5 DEF Kept
    <3> QED BY <1>2, <1>4, <1>5, <3>1
            DEF FileOf, FlowOf, ObjectsOf, ReadyOf, OwnerOf, Bare, Still, NoUpload, Running, Uploading, Exists
  <2> QED BY <1>3, <2>1, <2>2 DEF UploadInv
<1>6. ASSUME NEW f \in Files,
             uploads = [g \in Files |-> IF g = f THEN "done" ELSE "new"],
             rows = [g \in Files |-> IF g = f THEN [NoUpload EXCEPT !.status = "ready", !.original = TRUE]
                                     ELSE NoUpload],
             stored \in {{}, {<<f, "original">>}}, startup = Starting
      PROVE  UploadInv
  <2> DEFINE r == [NoUpload EXCEPT !.status = "ready", !.original = TRUE]
  <2>0. r \in FileRow /\ r.status = "ready" /\ r.original /\ ~r.text /\ ~r.retryable
    BY DEF NoUpload, FileRow
  <2>1. UploadShape
    BY <1>1, <1>2, <1>6, <2>0 DEF UploadShape, UploadPoints, Starting, ObjectNames
  <2> HIDE DEF r
  <2>2. ASSUME NEW g \in Files PROVE FileOf(g)
    <3>1. /\ uploads[g] = IF g = f THEN "done" ELSE "new"
          /\ rows[g] = IF g = f THEN r ELSE NoUpload
          /\ g # f => \A o \in ObjectNames : ~Kept(g, o)
          /\ removals[g] = "no" /\ sends[g] = "no" /\ tasks[g] = "none"
      BY <1>2, <1>6 DEF Kept, r
    <3> QED BY <1>2, <1>4, <1>6, <2>0, <3>1
            DEF FileOf, FlowOf, ObjectsOf, ReadyOf, OwnerOf, Bare, Still, NoUpload, Starting, Uploading, Exists
  <2> QED BY <1>3, <2>1, <2>2 DEF UploadInv
<1> QED BY <1>5, <1>6 DEF UploadInit

------------------------------------------------------------------------------
(* Steps of one file *)

Untouched(g) ==
  /\ uploads'[g] = uploads[g] /\ rows'[g] = rows[g] /\ removals'[g] = removals[g]
  /\ sends'[g] = sends[g] /\ tasks'[g] = tasks[g]
  /\ (g \in images') = (g \in images) /\ (g \in sent') = (g \in sent)
  /\ (g \in retrying') = (g \in retrying) /\ (g \in condemned') = (g \in condemned)
  /\ (g \in twice') = (g \in twice) /\ (g \in strays') = (g \in strays)
  /\ \A o \in ObjectNames : (<<g, o>> \in stored') = (<<g, o>> \in stored)
  /\ \A p \in Parsers : (parses'[p].file = g) = (parses[p].file = g)
                        /\ (parses[p].file = g => parses'[p].pc = parses[p].pc)

\* A file that a step does not touch keeps what holds of it.
LEMMA UntouchedKeeps ==
  ASSUME NEW g \in Files, FileOf(g), Untouched(g), UNCHANGED <<closing, startup>>
  PROVE  FileOf(g)'
<1>1. FlowOf(g)'
  BY DEF FileOf, FlowOf, Untouched, Parses, Uploading
<1>2. ObjectsOf(g)'
  BY DEF FileOf, ObjectsOf, Untouched, Parses, Kept, Exists, ObjectNames
<1>3. ReadyOf(g)'
  BY DEF FileOf, ReadyOf, Untouched, Parses, Exists
<1>4. OwnerOf(g)'
  BY DEF FileOf, OwnerOf, Untouched, Parses, Kept, Exists, Bare, Still
<1> QED BY <1>1, <1>2, <1>3, <1>4 DEF FileOf

\* A step that changes one file and no parse.
LEMMA FileStepKeeps ==
  ASSUME UploadInv, NEW f \in Files, UNCHANGED <<closing, startup>>,
         UploadShape', ParseInv', FileOf(f)', \A g \in Files : g # f => Untouched(g)
  PROVE  UploadInv'
<1>1. ASSUME NEW g \in Files, g # f PROVE FileOf(g)'
  BY <1>1, UntouchedKeeps DEF UploadInv
<1> QED BY <1>1 DEF UploadInv

\* An upload begins with a row that is processing and no object.
LEMMA BeginUploadKeeps ==
  ASSUME UploadInv, NEW f \in Files, BeginUpload(f)
  PROVE  UploadInv'
<1>1. FileOf(f) /\ UploadShape /\ ParseInv
  BY DEF UploadInv
<1> DEFINE x == rows[f]
           r == [x EXCEPT !.status = "processing", !.retryable = FALSE]
<1>2. r \in FileRow /\ r.status = "processing" /\ ~r.retryable /\ r.original = rows[f].original /\ r.text = rows[f].text
  <2>1. x \in FileRow /\ x = rows[f]
    BY <1>1 DEF UploadShape
  <2> HIDE DEF x
  <2> QED BY <2>1 DEF FileRow
<1>3. uploads[f] = "new" /\ uploads' = [uploads EXCEPT ![f] = "storing"] /\ rows' = [rows EXCEPT ![f] = r]
  BY <1>1 DEF BeginUpload, UploadGoes, Sets, UploadShape, FileRow
<1> HIDE DEF r
<1>4. /\ uploads'[f] = "storing" /\ rows'[f] = r /\ startup = Running
      /\ closing = "closing" => f \in strays'
      /\ strays' \subseteq strays \cup {f} /\ strays \subseteq strays'
      /\ UNCHANGED <<stored, parses, removals, sends, sent, tasks, closing, retrying, startup, stopped,
                     condemned, twice, unwritten>>
  BY <1>1, <1>3 DEF BeginUpload, UploadShape, Serving
<1>5. UploadShape'
  BY <1>1, <1>2, <1>3, <1>4 DEF BeginUpload, UploadShape, UploadPoints
<1>6. \A g \in Files : g # f => Untouched(g)
  BY <1>1, <1>3, <1>4 DEF BeginUpload, Untouched, UploadShape
<1>7. ParseInv'
  BY <1>1, <1>4 DEF ParseInv
<1>8. FileOf(f)'
  <2>1. FlowOf(f)'
    BY <1>1, <1>2, <1>3, <1>4 DEF FileOf, FlowOf, Running, Uploading, Parses
  <2>2. ObjectsOf(f)'
    BY <1>1, <1>2, <1>3, <1>4 DEF FileOf, FlowOf, ObjectsOf, Parses, Kept, Exists
  <2>3. ReadyOf(f)'
    BY <1>1, <1>2, <1>3, <1>4 DEF FileOf, FlowOf, ReadyOf, Parses, Exists
  <2>4. OwnerOf(f)'
    BY <1>1, <1>2, <1>3, <1>4 DEF FileOf, FlowOf, OwnerOf, Parses, Kept, Exists, Bare, Still
  <2> QED BY <2>1, <2>2, <2>3, <2>4 DEF FileOf
<1> QED BY <1>4, <1>5, <1>6, <1>7, <1>8, FileStepKeeps

\* The object is there before its key is.
LEMMA StoreOriginalKeeps ==
  ASSUME UploadInv, NEW f \in Files, StoreOriginal(f)
  PROVE  UploadInv'
<1>1. FileOf(f) /\ UploadShape /\ ParseInv
  BY DEF UploadInv
<1>2. /\ uploads[f] = "storing" /\ uploads' = [uploads EXCEPT ![f] = "keying"] /\ uploads'[f] = "keying"
      /\ stored' = stored \cup {<<f, "original">>}
      /\ UNCHANGED <<images, rows, parses, removals, sends, sent, tasks, closing, retrying, startup,
                     condemned, twice, strays>>
  BY <1>1 DEF StoreOriginal, UploadGoes, UploadShape
<1>3. UploadShape'
  BY <1>1, <1>2 DEF UploadShape, UploadPoints, ObjectNames
<1>4. \A g \in Files : g # f => Untouched(g)
  BY <1>1, <1>2 DEF Untouched, UploadShape
<1>5. ParseInv'
  BY <1>1, <1>2 DEF ParseInv
<1>6. FileOf(f)'
  <2>1. FlowOf(f)'
    BY <1>1, <1>2 DEF FileOf, FlowOf, Uploading, Parses
  <2>2. ObjectsOf(f)'
    BY <1>1, <1>2 DEF FileOf, FlowOf, ObjectsOf, Parses, Kept, Exists
  <2>3. ReadyOf(f)'
    BY <1>1, <1>2 DEF FileOf, ReadyOf, Parses, Exists
  <2>4. OwnerOf(f)'
    BY <1>1, <1>2 DEF FileOf, FlowOf, OwnerOf, Parses, Kept, Exists, Bare, Still
  <2> QED BY <2>1, <2>2, <2>3, <2>4 DEF FileOf
<1> QED BY <1>2, <1>3, <1>4, <1>5, <1>6, FileStepKeeps

\* The row names the original that was stored; a text goes on to its parser.
LEMMA KeyOriginalKeeps ==
  ASSUME UploadInv, NEW f \in Files, KeyOriginal(f)
  PROVE  UploadInv'
<1>1. FileOf(f) /\ UploadShape /\ ParseInv
  BY DEF UploadInv
<1> DEFINE status == IF f \in images THEN "ready" ELSE rows[f].status
           r == [rows[f] EXCEPT !.original = TRUE, !.status = status]
<1>0. /\ status \in {"none", "processing", "ready", "failed", "rejected"}
      /\ status = IF f \in images THEN "ready" ELSE rows[f].status
  BY <1>1 DEF UploadShape, FileRow
<1>10. rows[f] \in FileRow
  BY <1>1 DEF UploadShape
<1> HIDE DEF status
<1>2. /\ r \in FileRow /\ r.status = status /\ r.original /\ r.retryable = rows[f].retryable
      /\ r.text = rows[f].text
  BY <1>0, <1>10 DEF FileRow
<1>3. /\ uploads[f] = "keying" /\ uploads' = [uploads EXCEPT ![f] = "done"] /\ uploads'[f] = "done"
      /\ rows' = [rows EXCEPT ![f] = r] /\ rows'[f] = r
      /\ IF f \in images THEN parses' = parses ELSE parses' = [parses EXCEPT ![f] = [file |-> f, pc |-> "parsing"]]
      /\ Exists(f)
      /\ UNCHANGED <<images, stored, removals, sends, sent, tasks, closing, retrying, startup,
                     condemned, twice, strays>>
  BY <1>1 DEF KeyOriginal, UploadGoes, ParseGoes, UploadShape, FileRow, status
<1> HIDE DEF r
<1>4. parses[f].file = "none" /\ rows[f].status = "processing" /\ ~rows[f].retryable /\ ~rows[f].text
  BY <1>1, <1>3 DEF FileOf, FlowOf, ParseInv, Parses, Parsers, Exists
<1>5. UploadShape'
  <2>1. parses' \in [Parsers -> ParseShape]
    BY <1>1, <1>3 DEF UploadShape, ParseShape, Parsers
  <2>2. uploads' \in [Files -> UploadPoints] /\ rows' \in [Files -> FileRow]
    BY <1>1, <1>2, <1>3 DEF UploadShape, UploadPoints
  <2> QED BY <1>1, <1>3, <2>1, <2>2 DEF UploadShape
<1>6. \A p \in Parsers : IF p = f /\ f \notin images
                         THEN parses'[p].file = f /\ parses'[p].pc = "parsing"
                         ELSE parses'[p] = parses[p]
  BY <1>1, <1>3 DEF UploadShape
<1>7. \A g \in Files : g # f => Untouched(g)
  <2> SUFFICES ASSUME NEW g \in Files, g # f PROVE Untouched(g)
    OBVIOUS
  <2>1. \A p \in Parsers : (parses'[p].file = g) = (parses[p].file = g)
                           /\ (parses[p].file = g => parses'[p].pc = parses[p].pc)
    BY <1>4, <1>6, UploadNames
  <2> QED BY <1>1, <1>3, <2>1 DEF Untouched, UploadShape
<1>8. ParseInv'
  BY <1>1, <1>6, UploadNames DEF ParseInv, Parsers
<1>9. FileOf(f)'
  <2>1. FlowOf(f)'
    BY <1>0, <1>1, <1>2, <1>3, <1>4 DEF FileOf, FlowOf, Uploading
  <2>2. \A p \in Parsers : Parses(p, f)' = (p = f /\ f \notin images)
    BY <1>1, <1>3, <1>6 DEF FileOf, FlowOf, Parses
  <2>3. ObjectsOf(f)'
    BY <1>0, <1>1, <1>2, <1>3, <1>4, <1>6, <2>2 DEF FileOf, FlowOf, ObjectsOf, Kept, Exists
  <2>4. ReadyOf(f)'
    BY <1>0, <1>1, <1>2, <1>3, <1>4, <2>2 DEF FileOf, FlowOf, ReadyOf, Exists
  <2>5. OwnerOf(f)'
    BY <1>0, <1>1, <1>2, <1>3, <1>4, <1>6, <2>2 DEF FileOf, FlowOf, OwnerOf, Kept, Exists, Bare, Still
  <2> QED BY <2>1, <2>3, <2>4, <2>5 DEF FileOf
<1> QED BY <1>3, <1>5, <1>7, <1>8, <1>9, FileStepKeeps

\* What is left of a failed upload has a row, a task or is stray.
LEMMA UploadFailsKeeps ==
  ASSUME UploadInv, NEW f \in Files, UploadFails(f)
  PROVE  UploadInv'
<1>1. FileOf(f) /\ UploadShape /\ ParseInv
  BY DEF UploadInv
<1>2. /\ uploads[f] \in {"storing", "keying"} /\ uploads' = [uploads EXCEPT ![f] = "failing"]
      /\ uploads'[f] = "failing"
      /\ stored' = stored \ Objects(f) \/ stored' = stored \cup {<<f, "original">>}
      /\ UNCHANGED <<images, rows, parses, removals, sends, sent, tasks, closing, retrying, startup,
                     condemned, twice, strays>>
  BY <1>1 DEF UploadFails, UploadGoes, UploadShape
<1>3. UploadShape'
  BY <1>1, <1>2 DEF UploadShape, UploadPoints, ObjectNames
<1>4. \A g \in Files : g # f => Untouched(g)
  BY <1>1, <1>2 DEF Untouched, UploadShape, Objects
<1>5. ParseInv'
  BY <1>1, <1>2 DEF ParseInv
<1>6. FileOf(f)'
  <2>1. FlowOf(f)'
    BY <1>1, <1>2 DEF FileOf, FlowOf, Uploading, Parses
  <2>2. ObjectsOf(f)'
    BY <1>1, <1>2 DEF FileOf, FlowOf, ObjectsOf, Parses, Kept, Exists
  <2>3. ReadyOf(f)'
    BY <1>1, <1>2 DEF FileOf, ReadyOf, Parses, Exists
  <2>4. OwnerOf(f)'
    BY <1>1, <1>2 DEF FileOf, FlowOf, OwnerOf, Parses, Kept, Exists, Bare, Still
  <2> QED BY <2>1, <2>2, <2>3, <2>4 DEF FileOf
<1> QED BY <1>2, <1>3, <1>4, <1>5, <1>6, FileStepKeeps

\* The row of an upload that failed says so, if it can be written.
LEMMA FailUploadKeeps ==
  ASSUME UploadInv, NEW f \in Files, FailUpload(f)
  PROVE  UploadInv'
<1>1. FileOf(f) /\ UploadShape /\ ParseInv
  BY DEF UploadInv
<1> DEFINE x == rows[f]
           r == [x EXCEPT !.status = "failed", !.retryable = TRUE]
<1>2. /\ r \in FileRow /\ r.status = "failed" /\ r.original = rows[f].original /\ r.text = rows[f].text
  <2>1. x \in FileRow /\ x = rows[f]
    BY <1>1 DEF UploadShape
  <2> HIDE DEF x
  <2> QED BY <2>1 DEF FileRow
<1>3. /\ uploads[f] = "failing" /\ uploads' = [uploads EXCEPT ![f] = "done"] /\ uploads'[f] = "done"
      /\ \/ Exists(f) /\ rows' = [rows EXCEPT ![f] = r] /\ rows'[f] = r
         \/ rows' = rows
      /\ UNCHANGED <<images, stored, parses, removals, sends, sent, tasks, closing, retrying, startup,
                     condemned, twice, strays>>
  BY <1>1 DEF FailUpload, UploadGoes, Sets, UploadShape, FileRow
<1> HIDE DEF r
<1>4. UploadShape'
  BY <1>1, <1>2, <1>3 DEF UploadShape, UploadPoints
<1>5. \A g \in Files : g # f => Untouched(g)
  BY <1>1, <1>3 DEF Untouched, UploadShape
<1>6. ParseInv'
  BY <1>1, <1>3 DEF ParseInv
<1>7. FileOf(f)'
  <2>1. FlowOf(f)'
    BY <1>1, <1>2, <1>3 DEF FileOf, FlowOf, Uploading, Parses
  <2>2. ObjectsOf(f)'
    BY <1>1, <1>2, <1>3 DEF FileOf, FlowOf, ObjectsOf, Parses, Kept, Exists
  <2>3. ReadyOf(f)'
    BY <1>1, <1>2, <1>3 DEF FileOf, FlowOf, ReadyOf, Parses, Exists
  <2>4. OwnerOf(f)'
    BY <1>1, <1>2, <1>3 DEF FileOf, FlowOf, OwnerOf, Parses, Kept, Exists, Bare, Still
  <2> QED BY <2>1, <2>2, <2>3, <2>4 DEF FileOf
<1> QED BY <1>3, <1>4, <1>5, <1>6, <1>7, FileStepKeeps

------------------------------------------------------------------------------
(* Steps of a parse *)

\* A parse of the file goes on or ends: its entry turns to n.
ParseTurns(p, f, n) ==
  /\ FileOf(f) /\ UploadShape /\ uploads[f] = "done" /\ Parses(p, f)
  /\ parses' \in [Parsers -> ParseShape] /\ ParseInv'
  /\ \A q \in Parsers : parses'[q] = IF q = p THEN n ELSE parses[q]
  /\ \A g \in Files : g # f =>
       \A q \in Parsers : (parses'[q].file = g) = (parses[q].file = g)
                          /\ (parses[q].file = g => parses'[q].pc = parses[q].pc)

\* A parse that goes on or ends is of one file, and the parses of others are not concerned.
LEMMA ParseFacts ==
  ASSUME UploadInv, NEW p \in Parsers, NEW f \in Files, parses[p].file = f,
         NEW n \in ParseShape, parses' = [parses EXCEPT ![p] = n],
         n.file \in {"none", f}, (n.file = "none") = (n.pc = "idle")
  PROVE  ParseTurns(p, f, n)
<1>1. UploadShape /\ ParseInv
  BY DEF UploadInv
<1>2. \A q \in Parsers : parses'[q] = IF q = p THEN n ELSE parses[q]
  BY <1>1 DEF UploadShape
<1>3. FileOf(f) /\ uploads[f] = "done" /\ Parses(p, f)
  BY DEF UploadInv, FileOf, FlowOf, Parses
<1>4. parses' \in [Parsers -> ParseShape]
  BY <1>1 DEF UploadShape
<1>5. ParseInv'
  BY <1>1, <1>2 DEF ParseInv, Parsers
<1>6. ASSUME NEW g \in Files, g # f, NEW q \in Parsers
      PROVE  (parses'[q].file = g) = (parses[q].file = g)
             /\ (parses[q].file = g => parses'[q].pc = parses[q].pc)
  BY <1>2, <1>6, UploadNames
<1> QED BY <1>1, <1>2, <1>3, <1>4, <1>5, <1>6 DEF ParseTurns

\* A parse stores the text before the row names it.
LEMMA StoreTextKeeps ==
  ASSUME UploadInv, NEW p \in Parsers, NEW f \in Files, parses[p].file = f, StoreText(p)
  PROVE  UploadInv'
<1> DEFINE n == [file |-> f, pc |-> "saving"]
<1>1. /\ parses[p].pc = "parsing" /\ n \in ParseShape /\ n.file = f /\ n.pc = "saving"
      /\ n.file \in {"none", f}
      /\ (n.file = "none") = (n.pc = "idle")
  BY UploadNames DEF StoreText, ParseShape
<1>2. /\ parses' = [parses EXCEPT ![p] = n] /\ stored' = stored \cup {<<f, "text">>}
      /\ UNCHANGED <<uploads, images, rows, removals, sends, sent, tasks, closing, retrying, startup,
                     condemned, twice, strays>>
  BY DEF StoreText, ParseGoes
<1> HIDE DEF n
<1>3. ParseTurns(p, f, n)
  BY <1>1, <1>2, ParseFacts
<1>30. /\ FileOf(f) /\ UploadShape /\ uploads[f] = "done" /\ Parses(p, f)
       /\ parses' \in [Parsers -> ParseShape] /\ ParseInv'
       /\ \A q \in Parsers : parses'[q] = IF q = p THEN n ELSE parses[q]
       /\ \A g \in Files : g # f =>
            \A q \in Parsers : (parses'[q].file = g) = (parses[q].file = g)
                               /\ (parses[q].file = g => parses'[q].pc = parses[q].pc)
  BY <1>3 DEF ParseTurns
<1>4. UploadShape'
  BY <1>1, <1>2, <1>30 DEF UploadShape, ObjectNames
<1>5. \A g \in Files : g # f => Untouched(g)
  BY <1>1, <1>2, <1>30 DEF Untouched, UploadShape
<1>6. \A q \in Parsers : Parses(q, f)' = Parses(q, f)
  BY <1>1, <1>30 DEF Parses
<1>7. FileOf(f)'
  <2>1. FlowOf(f)'
    BY <1>1, <1>2, <1>30, <1>6 DEF FileOf, FlowOf, Uploading
  <2>2. ObjectsOf(f)'
    BY <1>1, <1>2, <1>30, <1>6 DEF FileOf, ObjectsOf, Kept, Exists
  <2>3. ReadyOf(f)'
    BY <1>1, <1>2, <1>30, <1>6 DEF FileOf, ReadyOf, Exists
  <2>4. OwnerOf(f)'
    BY <1>1, <1>2, <1>30, <1>6 DEF FileOf, OwnerOf, Kept, Exists, Bare, Still
  <2> QED BY <2>1, <2>2, <2>3, <2>4 DEF FileOf
<1> QED BY <1>1, <1>2, <1>30, <1>4, <1>5, <1>7, FileStepKeeps

\* A parse ends, and its file says how.
LEMMA ParseEndsKeeps ==
  ASSUME UploadInv, NEW p \in Parsers, NEW f \in Files, parses[p].file = f,
         SaveText(p) \/ ParseFails(p)
  PROVE  UploadInv'
<1>0. NoParse \in ParseShape /\ NoParse.file = "none" /\ NoParse.pc = "idle"
  BY DEF NoParse, ParseShape
<1> PICK n \in ParseShape : n = NoParse
  BY <1>0
<1>1. n.file = "none" /\ n.pc = "idle" /\ n.file \in {"none", f} /\ (n.file = "none") = (n.pc = "idle")
  BY <1>0
<1>2. /\ parses' = [parses EXCEPT ![p] = n] /\ parses[p].pc \in {"parsing", "saving"}
      /\ UNCHANGED <<uploads, images, stored, removals, sends, sent, tasks, closing, retrying, startup,
                     condemned, twice, strays>>
  BY DEF SaveText, ParseFails, ParseEnds
<1>3. ParseTurns(p, f, n)
  BY <1>1, <1>2, ParseFacts
<1>30. /\ FileOf(f) /\ UploadShape /\ uploads[f] = "done" /\ Parses(p, f)
       /\ parses' \in [Parsers -> ParseShape] /\ ParseInv'
       /\ \A q \in Parsers : parses'[q] = IF q = p THEN n ELSE parses[q]
       /\ \A g \in Files : g # f =>
            \A q \in Parsers : (parses'[q].file = g) = (parses[q].file = g)
                               /\ (parses[q].file = g => parses'[q].pc = parses[q].pc)
  BY <1>3 DEF ParseTurns
<1>4. \/ rows' = rows /\ ParseFails(p)
      \/ \E r \in FileRow :
           /\ Exists(f) /\ rows' = [rows EXCEPT ![f] = r] /\ r.original = rows[f].original
           /\ \/ r.status = "ready" /\ ~r.retryable /\ r.text /\ parses[p].pc = "saving"
              \/ r.status \in {"failed", "rejected"} /\ r.text = rows[f].text
  <2>0. rows \in [Files -> FileRow] /\ rows[f] \in FileRow
    BY <1>30 DEF UploadShape
  <2>1. CASE SaveText(p)
    <3> DEFINE r == [rows[f] EXCEPT !.status = "ready", !.retryable = FALSE, !.text = TRUE]
    <3>1. /\ r \in FileRow /\ r.status = "ready" /\ ~r.retryable /\ r.text
          /\ r.original = rows[f].original
      BY <2>0 DEF FileRow
    <3>2. Exists(f) /\ rows' = [rows EXCEPT ![f] = r] /\ parses[p].pc = "saving"
      BY <2>1 DEF SaveText
    <3> QED BY <3>1, <3>2
  <2>2. ASSUME NEW status \in {"failed", "rejected"}, NEW retryable \in BOOLEAN,
               Exists(f), Sets(f, status, retryable)
        PROVE  \E r \in FileRow :
                 /\ Exists(f) /\ rows' = [rows EXCEPT ![f] = r] /\ r.original = rows[f].original
                 /\ r.status \in {"failed", "rejected"} /\ r.text = rows[f].text
    <3> DEFINE r == [rows[f] EXCEPT !.status = status, !.retryable = retryable]
    <3>1. /\ r \in FileRow /\ r.status = status /\ r.text = rows[f].text
          /\ r.original = rows[f].original
      BY <2>0 DEF FileRow
    <3>2. rows' = [rows EXCEPT ![f] = r]
      BY <2>0, <2>2 DEF Sets, FileRow
    <3> QED BY <2>2, <3>1, <3>2
  <2> QED BY <2>1, <2>2 DEF ParseFails
<1>5. \A q \in Parsers : Parses(q, f)' = (Parses(q, f) /\ q # p)
  BY <1>1, <1>30, UploadNames DEF Parses
<1>6. \A q \in Parsers : Parses(q, f)' => parses'[q] = parses[q]
  BY <1>30, <1>5
<1>7. CASE rows' = rows /\ ParseFails(p)
  <2>1. UploadShape'
    BY <1>2, <1>30, <1>7 DEF UploadShape
  <2>2. \A g \in Files : g # f => Untouched(g)
    BY <1>2, <1>30, <1>7 DEF Untouched
  <2>3. FileOf(f)'
    <3>1. FlowOf(f)'
      BY <1>2, <1>30, <1>5, <1>7 DEF FileOf, FlowOf, Uploading
    <3>2. ObjectsOf(f)'
      BY <1>2, <1>30, <1>5, <1>6, <1>7 DEF FileOf, ObjectsOf, Kept, Exists
    <3>3. ReadyOf(f)'
      BY <1>2, <1>30, <1>5, <1>7 DEF FileOf, ReadyOf, Exists
    <3>4. OwnerOf(f)'
      BY <1>2, <1>30, <1>5, <1>6, <1>7 DEF FileOf, OwnerOf, Kept, Exists, Bare, Still
    <3> QED BY <3>1, <3>2, <3>3, <3>4 DEF FileOf
  <2> QED BY <1>2, <1>30, <2>1, <2>2, <2>3, FileStepKeeps
<1>8. ASSUME NEW r \in FileRow,
             Exists(f), rows' = [rows EXCEPT ![f] = r], r.original = rows[f].original,
             \/ r.status = "ready" /\ ~r.retryable /\ r.text /\ parses[p].pc = "saving"
             \/ r.status \in {"failed", "rejected"} /\ r.text = rows[f].text
      PROVE  UploadInv'
  <2>1. UploadShape'
    BY <1>2, <1>30, <1>8 DEF UploadShape
  <2>2. \A g \in Files : g # f => Untouched(g)
    BY <1>2, <1>30, <1>8 DEF Untouched, UploadShape
  <2>0. rows'[f] = r
    BY <1>30, <1>8 DEF UploadShape
  <2>3. FileOf(f)'
    <3>1. FlowOf(f)'
      BY <1>2, <1>30, <1>5, <1>8, <2>0 DEF FileOf, FlowOf, Uploading
    <3>2. ObjectsOf(f)'
      BY <1>2, <1>30, <1>5, <1>6, <1>8, <2>0, ZenonT(40) DEF FileOf, ObjectsOf, Kept, Exists
    <3>3. ReadyOf(f)'
      BY <1>2, <1>30, <1>5, <1>8, <2>0 DEF FileOf, ReadyOf, Exists
    <3>4. OwnerOf(f)'
      BY <1>2, <1>30, <1>5, <1>6, <1>8, <2>0 DEF FileOf, OwnerOf, Kept, Exists, Bare, Still
    <3> QED BY <3>1, <3>2, <3>3, <3>4 DEF FileOf
  <2> QED BY <1>2, <1>30, <2>1, <2>2, <2>3, FileStepKeeps
<1> QED BY <1>4, <1>7, <1>8
\* A parse of the file begins: an idle entry turns to n.
ParseStarts(p, f, n) ==
  /\ FileOf(f) /\ UploadShape /\ ~Parses(p, f)
  /\ parses' \in [Parsers -> ParseShape] /\ ParseInv'
  /\ \A q \in Parsers : parses'[q] = IF q = p THEN n ELSE parses[q]
  /\ \A g \in Files : g # f =>
       \A q \in Parsers : (parses'[q].file = g) = (parses[q].file = g)
                          /\ (parses[q].file = g => parses'[q].pc = parses[q].pc)

\* What was idle parses its own file, or any file for a retry.
LEMMA ParseStartFacts ==
  ASSUME UploadInv, NEW p \in Parsers, NEW f \in Files, p \in Retries \/ p = f, parses[p] = NoParse,
         NEW n \in ParseShape, parses' = [parses EXCEPT ![p] = n], n.file = f, n.pc # "idle"
  PROVE  ParseStarts(p, f, n)
<1>1. UploadShape /\ ParseInv /\ FileOf(f)
  BY DEF UploadInv
<1>2. parses[p].file = "none" /\ parses[p].pc = "idle" /\ f # "none"
  BY UploadNames DEF NoParse
<1>3. \A q \in Parsers : parses'[q] = IF q = p THEN n ELSE parses[q]
  BY <1>1 DEF UploadShape
<1>4. parses' \in [Parsers -> ParseShape]
  BY <1>1 DEF UploadShape
<1>5. ParseInv'
  BY <1>1, <1>2, <1>3, UploadNames DEF ParseInv, Parsers
<1>6. ASSUME NEW g \in Files, g # f, NEW q \in Parsers
      PROVE  (parses'[q].file = g) = (parses[q].file = g)
             /\ (parses[q].file = g => parses'[q].pc = parses[q].pc)
  BY <1>2, <1>3, <1>6, UploadNames
<1> QED BY <1>1, <1>2, <1>3, <1>4, <1>5, <1>6 DEF ParseStarts, Parses

\* A file that can be parsed again has been uploaded and is not ready.
LEMMA BeginRetryKeeps ==
  ASSUME UploadInv, NEW p \in Retries, NEW f \in Files, BeginRetry(p, f)
  PROVE  UploadInv'
<1> DEFINE n == [file |-> f, pc |-> "reading"]
<1>1. /\ p \in Parsers /\ n \in ParseShape /\ n.file = f /\ n.pc = "reading" /\ n.pc # "idle"
      /\ p \in Retries \/ p = f
  BY DEF Parsers, ParseShape
<1>2. /\ parses[p] = NoParse /\ parses' = [parses EXCEPT ![p] = n]
      /\ rows[f].retryable /\ rows[f].original /\ twice \subseteq twice' /\ twice' \subseteq twice \cup {f}
      /\ Parsing(f) # {} => f \in twice'
      /\ UNCHANGED <<uploads, images, rows, stored, removals, sends, sent, tasks, closing, retrying, startup,
                     condemned, strays>>
  BY DEF BeginRetry, ParseGoes
<1> HIDE DEF n
<1>3. ParseStarts(p, f, n)
  BY <1>1, <1>2, ParseStartFacts
<1>4. /\ FileOf(f) /\ UploadShape /\ ~Parses(p, f)
      /\ parses' \in [Parsers -> ParseShape] /\ ParseInv'
      /\ \A q \in Parsers : parses'[q] = IF q = p THEN n ELSE parses[q]
      /\ \A g \in Files : g # f =>
           \A q \in Parsers : (parses'[q].file = g) = (parses[q].file = g)
                              /\ (parses[q].file = g => parses'[q].pc = parses[q].pc)
  BY <1>3 DEF ParseStarts
<1>5. uploads[f] = "done"
  BY <1>2, <1>4 DEF FileOf, FlowOf
<1>6. f \notin twice' => \A q \in Parsers : ~Parses(q, f)
  BY <1>2, <1>4 DEF Parsing, Parses, UploadShape
<1>7. \A q \in Parsers : Parses(q, f)' = (Parses(q, f) \/ q = p)
  BY <1>1, <1>4 DEF Parses
<1>8. UploadShape'
  BY <1>2, <1>4 DEF UploadShape
<1>9. \A g \in Files : g # f => Untouched(g)
  BY <1>2, <1>4 DEF Untouched
<1>10. FileOf(f)'
  <2>1. FlowOf(f)'
    BY <1>2, <1>4, <1>5 DEF FileOf, FlowOf, Uploading
  <2>2. ObjectsOf(f)'
    BY <1>1, <1>2, <1>4, <1>5, <1>7 DEF FileOf, ObjectsOf, Kept, Exists
  <2>3. ReadyOf(f)'
    BY <1>2, <1>4, <1>6, <1>7 DEF FileOf, ReadyOf, Exists
  <2>4. OwnerOf(f)'
    BY <1>1, <1>2, <1>4, <1>7 DEF FileOf, OwnerOf, Kept, Exists, Bare, Still
  <2> QED BY <2>1, <2>2, <2>3, <2>4 DEF FileOf
<1> QED BY <1>2, <1>4, <1>8, <1>9, <1>10, FileStepKeeps

\* A retry parses an object it has read, so the objects were not removed; or it ends.
LEMMA StartRetryKeeps ==
  ASSUME UploadInv, NEW p \in Parsers, NEW f \in Files, parses[p].file = f, StartRetry(p)
  PROVE  UploadInv'
<1>1. parses[p].pc = "reading"
      /\ UNCHANGED <<uploads, images, stored, removals, sends, sent, tasks, closing, retrying, startup,
                     condemned, twice, strays>>
  BY DEF StartRetry
<1>2. CASE /\ <<f, "original">> \in stored /\ Exists(f)
           /\ rows' = [rows EXCEPT ![f].status = "processing"] /\ ParseGoes(p, f, "parsing")
  <2> DEFINE n == [file |-> f, pc |-> "parsing"]
             r == [rows[f] EXCEPT !.status = "processing"]
  <2>1. /\ n \in ParseShape /\ n.file = f /\ n.pc = "parsing"
        /\ n.file \in {"none", f} /\ (n.file = "none") = (n.pc = "idle")
    BY UploadNames DEF ParseShape
  <2>2. parses' = [parses EXCEPT ![p] = n]
    BY <1>2 DEF ParseGoes
  <2> HIDE DEF n
  <2>3. ParseTurns(p, f, n)
    BY <2>1, <2>2, ParseFacts
  <2>4. /\ FileOf(f) /\ UploadShape /\ uploads[f] = "done" /\ Parses(p, f)
        /\ parses' \in [Parsers -> ParseShape] /\ ParseInv'
        /\ \A q \in Parsers : parses'[q] = IF q = p THEN n ELSE parses[q]
        /\ \A g \in Files : g # f =>
             \A q \in Parsers : (parses'[q].file = g) = (parses[q].file = g)
                                /\ (parses[q].file = g => parses'[q].pc = parses[q].pc)
    BY <2>3 DEF ParseTurns
  <2>5. rows[f] \in FileRow /\ rows \in [Files -> FileRow]
    BY <2>4 DEF UploadShape
  <2>6. /\ r \in FileRow /\ r.status = "processing" /\ r.original = rows[f].original
        /\ r.text = rows[f].text
    BY <2>5 DEF FileRow
  <2>7. rows' = [rows EXCEPT ![f] = r] /\ rows'[f] = r
    BY <1>2, <2>5
  <2> HIDE DEF r
  <2>8. \A q \in Parsers : Parses(q, f)' = Parses(q, f)
    BY <2>1, <2>4 DEF Parses
  <2>9. UploadShape'
    BY <1>1, <2>4, <2>6, <2>7 DEF UploadShape
  <2>10. \A g \in Files : g # f => Untouched(g)
    BY <1>1, <2>4, <2>5, <2>7 DEF Untouched
  <2>11. FileOf(f)'
    <3>1. FlowOf(f)'
      BY <1>1, <2>4, <2>6, <2>7 DEF FileOf, FlowOf, Uploading
    <3>2. ObjectsOf(f)'
      BY <1>1, <1>2, <2>1, <2>4, <2>6, <2>7, <2>8 DEF FileOf, ObjectsOf, Kept, Exists
    <3>3. ReadyOf(f)'
      BY <1>1, <1>2, <2>4, <2>6, <2>7, <2>8 DEF FileOf, ReadyOf, Exists
    <3>4. OwnerOf(f)'
      BY <1>1, <1>2, <2>1, <2>4, <2>6, <2>7, <2>8
         DEF FileOf, OwnerOf, Kept, Exists, Bare, Still, ObjectNames
    <3> QED BY <3>1, <3>2, <3>3, <3>4 DEF FileOf
  <2> QED BY <1>1, <2>4, <2>9, <2>10, <2>11, FileStepKeeps
<1>3. CASE ParseEnds(p) /\ UNCHANGED rows
  <2>0. NoParse \in ParseShape /\ NoParse.file = "none" /\ NoParse.pc = "idle"
    BY DEF NoParse, ParseShape
  <2> PICK n \in ParseShape : n = NoParse
    BY <2>0
  <2>1. n.file = "none" /\ n.pc = "idle" /\ n.file \in {"none", f} /\ (n.file = "none") = (n.pc = "idle")
    BY <2>0
  <2>2. parses' = [parses EXCEPT ![p] = n]
    BY <1>3 DEF ParseEnds
  <2>3. ParseTurns(p, f, n)
    BY <2>1, <2>2, ParseFacts
  <2>4. /\ FileOf(f) /\ UploadShape /\ uploads[f] = "done" /\ Parses(p, f)
        /\ parses' \in [Parsers -> ParseShape] /\ ParseInv'
        /\ \A q \in Parsers : parses'[q] = IF q = p THEN n ELSE parses[q]
        /\ \A g \in Files : g # f =>
             \A q \in Parsers : (parses'[q].file = g) = (parses[q].file = g)
                                /\ (parses[q].file = g => parses'[q].pc = parses[q].pc)
    BY <2>3 DEF ParseTurns
  <2>5. \A q \in Parsers : Parses(q, f)' = (Parses(q, f) /\ q # p)
    BY <2>1, <2>4, UploadNames DEF Parses
  <2>6. \A q \in Parsers : Parses(q, f)' => parses'[q] = parses[q]
    BY <2>4, <2>5
  <2>7. UploadShape'
    BY <1>1, <1>3, <2>4 DEF UploadShape
  <2>8. \A g \in Files : g # f => Untouched(g)
    BY <1>1, <1>3, <2>4 DEF Untouched
  <2>9. FileOf(f)'
    <3>1. FlowOf(f)'
      BY <1>1, <1>3, <2>4, <2>5 DEF FileOf, FlowOf, Uploading
    <3>2. ObjectsOf(f)'
      BY <1>1, <1>3, <2>4, <2>5, <2>6, ZenonT(40) DEF FileOf, ObjectsOf, Kept, Exists
    <3>3. ReadyOf(f)'
      BY <1>1, <1>3, <2>4, <2>5 DEF FileOf, ReadyOf, Exists
    <3>4. OwnerOf(f)'
      <4>1. Still(f) => Still(f)'
        BY <1>1, <2>4, <2>5, <2>6 DEF Still
      <4> QED BY <1>1, <1>3, <2>4, <4>1 DEF FileOf, OwnerOf, Kept, Exists, Bare
    <3> QED BY <3>1, <3>2, <3>3, <3>4 DEF FileOf
  <2> QED BY <1>1, <2>4, <2>7, <2>8, <2>9, FileStepKeeps
<1> QED BY <1>2, <1>3 DEF StartRetry
\* A file without its text is claimed and parsed, or fails; it was not sent.
LEMMA BackfillKeeps ==
  ASSUME UploadInv, NEW f \in Files, Backfill(f)
  PROVE  UploadInv'
<1>1. /\ startup.backfill /\ rows[f].status = "ready" /\ rows[f].original /\ ~rows[f].text
      /\ f \notin images /\ \A p \in Parsers : parses[p] = NoParse
      /\ UNCHANGED <<uploads, images, stored, removals, sends, sent, tasks, closing, retrying, startup,
                     condemned, twice, strays>>
  BY DEF Backfill, WithoutText, UploadInv, UploadShape
<1>2. FileOf(f) /\ UploadShape /\ ParseInv
  BY DEF UploadInv
<1>3. rows[f] \in FileRow /\ rows \in [Files -> FileRow] /\ uploads[f] = "done" /\ f \in Parsers
  BY <1>1, <1>2 DEF UploadShape, FileOf, FlowOf, Parsers
<1>4. CASE <<f, "original">> \in stored /\ Sets(f, "processing", FALSE) /\ ParseGoes(f, f, "parsing")
  <2> DEFINE n == [file |-> f, pc |-> "parsing"]
             r == [rows[f] EXCEPT !.status = "processing", !.retryable = FALSE]
  <2>1. n \in ParseShape /\ n.file = f /\ n.pc = "parsing" /\ n.pc # "idle"
    BY DEF ParseShape
  <2>2. parses' = [parses EXCEPT ![f] = n] /\ parses[f] = NoParse /\ (f \in Retries \/ f = f)
    BY <1>1, <1>3, <1>4 DEF ParseGoes
  <2> HIDE DEF n
  <2>3. ParseStarts(f, f, n)
    BY <1>3, <2>1, <2>2, ParseStartFacts
  <2>4. /\ ~Parses(f, f)
        /\ parses' \in [Parsers -> ParseShape] /\ ParseInv'
        /\ \A q \in Parsers : parses'[q] = IF q = f THEN n ELSE parses[q]
        /\ \A g \in Files : g # f =>
             \A q \in Parsers : (parses'[q].file = g) = (parses[q].file = g)
                                /\ (parses[q].file = g => parses'[q].pc = parses[q].pc)
    BY <2>3 DEF ParseStarts
  <2>6. /\ r \in FileRow /\ r.status = "processing" /\ r.original = rows[f].original
        /\ r.text = rows[f].text
    BY <1>3 DEF FileRow
  <2>7. rows' = [rows EXCEPT ![f] = r] /\ rows'[f] = r
    BY <1>3, <1>4 DEF Sets, FileRow
  <2> HIDE DEF r
  <2>8. \A q \in Parsers : Parses(q, f)' = (q = f)
    BY <1>1, <2>1, <2>4, UploadNames DEF Parses, NoParse
  <2>9. UploadShape'
    BY <1>1, <1>2, <2>4, <2>6, <2>7 DEF UploadShape
  <2>10. \A g \in Files : g # f => Untouched(g)
    BY <1>1, <1>3, <2>4, <2>7 DEF Untouched
  <2>11. FileOf(f)'
    <3>1. FlowOf(f)'
      BY <1>1, <1>2, <1>3, <2>6, <2>7 DEF FileOf, FlowOf, Uploading
    <3>2. ObjectsOf(f)'
      BY <1>1, <1>2, <1>4, <2>1, <2>4, <2>6, <2>7, <2>8 DEF FileOf, ObjectsOf, Kept, Exists
    <3>3. ReadyOf(f)'
      BY <1>1, <1>2, <2>4, <2>6, <2>7, <2>8 DEF FileOf, ReadyOf, Exists
    <3>4. OwnerOf(f)'
      BY <1>1, <1>2, <1>4, <2>1, <2>4, <2>6, <2>7, <2>8
         DEF FileOf, OwnerOf, Kept, Exists, Bare, Still, ObjectNames
    <3> QED BY <3>1, <3>2, <3>3, <3>4 DEF FileOf
  <2> QED BY <1>1, <2>4, <2>9, <2>10, <2>11, FileStepKeeps
<1>5. CASE Sets(f, "failed", TRUE) /\ UNCHANGED parses
  <2> DEFINE r == [rows[f] EXCEPT !.status = "failed", !.retryable = TRUE]
  <2>1. /\ r \in FileRow /\ r.status = "failed" /\ r.original = rows[f].original
        /\ r.text = rows[f].text
    BY <1>3 DEF FileRow
  <2>2. rows' = [rows EXCEPT ![f] = r] /\ rows'[f] = r
    BY <1>3, <1>5 DEF Sets, FileRow
  <2> HIDE DEF r
  <2>3. UploadShape' /\ ParseInv'
    BY <1>1, <1>2, <1>5, <2>1, <2>2 DEF UploadShape, ParseInv
  <2>4. \A g \in Files : g # f => Untouched(g)
    BY <1>1, <1>3, <1>5, <2>2 DEF Untouched
  <2>5. FileOf(f)'
    <3>1. FlowOf(f)'
      BY <1>1, <1>2, <1>3, <1>5, <2>1, <2>2 DEF FileOf, FlowOf, Uploading
    <3>2. ObjectsOf(f)'
      BY <1>1, <1>2, <1>5, <2>1, <2>2 DEF FileOf, ObjectsOf, Kept, Exists, Parses
    <3>3. ReadyOf(f)'
      BY <1>1, <1>2, <1>5, <2>1, <2>2 DEF FileOf, ReadyOf, Exists, Parses
    <3>4. OwnerOf(f)'
      BY <1>1, <1>2, <1>5, <2>1, <2>2 DEF FileOf, OwnerOf, Kept, Exists, Bare, Still, Parses
    <3> QED BY <3>1, <3>2, <3>3, <3>4 DEF FileOf
  <2> QED BY <1>1, <2>3, <2>4, <2>5, FileStepKeeps
<1> QED BY <1>4, <1>5 DEF Backfill

------------------------------------------------------------------------------
(* Messages and removals *)

\* A message is sent with files that are ready, and no start is under way.
LEMMA SendKeeps ==
  ASSUME UploadInv, NEW f \in Files, CheckReady(f) \/ Attach(f)
  PROVE  UploadInv'
<1>1. FileOf(f) /\ UploadShape /\ ParseInv
  BY DEF UploadInv
<1>2. /\ UNCHANGED <<uploads, images, rows, stored, parses, removals, tasks, closing, retrying, startup,
                     condemned, twice, strays>>
      /\ \/ /\ startup = Running /\ rows[f].status = "ready" /\ sent' = sent
            /\ sends' = [sends EXCEPT ![f] = "checked"] /\ sends'[f] = "checked"
         \/ /\ sends[f] = "checked" /\ sent' = sent \cup {g \in {f} : Exists(f)}
            /\ sends' = [sends EXCEPT ![f] = "done"] /\ sends'[f] = "done"
  BY <1>1 DEF CheckReady, Attach, Serving, UploadShape
<1>3. UploadShape' /\ ParseInv'
  BY <1>1, <1>2 DEF UploadShape, ParseInv
<1>4. \A g \in Files : g # f => Untouched(g)
  BY <1>1, <1>2 DEF Untouched, UploadShape
<1>5. FileOf(f)'
  <2>1. FlowOf(f)'
    BY <1>1, <1>2 DEF FileOf, FlowOf, Uploading, Parses
  <2>2. ObjectsOf(f)'
    BY <1>1, <1>2 DEF FileOf, ObjectsOf, Parses, Kept, Exists
  <2>3. ReadyOf(f)'
    BY <1>1, <1>2 DEF FileOf, ObjectsOf, ReadyOf, Parses, Exists, Running
  <2>4. OwnerOf(f)'
    BY <1>1, <1>2 DEF FileOf, OwnerOf, Parses, Kept, Exists, Bare, Still
  <2> QED BY <2>1, <2>2, <2>3, <2>4 DEF FileOf
<1> QED BY <1>2, <1>3, <1>4, <1>5, FileStepKeeps

\* A removal begins with an unbound file, whose objects it has yet to take.
LEMMA BeginRemovalKeeps ==
  ASSUME UploadInv, NEW f \in Files, BeginRemoval(f)
  PROVE  UploadInv'
<1>1. FileOf(f) /\ UploadShape /\ ParseInv
  BY DEF UploadInv
<1>2. /\ UNCHANGED <<uploads, images, rows, stored, parses, sends, sent, tasks, closing, retrying, startup,
                     twice, strays>>
      /\ uploads[f] = "done" /\ removals' = [removals EXCEPT ![f] = "objects"] /\ removals'[f] = "objects"
      /\ condemned' = condemned \cup {f}
  BY <1>1 DEF BeginRemoval, Unbound, UploadShape
<1>3. UploadShape' /\ ParseInv'
  BY <1>1, <1>2 DEF UploadShape, ParseInv
<1>4. \A g \in Files : g # f => Untouched(g)
  BY <1>1, <1>2 DEF Untouched, UploadShape
<1>5. FileOf(f)'
  <2>1. FlowOf(f)'
    BY <1>1, <1>2 DEF FileOf, FlowOf, Uploading, Parses
  <2>2. ObjectsOf(f)' /\ ReadyOf(f)'
    BY <1>2 DEF ObjectsOf, ReadyOf
  <2>3. OwnerOf(f)'
    BY <1>1, <1>2 DEF FileOf, OwnerOf, Parses, Kept, Exists, Bare, Still
  <2> QED BY <2>1, <2>2, <2>3 DEF FileOf
<1> QED BY <1>2, <1>3, <1>4, <1>5, FileStepKeeps

\* What is not being written when its objects are removed is bare.
LEMMA NotWritingIsStill ==
  ASSUME NEW f \in Files, UploadShape, ~Writing(f)
  PROVE  Still(f)
BY DEF Writing, Parsing, Still, Parses, UploadShape

\* A removal takes the objects, or leaves the file damaged.
LEMMA RemoveObjectsKeeps ==
  ASSUME UploadInv, NEW f \in Files, RemoveObjects(f)
  PROVE  UploadInv'
<1>1. FileOf(f) /\ UploadShape /\ ParseInv
  BY DEF UploadInv
<1>2. /\ UNCHANGED <<uploads, images, rows, parses, sends, sent, closing, retrying, startup, condemned,
                     twice>>
      /\ removals[f] = "objects" /\ f \in condemned
      /\ strays \subseteq strays' /\ strays' \subseteq strays \cup {f}
      /\ Writing(f) => f \in strays'
      /\ \/ /\ stored' = stored \ Objects(f) /\ tasks' = tasks
            /\ removals' = [removals EXCEPT ![f] = "row"] /\ removals'[f] = "row"
         \/ /\ stored' \subseteq stored /\ stored \ Objects(f) \subseteq stored'
            /\ removals' = [removals EXCEPT ![f] = "done"] /\ removals'[f] = "done"
            /\ tasks' = tasks \/ (tasks' = [tasks EXCEPT ![f] = "failed"] /\ tasks'[f] = "failed")
  BY <1>1 DEF RemoveObjects, Damages, Marks, UploadShape, FileOf, FlowOf
<1>3. UploadShape' /\ ParseInv'
  BY <1>1, <1>2 DEF UploadShape, ParseInv
<1>4. \A g \in Files : g # f => Untouched(g)
  <2> SUFFICES ASSUME NEW g \in Files, g # f PROVE Untouched(g)
    OBVIOUS
  <2>1. \A o \in ObjectNames : (<<g, o>> \in stored') = (<<g, o>> \in stored)
    BY <1>2 DEF Objects
  <2>2. removals'[g] = removals[g] /\ tasks'[g] = tasks[g] /\ (g \in strays') = (g \in strays)
    BY <1>1, <1>2 DEF UploadShape
  <2> QED BY <1>1, <1>2, <2>1, <2>2 DEF Untouched
<1>5. FileOf(f)'
  <2>1. FlowOf(f)'
    BY <1>1, <1>2 DEF FileOf, FlowOf, Uploading, Parses
  <2>2. ObjectsOf(f)' /\ ReadyOf(f)'
    BY <1>2 DEF ObjectsOf, ReadyOf
  <2>3. \A o \in ObjectNames : Kept(f, o)' => Kept(f, o)
    BY <1>2 DEF Kept
  <2>4. Still(f) => Still(f)'
    BY <1>2 DEF Still, Parses
  <2>5. removals'[f] = "row" => \A o \in ObjectNames : ~Kept(f, o)'
    BY <1>2 DEF Kept, Objects, ObjectNames
  <2>6. f \in strays' \/ Still(f)'
    <3>1. CASE Writing(f)
      BY <1>2, <3>1
    <3>2. CASE ~Writing(f)
      BY <1>1, <2>4, <3>2, NotWritingIsStill
    <3> QED BY <3>1, <3>2
  <2>7. OwnerOf(f)'
    BY <1>1, <1>2, <2>3, <2>4, <2>5, <2>6 DEF FileOf, OwnerOf, Exists, Bare
  <2> QED BY <2>1, <2>2, <2>7 DEF FileOf
<1> QED BY <1>2, <1>3, <1>4, <1>5, FileStepKeeps

\* A removal takes the row last.
LEMMA RemoveRowKeeps ==
  ASSUME UploadInv, NEW f \in Files, RemoveRow(f)
  PROVE  UploadInv'
<1>1. FileOf(f) /\ UploadShape /\ ParseInv
  BY DEF UploadInv
<1>2. /\ UNCHANGED <<uploads, images, stored, parses, sends, tasks, closing, retrying, startup, condemned,
                     twice, strays>>
      /\ removals[f] = "row" /\ f \in condemned /\ uploads[f] = "done"
      /\ removals' = [removals EXCEPT ![f] = "done"] /\ removals'[f] = "done"
      /\ rows' = [rows EXCEPT ![f] = NoUpload] /\ rows'[f] = NoUpload /\ sent' = sent \ {f}
  BY <1>1 DEF RemoveRow, UploadShape, FileOf, FlowOf
<1>3. NoUpload \in FileRow /\ NoUpload.status = "none"
  BY DEF NoUpload, FileRow
<1>4. UploadShape' /\ ParseInv'
  BY <1>1, <1>2, <1>3 DEF UploadShape, ParseInv
<1>5. \A g \in Files : g # f => Untouched(g)
  BY <1>1, <1>2 DEF Untouched, UploadShape
<1>6. FileOf(f)'
  <2>1. FlowOf(f)'
    BY <1>1, <1>2, <1>3 DEF FileOf, FlowOf, Uploading, Parses
  <2>2. ObjectsOf(f)' /\ ReadyOf(f)'
    BY <1>2 DEF ObjectsOf, ReadyOf
  <2>3. Bare(f) => Bare(f)'
    BY <1>2 DEF Bare, Still, Parses, Kept
  <2>4. OwnerOf(f)'
    BY <1>1, <1>2, <1>3, <2>3 DEF FileOf, OwnerOf, Exists, Bare
  <2> QED BY <2>1, <2>2, <2>4 DEF FileOf
<1> QED BY <1>2, <1>4, <1>5, <1>6, FileStepKeeps

\* A task is of a file whose deletion was granted.
LEMMA CleanUpKeeps ==
  ASSUME UploadInv, NEW f \in Files, CleanUp(f)
  PROVE  UploadInv'
<1>1. FileOf(f) /\ UploadShape /\ ParseInv
  BY DEF UploadInv
<1>2. /\ UNCHANGED <<uploads, images, parses, removals, sends, sent, closing, startup, condemned, twice>>
      /\ f \in condemned /\ uploads[f] # "new" /\ retrying' = retrying \ {f}
      /\ \/ /\ stored' = stored \ Objects(f) /\ strays \subseteq strays' /\ strays' \subseteq strays \cup {f}
            /\ Writing(f) => f \in strays'
            /\ \/ f \in sent /\ rows' = rows
               \/ rows' = [rows EXCEPT ![f] = NoUpload] /\ rows'[f] = NoUpload
            /\ tasks' = [tasks EXCEPT ![f] = "completed"] /\ tasks'[f] = "completed"
         \/ /\ stored' \subseteq stored /\ stored \ Objects(f) \subseteq stored'
            /\ tasks' = [tasks EXCEPT ![f] = "failed"] /\ tasks'[f] = "failed"
            /\ UNCHANGED <<rows, strays>>
  BY <1>1 DEF CleanUp, Damages, Marks, UploadShape, FileOf, FlowOf
<1>3. NoUpload \in FileRow /\ NoUpload.status = "none" /\ ~NoUpload.original /\ ~NoUpload.text /\ ~NoUpload.retryable
  BY DEF NoUpload, FileRow
<1>4. UploadShape' /\ ParseInv'
  BY <1>1, <1>2, <1>3 DEF UploadShape, ParseInv
<1>5. \A g \in Files : g # f => Untouched(g)
  <2> SUFFICES ASSUME NEW g \in Files, g # f PROVE Untouched(g)
    OBVIOUS
  <2>1. \A o \in ObjectNames : (<<g, o>> \in stored') = (<<g, o>> \in stored)
    BY <1>2 DEF Objects
  <2>2. /\ rows'[g] = rows[g] /\ tasks'[g] = tasks[g] /\ (g \in strays') = (g \in strays)
        /\ (g \in retrying') = (g \in retrying)
    BY <1>1, <1>2 DEF UploadShape
  <2> QED BY <1>1, <1>2, <2>1, <2>2 DEF Untouched
<1>6. FileOf(f)'
  <2>1. FlowOf(f)'
    BY <1>1, <1>2, <1>3 DEF FileOf, FlowOf, Uploading, Parses
  <2>2. ObjectsOf(f)' /\ ReadyOf(f)'
    BY <1>2 DEF ObjectsOf, ReadyOf
  <2>3. \A o \in ObjectNames : Kept(f, o)' => Kept(f, o)
    BY <1>2 DEF Kept
  <2>4. Still(f) => Still(f)'
    BY <1>2 DEF Still, Parses
  <2>5. tasks'[f] = "completed" => \A o \in ObjectNames : ~Kept(f, o)'
    BY <1>2 DEF Kept, Objects, ObjectNames
  <2>7. tasks'[f] = "completed" => f \in strays' \/ Still(f)'
    <3>1. CASE Writing(f)
      BY <1>2, <3>1
    <3>2. CASE ~Writing(f)
      BY <1>1, <2>4, <3>2, NotWritingIsStill
    <3> QED BY <3>1, <3>2
  <2>6. OwnerOf(f)'
    BY <1>1, <1>2, <1>3, <2>3, <2>4, <2>5, <2>7 DEF FileOf, OwnerOf, Exists, Bare
  <2> QED BY <2>1, <2>2, <2>6 DEF FileOf
<1> QED BY <1>2, <1>4, <1>5, <1>6, FileStepKeeps

------------------------------------------------------------------------------
(* Steps of the session and of the server, which concern every file *)

\* Every file of the session gets a task, and with it its deletion is granted.
LEMMA BeginCloseKeeps ==
  ASSUME UploadInv, BeginClose
  PROVE  UploadInv'
<1>1. UploadShape /\ ParseInv
  BY DEF UploadInv
<1>2. /\ UNCHANGED <<uploads, images, rows, stored, parses, removals, sends, sent, retrying, startup, twice,
                     strays>>
      /\ closing = "open" /\ closing' = "closing" /\ condemned' = condemned \cup {f \in Files : Exists(f)}
      /\ tasks' = [f \in Files |-> IF f \in Doomed /\ tasks[f] = "none" THEN "pending" ELSE tasks[f]]
  BY DEF BeginClose
<1>3. UploadShape' /\ ParseInv'
  BY <1>1, <1>2 DEF UploadShape, ParseInv
<1>4. ASSUME NEW f \in Files PROVE FileOf(f)'
  <2>1. FileOf(f)
    BY DEF UploadInv
  <2>2. /\ Exists(f) => f \in condemned' /\ tasks'[f] # "none"
        /\ tasks'[f] = tasks[f] \/ (Exists(f) /\ tasks[f] = "none" /\ tasks'[f] = "pending")
        /\ f \in condemned' => f \in condemned \/ Exists(f)
        /\ f \in condemned => f \in condemned'
    BY <1>1, <1>2 DEF UploadShape, Doomed
  <2>3. FlowOf(f)'
    BY <1>2, <2>1, <2>2 DEF FileOf, FlowOf, Uploading, Parses, Exists
  <2>4. ObjectsOf(f)'
    BY <1>2, <2>1, <2>2 DEF FileOf, ObjectsOf, Parses, Kept, Exists
  <2>5. ReadyOf(f)'
    BY <1>2, <2>1, <2>2 DEF FileOf, ReadyOf, Parses, Exists
  <2>6. Bare(f)' = Bare(f) /\ Still(f)' = Still(f) /\ Exists(f)' = Exists(f)
        /\ \A o \in ObjectNames : Kept(f, o)' = Kept(f, o)
    BY <1>2 DEF Bare, Still, Kept, Parses, Exists
  <2>7. OwnerOf(f)'
    BY <1>2, <2>1, <2>2, <2>6 DEF FileOf, OwnerOf
  <2> QED BY <2>3, <2>4, <2>5, <2>7 DEF FileOf
<1> QED BY <1>3, <1>4 DEF UploadInv

\* What is still being written then is stray; the other objects have a task.
LEMMA CloseSessionKeeps ==
  ASSUME UploadInv, CloseSession
  PROVE  UploadInv'
<1>1. UploadShape /\ ParseInv
  BY DEF UploadInv
<1>2. /\ UNCHANGED <<uploads, images, stored, parses, removals, sends, tasks, startup, condemned, twice>>
      /\ closing = "closing" /\ closing' = "gone" /\ rows' = [f \in Files |-> NoUpload] /\ sent' = {}
      /\ strays' = strays \cup {f \in Files : Writing(f) \/ uploads[f] = "failing"}
      /\ retrying' = {f \in Files : tasks[f] \in {"pending", "failed"}}
  BY DEF CloseSession
<1>3. /\ NoUpload \in FileRow /\ NoUpload.status = "none" /\ ~NoUpload.original /\ ~NoUpload.text
      /\ ~NoUpload.retryable
  BY DEF NoUpload, FileRow
<1>4. UploadShape' /\ ParseInv'
  BY <1>1, <1>2, <1>3 DEF UploadShape, ParseInv
<1>5. ASSUME NEW f \in Files PROVE FileOf(f)'
  <2>1. FileOf(f)
    BY DEF UploadInv
  <2>2. rows'[f] = NoUpload /\ f \notin sent' /\ (f \in retrying' => tasks[f] # "none")
    BY <1>2
  <2>3. f \in strays' \/ (f \notin strays /\ Still(f))
    <3>1. CASE Writing(f)
      BY <1>2, <3>1
    <3>2. CASE ~Writing(f)
      BY <1>1, <1>2, <3>2, NotWritingIsStill
    <3> QED BY <3>1, <3>2
  <2>4. FlowOf(f)'
    BY <1>2, <1>3, <2>1, <2>2 DEF FileOf, FlowOf, Uploading, Parses
  <2>5. ObjectsOf(f)'
    BY <1>2, <1>3, <2>1, <2>2 DEF FileOf, ObjectsOf, Parses, Kept, Exists
  <2>6. ReadyOf(f)'
    BY <1>2, <1>3, <2>1, <2>2 DEF FileOf, ReadyOf, Parses, Exists
  <2>7. Bare(f)' = Bare(f) /\ Still(f)' = Still(f) /\ \A o \in ObjectNames : Kept(f, o)' = Kept(f, o)
    BY <1>2 DEF Bare, Still, Kept, Parses
  <2>8. f \notin strays /\ Still(f) /\ (\E o \in ObjectNames : Kept(f, o)) => tasks[f] \in {"pending", "failed"}
    BY <1>1, <1>2, <2>1 DEF FileOf, OwnerOf, Bare, UploadShape
  <2>9. OwnerOf(f)'
    BY <1>2, <1>3, <2>1, <2>2, <2>3, <2>7, <2>8 DEF FileOf, OwnerOf, Exists
  <2> QED BY <2>4, <2>5, <2>6, <2>9 DEF FileOf
<1> QED BY <1>4, <1>5 DEF UploadInv

\* A process that stops leaves rows and objects as they are.
LEMMA StopKeeps ==
  ASSUME UploadInv, Stop
  PROVE  UploadInv'
<1>1. UploadShape /\ ParseInv
  BY DEF UploadInv
<1>2. /\ UNCHANGED <<images, rows, stored, sent, tasks, condemned, twice, strays>>
      /\ startup = Running /\ startup' = Starting /\ retrying' = {}
      /\ uploads' = [f \in Files |-> IF uploads[f] = "new" THEN "new" ELSE "done"]
      /\ parses' = [p \in Parsers |-> NoParse]
      /\ removals' = [f \in Files |-> IF removals[f] = "no" THEN "no" ELSE "done"]
      /\ sends' = [f \in Files |-> IF sends[f] = "no" THEN "no" ELSE "done"]
      /\ closing' = IF closing = "closing" THEN "open" ELSE closing
  BY <1>1 DEF Stop, Serving, UploadShape
<1>3. NoParse \in ParseShape /\ NoParse.file = "none" /\ NoParse.pc = "idle"
  BY DEF NoParse, ParseShape
<1>4. Starting.backfill /\ Starting \in [recover : BOOLEAN, backfill : BOOLEAN, tasks : BOOLEAN]
  BY DEF Starting
<1>5. UploadShape' /\ ParseInv'
  BY <1>1, <1>2, <1>3, <1>4 DEF UploadShape, ParseInv, UploadPoints, Parsers
<1>6. ASSUME NEW f \in Files PROVE FileOf(f)'
  <2>1. FileOf(f)
    BY DEF UploadInv
  <2>2. /\ uploads'[f] = IF uploads[f] = "new" THEN "new" ELSE "done"
        /\ removals'[f] = IF removals[f] = "no" THEN "no" ELSE "done"
        /\ sends'[f] = IF sends[f] = "no" THEN "no" ELSE "done"
        /\ closing' # "closing" /\ (closing' # "gone" => closing # "gone")
    BY <1>2
  <2>3. \A p \in Parsers : ~Parses(p, f)'
    BY <1>2, <1>3, UploadNames DEF Parses
  <2>4. FlowOf(f)'
    BY <1>2, <2>1, <2>2, <2>3 DEF FileOf, FlowOf, Uploading
  <2>5. ObjectsOf(f)'
    BY <1>2, <1>4, <2>1, <2>2, <2>3 DEF FileOf, ObjectsOf, Kept, Exists
  <2>6. ReadyOf(f)'
    BY <1>2, <2>1, <2>2, <2>3 DEF FileOf, ReadyOf, Exists
  <2>7. OwnerOf(f)'
    BY <1>2, <2>1, <2>2, <2>3 DEF FileOf, OwnerOf, Bare, Still, Kept, Exists
  <2> QED BY <2>4, <2>5, <2>6, <2>7 DEF FileOf
<1> QED BY <1>5, <1>6 DEF UploadInv

\* At the start no upload is under way, so a row that says "processing" was interrupted.
LEMMA RecoverUploadsKeeps ==
  ASSUME UploadInv, RecoverUploads
  PROVE  UploadInv'
<1>1. UploadShape /\ ParseInv
  BY DEF UploadInv
<1>2. /\ UNCHANGED <<uploads, images, stored, parses, removals, sends, sent, tasks, closing, retrying,
                     condemned, twice, strays>>
      /\ startup.recover /\ startup' = [startup EXCEPT !.recover = FALSE]
      /\ rows' = [f \in Files |-> IF f \in Interrupted
                                  THEN [rows[f] EXCEPT !.status = "failed", !.retryable = TRUE] ELSE rows[f]]
  BY DEF RecoverUploads
<1>3. /\ startup' \in [recover : BOOLEAN, backfill : BOOLEAN, tasks : BOOLEAN]
      /\ startup'.backfill = startup.backfill /\ ~startup'.recover
  BY <1>1, <1>2 DEF UploadShape
<1>4. ASSUME NEW f \in Files
      PROVE  /\ rows'[f] \in FileRow /\ rows'[f].original = rows[f].original /\ rows'[f].text = rows[f].text
             /\ \/ rows'[f] = rows[f]
                \/ rows[f].status = "processing" /\ rows'[f].status = "failed"
  <2>1. rows[f] \in FileRow
    BY <1>1 DEF UploadShape
  <2>2. rows'[f] = IF f \in Interrupted
                   THEN [rows[f] EXCEPT !.status = "failed", !.retryable = TRUE] ELSE rows[f]
    BY <1>2
  <2> QED BY <2>1, <2>2 DEF FileRow, Interrupted
<1>5. UploadShape' /\ ParseInv'
  <2>1. rows' \in [Files -> FileRow]
    BY <1>2, <1>4
  <2> QED BY <1>1, <1>2, <1>3, <2>1 DEF UploadShape, ParseInv
<1>6. ASSUME NEW f \in Files PROVE FileOf(f)'
  <2>1. FileOf(f) /\ (uploads[f] = "new" \/ uploads[f] = "done")
    BY <1>1, <1>2 DEF UploadInv, UploadShape, UploadPoints, FileOf, FlowOf, Uploading
  <2>2. /\ rows'[f].original = rows[f].original /\ rows'[f].text = rows[f].text
        /\ \/ rows'[f] = rows[f]
           \/ rows[f].status = "processing" /\ rows'[f].status = "failed"
    BY <1>4
  <2>3. FlowOf(f)'
    BY <1>2, <1>3, <2>1, <2>2 DEF FileOf, FlowOf, Uploading, Parses
  <2>4. ObjectsOf(f)'
    BY <1>2, <1>3, <2>1, <2>2 DEF FileOf, ObjectsOf, Kept, Exists, Parses
  <2>5. ReadyOf(f)'
    BY <1>2, <2>1, <2>2 DEF FileOf, ReadyOf, Exists, Parses
  <2>6. OwnerOf(f)'
    BY <1>2, <2>1, <2>2 DEF FileOf, OwnerOf, Bare, Still, Kept, Exists, Parses
  <2> QED BY <2>3, <2>4, <2>5, <2>6 DEF FileOf
<1> QED BY <1>5, <1>6 DEF UploadInv

\* Once no file lacks its text, or the tasks are listed, the start has this behind it.
LEMMA StartKeeps ==
  ASSUME UploadInv, BackfillDone \/ ListTasks
  PROVE  UploadInv'
<1>1. UploadShape /\ ParseInv
  BY DEF UploadInv
<1>2. /\ UNCHANGED <<uploads, images, rows, stored, parses, removals, sends, sent, tasks, closing, condemned,
                     twice, strays>>
      /\ \/ /\ startup' = [startup EXCEPT !.backfill = FALSE] /\ WithoutText = {} /\ retrying' = retrying
         \/ /\ startup' = [startup EXCEPT !.tasks = FALSE]
            /\ retrying' = {f \in Files : tasks[f] \in {"pending", "failed"}}
  BY DEF BackfillDone, ListTasks
<1>3. /\ startup' \in [recover : BOOLEAN, backfill : BOOLEAN, tasks : BOOLEAN]
      /\ startup'.recover = startup.recover
      /\ startup'.backfill = startup.backfill \/ WithoutText = {}
  BY <1>1, <1>2 DEF UploadShape
<1>4. UploadShape' /\ ParseInv'
  BY <1>1, <1>2, <1>3 DEF UploadShape, ParseInv
<1>5. ASSUME NEW f \in Files PROVE FileOf(f)'
  <2>1. FileOf(f)
    BY DEF UploadInv
  <2>2. f \in retrying' => f \in retrying \/ tasks[f] # "none"
    BY <1>2
  <2>3. /\ startup.backfill /\ rows[f].status = "ready" /\ rows[f].original
        => startup'.backfill \/ f \in images \/ rows[f].text
    BY <1>3 DEF WithoutText
  <2>4. FlowOf(f)'
    BY <1>2, <1>3, <2>1, <2>2 DEF FileOf, FlowOf, Uploading, Parses
  <2>5. ObjectsOf(f)'
    BY <1>2, <2>1, <2>3 DEF FileOf, ObjectsOf, Kept, Exists, Parses
  <2>6. ReadyOf(f)'
    BY <1>2, <2>1 DEF FileOf, ReadyOf, Exists, Parses
  <2>7. OwnerOf(f)'
    BY <1>2, <2>1 DEF FileOf, OwnerOf, Bare, Still, Kept, Exists, Parses
  <2> QED BY <2>4, <2>5, <2>6, <2>7 DEF FileOf
<1> QED BY <1>4, <1>5 DEF UploadInv

------------------------------------------------------------------------------
(* The specification *)

\* Every step keeps the invariant.
LEMMA UploadNextInv == UploadInv /\ [UploadNext]_uploadVars => UploadInv'
<1> SUFFICES ASSUME UploadInv, [UploadNext]_uploadVars PROVE UploadInv'
  OBVIOUS
<1>1. ASSUME NEW f \in Files,
             \/ StoreOriginal(f) \/ KeyOriginal(f) \/ UploadFails(f) \/ FailUpload(f) \/ Backfill(f)
             \/ BeginUpload(f) \/ CheckReady(f) \/ Attach(f) \/ BeginRemoval(f)
             \/ RemoveObjects(f) \/ RemoveRow(f) \/ CleanUp(f)
      PROVE  UploadInv'
  BY <1>1, StoreOriginalKeeps, KeyOriginalKeeps, UploadFailsKeeps, FailUploadKeeps, BackfillKeeps,
     BeginUploadKeeps, SendKeeps, BeginRemovalKeeps, RemoveObjectsKeeps, RemoveRowKeeps, CleanUpKeeps
<1>2. ASSUME NEW p \in Files \cup Retries, ParseStep(p) \/ StartRetry(p) PROVE UploadInv'
  <2>1. p \in Parsers /\ parses[p].pc # "idle"
    BY <1>2 DEF Parsers, ParseStep, StoreText, SaveText, ParseFails, StartRetry
  <2>2. PICK f \in Files : parses[p].file = f
    BY <2>1 DEF UploadInv, UploadShape, ParseInv, ParseShape
  <2> QED BY <1>2, <2>1, <2>2, StoreTextKeeps, ParseEndsKeeps, StartRetryKeeps DEF ParseStep
<1>3. ASSUME NEW r \in Retries, NEW f \in Files, BeginRetry(r, f) PROVE UploadInv'
  BY <1>3, BeginRetryKeeps
<1>4. CASE BeginClose \/ CloseSession \/ Stop \/ RecoverUploads \/ BackfillDone \/ ListTasks
  BY <1>4, BeginCloseKeeps, CloseSessionKeeps, StopKeeps, RecoverUploadsKeeps, StartKeeps
<1>5. CASE UNCHANGED uploadVars
  <2>1. UploadShape' /\ ParseInv'
    BY <1>5 DEF uploadVars, UploadInv, UploadShape, ParseInv
  <2>2. ASSUME NEW f \in Files PROVE FileOf(f)'
    <3>1. Untouched(f) /\ UNCHANGED <<closing, startup>>
      BY <1>5 DEF uploadVars, Untouched
    <3> QED BY <3>1, UntouchedKeeps DEF UploadInv
  <2> QED BY <2>1, <2>2 DEF UploadInv
<1> QED BY <1>1, <1>2, <1>3, <1>4, <1>5 DEF UploadNext, UploadStep

\* The invariant holds always.
LEMMA UploadAlways == UploadSpec => []UploadInv
BY UploadInitInv, UploadNextInv, PTL DEF UploadSpec

\* Types: the states of uploads, rows, removals, sends, tasks and parses (files.service.ts).
THEOREM UploadTypes == UploadSpec => []UploadTypeOK
<1>1. UploadInv => UploadTypeOK
  <2> SUFFICES ASSUME UploadShape PROVE UploadTypeOK
    BY DEF UploadInv
  <2>1. stored \subseteq UNION {Objects(f) : f \in Files}
    <3> SUFFICES ASSUME NEW x \in stored PROVE \E f \in Files : x \in Objects(f)
      OBVIOUS
    <3> QED BY DEF UploadShape, Objects, ObjectNames
  <2>2. \A f \in Files : rows[f] \in FileRow /\ uploads[f] \in UploadPoints
    BY DEF UploadShape
  <2>3. \A p \in DOMAIN parses : parses[p] \in ParseShape
    BY DEF UploadShape
  <2> QED BY <2>1, <2>2, <2>3 DEF UploadShape, UploadTypeOK, FileRow, UploadPoints, ParseShape
<1> QED BY <1>1, UploadAlways, PTL

\* Rows and objects belong together (files.service.ts upload, processInBackground, deleteUnbound,
\* onModuleInit; sessions.service.ts delete): a file that is ready has its objects, one that was
\* sent stays ready, and objects without a row have a task that will remove them, but for the
\* exceptions that FilesMatchObjects names.
THEOREM FilesHaveTheirObjects == UploadSpec => []FilesMatchObjects
<1>1. UploadInv => FilesMatchObjects
  <2> SUFFICES ASSUME UploadInv PROVE FilesMatchObjects
    OBVIOUS
  <2>1. ASSUME startup = Running, NEW f \in Files \ (condemned \cup twice)
        PROVE  /\ rows[f].status = "ready" =>
                    <<f, "original">> \in stored /\ (f \notin images => <<f, "text">> \in stored)
               /\ f \in sent => rows[f].status = "ready"
               /\ sends[f] = "done" /\ closing # "gone" => Exists(f)
    <3>1. FileOf(f) /\ ~startup.backfill
      BY <2>1 DEF UploadInv, Running
    <3> QED BY <2>1, <3>1 DEF FileOf, ObjectsOf, ReadyOf, Kept
  <2>2. ASSUME NEW f \in Files, Objects(f) \intersect stored # {}
        PROVE  Exists(f) \/ tasks[f] \in {"pending", "failed"} \/ f \in strays
    <3>1. \E o \in ObjectNames : Kept(f, o)
      BY <2>2 DEF Objects, ObjectNames, Kept
    <3> QED BY <3>1 DEF UploadInv, FileOf, OwnerOf
  <2> QED BY <2>1, <2>2 DEF FilesMatchObjects
<1> QED BY <1>1, UploadAlways, PTL
================================================================================
