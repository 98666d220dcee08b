----------------------------- MODULE FileUploads -----------------------------
(* The files that users upload to a session (files.service.ts upload, processInBackground, retry, *)
(* deleteUnbound, onModuleInit), the messages they are sent with, and the deletion of the session *)
(* with its clean-up tasks (sessions.service.ts).  A text is parsed after the upload was answered *)
(* and an image is ready at once.  Every await of a request, a parse or a deletion is a point     *)
(* where another one may go on; the storage may fail, and the server may stop once.               *)
EXTENDS Naturals, FiniteSets

CONSTANTS Files,
          Retries         \* requests to parse a file again
ASSUME UploadNames == Files \intersect Retries = {} /\ "none" \notin Files

VARIABLES uploads,        \* the progress of the upload of each file
          images,         \* the files that are images
          rows,           \* rows of the files
          stored,         \* objects in the storage: a file with a variant
          parses,         \* parsing under way: by the upload or the start itself, or by a retry
          removals,       \* the progress of deleteUnbound()
          sends,          \* the progress of the message a file is sent with
          sent,           \* files a message refers to
          tasks,          \* status of the clean-up tasks
          closing,        \* the deletion of the session
          retrying,       \* tasks that are being retried
          startup,        \* what the start of the server has left to do
          stopped,
          condemned,      \* history: a deletion was asked for that could then be granted
          twice,          \* history: parsed by two at once
          strays,           \* history: being written when its objects or its row were removed
          unwritten       \* history: the end of its upload or parsing could not be recorded

uploadVars == <<uploads, images, rows, stored, parses, removals, sends, sent, tasks, closing, retrying,
                startup, stopped, condemned, twice, strays, unwritten>>

NoUpload == [status |-> "none", retryable |-> FALSE, original |-> FALSE, text |-> FALSE]
NoParse == [file |-> "none", pc |-> "idle"]
Running == [recover |-> FALSE, backfill |-> FALSE, tasks |-> FALSE]
Starting == [recover |-> TRUE, backfill |-> TRUE, tasks |-> TRUE]
Objects(f) == {f} \X {"original", "text"}

\* A new session; or the start of a version that finds a file stored before texts were.
UploadInit ==
  /\ images = {} /\ parses = [p \in Files \cup Retries |-> NoParse] /\ stopped = FALSE
  /\ removals = [f \in Files |-> "no"] /\ sends = [f \in Files |-> "no"] /\ sent = {}
  /\ tasks = [f \in Files |-> "none"] /\ closing = "open" /\ retrying = {}
  /\ condemned = {} /\ twice = {} /\ strays = {} /\ unwritten = {}
  /\ \/ /\ uploads = [f \in Files |-> "new"] /\ rows = [f \in Files |-> NoUpload]
        /\ stored = {} /\ startup = Running
     \/ \E f \in Files :
          /\ uploads = [g \in Files |-> IF g = f THEN "done" ELSE "new"]
          /\ rows = [g \in Files |-> IF g = f THEN [NoUpload EXCEPT !.status = "ready", !.original = TRUE]
                                     ELSE NoUpload]
          /\ stored \in {{}, {<<f, "original">>}} /\ startup = Starting

\* Nest serves no request before every start hook has returned.
Serving == startup = Running /\ (retrying = {} \/ closing = "gone")
Exists(f) == rows[f].status # "none"
Parsing(f) == {p \in DOMAIN parses : parses[p].file = f}
Writing(f) == uploads[f] \in {"storing", "keying"} \/ Parsing(f) # {}
Sets(f, status, retryable) == rows' = [rows EXCEPT ![f].status = status, ![f].retryable = retryable]
ParseGoes(p, f, pc) == parses' = [parses EXCEPT ![p] = [file |-> f, pc |-> pc]]
ParseEnds(p) == parses' = [parses EXCEPT ![p] = NoParse]
UploadGoes(f, pc) == uploads' = [uploads EXCEPT ![f] = pc]
Damages(f) == stored' \in {stored \ objects : objects \in SUBSET Objects(f)}
Marks(history, f) == history \cup {g \in {f} : Writing(f)}

------------------------------------------------------------------------------
\* The row comes first, then the objects, then their keys. A session that was deleted takes no row.
BeginUpload(f) ==
  /\ Serving /\ uploads[f] = "new" /\ closing # "gone"
  /\ UploadGoes(f, "storing") /\ Sets(f, "processing", FALSE)
  /\ images' \in {images, images \cup {f}}
  /\ strays' = IF closing = "closing" THEN strays \cup {f} ELSE strays
  /\ UNCHANGED <<stored, parses, removals, sends, sent, tasks, closing, retrying, startup, stopped,
                 condemned, twice, unwritten>>

StoreOriginal(f) ==
  /\ uploads[f] = "storing" /\ UploadGoes(f, "keying") /\ stored' = stored \cup {<<f, "original">>}
  /\ UNCHANGED <<images, rows, parses, removals, sends, sent, tasks, closing, retrying, startup, stopped,
                 condemned, twice, strays, unwritten>>

\* The upload is answered: an image is ready, a text goes on to its parser.
KeyOriginal(f) ==
  /\ uploads[f] = "keying" /\ Exists(f) /\ UploadGoes(f, "done")
  /\ rows' = [rows EXCEPT ![f].original = TRUE, ![f].status = IF f \in images THEN "ready" ELSE @]
  /\ IF f \in images THEN UNCHANGED parses ELSE ParseGoes(f, f, "parsing")
  /\ UNCHANGED <<images, stored, removals, sends, sent, tasks, closing, retrying, startup, stopped,
                 condemned, twice, strays, unwritten>>

\* A failing storage or database; the row was deleted with its session. The objects are removed,
\* as far as the storage obeys, and the row then says so, if there is one and it can be written.
UploadFails(f) ==
  /\ uploads[f] \in {"storing", "keying"} /\ UploadGoes(f, "failing")
  /\ \/ stored' = stored \ Objects(f)
     \/ stored' = stored \cup {<<f, "original">>}
  /\ UNCHANGED <<images, rows, parses, removals, sends, sent, tasks, closing, retrying, startup, stopped,
                 condemned, twice, strays, unwritten>>

FailUpload(f) ==
  /\ uploads[f] = "failing" /\ UploadGoes(f, "done")
  /\ \/ Exists(f) /\ Sets(f, "failed", TRUE) /\ UNCHANGED unwritten
     \/ unwritten' = unwritten \cup {f} /\ UNCHANGED rows
  /\ UNCHANGED <<images, stored, parses, removals, sends, sent, tasks, closing, retrying, startup, stopped,
                 condemned, twice, strays>>

------------------------------------------------------------------------------
\* processInBackground(): the text is stored, then the row is set, whatever it says by then.
StoreText(p) ==
  /\ parses[p].pc = "parsing" /\ ParseGoes(p, parses[p].file, "saving")
  /\ stored' = stored \cup {<<parses[p].file, "text">>}
  /\ UNCHANGED <<uploads, images, rows, removals, sends, sent, tasks, closing, retrying, startup, stopped,
                 condemned, twice, strays, unwritten>>

SaveText(p) ==
  /\ parses[p].pc = "saving" /\ ParseEnds(p)
  /\ LET f == parses[p].file
     IN /\ Exists(f)
        /\ rows' = [rows EXCEPT ![f] = [@ EXCEPT !.status = "ready", !.retryable = FALSE, !.text = TRUE]]
  /\ UNCHANGED <<uploads, images, stored, removals, sends, sent, tasks, closing, retrying, startup, stopped,
                 condemned, twice, strays, unwritten>>

\* The parser, the storage or the database fails: for good, or so that a retry may help.
ParseFails(p) ==
  /\ parses[p].pc \in {"parsing", "saving"} /\ ParseEnds(p)
  /\ LET f == parses[p].file
     IN \/ /\ Exists(f) /\ UNCHANGED unwritten
           /\ Sets(f, "failed", TRUE) \/ Sets(f, "rejected", FALSE)
        \/ unwritten' = unwritten \cup {f} /\ UNCHANGED rows
  /\ UNCHANGED <<uploads, images, stored, removals, sends, sent, tasks, closing, retrying, startup, stopped,
                 condemned, twice, strays>>

\* retry() reads the row and the original before it sets the row; retryable stays as it is.
BeginRetry(r, f) ==
  /\ Serving /\ parses[r] = NoParse /\ rows[f].retryable /\ rows[f].original
  /\ ParseGoes(r, f, "reading")
  /\ twice' = twice \cup {g \in {f} : Parsing(f) # {}}
  /\ UNCHANGED <<uploads, images, rows, stored, removals, sends, sent, tasks, closing, retrying, startup,
                 stopped, condemned, strays, unwritten>>

StartRetry(r) ==
  /\ parses[r].pc = "reading"
  /\ LET f == parses[r].file
     IN \/ /\ <<f, "original">> \in stored /\ Exists(f)
           /\ rows' = [rows EXCEPT ![f].status = "processing"] /\ ParseGoes(r, f, "parsing")
        \/ ParseEnds(r) /\ UNCHANGED rows
  /\ UNCHANGED <<uploads, images, stored, removals, sends, sent, tasks, closing, retrying, startup, stopped,
                 condemned, twice, strays, unwritten>>

------------------------------------------------------------------------------
\* create() of a run checks its files one by one and attaches them in a later transaction.
CheckReady(f) ==
  /\ Serving /\ sends[f] = "no" /\ rows[f].status = "ready"
  /\ sends' = [sends EXCEPT ![f] = "checked"]
  /\ UNCHANGED <<uploads, images, rows, stored, parses, removals, sent, tasks, closing, retrying, startup,
                 stopped, condemned, twice, strays, unwritten>>

Attach(f) ==
  /\ sends[f] = "checked" /\ sends' = [sends EXCEPT ![f] = "done"]
  /\ sent' = sent \cup {g \in {f} : Exists(f)}
  /\ UNCHANGED <<uploads, images, rows, stored, parses, removals, tasks, closing, retrying, startup, stopped,
                 condemned, twice, strays, unwritten>>

\* Mutant: nobody asks whether the file was sent.
UnboundOrSent(f) == Exists(f)
Unbound(f) == Exists(f) /\ f \notin sent

BeginRemoval(f) ==
  /\ Serving /\ uploads[f] = "done" /\ removals[f] = "no" /\ Unbound(f)
  /\ removals' = [removals EXCEPT ![f] = "objects"]
  /\ condemned' = condemned \cup ({f} \ sent)
  /\ UNCHANGED <<uploads, images, rows, stored, parses, sends, sent, tasks, closing, retrying, startup,
                 stopped, twice, strays, unwritten>>

\* A storage that refuses leaves the file with a task, if that can be written.
RemoveObjects(f) ==
  /\ removals[f] = "objects" /\ strays' = Marks(strays, f)
  /\ \/ /\ stored' = stored \ Objects(f) /\ removals' = [removals EXCEPT ![f] = "row"]
        /\ UNCHANGED tasks
     \/ /\ Damages(f) /\ removals' = [removals EXCEPT ![f] = "done"]
        /\ tasks' \in {tasks, [tasks EXCEPT ![f] = "failed"]}
  /\ UNCHANGED <<uploads, images, rows, parses, sends, sent, closing, retrying, startup, stopped, condemned,
                 twice, unwritten>>

\* The reference of a message goes with the row.
RemoveRow(f) ==
  /\ removals[f] = "row" /\ removals' = [removals EXCEPT ![f] = "done"]
  /\ rows' = [rows EXCEPT ![f] = NoUpload] /\ sent' = sent \ {f}
  /\ UNCHANGED <<uploads, images, stored, parses, sends, tasks, closing, retrying, startup, stopped,
                 condemned, twice, strays, unwritten>>

------------------------------------------------------------------------------
\* The deletion of the session leaves a task for each of its files; an older task stays.
\* Mutant: only the files that are ready get one.
ReadyFiles == {f \in Files : rows[f].status = "ready"}
Doomed == {f \in Files : Exists(f)}

BeginClose ==
  /\ Serving /\ closing = "open" /\ closing' = "closing"
  /\ tasks' = [f \in Files |-> IF f \in Doomed /\ tasks[f] = "none" THEN "pending" ELSE tasks[f]]
  /\ condemned' = condemned \cup {f \in Files : Exists(f)}
  /\ UNCHANGED <<uploads, images, rows, stored, parses, removals, sends, sent, retrying, startup, stopped,
                 twice, strays, unwritten>>

CloseSession ==
  /\ closing = "closing" /\ closing' = "gone"
  /\ rows' = [f \in Files |-> NoUpload] /\ sent' = {}
  /\ strays' = strays \cup {f \in Files : Writing(f) \/ uploads[f] = "failing"}
  /\ retrying' = {f \in Files : tasks[f] \in {"pending", "failed"}}
  /\ UNCHANGED <<uploads, images, stored, parses, removals, sends, tasks, startup, stopped, condemned, twice,
                 unwritten>>

\* A task is done when the objects are removed and the row, unless it was sent.
CleanUp(f) ==
  /\ f \in retrying /\ retrying' = retrying \ {f}
  /\ \/ /\ stored' = stored \ Objects(f) /\ strays' = Marks(strays, f)
        /\ rows' = IF f \in sent THEN rows ELSE [rows EXCEPT ![f] = NoUpload]
        /\ tasks' = [tasks EXCEPT ![f] = "completed"]
     \/ Damages(f) /\ tasks' = [tasks EXCEPT ![f] = "failed"] /\ UNCHANGED <<rows, strays>>
  /\ UNCHANGED <<uploads, images, parses, removals, sends, sent, closing, startup, stopped, condemned, twice,
                 unwritten>>

------------------------------------------------------------------------------
\* The server stops: whatever was under way is lost, and a session being deleted is still there.
Stop ==
  /\ Serving /\ ~stopped /\ stopped' = TRUE /\ startup' = Starting
  /\ uploads' = [f \in Files |-> IF uploads[f] = "new" THEN "new" ELSE "done"]
  /\ parses' = [p \in DOMAIN parses |-> NoParse] /\ retrying' = {}
  /\ removals' = [f \in Files |-> IF removals[f] = "no" THEN "no" ELSE "done"]
  /\ sends' = [f \in Files |-> IF sends[f] = "no" THEN "no" ELSE "done"]
  /\ closing' = IF closing = "closing" THEN "open" ELSE closing
  /\ UNCHANGED <<images, rows, stored, sent, tasks, condemned, twice, strays, unwritten>>

\* onModuleInit() fails every file that was being processed, with or without a key.
\* Mutant: only the files that can be parsed again are found.
InterruptedWithKey == {f \in Files : rows[f].status = "processing" /\ rows[f].original}
Interrupted == {f \in Files : rows[f].status = "processing"}

RecoverUploads ==
  /\ startup.recover /\ startup' = [startup EXCEPT !.recover = FALSE]
  /\ rows' = [f \in Files |-> IF f \in Interrupted
                              THEN [rows[f] EXCEPT !.status = "failed", !.retryable = TRUE] ELSE rows[f]]
  /\ UNCHANGED <<uploads, images, stored, parses, removals, sends, sent, tasks, closing, retrying, stopped,
                 condemned, twice, strays, unwritten>>

\* A file without text is claimed and parsed once more, one after the other.
WithoutText == {f \in Files : rows[f].status = "ready" /\ rows[f].original /\ ~rows[f].text /\ f \notin images}

Backfill(f) ==
  /\ ~startup.recover /\ startup.backfill /\ f \in WithoutText /\ \A p \in DOMAIN parses : parses[p] = NoParse
  /\ \/ /\ <<f, "original">> \in stored
        /\ Sets(f, "processing", FALSE) /\ ParseGoes(f, f, "parsing")
     \/ Sets(f, "failed", TRUE) /\ UNCHANGED parses
  /\ UNCHANGED <<uploads, images, stored, removals, sends, sent, tasks, closing, retrying, startup, stopped,
                 condemned, twice, strays, unwritten>>

BackfillDone ==
  /\ ~startup.recover /\ startup.backfill /\ WithoutText = {} /\ \A p \in DOMAIN parses : parses[p] = NoParse
  /\ startup' = [startup EXCEPT !.backfill = FALSE]
  /\ UNCHANGED <<uploads, images, rows, stored, parses, removals, sends, sent, tasks, closing, retrying,
                 stopped, condemned, twice, strays, unwritten>>

ListTasks ==
  /\ startup.tasks /\ startup' = [startup EXCEPT !.tasks = FALSE]
  /\ retrying' = {f \in Files : tasks[f] \in {"pending", "failed"}}
  /\ UNCHANGED <<uploads, images, rows, stored, parses, removals, sends, sent, tasks, closing, stopped,
                 condemned, twice, strays, unwritten>>

\* What goes on by itself: a request or a parse under way, and the start of the server.
UploadStep ==
  \/ \E f \in Files : StoreOriginal(f) \/ KeyOriginal(f) \/ UploadFails(f) \/ FailUpload(f) \/ Backfill(f)
  \/ RecoverUploads \/ BackfillDone
ParseStep(p) == StoreText(p) \/ SaveText(p) \/ ParseFails(p)

UploadNext ==
  \/ UploadStep \/ ListTasks \/ BeginClose \/ CloseSession \/ Stop
  \/ \E p \in Files \cup Retries : ParseStep(p)
  \/ \E r \in Retries : StartRetry(r) \/ \E f \in Files : BeginRetry(r, f)
  \/ \E f \in Files : \/ BeginUpload(f) \/ CheckReady(f) \/ Attach(f) \/ BeginRemoval(f)
                      \/ RemoveObjects(f) \/ RemoveRow(f) \/ CleanUp(f)

UploadSpec == UploadInit /\ [][UploadNext]_uploadVars

------------------------------------------------------------------------------
UploadTypeOK ==
  /\ stored \subseteq UNION {Objects(f) : f \in Files}
  /\ \A f \in Files :
       /\ uploads[f] \in {"new", "storing", "keying", "failing", "done"}
       /\ rows[f].status \in {"none", "processing", "ready", "failed", "rejected"}
       /\ removals[f] \in {"no", "objects", "row", "done"} /\ sends[f] \in {"no", "checked", "done"}
       /\ tasks[f] \in {"none", "pending", "failed", "completed"}
  /\ \A p \in DOMAIN parses : parses[p].pc \in {"idle", "reading", "parsing", "saving"}
  /\ closing \in {"open", "closing", "gone"}

\* Rows and objects belong together (files.service.ts upload, deleteUnbound; sessions.service.ts
\* delete). A file that is ready has its objects, and one that was sent stays ready, unless its
\* deletion was asked for before it was sent, or two parses of it overlapped. Objects without a row
\* have a task that will remove them, unless they were being written when the row went.
FilesMatchObjects ==
  /\ startup = Running => \A f \in Files \ (condemned \cup twice) :
       /\ rows[f].status = "ready" =>
            <<f, "original">> \in stored /\ (f \notin images => <<f, "text">> \in stored)
       /\ f \in sent => rows[f].status = "ready"
       /\ sends[f] = "done" /\ closing # "gone" => Exists(f)
  /\ \A f \in Files : Objects(f) \intersect stored # {} =>
       Exists(f) \/ tasks[f] \in {"pending", "failed"} \/ f \in strays

\* The parsing of a file ends (files.service.ts processInBackground, onModuleInit): with a result,
\* with a failure, or with the next start, if its end could be recorded at all.
ParsingEnds == \A f \in Files :
  rows[f].status = "processing" ~> (rows[f].status # "processing" \/ f \in unwritten)
==============================================================================
