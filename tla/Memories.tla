------------------------------ MODULE Memories ------------------------------
(* What the agent remembers of a user (memory.service.ts, memory.repository.ts and               *)
(* memory.embed.job.ts): records are created, updated and deleted by the tool and the settings,  *)
(* embedded in the background, and superseded by a scan for near duplicates.  Every write tells  *)
(* one fact once more, so that all texts are near duplicates; titles may differ.  Every await of *)
(* a write, an embedding or a scan is a point where another one may go on.                       *)
EXTENDS Naturals, FiniteSets

CONSTANTS Writes,         \* calls of the tool or the settings; a new record is named after its call
          OldRecord,      \* a record that may have been stored before
          ActiveCap       \* config.activeCap
ASSUME RecordNames == OldRecord \notin Writes /\ "none" \notin Writes \cup {OldRecord}
ASSUME CapIsPositive == ActiveCap \in Nat \ {0}

VARIABLES memories,       \* [Records -> row of memory_records]
          column,         \* [Records -> the text the pgvector column was made of, or NoMemoryText]
          writes,         \* the progress of each call
          embeds,         \* its embedding: the record and how far it got
          scans,          \* its scan for near duplicates
          asked,          \* history: the deletion of a record was asked for
          crossed,        \* history: a record was superseded before the scan of its own call had ended
          blurred         \* history: records written during an embedding, or not cleared

memVars == <<memories, column, writes, embeds, scans, asked, crossed, blurred>>

Records == Writes \cup {OldRecord}
NoMemoryText == "none"
NoEmbedding == [pc |-> "idle", id |-> NoMemoryText]
NoMemory == [status |-> "none", text |-> NoMemoryText, title |-> 1, vector |-> NoMemoryText]
NewCall == [pc |-> "new", by |-> "tool", id |-> NoMemoryText, title |-> 1, sync |-> FALSE, listed |-> {}]

Stored == [NoMemory EXCEPT !.status = "active", !.text = OldRecord, !.vector = OldRecord]

MemInit ==
  /\ \E row \in {NoMemory, Stored} :
       /\ memories = [m \in Records |-> IF m = OldRecord THEN row ELSE NoMemory]
       /\ column = [m \in Records |-> IF m = OldRecord THEN row.vector ELSE NoMemoryText]
  /\ writes = [w \in Writes |-> NewCall]
  /\ embeds = [w \in Writes |-> NoEmbedding]
  /\ scans = [w \in Writes |-> [pc |-> "idle", victims |-> {}]]
  /\ asked = FALSE /\ crossed = FALSE /\ blurred = {}

Active == {m \in Records : memories[m].status = "active"}
Embedded == {m \in Active : memories[m].vector # NoMemoryText}
\* The search reads the column, the gate asks whether the row says that it was embedded.
Retrievable == {m \in Embedded : column[m] # NoMemoryText}
Reaches(w, pc) == writes' = [writes EXCEPT ![w].pc = pc]

------------------------------------------------------------------------------
\* create: a record with the same title is updated instead, or one whose vector is similar.
BeginRemember(w) ==
  /\ writes[w].pc = "new"
  /\ \E title \in {1, 2}, sync \in BOOLEAN :
       LET same == {m \in Active : memories[m].title = title}
           call == [NewCall EXCEPT !.title = title, !.sync = sync]
           next == IF same # {} THEN {[call EXCEPT !.pc = "found", !.id = m] : m \in same}
                   ELSE IF Embedded = {} THEN {[call EXCEPT !.pc = "insert"]}
                   ELSE {[call EXCEPT !.pc = "compare", !.listed = Embedded]}
       IN \E step \in next : writes' = [writes EXCEPT ![w] = step]
  /\ UNCHANGED <<memories, column, embeds, scans, asked, crossed, blurred>>

\* The records compared are those listed before the vector was computed, if it could be.
Compare(w) ==
  /\ writes[w].pc = "compare"
  /\ LET call == [writes[w] EXCEPT !.listed = {}]
     IN \/ \E m \in writes[w].listed :
             writes' = [writes EXCEPT ![w] = [call EXCEPT !.pc = "found", !.id = m]]
        \/ writes' = [writes EXCEPT ![w] = [call EXCEPT !.pc = "insert"]]
  /\ UNCHANGED <<memories, column, embeds, scans, asked, crossed, blurred>>

\* The settings create without a comparison and embed before they answer.
BeginRememberFromSettings(w) ==
  /\ writes[w].pc = "new"
  /\ \E title \in {1, 2} :
       writes' = [writes EXCEPT ![w] = [NewCall EXCEPT !.pc = "insert", !.by = "settings",
                                                       !.title = title]]
  /\ UNCHANGED <<memories, column, embeds, scans, asked, crossed, blurred>>

\* createIfUnderActiveCap(): counts, then inserts, in one transaction.
CountActive(w) ==
  /\ writes[w].pc = "insert"
  /\ Reaches(w, IF Cardinality(Active) < ActiveCap THEN "inserting" ELSE "done")
  /\ UNCHANGED <<memories, column, embeds, scans, asked, crossed, blurred>>

\* What a call does once its record is written: the tool embeds in the background unless it was
\* told to remember, and then looks for duplicates; the settings only embed.
Follows(w, m) ==
  /\ LET pc == IF writes[w].by = "tool" /\ writes[w].sync THEN "waiting" ELSE "done"
     IN writes' = [writes EXCEPT ![w] = [NewCall EXCEPT !.pc = pc, !.id = m]]
  /\ embeds' = [embeds EXCEPT ![w] = [pc |-> "computing", id |-> m]]
  /\ LET scansNow == writes[w].by = "tool" /\ ~writes[w].sync
     IN scans' = [scans EXCEPT ![w].pc = IF scansNow THEN "computing" ELSE @]

CreateRecord(w) ==
  /\ writes[w].pc = "inserting"
  /\ memories' = [memories EXCEPT ![w] = [NoMemory EXCEPT !.status = "active", !.text = w,
                                                       !.title = writes[w].title]]
  /\ Follows(w, w)
  /\ UNCHANGED <<column, asked, crossed, blurred>>

------------------------------------------------------------------------------
\* The tool updates a record whatever its status is; the settings look once whether it is active.
BeginUpdate(w, m) ==
  /\ writes[w].pc = "new" /\ memories[m].status # "none"
  /\ \/ \E sync \in BOOLEAN :
          writes' = [writes EXCEPT ![w] = [NewCall EXCEPT !.pc = "found", !.id = m, !.sync = sync]]
     \/ /\ m \in Active
        /\ writes' = [writes EXCEPT ![w] = [NewCall EXCEPT !.pc = "found", !.id = m, !.by = "settings"]]
  /\ UNCHANGED <<memories, column, embeds, scans, asked, crossed, blurred>>

\* Mutant: the vector of the old text stays until the new one is there.
KeepVector(row, w) == [row EXCEPT !.status = "active", !.text = w, !.title = writes[w].title]
NewContent(row, w) ==
  [row EXCEPT !.status = "active", !.text = w, !.title = writes[w].title, !.vector = NoMemoryText]

Embedding(m) == {v \in Writes : embeds[v].pc # "idle" /\ embeds[v].id = m}
Busy(m) == Embedding(m) # {} \/ \E v \in Writes : writes[v].pc = "clearing" /\ writes[v].id = m

UpdateContent(w) ==
  /\ writes[w].pc = "found" /\ Reaches(w, "clearing")
  /\ memories' = [memories EXCEPT ![writes[w].id] = NewContent(@, w)]
  /\ blurred' = blurred \cup {m \in {writes[w].id} : Busy(m)}
  /\ UNCHANGED <<column, embeds, scans, asked, crossed>>

\* The column is not known to Prisma: it is cleared by a statement whose failure is ignored.
ClearColumn(w) ==
  /\ writes[w].pc = "clearing" /\ Follows(w, writes[w].id)
  /\ \/ column' = [column EXCEPT ![writes[w].id] = NoMemoryText] /\ UNCHANGED blurred
     \/ blurred' = blurred \cup {writes[w].id} /\ UNCHANGED column
  /\ UNCHANGED <<memories, asked, crossed>>

\* delete: the tool only deletes what is active; the settings do not look.
BeginForget(w, m) ==
  /\ writes[w].pc = "new" /\ memories[m].status # "none"
  /\ writes' = [writes EXCEPT ![w].pc = "deleting", ![w].id = m]
  /\ asked' = TRUE
  /\ UNCHANGED <<memories, column, embeds, scans, crossed, blurred>>

SoftDelete(w) ==
  /\ writes[w].pc = "deleting" /\ Reaches(w, "expiring")
  /\ memories' = [memories EXCEPT ![writes[w].id].status = "expired", ![writes[w].id].vector = NoMemoryText]
  /\ UNCHANGED <<column, embeds, scans, asked, crossed, blurred>>

ClearDeleted(w) ==
  /\ writes[w].pc = "expiring" /\ Reaches(w, "done")
  /\ column' \in {column, [column EXCEPT ![writes[w].id] = NoMemoryText]}
  /\ UNCHANGED <<memories, embeds, scans, asked, crossed, blurred>>

------------------------------------------------------------------------------
\* embedRecord(): the row is set whatever happened to it meanwhile, and then the column.
SaveEmbedding(w) ==
  /\ embeds[w].pc = "computing" /\ embeds' = [embeds EXCEPT ![w].pc = "column"]
  /\ memories' = [memories EXCEPT ![embeds[w].id].vector = w]
  /\ UNCHANGED <<column, writes, scans, asked, crossed, blurred>>

EmbeddingFails(w) ==
  /\ embeds[w].pc = "computing" /\ embeds' = [embeds EXCEPT ![w].pc = "clear"]
  /\ memories' = [memories EXCEPT ![embeds[w].id].vector = NoMemoryText]
  /\ UNCHANGED <<column, writes, scans, asked, crossed, blurred>>

\* A call that waited for its embedding goes on to its scan.
SetColumn(w) ==
  /\ embeds[w].pc \in {"column", "clear"} /\ embeds' = [embeds EXCEPT ![w] = NoEmbedding]
  /\ LET text == IF embeds[w].pc = "column" THEN w ELSE NoMemoryText
     IN column' \in {column, [column EXCEPT ![embeds[w].id] = text]}
  /\ IF writes[w].pc = "waiting"
     THEN Reaches(w, "done") /\ scans' = [scans EXCEPT ![w].pc = "computing"]
     ELSE UNCHANGED <<writes, scans>>
  /\ UNCHANGED <<memories, asked, crossed, blurred>>

\* The record a call has written, and whether the call has not finished its scan.
Keeper(w) == writes[w].id
ToScan(w) == writes[w].pc \in {"clearing", "waiting"} \/ scans[w].pc # "idle"

\* Mutant: the record that was just written is not left out.
EveryDuplicate(w) == Embedded
Duplicates(w) == Embedded \ {Keeper(w)}

\* supersedeNearDuplicates(): a vector that cannot be computed ends the scan.
ScanDuplicates(w) ==
  /\ scans[w].pc = "computing"
  /\ \E victims \in {{}, Duplicates(w)} :
       scans' = [scans EXCEPT ![w].pc = IF victims = {} THEN "idle" ELSE "marking",
                              ![w].victims = victims]
  /\ UNCHANGED <<memories, column, writes, embeds, asked, crossed, blurred>>

MarkSuperseded(w, m) ==
  /\ scans[w].pc = "marking" /\ m \in scans[w].victims
  /\ memories' = [memories EXCEPT ![m].status = "superseded"]
  /\ LET rest == scans[w].victims \ {m}
     IN scans' = [scans EXCEPT ![w].pc = IF rest = {} THEN "idle" ELSE @, ![w].victims = rest]
  /\ crossed' = (crossed \/ \E v \in Writes \ {w} : Keeper(v) = m /\ ToScan(v))
  /\ UNCHANGED <<column, writes, embeds, asked, blurred>>

MemNext == \E w \in Writes :
  \/ BeginRemember(w) \/ BeginRememberFromSettings(w) \/ Compare(w) \/ CountActive(w) \/ CreateRecord(w)
  \/ UpdateContent(w) \/ ClearColumn(w) \/ SoftDelete(w) \/ ClearDeleted(w)
  \/ SaveEmbedding(w) \/ EmbeddingFails(w) \/ SetColumn(w) \/ ScanDuplicates(w)
  \/ \E m \in Records : BeginUpdate(w, m) \/ BeginForget(w, m) \/ MarkSuperseded(w, m)

MemSpec == MemInit /\ [][MemNext]_memVars

------------------------------------------------------------------------------
MemTypeOK ==
  /\ \A m \in Records : /\ memories[m].status \in {"none", "active", "superseded", "expired"}
                       /\ {memories[m].vector, column[m]} \subseteq Records \cup {NoMemoryText}
  /\ \A w \in Writes : embeds[w].pc # "idle" => embeds[w].id \in Records

\* What a user told is not forgotten (memory.service.ts supersedeNearDuplicates, memory.repository.ts
\* markSuperseded): of the records of one fact one stays active, whatever is updated, superseded and
\* revived, unless a deletion was asked for or a call that had yet to scan lost the record it wrote.
FactIsKept ==
  (\E m \in Records : memories[m].status # "none") => Active # {} \/ asked \/ crossed

\* A memory is found by what it says (memory.repository.ts updateContent, saveEmbedding;
\* memory.retriever.service.ts): a record that the search returns and the gate lets pass was
\* embedded from its present text, unless it was rewritten during an embedding or not cleared.
FoundByItsText == \A m \in Retrievable \ blurred : column[m] = memories[m].text
==============================================================================
