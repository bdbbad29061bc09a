----------------------------- MODULE PdfLibrary -----------------------------
(***************************************************************************)
(* runtime/pdf_store.py: documents that background tasks parse and index,  *)
(* the exchanges that hand them in and the tools that wait for them        *)
(* (plugins/tools/pdf_extract.py), and the retention sweep that deletes    *)
(* them (persistence/prune.py).                                            *)
(*                                                                         *)
(* The key of a document is a rowid without AUTOINCREMENT: SQLite gives a  *)
(* new row the highest key in use plus one, so that the key of a deleted   *)
(* row may come back under the hands of those who remember it.             *)
(***************************************************************************)
EXTENDS Naturals, Sequences, FiniteSets

CONSTANTS
    User,
    File,        \* what _file_key tells apart: the url, or a prefix of the bytes
    None,        \* no row, no task
    MaxId,       \* bound: documents at a time
    MaxAsks,     \* bound: files handed in
    MaxBatches,  \* bound: batches of pages a document is indexed in
    MaxCrashes,  \* bound: losses of the process
    MaxSweeps    \* bound: retention sweeps

ASSUME PdfAssumption ==
    /\ MaxId \in Nat \ {0} /\ MaxBatches \in Nat \ {0}
    /\ MaxAsks \in Nat /\ MaxCrashes \in Nat /\ MaxSweeps \in Nat

Id       == 1..MaxId
Document == [user : User, file : File,
             status : {"pending", "ready", "error"},
             old : BOOLEAN]                 \* ingested_at is before the cutoff
Task     == [pc : {"queued", "parsing", "indexing"},
             user : User, id : Id \cup {0}, batch : Nat]
Vector   == [id : Id, user : User, file : File, batch : 1..MaxBatches]
Reader   == [pc : {"idle", "asked", "waiting", "found", "reading", "answered", "told"},
             file : File \cup {None}, ready : BOOLEAN, id : Id \cup {0}, pages : Seq(File)]

ASSUME NoneApart == None \notin Document \cup Task \cup File

VARIABLES
    doc,       \* pdf_documents
    pages,     \* pdf_pages: for each key the files whose pages are filed there
    vector,    \* the rows of pdf_pages_vec, by the metadata they carry
    task,      \* _inflight: the task that was last started for a file, if it runs
    reader,    \* the exchange of each user: hands in a file, reads it with a tool
    sweeping,  \* a sweep is between the history database and its vectors
    recycled,  \* history: keys given to a new document while others held them
    unindexed, \* history: documents whose indexing was broken off
    asks, crashes, sweeps

vars == <<doc, pages, vector, task, reader, sweeping, recycled, unindexed, asks, crashes, sweeps>>

Row(u, f)  == {i \in Id : doc[i] # None /\ doc[i].user = u /\ doc[i].file = f}
Used       == {i \in Id : doc[i] # None}
HasStatus(u, f, s) == \E i \in Row(u, f) : doc[i].status = s

(* The key a new row gets: one past the highest in use.                    *)
IsNewId(i) == (\A j \in Used : j < i) /\ (i = 1 \/ i - 1 \in Used)

Idle == [pc |-> "idle", file |-> None, ready |-> FALSE, id |-> 0, pages |-> << >>]

(* The type of every variable; a task past its start has a document.       *)
TypeOK ==
    /\ doc \in [Id -> Document \cup {None}]
    /\ pages \in [Id -> Seq(File)]
    /\ vector \in SUBSET Vector
    /\ task \in [File -> Task \cup {None}]
    /\ reader \in [User -> Reader]
    /\ sweeping \in BOOLEAN
    /\ recycled \in SUBSET Id /\ unindexed \in SUBSET Id
    /\ asks \in 0..MaxAsks /\ crashes \in 0..MaxCrashes /\ sweeps \in 0..MaxSweeps
    /\ \A f \in File : task[f] # None /\ task[f].pc # "queued" => task[f].id \in Id

Init ==
    /\ doc = [i \in Id |-> None]
    /\ pages = [i \in Id |-> << >>]
    /\ vector = {}
    /\ task = [f \in File |-> None]
    /\ reader = [u \in User |-> Idle]
    /\ sweeping = FALSE
    /\ recycled = {} /\ unindexed = {}
    /\ asks = 0 /\ crashes = 0 /\ sweeps = 0

store   == <<doc, pages, vector>>
history == <<recycled, unindexed>>
spent   == <<sweeping, asks, crashes, sweeps>>

-----------------------------------------------------------------------------
(* ingest_async: the status is read, then the registry is looked at.       *)
Ask(u, f) ==
    /\ reader[u].pc \in {"idle", "answered", "told"}
    /\ reader' = [reader EXCEPT ![u] = [Idle EXCEPT !.pc = "asked", !.file = f,
                                               !.ready = HasStatus(u, f, "ready")]]
    /\ asks < MaxAsks /\ asks' = asks + 1
    /\ UNCHANGED <<store, task, history, sweeping, crashes, sweeps>>

NewTask(u) == [pc |-> "queued", user |-> u, id |-> 0, batch |-> 1]

Schedule(u) ==
    LET f == reader[u].file IN
    /\ reader[u].pc = "asked"
    /\ reader' = [reader EXCEPT ![u].pc = "waiting", ![u].ready = FALSE]
    /\ task' = IF reader[u].ready \/ task[f] # None THEN task
               ELSE [task EXCEPT ![f] = NewTask(u)]
    /\ UNCHANGED <<store, history, spent>>

-----------------------------------------------------------------------------
(* The background task: _ingest_in_background.                             *)
Ends(f) == task' = [task EXCEPT ![f] = None]

(* Those who remember a key: tasks, readers, the vectors of a dead row.    *)
Held(i) == \/ \E g \in File : task[g] # None /\ task[g].id = i
           \/ \E u \in User : reader[u].id = i
           \/ \E v \in vector : v.id = i

(* Mutants: the key is lost; a ready document is parsed again.             *)
Begin_NoKey(f) ==
    /\ task[f] # None /\ task[f].pc = "queued"
    /\ task' = [task EXCEPT ![f].pc = "parsing"]
    /\ UNCHANGED <<store, reader, history, spent>>

Begin_Again(f) ==
    /\ task[f] # None /\ task[f].pc = "queued"
    /\ \E i \in Id :
          /\ IF Row(task[f].user, f) = {} THEN IsNewId(i) ELSE i \in Row(task[f].user, f)
          /\ doc' = [doc EXCEPT ![i] = [user |-> task[f].user, file |-> f,
                                        status |-> "pending", old |-> FALSE]]
          /\ task' = [task EXCEPT ![f].pc = "parsing", ![f].id = i]
          /\ recycled' = IF Held(i) THEN recycled \cup {i} ELSE recycled
    /\ UNCHANGED <<pages, vector, reader, unindexed, spent>>

Begin(f) ==
    /\ task[f] # None /\ task[f].pc = "queued"
    /\ LET u == task[f].user IN
       \/ /\ Row(u, f) = {}
          /\ \E i \in Id :
                /\ IsNewId(i)
                /\ doc' = [doc EXCEPT ![i] = [user |-> u, file |-> f,
                                              status |-> "pending", old |-> FALSE]]
                /\ task' = [task EXCEPT ![f].pc = "parsing", ![f].id = i]
                /\ recycled' = IF Held(i) THEN recycled \cup {i} ELSE recycled
       \/ \E i \in Row(u, f) :
             /\ doc[i].status # "ready"
             /\ doc' = [doc EXCEPT ![i].status = "pending"]
             /\ task' = [task EXCEPT ![f].pc = "parsing", ![f].id = i]
             /\ UNCHANGED recycled
       \/ /\ HasStatus(u, f, "ready")
          /\ Ends(f)
          /\ UNCHANGED <<doc, recycled>>
    /\ UNCHANGED <<pages, vector, reader, unindexed, spent>>

(* _parse_pdf_sync succeeds: document and pages are one transaction.  A    *)
(* document that is gone is left alone.                                    *)
Store(f) ==
    /\ task[f] # None /\ task[f].pc = "parsing"
    /\ LET i == task[f].id IN
       IF doc[i] = None
       THEN Ends(f) /\ UNCHANGED <<doc, pages>>
       ELSE /\ doc' = [doc EXCEPT ![i].status = "ready"]
            /\ pages' = [pages EXCEPT ![i] = Append(@, f)]
            /\ task' = [task EXCEPT ![f].pc = "indexing"]
    /\ UNCHANGED <<vector, reader, history, spent>>

ParseFails(f) ==
    /\ task[f] # None /\ task[f].pc = "parsing"
    /\ LET i == task[f].id IN
       doc' = IF doc[i] = None THEN doc ELSE [doc EXCEPT ![i].status = "error"]
    /\ Ends(f)
    /\ UNCHANGED <<pages, vector, reader, history, spent>>

(* _index_pages_sync: a batch at a time, each committed on its own.        *)
Index(f) ==
    /\ task[f] # None /\ task[f].pc = "indexing"
    /\ vector' = vector \cup {[id |-> task[f].id, user |-> task[f].user,
                               file |-> f, batch |-> task[f].batch]}
    /\ IF task[f].batch = MaxBatches THEN Ends(f)
       ELSE task' = [task EXCEPT ![f].batch = @ + 1]
    /\ UNCHANGED <<doc, pages, reader, history, spent>>

IndexFails(f) ==
    /\ task[f] # None /\ task[f].pc = "indexing"
    /\ unindexed' = unindexed \cup {task[f].id}
    /\ Ends(f)
    /\ UNCHANGED <<store, reader, recycled, spent>>

(* A database call of the task raises: nothing catches it.                 *)
Die(f) ==
    /\ task[f] # None /\ task[f].pc \in {"queued", "parsing"}
    /\ Ends(f)
    /\ UNCHANGED <<store, reader, history, spent>>

-----------------------------------------------------------------------------
(* The tools: they poll the status until it is final, or give up.          *)
Found(u) ==
    /\ reader[u].pc = "waiting"
    /\ HasStatus(u, reader[u].file, "ready")
    /\ reader' = [reader EXCEPT ![u].pc = "found"]
    /\ UNCHANGED <<store, task, history, spent>>

(* Mutant: any document of the user will do.                               *)
Reread_Any(u) ==
    /\ reader[u].pc = "found"
    /\ \/ \E i \in Used :
             /\ doc[i].user = u /\ doc[i].status = "ready"
             /\ reader' = [reader EXCEPT ![u].pc = "reading", ![u].id = i]
       \/ reader' = [reader EXCEPT ![u].pc = "answered"]
    /\ UNCHANGED <<store, task, history, spent>>

(* get_pages asks for the status again, in a session of its own ...        *)
Reread(u) ==
    /\ reader[u].pc = "found"
    /\ \/ \E i \in Row(u, reader[u].file) :
             /\ doc[i].status = "ready"
             /\ reader' = [reader EXCEPT ![u].pc = "reading", ![u].id = i]
       \/ /\ ~ HasStatus(u, reader[u].file, "ready")
          /\ reader' = [reader EXCEPT ![u].pc = "answered"]
    /\ UNCHANGED <<store, task, history, spent>>

(* ... and for the pages by key in a third one.                            *)
Read(u) ==
    /\ reader[u].pc = "reading"
    /\ reader' = [reader EXCEPT ![u].pc = "answered", ![u].id = 0,
                                ![u].pages = pages[reader[u].id]]
    /\ UNCHANGED <<store, task, history, spent>>

(* get_pdf_outline needs the document row only.                            *)
Outline(u) ==
    /\ reader[u].pc = "waiting"
    /\ HasStatus(u, reader[u].file, "ready")
    /\ reader' = [reader EXCEPT ![u].pc = "answered", ![u].pages = <<reader[u].file>>]
    /\ UNCHANGED <<store, task, history, spent>>

TellError(u) ==
    /\ reader[u].pc = "waiting"
    /\ HasStatus(u, reader[u].file, "error")
    /\ reader' = [reader EXCEPT ![u].pc = "told"]
    /\ UNCHANGED <<store, task, history, spent>>

(* Mutant: the wait is for a document that exists, which times out alone.  *)
TimeOut_IfKnown(u) ==
    /\ reader[u].pc = "waiting" /\ Row(u, reader[u].file) # {}
    /\ reader' = [reader EXCEPT ![u].pc = "told"]
    /\ UNCHANGED <<store, task, history, spent>>

(* After thirty seconds pdf_extract parses the file itself, which may      *)
(* fail, and get_pdf_outline gives up.                                     *)
TimeOut(u) ==
    /\ reader[u].pc = "waiting"
    /\ \/ reader' = [reader EXCEPT ![u].pc = "answered", ![u].pages = <<reader[u].file>>]
       \/ reader' = [reader EXCEPT ![u].pc = "told"]
    /\ UNCHANGED <<store, task, history, spent>>

(* search: the pages near to the words, of anybody, and then those whose   *)
(* metadata name the user; when there is no index or it fails, the pages   *)
(* of the user's ready documents are looked through.  A hit is a key and   *)
(* the file that its text is from.                                         *)
IndexHits(u) == {<<v.id, v.file>> : v \in {x \in vector : x.user = u}}

ScanHits(u) ==
    UNION {{<<i, pages[i][k]>> : k \in DOMAIN pages[i]} :
              i \in {j \in Used : doc[j].user = u /\ doc[j].status = "ready"}}

Hits(u) == IndexHits(u) \cup ScanHits(u)

-----------------------------------------------------------------------------
(* Time passes: documents come to be older than the retention, whose unit  *)
(* is the day: no task lasts that long.  But a second attempt to ingest an *)
(* old one does not touch its ingested_at.                                 *)
Age(i) ==
    /\ doc[i] # None /\ ~ doc[i].old
    /\ \A f \in File : task[f] # None => task[f].id # i
    /\ doc' = [doc EXCEPT ![i].old = TRUE]
    /\ UNCHANGED <<pages, vector, task, reader, history, spent>>

(* prune_older_than: documents and their pages in one transaction.         *)
SweepDocuments ==
    LET dead == {i \in Used : doc[i].old} IN
    /\ ~ sweeping /\ sweeps < MaxSweeps
    /\ doc' = [i \in Id |-> IF i \in dead THEN None ELSE doc[i]]
    /\ pages' = [i \in Id |-> IF i \in dead THEN << >> ELSE pages[i]]
    /\ unindexed' = unindexed \ dead
    /\ sweeping' = TRUE
    /\ sweeps' = sweeps + 1
    /\ UNCHANGED <<vector, task, reader, recycled, asks, crashes>>

(* prune_history_vectors: the vectors without a document.                  *)
SweepVectors ==
    /\ sweeping
    /\ vector' = {v \in vector : v.id \in Used}
    /\ sweeping' = FALSE
    /\ UNCHANGED <<doc, pages, task, reader, history, asks, crashes, sweeps>>

(* The process is lost, or the sweep alone fails and waits for its next    *)
(* interval: what is in the database stays.                                *)
Crash ==
    /\ crashes < MaxCrashes
    /\ crashes' = crashes + 1
    /\ task' = [f \in File |-> None]
    /\ reader' = [u \in User |-> Idle]
    /\ sweeping' = FALSE
    /\ unindexed' = unindexed \cup
          {i \in Id : \E f \in File : task[f] # None /\ task[f].pc = "indexing" /\ task[f].id = i}
    /\ UNCHANGED <<store, recycled, asks, sweeps>>

SweepFails ==
    /\ sweeping
    /\ sweeping' = FALSE
    /\ UNCHANGED <<store, task, reader, history, asks, crashes, sweeps>>

TaskStep(f)   == Begin(f) \/ Store(f) \/ ParseFails(f) \/ Index(f) \/ IndexFails(f) \/ Die(f)
ReaderStep(u) == \/ Schedule(u) \/ Found(u) \/ Reread(u) \/ Read(u)
                 \/ Outline(u) \/ TellError(u) \/ TimeOut(u)

Next ==
    \/ \E u \in User : ReaderStep(u) \/ \E f \in File : Ask(u, f)
    \/ \E f \in File : TaskStep(f)
    \/ \E i \in Id : Age(i)
    \/ SweepDocuments \/ SweepVectors \/ SweepFails \/ Crash

(* The event loop runs tasks and tools; a parse ends, its requests have    *)
(* time limits.  Nobody has to hand in files.                              *)
Fairness ==
    /\ \A f \in File : WF_vars(TaskStep(f))
    /\ \A u \in User : WF_vars(ReaderStep(u))

Spec == Init /\ [][Next]_vars /\ Fairness

-----------------------------------------------------------------------------
(* A ready document has its own pages, once: whatever task comes late, is  *)
(* repeated after a failure or was cut off, unless its key was recycled.   *)
ReadyIsWhole ==
    \A i \in Used \ recycled :
        pages[i] = IF doc[i].status = "ready" THEN <<doc[i].file>> ELSE << >>

(* What a tool answers with are pages of the file it was asked for, each   *)
(* once, or none at all if a sweep came in between; what a search finds    *)
(* are pages of a document of the user, or of one that a sweep has taken   *)
(* and whose vectors it has not, with their own text.                      *)
AnswersAreOwn ==
    /\ \A u \in User : reader[u].pc = "answered" =>
          reader[u].pages \in {<< >>, <<reader[u].file>>} \/ recycled # {}
    /\ \A u \in User : \A hit \in Hits(u) :
          \/ doc[hit[1]] = None
          \/ doc[hit[1]].user = u /\ doc[hit[1]].file = hit[2]
          \/ hit[1] \in recycled

(* A user has one document for a file: the business key of the table.      *)
OneDocument == \A u \in User, f \in File : Cardinality(Row(u, f)) <= 1

(* A ready document without a task is indexed as a whole unless the        *)
(* indexing was broken off, which nothing ever repeats.                    *)
IndexedUnless ==
    \A i \in Used \ (recycled \cup unindexed) :
        doc[i].status = "ready" =>
            \/ \E f \in File : task[f] # None /\ task[f].pc = "indexing" /\ task[f].id = i
            \/ \A b \in 1..MaxBatches : \E v \in vector : v.id = i /\ v.batch = b

(* A document is what its row says: one for a user and a file, with its    *)
(* pages once it is ready, and the index of them all.                      *)
DocumentsAreWhole == ReadyIsWhole /\ OneDocument /\ IndexedUnless

(* Every tool call is answered, whatever happens to the ingestion: another *)
(* user's task may have taken its place, may die without a word or be lost *)
(* with the process, and a sweep may delete the row that is waited for.    *)
ReadersAnswered ==
    \A u \in User : reader[u].pc = "asked" ~> reader[u].pc \in {"idle", "answered", "told"}

(* ingest_async: "rows are user-scoped".                                   *)
PagesAreScoped ==
    \A i \in Used : \A k \in DOMAIN pages[i] : pages[i][k] = doc[i].file
=============================================================================
