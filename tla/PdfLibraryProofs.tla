-------------------------- MODULE PdfLibraryProofs --------------------------
(***************************************************************************)
(* The invariants of PdfLibrary for any users, files, documents, batches,  *)
(* requests, crashes and sweeps.                                           *)
(***************************************************************************)
EXTENDS PdfLibrary, FiniteSetTheorems, TLAPS

(* No two rows are for one file of one user.                               *)
RowsDistinct ==
    \A i, j \in Used : doc[i].user = doc[j].user /\ doc[i].file = doc[j].file => i = j

(* A key without a row has no pages.                                       *)
EmptyKeys == \A i \in Id \ Used : pages[i] = << >>

(* The key that a task remembers is that of its own document: the row is   *)
(* there, and the key was not given out again.                             *)
Holds(f) == task[f] # None /\ task[f].pc # "queued" /\ task[f].id \in Used \ recycled

(* A task that still holds its document knows what state it is in, and has *)
(* indexed the batches before its own.                                     *)
TaskInv ==
    \A f \in File :
        /\ task[f] # None =>
              /\ task[f].batch \in 1..MaxBatches
              /\ task[f].pc # "indexing" => task[f].batch = 1
        /\ Holds(f) =>
              /\ doc[task[f].id].user = task[f].user
              /\ doc[task[f].id].file = f
              /\ doc[task[f].id].status = IF task[f].pc = "parsing" THEN "pending" ELSE "ready"
              /\ \A b \in 1..MaxBatches : b < task[f].batch =>
                    \E v \in vector : v.id = task[f].id /\ v.batch = b

(* A vector is of the document whose key it carries.                       *)
VectorInv ==
    \A v \in vector : v.id \in Used \ recycled =>
        doc[v.id].user = v.user /\ doc[v.id].file = v.file

(* A tool reads and answers with the file that it was asked for.           *)
Faithful(r) ==
    /\ r.pc # "idle" => r.file \in File
    /\ r.pc = "reading" =>
          /\ r.id \in Id
          /\ recycled = {} /\ r.id \in Used => doc[r.id].file = r.file
    /\ r.pc \in {"asked", "waiting", "found", "reading"} => r.pages = << >>
    /\ r.pc = "answered" => r.pages \in {<< >>, <<r.file>>} \/ recycled # {}

ReaderInv == \A u \in User : Faithful(reader[u])

IInv ==
    /\ TypeOK /\ RowsDistinct /\ EmptyKeys /\ TaskInv /\ VectorInv /\ ReaderInv
    /\ ReadyIsWhole /\ IndexedUnless

-----------------------------------------------------------------------------
LEMMA IdleIsReader == Idle \in Reader
<1>1. << >> \in Seq(File)  OBVIOUS
<1> QED  BY <1>1 DEF Idle, Reader

LEMMA InitHolds == Init => IInv
<1> SUFFICES ASSUME Init  PROVE IInv  OBVIOUS
<1> USE PdfAssumption, NoneApart DEF Init
<1>1. Used = {}  BY DEF Used
<1>2. TypeOK
  <2>1. pages \in [Id -> Seq(File)]
    <3>1. << >> \in Seq(File)  OBVIOUS
    <3> QED  BY <3>1
  <2>2. reader \in [User -> Reader]  BY IdleIsReader
  <2>3. doc \in [Id -> Document \cup {None}] /\ task \in [File -> Task \cup {None}]  OBVIOUS
  <2>4. vector \in SUBSET Vector /\ \A f \in File : task[f] = None  OBVIOUS
  <2>5. asks \in 0..MaxAsks /\ crashes \in 0..MaxCrashes /\ sweeps \in 0..MaxSweeps
        BY DEF PdfAssumption
  <2>6. sweeping \in BOOLEAN /\ recycled \in SUBSET Id /\ unindexed \in SUBSET Id
        OBVIOUS
  <2> HIDE DEF Init
  <2> QED  BY <2>1, <2>2, <2>3, <2>4, <2>5, <2>6 DEF TypeOK
<1>3. TaskInv /\ VectorInv  BY DEF TaskInv, VectorInv, Holds
<1>4. ReaderInv  BY DEF ReaderInv, Faithful, Idle
<1>5. RowsDistinct /\ EmptyKeys /\ ReadyIsWhole /\ IndexedUnless
      BY <1>1 DEF RowsDistinct, EmptyKeys, ReadyIsWhole, IndexedUnless
<1> QED  BY <1>2, <1>3, <1>4, <1>5 DEF IInv

(* What a tool does concerns itself alone.                                 *)
LEMMA ReaderKeeps ==
    ASSUME IInv, NEW u \in User, NEW r \in Reader, Faithful(r),
           reader' = [reader EXCEPT ![u] = r],
           UNCHANGED <<doc, pages, vector, task, recycled, unindexed, sweeping, crashes, sweeps>>,
           asks' \in 0..MaxAsks
    PROVE  IInv'
<1> USE DEF IInv
<1>1. Used' = Used  BY DEF Used
<1>2. TypeOK'  BY DEF TypeOK
<1>3. ReaderInv'  BY <1>1 DEF TypeOK, ReaderInv, Faithful
<1>4. RowsDistinct' /\ EmptyKeys' /\ ReadyIsWhole' /\ IndexedUnless'
      BY <1>1 DEF RowsDistinct, EmptyKeys, ReadyIsWhole, IndexedUnless
<1>5. TaskInv' /\ VectorInv'  BY <1>1 DEF TaskInv, VectorInv, Holds
<1> QED  BY <1>2, <1>3, <1>4, <1>5

LEMMA AskKeeps ==
    ASSUME IInv, NEW u \in User, NEW f \in File, Ask(u, f)
    PROVE  IInv'
<1> DEFINE r == [Idle EXCEPT !.pc = "asked", !.file = f, !.ready = HasStatus(u, f, "ready")]
<1>1. r \in Reader /\ Faithful(r)
  <2>1. HasStatus(u, f, "ready") \in BOOLEAN  BY DEF HasStatus
  <2>2. << >> \in Seq(File)  OBVIOUS
  <2> QED  BY <2>1, <2>2 DEF Idle, Reader, Faithful
<1>2. reader' = [reader EXCEPT ![u] = r]  BY DEF Ask
<1>3. asks' \in 0..MaxAsks  BY PdfAssumption DEF Ask, IInv, TypeOK
<1> QED  BY <1>1, <1>2, <1>3, ReaderKeeps DEF Ask, store, history

(* A step of a waiting or reading tool gives it a new place and no more.   *)
LEMMA ReadingKeeps ==
    ASSUME IInv, NEW u \in User,
           Found(u) \/ Reread(u) \/ Read(u) \/ Outline(u) \/ TellError(u) \/ TimeOut(u)
    PROVE  IInv'
<1> USE DEF store, history, spent
<1>1. /\ reader[u] \in Reader /\ Faithful(reader[u])
      /\ reader \in [User -> Reader]
  BY DEF IInv, TypeOK, ReaderInv
<1>2. /\ UNCHANGED <<doc, pages, vector, task, recycled, unindexed, sweeping, crashes, sweeps>>
      /\ asks' \in 0..MaxAsks
  BY DEF Found, Reread, Read, Outline, TellError, TimeOut, IInv, TypeOK
<1>3. reader[u].pc # "idle" /\ reader[u].file \in File
  BY <1>1 DEF Found, Reread, Read, Outline, TellError, TimeOut, Faithful
<1>4. ASSUME NEW p \in {"found", "answered", "told"},
             reader' = [reader EXCEPT ![u].pc = p],
             reader[u].pc \in {"waiting", "found"}
      PROVE  IInv'
  <2> DEFINE r == [reader[u] EXCEPT !.pc = p]
  <2>1. r \in Reader /\ Faithful(r)  BY <1>1, <1>3, <1>4 DEF Reader, Faithful
  <2>2. reader' = [reader EXCEPT ![u] = r]  BY <1>4
  <2> QED  BY <1>2, <2>1, <2>2, ReaderKeeps
<1>5. ASSUME NEW s \in Seq(File), NEW i \in Id \cup {0},
             reader' = [reader EXCEPT ![u] = [@ EXCEPT !.pc = "answered", !.id = i, !.pages = s]],
             s \in {<< >>, <<reader[u].file>>} \/ recycled # {}
      PROVE  IInv'
  <2> DEFINE r == [reader[u] EXCEPT !.pc = "answered", !.id = i, !.pages = s]
  <2>1. r \in Reader /\ Faithful(r)  BY <1>1, <1>3, <1>5 DEF Reader, Faithful
  <2>2. reader' = [reader EXCEPT ![u] = r]  BY <1>5
  <2> QED  BY <1>2, <2>1, <2>2, ReaderKeeps
<1>6. CASE Found(u) \/ TellError(u)  BY <1>4, <1>6 DEF Found, TellError
<1>7. CASE Outline(u) \/ TimeOut(u)
  <2>1. CASE reader' = [reader EXCEPT ![u].pc = "told"]
        BY <1>4, <1>7, <2>1 DEF Outline, TimeOut
  <2>2. CASE reader' = [reader EXCEPT ![u].pc = "answered", ![u].pages = <<reader[u].file>>]
    <3>1. <<reader[u].file>> \in Seq(File)  BY <1>3
    <3>2. reader[u].id \in Id \cup {0}  BY <1>1 DEF Reader
    <3>3. reader' = [reader EXCEPT ![u] = [@ EXCEPT !.pc = "answered", !.id = reader[u].id,
                                                    !.pages = <<reader[u].file>>]]
          BY <1>1, <2>2 DEF Reader
    <3> QED  BY <1>5, <3>1, <3>2, <3>3
  <2> QED  BY <1>7, <2>1, <2>2 DEF Outline, TimeOut
<1>8. CASE Reread(u)
  <2>1. CASE reader' = [reader EXCEPT ![u].pc = "answered"]
        BY <1>4, <1>8, <2>1 DEF Reread
  <2>2. ASSUME NEW i \in Row(u, reader[u].file),
               reader' = [reader EXCEPT ![u].pc = "reading", ![u].id = i]
        PROVE  IInv'
    <3> DEFINE r == [reader[u] EXCEPT !.pc = "reading", !.id = i]
    <3>1. i \in Id /\ doc[i].file = reader[u].file  BY DEF Row
    <3>2. reader[u].pages = << >>  BY <1>1, <1>8 DEF Reread, Faithful
    <3>3. r \in Reader /\ Faithful(r)  BY <1>1, <1>3, <3>1, <3>2 DEF Reader, Faithful
    <3>4. reader' = [reader EXCEPT ![u] = r]  BY <2>2
    <3> QED  BY <1>2, <3>3, <3>4, ReaderKeeps
  <2> QED  BY <1>8, <2>1, <2>2 DEF Reread
<1>9. CASE Read(u)
  <2>1. reader[u].id \in Id /\ pages[reader[u].id] \in Seq(File)
        BY <1>1, <1>9 DEF Read, Faithful, IInv, TypeOK
  <2>2. pages[reader[u].id] \in {<< >>, <<reader[u].file>>} \/ recycled # {}
    <3>1. CASE reader[u].id \in Used
          BY <1>1, <1>9, <3>1 DEF Read, Faithful, IInv, ReadyIsWhole
    <3>2. CASE reader[u].id \notin Used
          BY <2>1, <3>2 DEF IInv, EmptyKeys
    <3> QED  BY <3>1, <3>2
  <2>3. reader' = [reader EXCEPT ![u] = [@ EXCEPT !.pc = "answered", !.id = 0,
                                                  !.pages = pages[reader[u].id]]]
        BY <1>9 DEF Read
  <2> QED  BY <1>5, <2>1, <2>2, <2>3
<1> QED  BY <1>6, <1>7, <1>8, <1>9

(* A file that nobody is at work on gets a task.                           *)
LEMMA ScheduleKeeps ==
    ASSUME IInv, NEW u \in User, Schedule(u)
    PROVE  IInv'
<1> DEFINE r == [reader[u] EXCEPT !.pc = "waiting", !.ready = FALSE]
           f == reader[u].file
           New == [pc |-> "queued", user |-> u, id |-> 0, batch |-> 1]
<1>1. reader[u] \in Reader /\ Faithful(reader[u])  BY DEF IInv, TypeOK, ReaderInv
<1>2. f \in File /\ r \in Reader /\ Faithful(r)  BY <1>1 DEF Schedule, Reader, Faithful
<1>3. reader' = [reader EXCEPT ![u] = r]  BY DEF Schedule
<1>4. CASE UNCHANGED task
  <2>1. asks' \in 0..MaxAsks  BY DEF Schedule, spent, IInv, TypeOK
  <2> QED  BY <1>2, <1>3, <1>4, <2>1, ReaderKeeps DEF Schedule, store, history, spent
<1>5. ASSUME task[f] = None, task' = [task EXCEPT ![f] = New]
      PROVE  IInv'
  <2> USE DEF IInv
  <2>1. UNCHANGED <<doc, pages, vector, recycled, unindexed, sweeping, asks, crashes, sweeps>>
        BY DEF Schedule, store, history, spent
  <2>2. New \in Task /\ New # None  BY NoneApart DEF Task
  <2>3. Used' = Used  BY <2>1 DEF Used
  <2>4. task \in [File -> Task \cup {None}] /\ task' \in [File -> Task \cup {None}]
        BY <1>2, <1>5, <2>2 DEF TypeOK
  <2>5. /\ task'[f].pc = "queued" /\ task'[f].batch = 1
        /\ \A g \in File \ {f} : task'[g] = task[g]
        BY <1>2, <1>5, <2>4
  <2> HIDE DEF New
  <2>6. TypeOK'  BY <1>2, <1>3, <2>1, <2>4, <2>5 DEF TypeOK
  <2>7. ReaderInv'  BY <1>2, <1>3, <2>1, <2>3 DEF TypeOK, ReaderInv, Faithful
  <2>8. TaskInv'  BY PdfAssumption, <2>1, <2>3, <2>5 DEF TaskInv, Holds
  <2>9. IndexedUnless'  BY <1>5, <2>1, <2>3, <2>5 DEF IndexedUnless
  <2> QED  BY <2>1, <2>3, <2>6, <2>7, <2>8, <2>9
           DEF RowsDistinct, EmptyKeys, VectorInv, ReadyIsWhole
<1> QED  BY <1>4, <1>5 DEF Schedule, NewTask

-----------------------------------------------------------------------------
(* What a task knows of itself.                                            *)
LEMMA TaskTyped ==
    ASSUME IInv, NEW f \in File, task[f] # None
    PROVE  /\ task[f] \in Task /\ task[f].batch \in 1..MaxBatches
           /\ task[f].pc # "queued" => task[f].id \in Id
           /\ task[f].pc # "indexing" => task[f].batch = 1
  BY DEF IInv, TypeOK, TaskInv

(* A task that ends leaves its document complete, or marks it as one that  *)
(* is not indexed.                                                         *)
LEMMA EndKeeps ==
    ASSUME IInv, NEW f \in File, task[f] # None, Ends(f),
           UNCHANGED <<doc, pages, vector, reader, recycled, sweeping, asks, crashes, sweeps>>,
           \/ unindexed' = unindexed /\ task[f].pc # "indexing"
           \/ unindexed' = unindexed \cup {task[f].id} /\ task[f].pc = "indexing"
    PROVE  IInv'
<1> USE DEF IInv
<1>1. Used' = Used  BY DEF Used
<1>2. task'[f] = None /\ \A g \in File \ {f} : task'[g] = task[g]  BY DEF Ends, TypeOK
<1>3. unindexed \subseteq unindexed' /\ unindexed' \subseteq Id
      BY TaskTyped DEF TypeOK
<1>4. TypeOK'  BY <1>2, <1>3 DEF TypeOK, Ends
<1>5. RowsDistinct' /\ EmptyKeys' /\ VectorInv' /\ ReadyIsWhole' /\ ReaderInv'
      BY <1>1 DEF RowsDistinct, EmptyKeys, VectorInv, ReadyIsWhole, ReaderInv, Faithful
<1>6. TaskInv'  BY <1>1, <1>2 DEF TaskInv, Holds
<1>7. IndexedUnless'
  <2> SUFFICES ASSUME NEW i \in Used \ (recycled \cup unindexed'), doc[i].status = "ready"
               PROVE  \/ \E g \in File : /\ task'[g] # None /\ task'[g].pc = "indexing"
                                         /\ task'[g].id = i
                      \/ \A b \in 1..MaxBatches : \E v \in vector : v.id = i /\ v.batch = b
      BY <1>1 DEF IndexedUnless
  <2>1. CASE \A b \in 1..MaxBatches : \E v \in vector : v.id = i /\ v.batch = b
        BY <2>1
  <2>2. ASSUME NEW g \in File, task[g] # None, task[g].pc = "indexing", task[g].id = i
        PROVE  g # f
        BY <2>2
  <2> QED  BY <1>2, <1>3, <2>1, <2>2 DEF IndexedUnless
<1> QED  BY <1>4, <1>5, <1>6, <1>7

(* Tasks that are at the indexing go on with it when another begins.       *)
LEMMA BusyStay ==
    ASSUME NEW f \in File, task[f].pc = "queued",
           \A g \in File \ {f} : task'[g] = task[g]
    PROVE  \A g \in File : task[g] # None /\ task[g].pc = "indexing" => task'[g] = task[g]
  OBVIOUS

(* A task that comes to hold a pending document; the others keep theirs.   *)
LEMMA TaskInvByOne ==
    ASSUME IInv, NEW f \in File, NEW i \in Id,
           task'[f] # None /\ task'[f].pc = "parsing" /\ task'[f].id = i /\ task'[f].batch = 1,
           doc'[i].user = task'[f].user /\ doc'[i].file = f /\ doc'[i].status = "pending",
           \A g \in File \ {f} : task'[g] = task[g],
           \A g \in File \ {f} : Holds(g)' => Holds(g) /\ doc'[task[g].id] = doc[task[g].id],
           UNCHANGED vector
    PROVE  TaskInv'
<1> USE DEF IInv, TaskInv
<1>1. ASSUME NEW g \in File, task'[g] # None
      PROVE  task'[g].batch \in 1..MaxBatches /\ (task'[g].pc # "indexing" => task'[g].batch = 1)
      BY <1>1, PdfAssumption DEF PdfAssumption
<1>2. ASSUME NEW g \in File, Holds(g)'
      PROVE  /\ doc'[task'[g].id].user = task'[g].user
             /\ doc'[task'[g].id].file = g
             /\ doc'[task'[g].id].status = IF task'[g].pc = "parsing" THEN "pending" ELSE "ready"
             /\ \A b \in 1..MaxBatches : b < task'[g].batch =>
                   \E v \in vector' : v.id = task'[g].id /\ v.batch = b
  <2>1. CASE g = f  BY <2>1
  <2>2. CASE g # f  BY <1>2, <2>2
  <2> QED  BY <2>1, <2>2
<1> QED  BY <1>1, <1>2

LEMMA BeginKeeps ==
    ASSUME IInv, NEW f \in File, Begin(f)
    PROVE  IInv'
<1> DEFINE u == task[f].user
<1> USE DEF IInv
<1>1. task[f] # None /\ task[f].pc = "queued" /\ task[f] \in Task /\ task[f].batch = 1
      BY TaskTyped DEF Begin
<1>2. u \in User  BY <1>1 DEF Task
<1>3. UNCHANGED <<pages, vector, reader, unindexed, sweeping, asks, crashes, sweeps>>
      BY DEF Begin, spent
<1>4. ASSUME NEW i \in Id, task' = [task EXCEPT ![f].pc = "parsing", ![f].id = i]
      PROVE  /\ task'[f] # None /\ task'[f].pc = "parsing" /\ task'[f].id = i
             /\ task'[f].user = u /\ task'[f].batch = 1
             /\ \A g \in File \ {f} : task'[g] = task[g]
             /\ task' \in [File -> Task \cup {None}]
  <2> DEFINE t == [task[f] EXCEPT !.pc = "parsing", !.id = i]
  <2>1. t \in Task /\ t.pc = "parsing" /\ t.id = i /\ t.user = u /\ t.batch = 1
        BY <1>1 DEF Task
  <2>2. task' = [task EXCEPT ![f] = t]  BY <1>4
  <2>3. t # None  BY <2>1, NoneApart
  <2> HIDE DEF t
  <2> QED  BY <2>1, <2>2, <2>3 DEF TypeOK
<1>5. ASSUME Row(u, f) = {}, NEW i \in Id, IsNewId(i),
             doc' = [doc EXCEPT ![i] = [user |-> u, file |-> f, status |-> "pending", old |-> FALSE]],
             task' = [task EXCEPT ![f].pc = "parsing", ![f].id = i],
             recycled' = IF Held(i) THEN recycled \cup {i} ELSE recycled
      PROVE  IInv'
  <2> DEFINE d == [user |-> u, file |-> f, status |-> "pending", old |-> FALSE]
  <2>1. i \notin Used /\ pages[i] = << >>
    <3>1. \A j \in Used : j \in Nat /\ j < i  BY <1>5 DEF IsNewId, Used, Id
    <3>2. i \notin Used  BY <3>1
    <3> QED  BY <3>2 DEF EmptyKeys
  <2>2. d \in Document /\ d # None
    <3>1. d \in Document  BY <1>2 DEF Document
    <3> HIDE DEF d
    <3> QED  BY <3>1, NoneApart
  <2>3. doc'[i] = d /\ \A j \in Id \ {i} : doc'[j] = doc[j]  BY <1>5 DEF TypeOK
  <2>4. Used' = Used \cup {i}  BY <2>2, <2>3 DEF Used
  <2>5. d.user = u /\ d.file = f /\ d.status = "pending"  OBVIOUS
  <2>6. doc' \in [Id -> Document \cup {None}]  BY <1>5, <2>2 DEF TypeOK
  <2> HIDE DEF d
  <2>7. recycled \subseteq recycled' /\ recycled' \subseteq recycled \cup {i}  BY <1>5
  <2>8. i \notin recycled' =>
           /\ \A g \in File : task[g] # None => task[g].id # i
           /\ \A w \in User : reader[w].id # i
           /\ \A v \in vector : v.id # i
        BY <1>5 DEF Held
  <2>9. TypeOK'  BY <1>3, <1>4, <1>5, <2>6, <2>7 DEF TypeOK
  <2>10. RowsDistinct'
    <3>1. \A j \in Used : ~ (doc[j].user = u /\ doc[j].file = f)
          BY <1>5 DEF Row, Used
    <3> QED  BY <2>1, <2>3, <2>4, <2>5, <3>1 DEF RowsDistinct, Used
  <2>11. EmptyKeys'  BY <1>3, <2>4 DEF EmptyKeys
  <2>12. \A j \in Used : doc'[j] = doc[j]  BY <2>1, <2>3 DEF Used
  <2>13. VectorInv'  BY <1>3, <2>4, <2>7, <2>8, <2>12 DEF VectorInv
  <2>14. ReaderInv'
    <3>1. recycled' = {} => recycled = {} /\ \A w \in User : reader[w].id # i
          BY <2>7, <2>8
    <3>2. recycled # {} => recycled' # {}  BY <2>7
    <3> QED  BY <1>3, <2>4, <2>12, <3>1, <3>2 DEF ReaderInv, Faithful
  <2>begun. /\ task'[f] # None /\ task'[f].pc = "parsing" /\ task'[f].id = i
         /\ task'[f].user = u /\ task'[f].batch = 1
         /\ \A g \in File \ {f} : task'[g] = task[g]
         BY <1>4, <1>5
  <2>busy. \A g \in File : task[g] # None /\ task[g].pc = "indexing" => task'[g] = task[g]
         BY <1>1, <2>begun, BusyStay
  <2>15. ReadyIsWhole'
         BY <1>3, <2>1, <2>3, <2>4, <2>5, <2>7, <2>12 DEF ReadyIsWhole
  <2>16. IndexedUnless'
    <3>1. \A j \in Used' \ (recycled' \cup unindexed') : doc'[j].status = "ready" =>
             j \in Used \ (recycled \cup unindexed) /\ doc[j].status = "ready"
          BY <1>3, <2>3, <2>4, <2>5, <2>7, <2>12
    <3> QED  BY <1>3, <2>begun, <2>busy, <3>1 DEF IndexedUnless
  <2>17. TaskInv'
    <3>1. ASSUME NEW g \in File \ {f}, Holds(g)'
          PROVE  Holds(g) /\ task[g].id # i
          BY <1>4, <1>5, <2>4, <2>7, <2>8, <3>1 DEF Holds
    <3>2. ASSUME NEW g \in File \ {f}, Holds(g)'
          PROVE  doc'[task[g].id] = doc[task[g].id]
          BY <2>12, <3>1, <3>2 DEF Holds
    <3>3. doc'[i].user = u /\ doc'[i].file = f /\ doc'[i].status = "pending"  BY <2>3, <2>5
    <3> HIDE DEF IInv
    <3> QED  BY <1>3, <2>begun, <3>1, <3>2, <3>3, TaskInvByOne
  <2> QED  BY <2>9, <2>10, <2>11, <2>13, <2>14, <2>15, <2>16, <2>17
<1>6. ASSUME NEW i \in Row(u, f), doc[i].status # "ready",
             doc' = [doc EXCEPT ![i].status = "pending"],
             task' = [task EXCEPT ![f].pc = "parsing", ![f].id = i],
             UNCHANGED recycled
      PROVE  IInv'
  <2> DEFINE d == [doc[i] EXCEPT !.status = "pending"]
  <2>1. i \in Id /\ i \in Used /\ doc[i].user = u /\ doc[i].file = f /\ doc[i] \in Document
        BY DEF Row, Used, TypeOK
  <2>2. d \in Document /\ d.user = u /\ d.file = f /\ d.status = "pending"
        BY <2>1 DEF Document
  <2>3. d # None  BY <2>2, NoneApart
  <2>4. doc' = [doc EXCEPT ![i] = d]  BY <1>6
  <2> HIDE DEF d
  <2>5. doc'[i] = d /\ \A j \in Id \ {i} : doc'[j] = doc[j]  BY <2>1, <2>4 DEF TypeOK
  <2>6. Used' = Used  BY <2>1, <2>3, <2>5 DEF Used
  <2>7. \A j \in Used : doc'[j].user = doc[j].user /\ doc'[j].file = doc[j].file
        BY <2>1, <2>2, <2>5 DEF Used
  <2>8. TypeOK'
    <3>1. doc' \in [Id -> Document \cup {None}]  BY <2>1, <2>2, <2>4 DEF TypeOK
    <3> QED  BY <1>3, <1>4, <1>6, <2>1, <3>1 DEF TypeOK
  <2>9. RowsDistinct' /\ EmptyKeys' /\ VectorInv' /\ ReaderInv'
        BY <1>3, <1>6, <2>6, <2>7 DEF RowsDistinct, EmptyKeys, VectorInv, ReaderInv, Faithful
  <2>10. ReadyIsWhole'
         BY <1>3, <1>6, <2>1, <2>2, <2>5, <2>6 DEF ReadyIsWhole, Used
  <2>begun. /\ task'[f] # None /\ task'[f].pc = "parsing" /\ task'[f].id = i
         /\ task'[f].user = u /\ task'[f].batch = 1
         /\ \A g \in File \ {f} : task'[g] = task[g]
         BY <1>4, <1>6, <2>1
  <2>busy. \A g \in File : task[g] # None /\ task[g].pc = "indexing" => task'[g] = task[g]
         BY <1>1, <2>begun, BusyStay
  <2>11. IndexedUnless'
    <3>1. \A j \in Used' \ (recycled' \cup unindexed') : doc'[j].status = "ready" =>
             j \in Used \ (recycled \cup unindexed) /\ doc[j].status = "ready"
          BY <1>3, <1>6, <2>1, <2>2, <2>5, <2>6 DEF Used
    <3> QED  BY <1>3, <2>begun, <2>busy, <3>1 DEF IndexedUnless
  <2>12. TaskInv'
    <3>1. ASSUME NEW g \in File \ {f}, Holds(g)'
          PROVE  Holds(g) /\ doc'[task[g].id] = doc[task[g].id]
      <4>1. Holds(g)  BY <1>4, <1>6, <2>1, <2>6, <3>1 DEF Holds
      <4>2. task[g].id # i  BY <2>1, <4>1 DEF TaskInv
      <4> QED  BY <2>5, <4>1, <4>2 DEF Holds, Used
    <3>2. doc'[i].user = u /\ doc'[i].file = f /\ doc'[i].status = "pending"
          BY <2>1, <2>2, <2>5
    <3> HIDE DEF IInv
    <3> QED  BY <1>3, <2>1, <2>begun, <3>1, <3>2, TaskInvByOne
  <2> QED  BY <2>8, <2>9, <2>10, <2>11, <2>12
<1>7. CASE Ends(f) /\ UNCHANGED <<doc, recycled>>
      BY <1>1, <1>3, <1>7, EndKeeps
<1> QED  BY <1>5, <1>6, <1>7 DEF Begin

(* The pages of a document that is still the task's own are stored once:   *)
(* it is pending, so that there are none yet.                              *)
LEMMA StoreKeeps ==
    ASSUME IInv, NEW f \in File, Store(f)
    PROVE  IInv'
<1> DEFINE i == task[f].id
<1> USE DEF IInv
<1>1. /\ task[f] # None /\ task[f].pc = "parsing" /\ task[f] \in Task /\ task[f].batch = 1
      /\ i \in Id
      BY TaskTyped DEF Store
<1>2. UNCHANGED <<vector, reader, recycled, unindexed, sweeping, asks, crashes, sweeps>>
      BY DEF Store, history, spent
<1>3. CASE doc[i] = None
      BY <1>1, <1>2, <1>3, EndKeeps DEF Store
<1>4. CASE doc[i] # None
  <2> DEFINE d == [doc[i] EXCEPT !.status = "ready"]
             t == [task[f] EXCEPT !.pc = "indexing"]
  <2>1. i \in Used /\ doc[i] \in Document  BY <1>1, <1>4 DEF Used, TypeOK
  <2>2. d \in Document /\ d.user = doc[i].user /\ d.file = doc[i].file /\ d.status = "ready"
        BY <2>1 DEF Document
  <2>3. t \in Task /\ t.pc = "indexing" /\ t.id = i /\ t.user = task[f].user /\ t.batch = 1
        BY <1>1 DEF Task
  <2>4. /\ doc' = [doc EXCEPT ![i] = d] /\ task' = [task EXCEPT ![f] = t]
        /\ pages' = [pages EXCEPT ![i] = Append(@, f)]
        BY <1>4 DEF Store
  <2> HIDE DEF d, t
  <2>5. d # None /\ t # None  BY <2>2, <2>3, NoneApart
  <2>6. doc'[i] = d /\ \A j \in Id \ {i} : doc'[j] = doc[j]  BY <1>1, <2>4 DEF TypeOK
  <2>7. task'[f] = t /\ \A g \in File \ {f} : task'[g] = task[g]  BY <2>4 DEF TypeOK
  <2>8. pages'[i] = Append(pages[i], f) /\ \A j \in Id \ {i} : pages'[j] = pages[j]
        BY <1>1, <2>4 DEF TypeOK
  <2>9. Used' = Used  BY <2>1, <2>5, <2>6 DEF Used
  <2>10. \A j \in Used : doc'[j].user = doc[j].user /\ doc'[j].file = doc[j].file
         BY <2>1, <2>2, <2>6 DEF Used
  <2>11. i \notin recycled => /\ doc[i].user = task[f].user /\ doc[i].file = f
                              /\ doc[i].status = "pending" /\ pages[i] = << >>
    <3>1. i \notin recycled => Holds(f)  BY <1>1, <2>1 DEF Holds
    <3>2. i \notin recycled => /\ doc[i].user = task[f].user /\ doc[i].file = f
                               /\ doc[i].status = "pending"
          BY <1>1, <3>1 DEF TaskInv
    <3> QED  BY <2>1, <3>2 DEF ReadyIsWhole
  <2>12. TypeOK'
    <3>1. Append(pages[i], f) \in Seq(File)  BY <1>1 DEF TypeOK
    <3>2. pages' \in [Id -> Seq(File)]  BY <2>4, <3>1 DEF TypeOK
    <3>3. doc' \in [Id -> Document \cup {None}] /\ task' \in [File -> Task \cup {None}]
          BY <2>2, <2>3, <2>4 DEF TypeOK
    <3> QED  BY <1>1, <1>2, <2>3, <2>7, <3>2, <3>3 DEF TypeOK
  <2>13. RowsDistinct' /\ VectorInv' /\ ReaderInv'
         BY <1>2, <2>9, <2>10 DEF RowsDistinct, VectorInv, ReaderInv, Faithful
  <2>14. EmptyKeys'  BY <2>1, <2>8, <2>9 DEF EmptyKeys
  <2>15. ReadyIsWhole'
    <3>1. i \notin recycled => pages'[i] = <<doc'[i].file>>
      <4>1. Append(<< >>, f) = <<f>>  OBVIOUS
      <4>2. i \notin recycled => pages[i] = << >> /\ doc'[i].file = f  BY <2>2, <2>6, <2>11
      <4>3. i \notin recycled => pages'[i] = <<f>>
        <5> HIDE DEF i
        <5> QED  BY <2>8, <4>1, <4>2, Zenon
      <4> QED  BY <4>2, <4>3
    <3> QED  BY <1>2, <2>2, <2>6, <2>8, <2>9, <3>1 DEF ReadyIsWhole, Used
  <2>16. IndexedUnless'
    <3>1. \A j \in Used' \ (recycled' \cup unindexed') : doc'[j].status = "ready" /\ j # i =>
             j \in Used \ (recycled \cup unindexed) /\ doc[j].status = "ready"
          BY <1>2, <2>6, <2>9 DEF Used
    <3>2. \A g \in File : task[g] # None /\ task[g].pc = "indexing" => task'[g] = task[g]
          BY <1>1, <2>7
    <3> QED  BY <1>2, <2>3, <2>5, <2>7, <3>1, <3>2 DEF IndexedUnless
  <2>17. TaskInv'
    <3>1. ASSUME NEW g \in File \ {f}, Holds(g)'
          PROVE  Holds(g) /\ doc'[task[g].id] = doc[task[g].id]
      <4>1. Holds(g)  BY <1>2, <2>7, <2>9, <3>1 DEF Holds
      <4>2. task[g].id # i  BY <2>11, <4>1 DEF TaskInv, Holds
      <4> QED  BY <2>6, <4>1, <4>2 DEF Holds, Used
    <3>2. ASSUME NEW g \in File, task'[g] # None
          PROVE  task'[g].batch \in 1..MaxBatches /\ (task'[g].pc # "indexing" => task'[g].batch = 1)
          BY <2>3, <2>7, <3>2, PdfAssumption DEF TaskInv, PdfAssumption
    <3>3. ASSUME Holds(f)'
          PROVE  doc'[i].user = task[f].user /\ doc'[i].file = f /\ doc'[i].status = "ready"
          BY <1>2, <2>2, <2>3, <2>6, <2>7, <2>11, <3>3 DEF Holds
    <3>4. ASSUME NEW g \in File, Holds(g)'
          PROVE  /\ doc'[task'[g].id].user = task'[g].user
                 /\ doc'[task'[g].id].file = g
                 /\ doc'[task'[g].id].status = IF task'[g].pc = "parsing" THEN "pending" ELSE "ready"
                 /\ \A b \in 1..MaxBatches : b < task'[g].batch =>
                       \E v \in vector' : v.id = task'[g].id /\ v.batch = b
      <4>1. CASE g = f  BY <2>3, <2>7, <3>3, <3>4, <4>1, PdfAssumption DEF PdfAssumption
      <4>2. CASE g # f  BY <1>2, <2>7, <3>1, <3>4, <4>2 DEF TaskInv
      <4> QED  BY <4>1, <4>2
    <3> QED  BY <3>2, <3>4 DEF TaskInv
  <2> QED  BY <2>12, <2>13, <2>14, <2>15, <2>16, <2>17
<1> QED  BY <1>3, <1>4

LEMMA ParseFailsKeeps ==
    ASSUME IInv, NEW f \in File, ParseFails(f)
    PROVE  IInv'
<1> DEFINE i == task[f].id
<1> USE DEF IInv
<1>1. /\ task[f] # None /\ task[f].pc = "parsing" /\ task[f] \in Task /\ i \in Id
      BY TaskTyped DEF ParseFails
<1>2. UNCHANGED <<pages, vector, reader, recycled, unindexed, sweeping, asks, crashes, sweeps>>
      /\ Ends(f)
      BY DEF ParseFails, history, spent
<1>3. CASE doc[i] = None
      BY <1>1, <1>2, <1>3, EndKeeps DEF ParseFails
<1>4. CASE doc[i] # None
  <2> DEFINE d == [doc[i] EXCEPT !.status = "error"]
  <2>1. i \in Used /\ doc[i] \in Document  BY <1>1, <1>4 DEF Used, TypeOK
  <2>2. d \in Document /\ d.user = doc[i].user /\ d.file = doc[i].file /\ d.status = "error"
        BY <2>1 DEF Document
  <2>3. doc' = [doc EXCEPT ![i] = d]  BY <1>4 DEF ParseFails
  <2> HIDE DEF d
  <2>4. d # None  BY <2>2, NoneApart
  <2>5. doc'[i] = d /\ \A j \in Id \ {i} : doc'[j] = doc[j]  BY <1>1, <2>3 DEF TypeOK
  <2>6. task'[f] = None /\ \A g \in File \ {f} : task'[g] = task[g]  BY <1>2 DEF Ends, TypeOK
  <2>7. Used' = Used  BY <2>1, <2>4, <2>5 DEF Used
  <2>8. \A j \in Used : doc'[j].user = doc[j].user /\ doc'[j].file = doc[j].file
        BY <2>1, <2>2, <2>5 DEF Used
  <2>9. i \notin recycled => /\ doc[i].file = f /\ pages[i] = << >>
        BY <1>1, <2>1 DEF TaskInv, Holds, ReadyIsWhole
  <2>10. TypeOK'
    <3>1. doc' \in [Id -> Document \cup {None}]  BY <2>2, <2>3 DEF TypeOK
    <3>2. task' \in [File -> Task \cup {None}]  BY <1>2 DEF Ends, TypeOK
    <3> QED  BY <1>2, <2>6, <3>1, <3>2 DEF TypeOK
  <2>11. RowsDistinct' /\ EmptyKeys' /\ VectorInv' /\ ReaderInv'
         BY <1>2, <2>7, <2>8 DEF RowsDistinct, EmptyKeys, VectorInv, ReaderInv, Faithful
  <2>12. ReadyIsWhole'  BY <1>2, <2>2, <2>5, <2>7, <2>9 DEF ReadyIsWhole, Used
  <2>13. IndexedUnless'
    <3>1. \A j \in Used' \ (recycled' \cup unindexed') : doc'[j].status = "ready" =>
             j \in Used \ (recycled \cup unindexed) /\ doc[j].status = "ready"
          BY <1>2, <2>2, <2>5, <2>7 DEF Used
    <3>2. \A g \in File : task[g] # None /\ task[g].pc = "indexing" => task'[g] = task[g]
          BY <1>1, <2>6
    <3> QED  BY <1>2, <3>1, <3>2 DEF IndexedUnless
  <2>14. TaskInv'
    <3>1. ASSUME NEW g \in File \ {f}, Holds(g)'
          PROVE  Holds(g) /\ doc'[task[g].id] = doc[task[g].id]
      <4>1. Holds(g)  BY <1>2, <2>6, <2>7, <3>1 DEF Holds
      <4>2. task[g].id # i  BY <2>9, <4>1 DEF TaskInv, Holds
      <4> QED  BY <2>5, <4>1, <4>2 DEF Holds, Used
    <3>2. ~ Holds(f)'  BY <2>6 DEF Holds
    <3> QED  BY <1>2, <2>6, <3>1, <3>2 DEF TaskInv
  <2> QED  BY <2>10, <2>11, <2>12, <2>13, <2>14
<1> QED  BY <1>3, <1>4

(* A batch is indexed: its vectors carry the key, the user and the file of *)
(* the document, and with the last of them the index is complete.          *)
LEMMA IndexKeeps ==
    ASSUME IInv, NEW f \in File, Index(f)
    PROVE  IInv'
<1> DEFINE i == task[f].id
           b == task[f].batch
           v == [id |-> i, user |-> task[f].user, file |-> f, batch |-> b]
<1> USE DEF IInv
<1>1. /\ task[f] # None /\ task[f].pc = "indexing" /\ task[f] \in Task
      /\ i \in Id /\ b \in 1..MaxBatches
      BY TaskTyped DEF Index
<1>2. UNCHANGED <<doc, pages, reader, recycled, unindexed, sweeping, asks, crashes, sweeps>>
      BY DEF Index, history, spent
<1>3. vector' = vector \cup {v}  BY DEF Index
<1>4. v \in Vector /\ v.id = i /\ v.user = task[f].user /\ v.file = f /\ v.batch = b
      BY <1>1 DEF Task, Vector
<1> HIDE DEF v
<1>5. Used' = Used  BY <1>2 DEF Used
<1>6. i \in Used \ recycled => Holds(f)  BY <1>1 DEF Holds
<1>7. i \in Used \ recycled => doc[i].user = task[f].user /\ doc[i].file = f
      BY <1>6 DEF TaskInv
<1>8. RowsDistinct' /\ EmptyKeys' /\ ReadyIsWhole' /\ ReaderInv'
      BY <1>2, <1>5 DEF RowsDistinct, EmptyKeys, ReadyIsWhole, ReaderInv, Faithful
<1>9. VectorInv'  BY <1>2, <1>3, <1>4, <1>5, <1>7 DEF VectorInv
<1>10. \A g \in File \ {f} : task'[g] = task[g]  BY DEF Index, Ends, TypeOK
<1>11. vector' \in SUBSET Vector  BY <1>3, <1>4 DEF TypeOK
<1>12. CASE b = MaxBatches
  <2>1. Ends(f) /\ task'[f] = None  BY <1>12 DEF Index, Ends, TypeOK
  <2>2. TypeOK'
    <3>1. task' \in [File -> Task \cup {None}]  BY <2>1 DEF Ends, TypeOK
    <3> QED  BY <1>2, <1>10, <1>11, <2>1, <3>1 DEF TypeOK
  <2>3. TaskInv'
    <3>1. \A g \in File \ {f} : Holds(g)' => Holds(g)
          BY <1>2, <1>5, <1>10 DEF Holds
    <3>2. ~ Holds(f)'  BY <2>1 DEF Holds
    <3> QED  BY <1>2, <1>3, <1>10, <2>1, <3>1, <3>2 DEF TaskInv
  <2>4. ASSUME i \in Used \ recycled, NEW c \in 1..MaxBatches
        PROVE  \E w \in vector' : w.id = i /\ w.batch = c
    <3>1. CASE c = b  BY <1>3, <1>4, <3>1
    <3>2. CASE c # b
      <4>1. c < b  BY <1>12, <3>2, PdfAssumption DEF PdfAssumption
      <4> QED  BY <1>3, <1>6, <2>4, <4>1 DEF TaskInv
    <3> QED  BY <3>1, <3>2
  <2>5. IndexedUnless'
    <3> SUFFICES ASSUME NEW j \in Used \ (recycled \cup unindexed), doc[j].status = "ready"
                 PROVE  \/ \E g \in File : /\ task'[g] # None /\ task'[g].pc = "indexing"
                                           /\ task'[g].id = j
                        \/ \A c \in 1..MaxBatches : \E w \in vector' : w.id = j /\ w.batch = c
        BY <1>2, <1>5 DEF IndexedUnless
    <3>1. CASE j = i  BY <2>4, <3>1
    <3>2. CASE j # i
      <4>1. ASSUME NEW g \in File, task[g] # None, task[g].pc = "indexing", task[g].id = j
            PROVE  task'[g] = task[g]
            BY <1>10, <3>2, <4>1
      <4> QED  BY <1>3, <4>1 DEF IndexedUnless
    <3> QED  BY <3>1, <3>2
  <2> QED  BY <1>8, <1>9, <2>2, <2>3, <2>5
<1>13. CASE b # MaxBatches
  <2> DEFINE t == [task[f] EXCEPT !.batch = b + 1]
  <2>1. b + 1 \in 1..MaxBatches /\ b + 1 \in Nat
        BY <1>1, <1>13, PdfAssumption DEF PdfAssumption
  <2>2. /\ t \in Task /\ t.pc = "indexing" /\ t.id = i /\ t.user = task[f].user
        /\ t.batch = b + 1
        BY <1>1, <2>1 DEF Task
  <2>3. task' = [task EXCEPT ![f] = t]  BY <1>13 DEF Index
  <2> HIDE DEF t
  <2>4. t # None /\ task'[f] = t  BY <2>2, <2>3, NoneApart DEF TypeOK
  <2>5. TypeOK'
    <3>1. task' \in [File -> Task \cup {None}]  BY <2>2, <2>3 DEF TypeOK
    <3> QED  BY <1>1, <1>2, <1>10, <1>11, <2>2, <2>4, <3>1 DEF TypeOK
  <2>6. ASSUME Holds(f), NEW c \in 1..MaxBatches, c < b + 1
        PROVE  \E w \in vector' : w.id = i /\ w.batch = c
    <3>1. CASE c = b  BY <1>3, <1>4, <3>1
    <3>2. CASE c # b
      <4>1. c < b  BY <1>1, <2>6, <3>2, PdfAssumption DEF PdfAssumption
      <4> QED  BY <1>3, <2>6, <4>1 DEF TaskInv
    <3> QED  BY <3>1, <3>2
  <2>7. TaskInv'
    <3>1. \A g \in File : Holds(g)' => Holds(g)
          BY <1>1, <1>2, <1>5, <1>10, <2>2, <2>4 DEF Holds
    <3>2. ASSUME NEW g \in File, task'[g] # None
          PROVE  task'[g].batch \in 1..MaxBatches /\ (task'[g].pc # "indexing" => task'[g].batch = 1)
          BY <1>10, <2>1, <2>2, <2>4, <3>2 DEF TaskInv
    <3>3. ASSUME NEW g \in File, Holds(g)'
          PROVE  /\ doc'[task'[g].id].user = task'[g].user
                 /\ doc'[task'[g].id].file = g
                 /\ doc'[task'[g].id].status = IF task'[g].pc = "parsing" THEN "pending" ELSE "ready"
                 /\ \A c \in 1..MaxBatches : c < task'[g].batch =>
                       \E w \in vector' : w.id = task'[g].id /\ w.batch = c
      <4>1. Holds(g)  BY <3>1, <3>3
      <4>2. CASE g = f
        <5>1. doc[i].user = task[f].user /\ doc[i].file = f /\ doc[i].status = "ready"
              BY <1>1, <4>1, <4>2 DEF TaskInv
        <5> QED  BY <1>2, <2>2, <2>4, <2>6, <4>1, <4>2, <5>1
      <4>3. CASE g # f  BY <1>2, <1>3, <1>10, <4>1, <4>3 DEF TaskInv
      <4> QED  BY <4>2, <4>3
    <3> QED  BY <3>2, <3>3 DEF TaskInv
  <2>8. IndexedUnless'
    <3>1. ASSUME NEW g \in File, task[g] # None, task[g].pc = "indexing"
          PROVE  task'[g] # None /\ task'[g].pc = "indexing" /\ task'[g].id = task[g].id
          BY <1>10, <2>2, <2>4, <3>1
    <3> QED  BY <1>2, <1>3, <1>5, <3>1 DEF IndexedUnless
  <2> QED  BY <1>8, <1>9, <2>5, <2>7, <2>8
<1> QED  BY <1>12, <1>13

LEMMA IndexFailsKeeps ==
    ASSUME IInv, NEW f \in File, IndexFails(f)
    PROVE  IInv'
  BY EndKeeps DEF IndexFails, store, spent

LEMMA DieKeeps ==
    ASSUME IInv, NEW f \in File, Die(f)
    PROVE  IInv'
  BY EndKeeps DEF Die, store, history, spent

-----------------------------------------------------------------------------
LEMMA AgeKeeps ==
    ASSUME IInv, NEW i \in Id, Age(i)
    PROVE  IInv'
<1> DEFINE d == [doc[i] EXCEPT !.old = TRUE]
<1> USE DEF IInv
<1>1. UNCHANGED <<pages, vector, task, reader, recycled, unindexed, sweeping, asks, crashes, sweeps>>
      BY DEF Age, history, spent
<1>2. i \in Used /\ doc[i] \in Document  BY DEF Age, Used, TypeOK
<1>3. /\ d \in Document /\ d.user = doc[i].user /\ d.file = doc[i].file
      /\ d.status = doc[i].status
      BY <1>2 DEF Document
<1>4. doc' = [doc EXCEPT ![i] = d]  BY DEF Age
<1> HIDE DEF d
<1>5. d # None  BY <1>3, NoneApart
<1>6. doc'[i] = d /\ \A j \in Id \ {i} : doc'[j] = doc[j]  BY <1>4 DEF TypeOK
<1>7. Used' = Used  BY <1>2, <1>5, <1>6 DEF Used
<1>8. \A j \in Used : /\ doc'[j].user = doc[j].user /\ doc'[j].file = doc[j].file
                       /\ doc'[j].status = doc[j].status
      BY <1>2, <1>3, <1>6 DEF Used
<1>9. TypeOK'
  <2>1. doc' \in [Id -> Document \cup {None}]  BY <1>3, <1>4 DEF TypeOK
  <2> QED  BY <1>1, <2>1 DEF TypeOK
<1>10. RowsDistinct' /\ EmptyKeys' /\ VectorInv' /\ ReaderInv'
       BY <1>1, <1>7, <1>8 DEF RowsDistinct, EmptyKeys, VectorInv, ReaderInv, Faithful
<1>11. ReadyIsWhole' /\ IndexedUnless'
       BY <1>1, <1>7, <1>8 DEF ReadyIsWhole, IndexedUnless
<1>12. TaskInv'
  <2>1. \A g \in File : Holds(g)' <=> Holds(g)  BY <1>1, <1>7 DEF Holds
  <2>2. \A g \in File : Holds(g) => task[g].id \in Used  BY DEF Holds
  <2> QED  BY <1>1, <1>8, <2>1, <2>2 DEF TaskInv
<1> QED  BY <1>9, <1>10, <1>11, <1>12

(* A key loses its row and its pages together, and its vectors later: who  *)
(* remembers it holds nothing, until the key is given out and recycled.    *)
LEMMA SweepDocumentsKeeps ==
    ASSUME IInv, SweepDocuments
    PROVE  IInv'
<1> DEFINE dead == {i \in Used : doc[i].old}
<1> USE DEF IInv
<1>1. UNCHANGED <<vector, task, reader, recycled, asks, crashes>>  BY DEF SweepDocuments
<1>2. Used' = Used \ dead  BY DEF SweepDocuments, Used
<1>3. \A j \in Used' : doc'[j] = doc[j] /\ pages'[j] = pages[j]
      BY <1>2 DEF SweepDocuments, Used
<1>4. \A j \in Id \ Used' : pages'[j] = << >>
      BY <1>2 DEF SweepDocuments, EmptyKeys
<1>5. unindexed' = unindexed \ dead  BY DEF SweepDocuments
<1>6. TypeOK'
  <2>1. doc' \in [Id -> Document \cup {None}]  BY DEF SweepDocuments, TypeOK
  <2>2. pages' \in [Id -> Seq(File)]
    <3>1. << >> \in Seq(File)  OBVIOUS
    <3> QED  BY <3>1 DEF SweepDocuments, TypeOK
  <2>3. sweeps' \in 0..MaxSweeps /\ sweeping' \in BOOLEAN
        BY PdfAssumption DEF PdfAssumption, SweepDocuments, TypeOK
  <2> QED  BY <1>1, <1>5, <2>1, <2>2, <2>3 DEF TypeOK
<1> HIDE DEF dead
<1>7. RowsDistinct' /\ EmptyKeys' /\ VectorInv' /\ ReadyIsWhole'
      BY <1>1, <1>2, <1>3, <1>4 DEF RowsDistinct, EmptyKeys, VectorInv, ReadyIsWhole
<1>8. ReaderInv'  BY <1>1, <1>2, <1>3 DEF ReaderInv, Faithful
<1>9. IndexedUnless'
  <2>1. Used' \ (recycled' \cup unindexed') \subseteq Used \ (recycled \cup unindexed)
        BY <1>1, <1>2, <1>5
  <2> QED  BY <1>1, <1>3, <2>1 DEF IndexedUnless
<1>10. TaskInv'
  <2>1. ASSUME NEW g \in File, Holds(g)'
        PROVE  Holds(g) /\ doc'[task[g].id] = doc[task[g].id]
        BY <1>1, <1>2, <1>3, <2>1 DEF Holds
  <2> QED  BY <1>1, <2>1 DEF TaskInv
<1> QED  BY <1>6, <1>7, <1>8, <1>9, <1>10

LEMMA SweepVectorsKeeps ==
    ASSUME IInv, SweepVectors
    PROVE  IInv'
<1> USE DEF IInv
<1>1. UNCHANGED <<doc, pages, task, reader, recycled, unindexed, asks, crashes, sweeps>>
      BY DEF SweepVectors, history
<1>2. Used' = Used  BY <1>1 DEF Used
<1>3. vector' \subseteq vector /\ \A v \in vector : v.id \in Used => v \in vector'
      BY DEF SweepVectors
<1>4. TypeOK'  BY <1>1, <1>3 DEF TypeOK, SweepVectors
<1>5. RowsDistinct' /\ EmptyKeys' /\ VectorInv' /\ ReadyIsWhole' /\ ReaderInv'
      BY <1>1, <1>2, <1>3
      DEF RowsDistinct, EmptyKeys, VectorInv, ReadyIsWhole, ReaderInv, Faithful
<1>6. TaskInv'
  <2>1. \A g \in File : Holds(g)' => Holds(g) /\ task[g].id \in Used  BY <1>1, <1>2 DEF Holds
  <2> QED  BY <1>1, <1>3, <2>1 DEF TaskInv
<1>7. IndexedUnless'  BY <1>1, <1>2, <1>3 DEF IndexedUnless
<1> QED  BY <1>4, <1>5, <1>6, <1>7

LEMMA SweepFailsKeeps ==
    ASSUME IInv, SweepFails
    PROVE  IInv'
<1> USE DEF IInv
<1>1. UNCHANGED <<doc, pages, vector, task, reader, recycled, unindexed, asks, crashes, sweeps>>
      BY DEF SweepFails, store, history
<1>2. Used' = Used  BY <1>1 DEF Used
<1>3. TypeOK'  BY <1>1 DEF TypeOK, SweepFails
<1>4. RowsDistinct' /\ EmptyKeys' /\ VectorInv' /\ ReadyIsWhole' /\ ReaderInv' /\ IndexedUnless'
      BY <1>1, <1>2
      DEF RowsDistinct, EmptyKeys, VectorInv, ReadyIsWhole, ReaderInv, Faithful, IndexedUnless
<1>5. TaskInv'  BY <1>1, <1>2 DEF TaskInv, Holds
<1> QED  BY <1>3, <1>4, <1>5

(* The process takes with it who remembers keys; what was at the indexing  *)
(* counts as broken off.                                                   *)
LEMMA CrashKeeps ==
    ASSUME IInv, Crash
    PROVE  IInv'
<1> USE DEF IInv
<1>1. UNCHANGED <<doc, pages, vector, recycled, asks, sweeps>>  BY DEF Crash, store
<1>2. Used' = Used  BY <1>1 DEF Used
<1>3. \A f \in File : task'[f] = None  BY DEF Crash
<1>4. \A u \in User : reader'[u] = Idle  BY DEF Crash
<1>5. TypeOK'
  <2>1. task' \in [File -> Task \cup {None}]  BY DEF Crash
  <2>2. reader' \in [User -> Reader]  BY IdleIsReader DEF Crash
  <2>3. crashes' \in 0..MaxCrashes
    <3>1. crashes \in 0..MaxCrashes /\ crashes < MaxCrashes /\ crashes' = crashes + 1
          BY DEF Crash, TypeOK
    <3> QED  BY <3>1, PdfAssumption DEF PdfAssumption
  <2>4. sweeping' \in BOOLEAN /\ unindexed' \in SUBSET Id  BY DEF Crash, TypeOK
  <2> QED  BY <1>1, <1>3, <2>1, <2>2, <2>3, <2>4 DEF TypeOK
<1>6. RowsDistinct' /\ EmptyKeys' /\ VectorInv' /\ ReadyIsWhole'
      BY <1>1, <1>2 DEF RowsDistinct, EmptyKeys, VectorInv, ReadyIsWhole
<1>7. ReaderInv'  BY <1>4 DEF ReaderInv, Faithful, Idle
<1>8. TaskInv'  BY <1>3 DEF TaskInv, Holds
<1>9. IndexedUnless'
  <2>1. ASSUME NEW i \in Id \ unindexed', NEW f \in File
        PROVE  i \notin unindexed /\ ~ (task[f] # None /\ task[f].pc = "indexing" /\ task[f].id = i)
        BY <2>1 DEF Crash
  <2>2. ASSUME NEW i \in Used \ (recycled \cup unindexed'), doc[i].status = "ready",
               NEW b \in 1..MaxBatches
        PROVE  \E v \in vector : v.id = i /\ v.batch = b
    <3>1. i \in Id \ unindexed'  BY DEF Used
    <3>2. i \in Used \ (recycled \cup unindexed)  BY <2>1, <3>1 DEF Crash
    <3>3. \A f \in File : ~ (task[f] # None /\ task[f].pc = "indexing" /\ task[f].id = i)
          BY <2>1, <3>1
    <3> QED  BY <2>2, <3>2, <3>3 DEF IndexedUnless
  <2> QED  BY <1>1, <1>2, <2>2 DEF IndexedUnless
<1> QED  BY <1>5, <1>6, <1>7, <1>8, <1>9

LEMMA StutterKeeps ==
    ASSUME IInv, UNCHANGED vars
    PROVE  IInv'
<1> USE DEF IInv, vars
<1>1. Used' = Used  BY DEF Used
<1>2. TypeOK' /\ RowsDistinct' /\ EmptyKeys' /\ VectorInv'
      BY <1>1 DEF TypeOK, RowsDistinct, EmptyKeys, VectorInv
<1>3. ReadyIsWhole' /\ ReaderInv' /\ IndexedUnless'
      BY <1>1 DEF ReadyIsWhole, ReaderInv, Faithful, IndexedUnless
<1>4. TaskInv'  BY <1>1 DEF TaskInv, Holds
<1> QED  BY <1>2, <1>3, <1>4

-----------------------------------------------------------------------------
LEMMA Invariance == Spec => []IInv
<1>1. ASSUME IInv, [Next]_vars  PROVE IInv'
  <2>1. CASE \E u \in User : ReaderStep(u)
        BY <1>1, <2>1, ReadingKeeps, ScheduleKeeps DEF ReaderStep
  <2>2. CASE \E u \in User : \E f \in File : Ask(u, f)
        BY <1>1, <2>2, AskKeeps
  <2>3. CASE \E f \in File : TaskStep(f)
        BY <1>1, <2>3, BeginKeeps, StoreKeeps, ParseFailsKeeps, IndexKeeps, IndexFailsKeeps,
           DieKeeps
        DEF TaskStep
  <2>4. CASE \E i \in Id : Age(i)  BY <1>1, <2>4, AgeKeeps
  <2>5. CASE SweepDocuments \/ SweepVectors \/ SweepFails \/ Crash
        BY <1>1, <2>5, SweepDocumentsKeeps, SweepVectorsKeeps, SweepFailsKeeps, CrashKeeps
  <2>6. CASE UNCHANGED vars  BY <1>1, <2>6, StutterKeeps
  <2> QED  BY <1>1, <2>1, <2>2, <2>3, <2>4, <2>5, <2>6 DEF Next
<1> QED  BY <1>1, InitHolds, PTL DEF Spec

(* The types; a task past its start remembers a key.                       *)
THEOREM TypeCorrect == Spec => []TypeOK
<1>1. IInv => TypeOK  BY DEF IInv
<1> QED  BY <1>1, Invariance, PTL

(* A document has its pages once it is ready, each once, and its index     *)
(* unless the indexing was broken off, and a user has one for a file,      *)
(* whatever the uploads of others, failures, repetitions, losses of the    *)
(* process and sweeps; only a recycled key is not vouched for.             *)
THEOREM DocumentsAreWholeHolds == Spec => []DocumentsAreWhole
<1>1. ASSUME IInv, NEW u \in User, NEW f \in File
      PROVE  Cardinality(Row(u, f)) <= 1
  <2>1. \A i, j \in Row(u, f) : i = j  BY <1>1 DEF IInv, RowsDistinct, Row, Used
  <2>2. CASE Row(u, f) = {}  BY <2>2, FS_EmptySet
  <2>3. ASSUME NEW i \in Row(u, f)  PROVE Cardinality(Row(u, f)) <= 1
    <3>1. Row(u, f) = {i}  BY <2>1
    <3>2. Cardinality({i}) = 1  BY FS_Singleton
    <3> QED  BY <3>1, <3>2
  <2> QED  BY <2>2, <2>3
<1>2. IInv => DocumentsAreWhole  BY <1>1 DEF IInv, DocumentsAreWhole, OneDocument
<1> QED  BY <1>2, Invariance, PTL

(* A tool answers with the pages of the file it was asked for, and what a  *)
(* search finds is a page of the user with its own text, or of a document  *)
(* that a sweep has just taken.                                            *)
THEOREM AnswersAreOwnHolds == Spec => []AnswersAreOwn
<1>1. ASSUME IInv, NEW u \in User, NEW hit \in Hits(u), doc[hit[1]] # None,
             hit[1] \notin recycled
      PROVE  doc[hit[1]].user = u /\ doc[hit[1]].file = hit[2]
  <2> USE <1>1 DEF IInv
  <2>1. CASE hit \in IndexHits(u)
    <3>1. PICK v \in vector : v.user = u /\ hit = <<v.id, v.file>>
          BY <2>1 DEF IndexHits
    <3>2. v.id \in Used \ recycled  BY <3>1 DEF Used, TypeOK, Vector
    <3> QED  BY <3>1, <3>2 DEF VectorInv
  <2>2. CASE hit \in ScanHits(u)
    <3>1. PICK i \in Used : /\ doc[i].user = u /\ doc[i].status = "ready"
                            /\ \E k \in DOMAIN pages[i] : hit = <<i, pages[i][k]>>
          BY <2>2 DEF ScanHits
    <3>2. PICK k \in DOMAIN pages[i] : hit = <<i, pages[i][k]>>  BY <3>1
    <3>3. pages[i] = <<doc[i].file>>  BY <3>1, <3>2 DEF ReadyIsWhole
    <3>4. pages[i][k] = doc[i].file  BY <3>2, <3>3
    <3> QED  BY <3>1, <3>2, <3>4
  <2> QED  BY <2>1, <2>2 DEF Hits
<1>2. ASSUME IInv, NEW u \in User, reader[u].pc = "answered"
      PROVE  reader[u].pages \in {<< >>, <<reader[u].file>>} \/ recycled # {}
      BY <1>2 DEF IInv, ReaderInv, Faithful
<1>3. IInv => AnswersAreOwn  BY <1>1, <1>2 DEF AnswersAreOwn
<1> QED  BY <1>3, Invariance, PTL
=============================================================================
