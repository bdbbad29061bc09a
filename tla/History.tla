------------------------------- MODULE History -------------------------------
(***************************************************************************)
(* persistence/sqlite_store.py: the tables that many exchanges append to   *)
(* at once.  The messages of a conversation and the tool calls of a trace  *)
(* are logs whose entries are numbered by the store: append_message and    *)
(* record_tool_call (record_usage likewise) read the highest number and    *)
(* insert the next one, in a session of their own, under no lock and no    *)
(* unique constraint.  DELETE /v1/me and the retention sweep delete under  *)
(* them, each in one transaction.                                          *)
(*                                                                         *)
(* SQLite does not enforce the foreign keys of the schema (no connection   *)
(* sets PRAGMA foreign_keys), so what keeps a message and its conversation *)
(* together is the code.                                                   *)
(***************************************************************************)
EXTENDS Naturals, FiniteSets

CONSTANTS
    User, Conv, Trace,
    UserOf,     \* whose conversation or trace it is: the ids are UUIDs, which
                \* no two users share (append_message refuses it if they do)
    Writer,     \* calls of the store that may be under way at once
    None,       \* no row, no call
    MaxRows,    \* bound: entries ever inserted
    MaxClock    \* bound: the last time stamp

ASSUME HistoryAssumption ==
    /\ UserOf \in [Conv \cup Trace -> User]
    /\ MaxRows \in Nat /\ MaxClock \in Nat
    /\ Conv \cap Trace = {}

Log  == Conv \cup Trace
Id   == 1..MaxRows
Time == 0..MaxClock

Entry == [log : Log, seq : Nat, ts : Time,
          saw : SUBSET Id]     \* history: the entries of its log when the
                               \* append began
Call  == [log : Log, seq : Nat, saw : SUBSET Id,
          new : BOOLEAN,       \* the conversation has to be inserted, too
          at : Time]           \* the updated_at it will get

ASSUME NoneIsNone == None \notin Entry \cup Call \cup Time

VARIABLES
    clock,
    entry,     \* the rows of messages and tool_calls, by their key
    next,      \* the next key, never used again here, where SQLite may give
               \* that of a deleted row to a new one: the code does not look
    conv,      \* updated_at of the rows of conversations
    widgets,   \* widget_data: when its rows were ingested, whoever's they are
    found,     \* the calls that have read a conversation, and no number yet
    call,      \* the calls that have read and not yet committed
    split      \* history: conversations swept away while messages stayed

vars == <<clock, entry, next, conv, widgets, found, call, split>>

Used == {i \in Id : entry[i] # None}

(* The type of every variable; numbers stay below the count of entries.    *)
TypeOK ==
    /\ clock \in Time
    /\ entry \in [Id -> Entry \cup {None}]
    /\ next \in 1..(MaxRows + 1)
    /\ conv \in [Conv -> Time \cup {None}]
    /\ widgets \in SUBSET Time
    /\ found \in [Writer -> Conv \cup {None}]
    /\ call \in [Writer -> Call \cup {None}]
    /\ split \in SUBSET Conv
    /\ \A i \in Used : i < next /\ entry[i].seq < i

Init ==
    /\ clock = 0
    /\ entry = [i \in Id |-> None]
    /\ next = 1
    /\ conv = [c \in Conv |-> None]
    /\ widgets = {}
    /\ found = [w \in Writer |-> None] /\ call = [w \in Writer |-> None]
    /\ split = {}

-----------------------------------------------------------------------------
(* The entries of a log, which a call reads the highest number of.         *)
Peers(log) == {i \in Used : entry[i].log = log}

(* Mutant: counted instead of read off the highest.                        *)
IsNext_Counts(n, ids) == n = Cardinality(ids)

(* One past the highest number in use, zero in an empty log.               *)
IsNext(n, ids) ==
    /\ \A i \in ids : entry[i].seq < n
    /\ n = 0 \/ \E i \in ids : entry[i].seq = n - 1

Begin(w, log, n, new, ids) ==
    /\ call[w] = None
    /\ call' = [call EXCEPT ![w] = [log |-> log, seq |-> n, saw |-> ids,
                                    new |-> new, at |-> clock]]
    /\ UNCHANGED <<clock, entry, next, conv, widgets, split>>

(* append_message up to its commit: a conversation that does not exist     *)
(* starts at zero; of one that does the highest number is read next, when  *)
(* it may be gone.                                                         *)
Free(w) == found[w] = None /\ UNCHANGED found

ReadNewConv(w, c) ==
    /\ conv[c] = None
    /\ Free(w) /\ Begin(w, c, 0, TRUE, Peers(c))

ReadConv(w, c) ==
    /\ conv[c] # None
    /\ found[w] = None /\ call[w] = None
    /\ found' = [found EXCEPT ![w] = c]
    /\ UNCHANGED <<clock, entry, next, conv, widgets, call, split>>

ReadSeq(w) ==
    /\ found[w] # None
    /\ \E n \in 0..MaxRows : /\ IsNext(n, Peers(found[w]))
                             /\ Begin(w, found[w], n, FALSE, Peers(found[w]))
    /\ found' = [found EXCEPT ![w] = None]

(* record_tool_call up to its commit: a trace has no row to take care of.  *)
ReadTrace(w, t) ==
    /\ Free(w)
    /\ \E n \in 0..MaxRows : /\ IsNext(n, Peers(t))
                             /\ Begin(w, t, n, FALSE, Peers(t))

Insert(k) ==
    /\ next \in Id
    /\ entry' = [entry EXCEPT ![next] = [log |-> k.log, seq |-> k.seq,
                                         ts |-> clock, saw |-> k.saw]]
    /\ next' = next + 1

(* Mutant: updated_at is left alone, so nothing notices a missing row.     *)
Touch_Nothing(k) ==
    conv' = IF k.new THEN [conv EXCEPT ![k.log] = k.at] ELSE conv

(* The conversation is inserted, which fails if somebody else did so in    *)
(* the meantime, or its updated_at is set, which fails if it is gone: the  *)
(* UPDATE then matches no row and the session raises.                      *)
Touch(k) ==
    /\ k.new <=> conv[k.log] = None
    /\ conv' = [conv EXCEPT ![k.log] = k.at]

Commit(w) ==
    /\ call[w] # None
    /\ Insert(call[w])
    /\ IF call[w].log \in Conv THEN Touch(call[w]) ELSE UNCHANGED conv
    /\ call' = [call EXCEPT ![w] = None]
    /\ UNCHANGED <<clock, widgets, found, split>>

(* The commit raises, for one of the reasons above or because the database *)
(* stays locked, or the process dies: the session writes nothing.          *)
Fail(w) ==
    /\ call[w] # None \/ found[w] # None
    /\ call' = [call EXCEPT ![w] = None]
    /\ found' = [found EXCEPT ![w] = None]
    /\ UNCHANGED <<clock, entry, next, conv, widgets, split>>

(* widget_store.record: one insert.                                        *)
RecordWidget ==
    /\ widgets' = widgets \cup {clock}
    /\ UNCHANGED <<clock, entry, next, conv, found, call, split>>

-----------------------------------------------------------------------------
Without(ids) == [i \in Id |-> IF i \in ids THEN None ELSE entry[i]]

(* delete_user: the tables of _cascade_delete in one transaction.          *)
DeleteUser(u) ==
    /\ entry' = Without({i \in Used : UserOf[entry[i].log] = u})
    /\ conv' = [c \in Conv |-> IF UserOf[c] = u THEN None ELSE conv[c]]
    /\ UNCHANGED <<clock, next, widgets, found, call, split>>

(* prune_older_than: every table by its own time stamp, in one transaction.*)
PruneOlderThan(cutoff) ==
    LET old   == {i \in Used : entry[i].ts < cutoff}
        stale == {c \in Conv : conv[c] # None /\ conv[c] < cutoff}
    IN  /\ entry' = Without(old)
        /\ conv' = [c \in Conv |-> IF c \in stale THEN None ELSE conv[c]]
        /\ widgets' = {t \in widgets : t >= cutoff}
        /\ split' = split \cup {c \in stale : \E i \in Used \ old : entry[i].log = c}
        /\ UNCHANGED <<clock, next, found, call>>

Tick ==
    /\ clock < MaxClock
    /\ clock' = clock + 1
    /\ UNCHANGED <<entry, next, conv, widgets, found, call, split>>

Next ==
    \/ \E w \in Writer :
          \/ \E c \in Conv : ReadNewConv(w, c) \/ ReadConv(w, c)
          \/ ReadSeq(w)
          \/ \E t \in Trace : ReadTrace(w, t)
          \/ Commit(w) \/ Fail(w)
    \/ RecordWidget
    \/ \E u \in User : DeleteUser(u)
    \/ \E cutoff \in 0..clock : PruneOlderThan(cutoff)
    \/ Tick

Spec == Init /\ [][Next]_vars

-----------------------------------------------------------------------------
(* Mutant: the newest come first.                                          *)
Page_Newest(log, limit) ==
    {ids \in SUBSET Peers(log) :
        /\ Cardinality(ids) <= limit
        /\ Cardinality(ids) = limit \/ ids = Peers(log)
        /\ \A i \in ids, j \in Peers(log) \ ids : entry[i].seq >= entry[j].seq}

(* get_messages: what a reader may be shown of a log, the entries with the *)
(* least numbers, no more than the limit; which of two with one number     *)
(* comes first is left to the database.                                    *)
Page(log, limit) ==
    {ids \in SUBSET Peers(log) :
        /\ Cardinality(ids) <= limit
        /\ Cardinality(ids) = limit \/ ids = Peers(log)
        /\ \A i \in ids, j \in Peers(log) \ ids : entry[i].seq <= entry[j].seq}

(* An append that began after another one was committed gets the greater   *)
(* number, whatever was deleted in between: a question precedes its        *)
(* answer.  Only a sweep that separated a conversation from its messages   *)
(* lets the numbers start anew beside old ones.                            *)
LaterIsGreater ==
    \A i, j \in Used :
        i \in entry[j].saw => \/ entry[i].seq < entry[j].seq
                              \/ entry[j].log \in split

(* No message is left without its conversation, by appends that race with  *)
(* each other or with the deletion of their user, except by such a sweep.  *)
MessagesHaveConversation ==
    \A i \in Used :
        entry[i].log \in Conv => conv[entry[i].log] # None \/ entry[i].log \in split

(* Whoever is shown an entry is shown all those that were in the log when  *)
(* its append began, and are still there, but for the same exception.      *)
ContextIsShown ==
    \A c \in Conv \ split : \A limit \in 1..Cardinality(Peers(c)) :
        \A ids \in Page(c, limit) : \A j \in ids : entry[j].saw \cap Used \subseteq ids
=============================================================================
