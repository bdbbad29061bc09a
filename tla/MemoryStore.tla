----------------------------- MODULE MemoryStore -----------------------------
(***************************************************************************)
(* memory/sqlite_store.py: the memories of all users in one table for      *)
(* prose and one for code, each with an index that is asked for the        *)
(* nearest rows of anybody; memory/ingestion.py, which writes the chunks   *)
(* of a request one by one; and recall, which gathers its candidates under *)
(* the lock of the store and lets a remote model rank them without it.     *)
(*                                                                         *)
(* How near a memory is to a query is a choice of the model: the answers   *)
(* are those that some distances allow.                                    *)
(***************************************************************************)
EXTENDS Naturals, FiniteSets

CONSTANTS
    User,
    None,
    K,          \* the answers a recall asks for
    Fanout,     \* max(k, rerank_fanout)
    Breadth,    \* rows searched for each candidate wanted: 4 in the code
    MaxRows     \* bound: memories ever written

MemoryAssumption ==
    /\ K \in Nat \ {0} /\ Fanout \in Nat /\ Fanout >= K
    /\ Breadth \in Nat \ {0} /\ MaxRows \in Nat

Id    == 1..MaxRows
Table == {"text", "code"}
Row   == [user : User, table : Table, pinned : BOOLEAN]
Recall == [user : User,
           pool : SUBSET Id,        \* what the reranker is given
           merged : SUBSET Id,      \* every candidate, what it falls back on
           pins : SUBSET Id,        \* those of them that are pinned
           own : SUBSET Id,         \* history: the user's rows at that moment
           crowd : BOOLEAN,         \* history: a table had more rows than are searched
           pc : {"ranking", "ranked", "unranked"},
           ids : SUBSET Id]         \* the answer

NoneApart == None \notin Row \cup Recall

VARIABLES
    row, next,
    hasCode,   \* the code table is open: this run has code embeddings
    reranks,   \* this run has a reranker
    recall,    \* the last recall: its candidates, then its answer
    erased     \* history: rows that an erasure met and that were in open tables

vars == <<row, next, hasCode, reranks, recall, erased>>

Used      == {i \in Id : row[i] # None}
Own(u)    == {i \in Used : row[i].user = u}
Tables    == IF hasCode THEN Table ELSE {"text"}           \* _all_tables
Rows(t)   == {i \in Used : row[i].table = t}
Seen      == UNION {Rows(t) : t \in Tables}
Mine(u)   == Own(u) \cap Seen
Pinned(u) == {i \in Mine(u) : row[i].pinned}

(* The type of every variable; keys are given out in order.                *)
TypeOK ==
    /\ row \in [Id -> Row \cup {None}]
    /\ next \in 1..(MaxRows + 1) /\ \A i \in Used : i < next
    /\ hasCode \in BOOLEAN /\ reranks \in BOOLEAN
    /\ recall \in Recall \cup {None}
    /\ erased \in SUBSET Id

Init ==
    /\ row = [i \in Id |-> None]
    /\ next = 1
    /\ hasCode \in BOOLEAN /\ reranks \in BOOLEAN
    /\ recall = None
    /\ erased = {}

-----------------------------------------------------------------------------
(* write: code goes to the table for code, if this run has one.            *)
Write(u, kind) ==
    /\ row' = [row EXCEPT ![next] =
                 [user |-> u, table |-> IF kind \in Tables THEN kind ELSE "text",
                  pinned |-> FALSE]]
    /\ next' = next + 1

(* The next chunk of a request that has something long enough to say, by   *)
(* the looks of it prose or code.  One that cannot be written is skipped.  *)
Ingest(u) ==
    /\ next \in Id
    /\ \E kind \in Table : Write(u, kind)
    /\ UNCHANGED <<hasCode, reranks, recall, erased>>

(* PATCH and DELETE of /v1/memory: a memory of somebody else is as good as *)
(* none at all.                                                            *)
Pin(u, i, b) ==
    /\ i \in Mine(u) /\ row[i].pinned # b
    /\ row' = [row EXCEPT ![i].pinned = b]
    /\ UNCHANGED <<next, hasCode, reranks, recall, erased>>

Forget(u, i) ==
    /\ i \in Mine(u)
    /\ row' = [row EXCEPT ![i] = None]
    /\ UNCHANGED <<next, hasCode, reranks, recall, erased>>

Without(ids) == [i \in Id |-> IF i \in ids THEN None ELSE row[i]]

(* Mutant: the table for prose only.                                       *)
Erase_Text(u) ==
    /\ row' = Without(Own(u) \cap Rows("text"))
    /\ erased' = erased \cup Mine(u)
    /\ UNCHANGED <<next, hasCode, reranks, recall>>

(* delete_all_for_user, for DELETE /v1/me: table by table, under the lock. *)
Erase(u) ==
    /\ row' = Without(Mine(u))
    /\ erased' = erased \cup Mine(u)
    /\ UNCHANGED <<next, hasCode, reranks, recall>>

(* The process is lost, also between the commits of the two tables of an   *)
(* erasure, and starts anew, with or without code embeddings and reranker. *)
Restart ==
    /\ \/ UNCHANGED row
       \/ \E u \in User : row' = Without(Own(u) \cap Rows("text"))
    /\ hasCode' \in BOOLEAN /\ reranks' \in BOOLEAN
    /\ recall' = None
    /\ UNCHANGED <<next, erased>>

-----------------------------------------------------------------------------
Least(a, b) == IF a < b THEN a ELSE b

(* The subsets of S that are the n nearest of it for some distances.       *)
Nearest(S, n) == {C \in SUBSET S : Cardinality(C) = Least(n, Cardinality(S))}

(* The first n of S when the pinned ones, whose score is as high as any,   *)
(* come first.                                                             *)
Top(S, pins, n) ==
    {C \in Nearest(S, n) : S \cap pins \subseteq C \/ C \subseteq pins}

(* Mutant: no more than K candidates.                                      *)
AnnSearch_OnlyK(u, t) ==
    UNION {Nearest(C \cap Own(u), Fanout) : C \in Nearest(Rows(t), K)}

(* The nearest rows of the table, then those of the user among them.       *)
AnnSearch(u, t) ==
    UNION {Nearest(C \cap Own(u), Fanout) : C \in Nearest(Rows(t), Breadth * Fanout)}

(* _merge_with_pinned: every pinned memory is a candidate.                 *)
Merge(u, ann) == ann \cup Pinned(u)

Ranking == recall # None /\ recall.pc = "ranking"

Gather(u) ==
    /\ ~ Ranking
    /\ \E text \in AnnSearch(u, "text"),
          code \in IF hasCode THEN AnnSearch(u, "code") ELSE {{}} :
          LET merged == Merge(u, text \cup code)
              pins   == Pinned(u)
              Found(pool, pc, ids) ==
                 recall' = [user |-> u, pool |-> pool,
                            merged |-> IF pc = "ranking" THEN merged ELSE {}, pins |-> pins,
                            own |-> Mine(u),
                            crowd |-> \E t \in Tables : Cardinality(Rows(t)) > Breadth * Fanout,
                            pc |-> pc, ids |-> ids]
          IN IF reranks
             THEN \E pool \in Top(merged, pins, Fanout) :
                     Found(pool \cup (merged \cap pins), "ranking", {})
             ELSE \E ids \in Top(merged, pins, K) : Found({}, "unranked", ids)
    /\ UNCHANGED <<row, next, hasCode, reranks, erased>>

(* The reranker answers with some of its pool, no more than K: what counts *)
(* is how it sees them, and it may have a limit of its own.                *)
Rank ==
    /\ Ranking
    /\ \E ids \in SUBSET recall.pool :
          /\ Cardinality(ids) <= K
          /\ recall' = [recall EXCEPT !.pc = "ranked", !.pool = {}, !.merged = {}, !.ids = ids]
    /\ UNCHANGED <<row, next, hasCode, reranks, erased>>

(* It fails, and the order by similarity stands.                           *)
RankFails ==
    /\ Ranking
    /\ \E ids \in Top(recall.merged, recall.pins, K) :
          recall' = [recall EXCEPT !.pc = "unranked", !.pool = {}, !.merged = {}, !.ids = ids]
    /\ UNCHANGED <<row, next, hasCode, reranks, erased>>

Next ==
    \/ \E u \in User :
          \/ Ingest(u) \/ Erase(u) \/ Gather(u)
          \/ \E i \in Id : Forget(u, i) \/ \E b \in BOOLEAN : Pin(u, i, b)
    \/ Rank \/ RankFails \/ Restart

Spec == Init /\ [][Next]_vars

-----------------------------------------------------------------------------
Answered(pcs) == recall # None /\ recall.pc \in pcs

(* A recall returns memories that its user had when it began, whoever else *)
(* writes, forgets or erases while the reranker thinks.                    *)
RecallIsOwn == Answered({"ranked", "unranked"}) => recall.ids \subseteq recall.own

(* As long as no table holds more than is searched, a recall ordered by    *)
(* similarity finds what there is: it falls short of K only with all that  *)
(* is the user's, however many memories the others have.                   *)
RecallIsFull ==
    Answered({"unranked"}) /\ ~ recall.crowd =>
        Cardinality(recall.ids) = Least(K, Cardinality(recall.own))

(* Ordered by similarity, an answer leaves a pinned memory out only for    *)
(* other pinned ones.                                                      *)
PinsComeFirst ==
    Answered({"unranked"}) =>
        recall.pins \subseteq recall.ids \/ recall.ids \subseteq recall.pins

(* What an erasure met stays erased, whatever requests of the user are     *)
(* still being ingested, recalled or cut off by a restart.                 *)
ErasedIsGone == erased \cap Used = {}
=============================================================================
