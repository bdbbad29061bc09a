---------------------------- MODULE StoresProofs ----------------------------
(***************************************************************************)
(* The invariants of the stores, for any users, conversations, traces,     *)
(* exchanges, profiles, numbers of calls at once, windows and bounds: of   *)
(* History, of Memories, of Saver, of Options, and of the four as Stores.  *)
(***************************************************************************)
EXTENDS Stores, FiniteSetTheorems, TLAPS

(* History.  What an append under way, and what a committed one, has to do *)
(* with the entries that were there when it began: they were inserted      *)
(* before, in the same log, with smaller numbers.                          *)
Before(log, seq, saw) ==
    \A i \in saw : /\ i < next
                   /\ entry[i] # None => /\ entry[i].log = log
                                         /\ entry[i].seq < seq \/ log \in split

(* The same of the state after a step: what Before(...)' would say if its  *)
(* arguments were not primed with it.                                      *)
BeforeNext(log, seq, saw) ==
    \A i \in saw : /\ i < next'
                   /\ entry'[i] # None => /\ entry'[i].log = log
                                          /\ entry'[i].seq < seq \/ log \in split'

CallInv  == \A w \in Writer : call[w] # None =>
                /\ call[w].seq < next
                /\ Before(call[w].log, call[w].seq, call[w].saw)

EntryInv == \A j \in Used : Before(entry[j].log, entry[j].seq, entry[j].saw)

IInv == TypeOK /\ CallInv /\ EntryInv /\ MessagesHaveConversation

-----------------------------------------------------------------------------
(* The next number is below the next key, because every number is below    *)
(* the key of its row.                                                     *)
LEMMA NextIsSmall ==
    ASSUME IInv, NEW log \in Log, NEW n \in 0..MaxRows, IsNext(n, Peers(log))
    PROVE  n < next
<1>1. CASE n = 0  BY <1>1 DEF IInv, TypeOK
<1>2. CASE n # 0
  <2>1. PICK i \in Peers(log) : entry[i].seq = n - 1  BY <1>2 DEF IsNext
  <2>2. i \in Used /\ entry[i].seq < i /\ i < next  BY <2>1 DEF IInv, TypeOK, Peers
  <2>3. entry[i] \in Entry  BY <2>2 DEF Used, IInv, TypeOK
  <2> QED  BY <2>1, <2>2, <2>3 DEF IInv, TypeOK, Entry, Used, Id
<1> QED  BY <1>1, <1>2

(* An append that begins knows the entries of its log.                     *)
LEMMA BeginKeeps ==
    ASSUME IInv, NEW w \in Writer, NEW log \in Log, NEW n \in 0..MaxRows, NEW new \in BOOLEAN,
           n < next, Begin(w, log, n, new, Peers(log)), found' \in [Writer -> Conv \cup {None}],
           \A i \in Peers(log) : entry[i].seq < n \/ log \in split
    PROVE  IInv'
<1> USE DEF Begin
<1>1. Peers(log) \in SUBSET Id  BY DEF Peers, Used
<1>2. TypeOK'
  <2>1. [log |-> log, seq |-> n, saw |-> Peers(log), new |-> new, at |-> clock] \in Call
        BY <1>1 DEF IInv, TypeOK, Call
  <2>2. call' \in [Writer -> Call \cup {None}]  BY <2>1 DEF IInv, TypeOK
  <2> QED  BY <2>2 DEF IInv, TypeOK, Used
<1>3. Before(log, n, Peers(log))  BY DEF IInv, TypeOK, Before, Peers
<1>4. CallInv'
  <2> SUFFICES ASSUME NEW x \in Writer, call'[x] # None
               PROVE  /\ call'[x].seq < next
                      /\ Before(call'[x].log, call'[x].seq, call'[x].saw)
      BY DEF CallInv, Before
  <2>1. CASE x = w  BY <2>1, <1>3 DEF IInv, TypeOK
  <2>2. CASE x # w  BY <2>2 DEF IInv, TypeOK, CallInv
  <2> QED  BY <2>1, <2>2
<1>5. EntryInv'  BY DEF IInv, EntryInv, Before, Used
<1>6. MessagesHaveConversation'  BY DEF IInv, MessagesHaveConversation, Used
<1> QED  BY <1>2, <1>4, <1>5, <1>6 DEF IInv

(* Rows only disappear, and the conversations that lose their row have     *)
(* lost their messages, too, or are noted down as split.                   *)
LEMMA DeletionKeeps ==
    ASSUME IInv, NEW ids, entry' = Without(ids),
           next' = next, found' = found, call' = call, split \subseteq split', split' \in SUBSET Conv,
           clock' \in Time, conv' \in [Conv -> Time \cup {None}], widgets' \in SUBSET Time,
           MessagesHaveConversation'
    PROVE  IInv'
<1>1. \A i \in Id : entry'[i] = None \/ entry'[i] = entry[i]  BY DEF Without
<1>2. Used' \subseteq Used  BY <1>1 DEF Used
<1>3. TypeOK'
  <2>1. entry' \in [Id -> Entry \cup {None}]  BY DEF IInv, TypeOK, Without
  <2>2. \A i \in Used' : i < next' /\ entry'[i].seq < i  BY <1>1, <1>2 DEF IInv, TypeOK, Used
  <2> QED  BY <2>1, <2>2 DEF IInv, TypeOK
<1>4. ASSUME NEW log, NEW seq, NEW saw \in SUBSET Id, Before(log, seq, saw)
      PROVE  BeforeNext(log, seq, saw)
      BY <1>1, <1>4 DEF Before, BeforeNext
<1>5. CallInv'
  <2> SUFFICES ASSUME NEW x \in Writer, call[x] # None
               PROVE  /\ call[x].seq < next
                      /\ BeforeNext(call[x].log, call[x].seq, call[x].saw)
      BY DEF CallInv, Before, BeforeNext
  <2>1. call[x].saw \in SUBSET Id  BY DEF IInv, TypeOK, Call
  <2> QED  BY <2>1, <1>4 DEF IInv, CallInv
<1>6. EntryInv'
  <2> SUFFICES ASSUME NEW j \in Id, entry'[j] # None
               PROVE  BeforeNext(entry'[j].log, entry'[j].seq, entry'[j].saw)
      BY DEF EntryInv, Used, Before, BeforeNext
  <2>1. j \in Used /\ entry'[j] = entry[j]  BY <1>1 DEF Used
  <2>2. entry[j].saw \in SUBSET Id  BY <2>1 DEF IInv, TypeOK, Entry, Used
  <2>3. Before(entry[j].log, entry[j].seq, entry[j].saw)  BY <2>1 DEF IInv, EntryInv
  <2> QED  BY <2>1, <2>2, <2>3, <1>4
<1> QED  BY <1>3, <1>5, <1>6 DEF IInv

-----------------------------------------------------------------------------
(* Reading: the numbers and conversations seen are the ones of the log.    *)
LEMMA ReadsKeep ==
    ASSUME IInv, NEW w \in Writer,
           \/ \E c \in Conv : ReadNewConv(w, c) \/ ReadConv(w, c)
           \/ ReadSeq(w)
           \/ \E t \in Trace : ReadTrace(w, t)
    PROVE  IInv'
<1>1. ASSUME NEW c \in Conv, ReadNewConv(w, c)  PROVE IInv'
  <2>1. c \in Log /\ 0 \in 0..MaxRows /\ 0 < next
        BY HistoryAssumption DEF Log, IInv, TypeOK
  <2>2. \A i \in Peers(c) : c \in split
        BY <1>1 DEF ReadNewConv, Peers, IInv, MessagesHaveConversation
  <2> QED  BY <1>1, <2>1, <2>2, BeginKeeps DEF ReadNewConv, Free, IInv, TypeOK
<1>2. ASSUME NEW log \in Log, NEW n \in 0..MaxRows,
             IsNext(n, Peers(log)), Begin(w, log, n, FALSE, Peers(log)),
             found' \in [Writer -> Conv \cup {None}]
      PROVE  IInv'
  <2>1. n < next  BY <1>2, NextIsSmall
  <2>2. \A i \in Peers(log) : entry[i].seq < n  BY <1>2 DEF IsNext
  <2> QED  BY <1>2, <2>1, <2>2, BeginKeeps
<1>3. ASSUME NEW c \in Conv, ReadConv(w, c)  PROVE IInv'
  <2>1. UNCHANGED <<clock, entry, next, conv, widgets, call, split>>  BY <1>3 DEF ReadConv
  <2>2. TypeOK'  BY <1>3, <2>1 DEF ReadConv, IInv, TypeOK, Used
  <2> QED  BY <2>1, <2>2 DEF IInv, CallInv, EntryInv, MessagesHaveConversation, Before, Used
<1>4. ASSUME ReadSeq(w)  PROVE IInv'
  <2>1. found[w] \in Log /\ found' \in [Writer -> Conv \cup {None}]
        BY <1>4 DEF ReadSeq, IInv, TypeOK, Log
  <2> QED  BY <1>2, <1>4, <2>1 DEF ReadSeq
<1>5. ASSUME NEW t \in Trace, ReadTrace(w, t)  PROVE IInv'
  <2>1. t \in Log /\ found' \in [Writer -> Conv \cup {None}]
        BY <1>5 DEF ReadTrace, Free, IInv, TypeOK, Log
  <2> QED  BY <1>2, <1>5, <2>1 DEF ReadTrace
<1> QED  BY <1>1, <1>3, <1>4, <1>5

(* The new row is in nobody's past, and its own past was noted down when   *)
(* its append began.                                                       *)
LEMMA CommitKeeps ==
    ASSUME IInv, NEW w \in Writer, Commit(w)
    PROVE  IInv'
<1> DEFINE k == call[w]
<1> DEFINE written == [log |-> k.log, seq |-> k.seq, ts |-> clock, saw |-> k.saw]
<1>1. k \in Call /\ k.seq < next /\ Before(k.log, k.seq, k.saw)
      BY DEF Commit, IInv, TypeOK, CallInv
<1>2. next \in Id /\ entry' = [entry EXCEPT ![next] = written] /\ next' = next + 1
      BY DEF Commit, Insert
<1>3. written \in Entry /\ written # None
      BY <1>1, NoneIsNone DEF Call, Entry, IInv, TypeOK
<1>4. \A i \in Id : entry'[i] = IF i = next THEN written ELSE entry[i]
      BY <1>2 DEF IInv, TypeOK
<1>5. conv' \in [Conv -> Time \cup {None}]
         /\ \A c \in Conv : conv'[c] = None => c # k.log /\ conv[c] = None
      BY <1>1, NoneIsNone DEF Commit, Touch, IInv, TypeOK, Call
<1>6. TypeOK'
  <2>1. entry' \in [Id -> Entry \cup {None}]  BY <1>2, <1>3 DEF IInv, TypeOK
  <2>2. next' \in 1..(MaxRows + 1)  BY <1>2, HistoryAssumption DEF Id
  <2>3. \A i \in Used' : i < next' /\ entry'[i].seq < i
        BY <1>1, <1>2, <1>4 DEF IInv, TypeOK, Used, Id
  <2> QED  BY <2>1, <2>2, <2>3, <1>5 DEF IInv, TypeOK, Commit
<1>7. ASSUME NEW log, NEW seq, NEW saw \in SUBSET Id, Before(log, seq, saw)
      PROVE  BeforeNext(log, seq, saw)
      BY <1>2, <1>4, <1>7 DEF Before, BeforeNext, Commit, Id
<1>8. CallInv'
  <2> SUFFICES ASSUME NEW x \in Writer, call'[x] # None
               PROVE  /\ call'[x].seq < next'
                      /\ BeforeNext(call'[x].log, call'[x].seq, call'[x].saw)
      BY DEF CallInv, Before, BeforeNext
  <2>1. call'[x] = call[x]  BY DEF Commit, IInv, TypeOK
  <2>2. call[x] \in Call /\ call[x].seq < next /\ Before(call[x].log, call[x].seq, call[x].saw)
        BY <2>1 DEF IInv, TypeOK, CallInv
  <2>3. call[x].seq \in Nat /\ call[x].saw \in SUBSET Id  BY <2>2 DEF Call
  <2>4. call'[x].seq < next'  BY <2>1, <2>2, <2>3, <1>2 DEF Id
  <2>5. BeforeNext(call[x].log, call[x].seq, call[x].saw)  BY <2>2, <2>3, <1>7
  <2> QED  BY <2>1, <2>4, <2>5
<1>9. EntryInv'
  <2> SUFFICES ASSUME NEW j \in Id, entry'[j] # None
               PROVE  BeforeNext(entry'[j].log, entry'[j].seq, entry'[j].saw)
      BY DEF EntryInv, Used, Before, BeforeNext
  <2>1. CASE j = next
    <3>1. entry'[j] = written  BY <2>1, <1>4
    <3>2. k.saw \in SUBSET Id  BY <1>1 DEF Call
    <3> QED  BY <3>1, <3>2, <1>1, <1>7
  <2>2. CASE j # next
    <3>1. entry'[j] = entry[j] /\ entry[j] # None  BY <2>2, <1>4
    <3>2. entry[j].saw \in SUBSET Id  BY <3>1 DEF IInv, TypeOK, Entry
    <3>3. Before(entry[j].log, entry[j].seq, entry[j].saw)  BY <3>1 DEF IInv, EntryInv, Used
    <3> QED  BY <3>1, <3>2, <3>3, <1>7
  <2> QED  BY <2>1, <2>2
<1>10. MessagesHaveConversation'
  <2> SUFFICES ASSUME NEW i \in Id, entry'[i] # None, entry'[i].log \in Conv, conv'[entry'[i].log] = None
               PROVE  entry'[i].log \in split'
      BY DEF MessagesHaveConversation, Used
  <2>1. entry'[i] = entry[i] /\ conv[entry[i].log] = None  BY <1>4, <1>5
  <2> QED  BY <2>1 DEF IInv, MessagesHaveConversation, Used, Commit
<1> QED  BY <1>6, <1>8, <1>9, <1>10 DEF IInv

(* A failed commit forgets the call.                                       *)
LEMMA FailKeeps ==
    ASSUME IInv, NEW w \in Writer, Fail(w)
    PROVE  IInv'
<1> USE DEF Fail
<1>1. TypeOK'  BY DEF IInv, TypeOK, Used
<1>2. CallInv'  BY DEF IInv, TypeOK, CallInv, Before
<1>3. EntryInv'  BY DEF IInv, EntryInv, Before, Used
<1>4. MessagesHaveConversation'  BY DEF IInv, MessagesHaveConversation, Used
<1> QED  BY <1>1, <1>2, <1>3, <1>4 DEF IInv

(* A user's messages go with the user's conversations.                     *)
LEMMA DeleteUserKeeps ==
    ASSUME IInv, NEW u \in User, DeleteUser(u)
    PROVE  IInv'
<1> USE DEF DeleteUser
<1>1. conv' \in [Conv -> Time \cup {None}]  BY DEF IInv, TypeOK
<1>2. MessagesHaveConversation'
  <2> SUFFICES ASSUME NEW i \in Id, entry'[i] # None, entry'[i].log \in Conv, conv'[entry'[i].log] = None
               PROVE  entry'[i].log \in split'
      BY DEF MessagesHaveConversation, Used
  <2>1. entry'[i] = entry[i] /\ i \in Used /\ UserOf[entry[i].log] # u  BY DEF Without, Used
  <2>2. conv[entry[i].log] = None  BY <2>1
  <2> QED  BY <2>1, <2>2 DEF IInv, MessagesHaveConversation
<1> QED  BY <1>1, <1>2, DeletionKeeps DEF IInv, TypeOK

(* A sweep notes down which conversations it separates from messages.      *)
LEMMA PruneKeeps ==
    ASSUME IInv, NEW cutoff \in 0..clock, PruneOlderThan(cutoff)
    PROVE  IInv'
<1> DEFINE old   == {i \in Used : entry[i].ts < cutoff}
<1> DEFINE stale == {c \in Conv : conv[c] # None /\ conv[c] < cutoff}
<1>1. /\ entry' = Without(old)
      /\ conv' = [c \in Conv |-> IF c \in stale THEN None ELSE conv[c]]
      /\ widgets' = {t \in widgets : t >= cutoff}
      /\ split' = split \cup {c \in stale : \E i \in Used \ old : entry[i].log = c}
      /\ UNCHANGED <<clock, next, found, call>>
      BY DEF PruneOlderThan
<1> HIDE DEF old, stale
<1>2. stale \subseteq Conv  BY DEF stale
<1>3. conv' \in [Conv -> Time \cup {None}]  BY <1>1 DEF IInv, TypeOK
<1>4. split \subseteq split' /\ split' \in SUBSET Conv /\ widgets' \in SUBSET Time
      BY <1>1, <1>2 DEF IInv, TypeOK
<1>5. MessagesHaveConversation'
  <2> SUFFICES ASSUME NEW i \in Id, entry'[i] # None, entry'[i].log \in Conv, conv'[entry'[i].log] = None
               PROVE  entry'[i].log \in split'
      BY DEF MessagesHaveConversation, Used
  <2>1. entry'[i] = entry[i] /\ i \in Used \ old  BY <1>1 DEF Without, Used
  <2>2. entry[i].log \in stale \/ conv[entry[i].log] = None  BY <1>1, <2>1
  <2> QED  BY <1>1, <2>1, <2>2 DEF IInv, MessagesHaveConversation
<1> QED  BY <1>1, <1>3, <1>4, <1>5, DeletionKeeps DEF IInv, TypeOK

(* Rows of widgets and the clock do not touch the logs.                    *)
LEMMA OthersKeep ==
    ASSUME IInv, RecordWidget \/ Tick \/ UNCHANGED vars
    PROVE  IInv'
<1>1. /\ UNCHANGED <<entry, next, conv, found, call, split>>
      /\ clock' \in Time /\ widgets' \in SUBSET Time
  <2>1. clock \in Time /\ widgets \in SUBSET Time  BY DEF IInv, TypeOK
  <2>2. CASE RecordWidget  BY <2>1, <2>2 DEF RecordWidget
  <2>3. CASE Tick  BY <2>1, <2>3, HistoryAssumption DEF Tick, Time
  <2>4. CASE UNCHANGED vars  BY <2>1, <2>4 DEF vars
  <2> QED  BY <2>2, <2>3, <2>4
<1>2. TypeOK'  BY <1>1 DEF IInv, TypeOK, Used
<1>3. CallInv'  BY <1>1 DEF IInv, CallInv, Before
<1>4. EntryInv'  BY <1>1 DEF IInv, EntryInv, Before, Used
<1>5. MessagesHaveConversation'  BY <1>1 DEF IInv, MessagesHaveConversation, Used
<1> QED  BY <1>2, <1>3, <1>4, <1>5 DEF IInv

-----------------------------------------------------------------------------
LEMMA InitHolds == Init => IInv
  BY HistoryAssumption
     DEF Init, IInv, TypeOK, CallInv, EntryInv, MessagesHaveConversation, Used, Time

LEMMA NextKeeps == IInv /\ [Next]_vars => IInv'
<1> SUFFICES ASSUME IInv, [Next]_vars PROVE IInv'  OBVIOUS
<1>1. ASSUME NEW w \in Writer,
             \/ \E c \in Conv : ReadNewConv(w, c) \/ ReadConv(w, c)
             \/ ReadSeq(w)
             \/ \E t \in Trace : ReadTrace(w, t)
             \/ Commit(w) \/ Fail(w)
      PROVE  IInv'
      BY <1>1, ReadsKeep, CommitKeeps, FailKeeps
<1>2. ASSUME NEW u \in User, DeleteUser(u)  PROVE IInv'
      BY <1>2, DeleteUserKeeps
<1>3. ASSUME NEW cutoff \in 0..clock, PruneOlderThan(cutoff)  PROVE IInv'
      BY <1>3, PruneKeeps
<1>4. ASSUME RecordWidget \/ Tick \/ UNCHANGED vars  PROVE IInv'
      BY <1>4, OthersKeep
<1> QED  BY <1>1, <1>2, <1>3, <1>4 DEF Next

LEMMA Invariance == Spec => []IInv
  BY InitHolds, NextKeeps, PTL DEF Spec

(* The types of the store, and that a number stays below the key of its    *)
(* row (append_message, record_tool_call).                                 *)
THEOREM TypeCorrect == Spec => []TypeOK
<1>1. IInv => TypeOK  BY DEF IInv
<1> QED  BY <1>1, Invariance, PTL

(* append_message and record_tool_call: an append that began after another *)
(* was committed gets the greater number, under any deletions in between.  *)
THEOREM LaterIsGreaterHolds == Spec => []LaterIsGreater
<1>1. IInv => LaterIsGreater
  <2> SUFFICES ASSUME IInv, NEW i \in Used, NEW j \in Used, i \in entry[j].saw
               PROVE  entry[i].seq < entry[j].seq \/ entry[j].log \in split
      BY DEF LaterIsGreater
  <2> QED  BY DEF IInv, EntryInv, Before, Used
<1> QED  BY <1>1, Invariance, PTL

(* append_message against delete_user and itself: no message is left       *)
(* without its conversation, unless a sweep took the conversation only.    *)
THEOREM MessagesHaveConversationHolds == Spec => []MessagesHaveConversation
<1>1. IInv => MessagesHaveConversation  BY DEF IInv
<1> QED  BY <1>1, Invariance, PTL

(* get_messages: whatever the limit, who is shown an answer is shown what  *)
(* its append had found in the log, unless it was deleted.                 *)
THEOREM ContextIsShownHolds == Spec => []ContextIsShown
<1>1. IInv => ContextIsShown
  <2> SUFFICES ASSUME IInv, NEW c \in Conv \ split, NEW limit \in 1..Cardinality(Peers(c)),
                      NEW ids \in Page(c, limit), NEW j \in ids,
                      NEW i \in entry[j].saw \cap Used
               PROVE  i \in ids
      BY DEF ContextIsShown
  <2>1. j \in Peers(c)  BY DEF Page
  <2>2. j \in Used /\ entry[j].log = c  BY <2>1 DEF Peers
  <2>3. entry[i].log = c /\ entry[i].seq < entry[j].seq
        BY <2>2 DEF IInv, EntryInv, Before, Used
  <2>4. i \in Peers(c)  BY <2>3 DEF Peers
  <2>5. entry[i] \in Entry /\ entry[j] \in Entry  BY <2>2 DEF IInv, TypeOK, Used
  <2>6. ASSUME i \notin ids  PROVE entry[j].seq <= entry[i].seq
        BY <2>4, <2>6 DEF Page
  <2> QED  BY <2>3, <2>5, <2>6 DEF Entry
<1> QED  BY <1>1, Invariance, PTL

-----------------------------------------------------------------------------
(* Memories.  What a recall under way has gathered, and what its answer    *)
(* is made of: memories of its user, the pinned ones among them, and       *)
(* unless a table was crowded as many as any answer needs.                 *)
RecallInv ==
    recall # None =>
        /\ recall.ids \subseteq recall.own
        /\ Memories!Ranking =>
              /\ recall.pool \subseteq recall.own /\ recall.merged \subseteq recall.own
              /\ recall.pins \subseteq recall.merged
              /\ ~recall.crowd =>
                    Memories!Least(K, Cardinality(recall.merged))
                        = Memories!Least(K, Cardinality(recall.own))

(* The keys of erased rows were given out before, so none comes back.      *)
ErasedInv == (\A i \in erased : i < nextRow) /\ Memories!ErasedIsGone

MemoriesInv ==
    /\ Memories!TypeOK /\ RecallInv /\ ErasedInv
    /\ Memories!RecallIsFull /\ Memories!PinsComeFirst

(* The operators that MemoryStore has from FiniteSets are those of         *)
(* FiniteSets.                                                             *)
LEMMA MemoriesCount == \A S : Memories!Cardinality(S) = Cardinality(S)
  BY DEF Memories!Cardinality, Cardinality

(* The nearest rows are a set of some of them, of the size asked for or    *)
(* all of them.                                                            *)
LEMMA NearestAre ==
    ASSUME NEW S, IsFiniteSet(S), NEW n \in Nat, NEW C \in Memories!Nearest(S, n)
    PROVE  /\ C \subseteq S /\ IsFiniteSet(C)
           /\ Cardinality(C) = Memories!Least(n, Cardinality(S))
           /\ Cardinality(S) <= n => C = S
<1>1. C \subseteq S /\ Cardinality(C) = Memories!Least(n, Cardinality(S))
      BY MemoriesCount DEF Memories!Nearest
<1>2. IsFiniteSet(C) /\ Cardinality(S) \in Nat /\ (Cardinality(C) = Cardinality(S) => C = S)
      BY <1>1, FS_Subset, FS_CardinalityType
<1>3. ASSUME Cardinality(S) <= n  PROVE C = S
      BY <1>1, <1>2, <1>3 DEF Memories!Least
<1> QED  BY <1>1, <1>2, <1>3

(* Rows, and what is searched of them.                                     *)
LEMMA RowsAreFinite ==
    ASSUME StoresAssumption
    PROVE  \A S \in SUBSET Memories!Id : IsFiniteSet(S) /\ Cardinality(S) \in Nat
<1>1. IsFiniteSet(Memories!Id)
      BY FS_Interval DEF Memories!Id, StoresAssumption, Memories!MemoryAssumption
<1> QED  BY <1>1, FS_Subset, FS_CardinalityType

(* AnnSearch answers with rows of the user; with all of them, or as many   *)
(* as are wanted, when the table is no larger than what is searched.       *)
LEMMA AnnSearchIsOwn ==
    ASSUME StoresAssumption, NEW u \in Owner, NEW t, NEW A \in Memories!AnnSearch(u, t)
    PROVE  /\ A \subseteq Memories!Own(u) \cap Memories!Rows(t)
           /\ Memories!Cardinality(Memories!Rows(t)) <= Breadth * Fanout =>
                 \/ A = Memories!Own(u) \cap Memories!Rows(t)
                 \/ Cardinality(A) = Fanout
<1> DEFINE R == Memories!Rows(t)
           n == Breadth * Fanout
<1>1. Fanout \in Nat /\ n \in Nat
      BY DEF StoresAssumption, Memories!MemoryAssumption
<1>2. PICK C \in Memories!Nearest(R, n) : A \in Memories!Nearest(C \cap Memories!Own(u), Fanout)
      BY DEF Memories!AnnSearch
<1>3. R \in SUBSET Memories!Id /\ IsFiniteSet(R) /\ Cardinality(R) \in Nat
      BY RowsAreFinite DEF Memories!Rows, Memories!Used
<1> HIDE DEF R, n
<1>4. C \subseteq R /\ (Cardinality(R) <= n => C = R)
      BY <1>1, <1>2, <1>3, NearestAre
<1>5. IsFiniteSet(C \cap Memories!Own(u)) /\ Cardinality(C \cap Memories!Own(u)) \in Nat
      BY <1>3, <1>4, RowsAreFinite
<1>6. /\ A \subseteq C \cap Memories!Own(u)
      /\ Cardinality(A) = Memories!Least(Fanout, Cardinality(C \cap Memories!Own(u)))
      /\ Cardinality(C \cap Memories!Own(u)) <= Fanout => A = C \cap Memories!Own(u)
      BY <1>1, <1>2, <1>5, NearestAre
<1>7. A = C \cap Memories!Own(u) \/ Cardinality(A) = Fanout
      BY <1>1, <1>5, <1>6 DEF Memories!Least
<1> QED  BY <1>4, <1>6, <1>7, MemoriesCount DEF R, n

(* What a recall gathers is of its user, with all that is pinned, and      *)
(* enough for any answer unless a table is crowded.                        *)
LEMMA MergedIsEnough ==
    ASSUME StoresAssumption, hasCode \in BOOLEAN, NEW u \in Owner,
           NEW text \in Memories!AnnSearch(u, "text"),
           NEW code \in IF hasCode THEN Memories!AnnSearch(u, "code") ELSE {{}}
    PROVE  LET merged == Memories!Merge(u, text \cup code)
           IN  /\ merged \subseteq Memories!Mine(u)
               /\ Memories!Pinned(u) \subseteq merged
               /\ (\A t \in Memories!Tables :
                      ~(Memories!Cardinality(Memories!Rows(t)) > Breadth * Fanout)) =>
                     Memories!Least(K, Cardinality(merged))
                         = Memories!Least(K, Cardinality(Memories!Mine(u)))
<1> DEFINE merged == Memories!Merge(u, text \cup code)
           mine == Memories!Mine(u)
<1>1. mine = UNION {Memories!Own(u) \cap Memories!Rows(t) : t \in Memories!Tables}
      BY DEF Memories!Mine, Memories!Seen
<1>2. /\ text \subseteq Memories!Own(u) \cap Memories!Rows("text")
      /\ hasCode => code \subseteq Memories!Own(u) \cap Memories!Rows("code")
      /\ ~hasCode => code = {}
      BY AnnSearchIsOwn
<1>3. text \subseteq mine /\ code \subseteq mine
      BY <1>1, <1>2 DEF Memories!Tables, Memories!Table
<1>4. merged \subseteq mine /\ Memories!Pinned(u) \subseteq merged
      BY <1>3 DEF Memories!Merge, Memories!Pinned
<1>5. ASSUME \A t \in Memories!Tables :
                 ~(Memories!Cardinality(Memories!Rows(t)) > Breadth * Fanout)
      PROVE  Memories!Least(K, Cardinality(merged)) = Memories!Least(K, Cardinality(mine))
  <2>1. mine \in SUBSET Memories!Id  BY DEF Memories!Mine, Memories!Own, Memories!Used
  <2>2. /\ IsFiniteSet(mine) /\ IsFiniteSet(merged)
        /\ Cardinality(mine) \in Nat /\ Cardinality(merged) \in Nat
        /\ Cardinality(merged) <= Cardinality(mine)
        BY <2>1, <1>4, RowsAreFinite, FS_Subset
  <2>3. ASSUME NEW t \in Memories!Tables
        PROVE  Memories!Cardinality(Memories!Rows(t)) <= Breadth * Fanout
    <3>1. Memories!Cardinality(Memories!Rows(t)) \in Nat /\ Breadth * Fanout \in Nat
          BY RowsAreFinite, MemoriesCount
          DEF Memories!Rows, Memories!Used, StoresAssumption, Memories!MemoryAssumption
    <3> QED  BY <1>5, <3>1
  <2>4. /\ text = Memories!Own(u) \cap Memories!Rows("text") \/ Cardinality(text) = Fanout
        /\ hasCode => \/ code = Memories!Own(u) \cap Memories!Rows("code")
                      \/ Cardinality(code) = Fanout
        BY <2>3, AnnSearchIsOwn DEF Memories!Tables, Memories!Table
  <2>5. CASE Cardinality(text) = Fanout \/ (hasCode /\ Cardinality(code) = Fanout)
    <3>1. text \subseteq merged /\ code \subseteq merged  BY DEF Memories!Merge
    <3>2. ASSUME NEW A \in {text, code}, Cardinality(A) = Fanout
          PROVE  Fanout <= Cardinality(merged)
      <4> HIDE DEF merged
      <4> QED  BY <2>2, <3>1, <3>2, FS_Subset
    <3> HIDE DEF merged, mine
    <3> QED  BY <2>2, <2>5, <3>2 DEF Memories!Least, StoresAssumption, Memories!MemoryAssumption
  <2>6. CASE /\ text = Memories!Own(u) \cap Memories!Rows("text")
             /\ hasCode => code = Memories!Own(u) \cap Memories!Rows("code")
    <3>1. mine \subseteq text \cup code
          BY <1>1, <2>6 DEF Memories!Tables, Memories!Table
    <3>2. merged = mine  BY <1>4, <3>1 DEF Memories!Merge
    <3> QED  BY <3>2
  <2> QED  BY <2>4, <2>5, <2>6
<1> QED  BY <1>4, <1>5

LEMMA MemoriesStart == ASSUME StoresAssumption PROVE Memories!Init => MemoriesInv
  BY DEF Memories!Init, MemoriesInv, Memories!TypeOK, RecallInv, ErasedInv, Memories!ErasedIsGone,
         Memories!RecallIsFull, Memories!PinsComeFirst, Memories!Answered, Memories!Used,
         StoresAssumption, Memories!MemoryAssumption

(* Rows come and go: what has been recalled stays as it is, and no row     *)
(* comes back.                                                             *)
LEMMA RowsKeep ==
    ASSUME StoresAssumption, MemoriesInv, NEW u \in Owner,
           \/ Memories!Ingest(u) \/ Memories!Erase(u)
           \/ \E i \in Memories!Id :
                 Memories!Forget(u, i) \/ \E b \in BOOLEAN : Memories!Pin(u, i, b)
    PROVE  MemoriesInv'
<1> USE DEF StoresAssumption, Memories!MemoryAssumption, Memories!Id
<1>1. recall' = recall /\ hasCode' = hasCode /\ reranks' = reranks
      BY DEF Memories!Ingest, Memories!Erase, Memories!Forget, Memories!Pin
<1>2. RecallInv' /\ Memories!RecallIsFull' /\ Memories!PinsComeFirst'
      BY <1>1 DEF MemoriesInv, RecallInv, Memories!Ranking, Memories!RecallIsFull,
                  Memories!PinsComeFirst, Memories!Answered
<1>3. CASE Memories!Ingest(u)
  <2> USE <1>3 DEF Memories!Ingest, Memories!Write
  <2>1. Memories!TypeOK'
        BY <1>1 DEF MemoriesInv, Memories!TypeOK, Memories!Used, Memories!Row, Memories!Table
  <2>2. ErasedInv'
        BY DEF MemoriesInv, Memories!TypeOK, Memories!Used, ErasedInv, Memories!ErasedIsGone
  <2> QED  BY <1>2, <2>1, <2>2 DEF MemoriesInv
<1>4. CASE Memories!Erase(u)
  <2> USE <1>4 DEF Memories!Erase, Memories!Without
  <2>1. Memories!Mine(u) \subseteq Memories!Used
        BY DEF Memories!Mine, Memories!Own
  <2>2. Memories!TypeOK'
        BY <1>1, <2>1 DEF MemoriesInv, Memories!TypeOK, Memories!Used
  <2>3. ErasedInv'
        BY <2>1 DEF MemoriesInv, Memories!TypeOK, Memories!Used, ErasedInv, Memories!ErasedIsGone
  <2> QED  BY <1>2, <2>2, <2>3 DEF MemoriesInv
<1>5. ASSUME NEW i \in Memories!Id,
             Memories!Forget(u, i) \/ \E b \in BOOLEAN : Memories!Pin(u, i, b)
      PROVE  MemoriesInv'
  <2> USE <1>5 DEF Memories!Forget, Memories!Pin
  <2>1. i \in Memories!Used  BY DEF Memories!Mine, Memories!Own
  <2>2. Memories!TypeOK'
        BY <1>1, <2>1 DEF MemoriesInv, Memories!TypeOK, Memories!Used, Memories!Row
  <2>3. ErasedInv'
        BY <2>1 DEF MemoriesInv, Memories!TypeOK, Memories!Used, ErasedInv, Memories!ErasedIsGone
  <2> QED  BY <1>2, <2>2, <2>3 DEF MemoriesInv
<1> QED  BY <1>3, <1>4, <1>5

(* Top of a finite set has as many of it as are asked for, and leaves a    *)
(* pinned one out only for others.                                         *)
LEMMA TopIs ==
    ASSUME NEW S, IsFiniteSet(S), NEW pins, NEW n \in Nat, NEW C \in Memories!Top(S, pins, n)
    PROVE  /\ C \subseteq S /\ Cardinality(C) = Memories!Least(n, Cardinality(S))
           /\ S \cap pins \subseteq C \/ C \subseteq pins
  BY NearestAre DEF Memories!Top

(* A recall gathers its candidates, or without a reranker its answer.      *)
LEMMA GatherKeeps ==
    ASSUME StoresAssumption, MemoriesInv, NEW u \in Owner, Memories!Gather(u)
    PROVE  MemoriesInv'
<1> DEFINE Merged(text, code) == Memories!Merge(u, text \cup code)
           own == Memories!Mine(u)
           pins == Memories!Pinned(u)
           crowd == \E t \in Memories!Tables :
                       Memories!Cardinality(Memories!Rows(t)) > Breadth * Fanout
<1>1. hasCode \in BOOLEAN /\ K \in Nat /\ Fanout \in Nat
      BY DEF MemoriesInv, Memories!TypeOK, StoresAssumption, Memories!MemoryAssumption
<1>2. PICK text \in Memories!AnnSearch(u, "text"),
           code \in IF hasCode THEN Memories!AnnSearch(u, "code") ELSE {{}} :
         IF reranks
         THEN \E pool \in Memories!Top(Merged(text, code), pins, Fanout) :
                 recall' = [user |-> u, pool |-> pool \cup (Merged(text, code) \cap pins),
                            merged |-> Merged(text, code), pins |-> pins, own |-> own,
                            crowd |-> crowd, pc |-> "ranking", ids |-> {}]
         ELSE \E ids \in Memories!Top(Merged(text, code), pins, K) :
                 recall' = [user |-> u, pool |-> {}, merged |-> {}, pins |-> pins, own |-> own,
                            crowd |-> crowd, pc |-> "unranked", ids |-> ids]
      BY Zenon DEF Memories!Gather
<1> DEFINE merged == Merged(text, code)
<1>3. /\ merged \subseteq own /\ pins \subseteq merged
      /\ ~crowd => Memories!Least(K, Cardinality(merged)) = Memories!Least(K, Cardinality(own))
      BY <1>1, MergedIsEnough
<1>4. own \in SUBSET Memories!Id  BY DEF Memories!Mine, Memories!Own, Memories!Used
<1>5. IsFiniteSet(merged)  BY <1>3, <1>4, RowsAreFinite
<1>6. crowd \in BOOLEAN  OBVIOUS
<1>7. UNCHANGED <<row, nextRow, hasCode, reranks, erased>>  BY DEF Memories!Gather
<1> HIDE DEF Merged, own, pins, crowd, merged
<1>8. CASE reranks
  <2>1. PICK pool \in Memories!Top(merged, pins, Fanout) :
           recall' = [user |-> u, pool |-> pool \cup (merged \cap pins),
                      merged |-> merged, pins |-> pins, own |-> own,
                      crowd |-> crowd, pc |-> "ranking", ids |-> {}]
        BY <1>2, <1>8 DEF merged
  <2>2. pool \subseteq merged  BY <1>1, <1>5, TopIs
  <2>3. recall' \in Memories!Recall
        BY <1>3, <1>4, <1>6, <2>1, <2>2 DEF Memories!Recall
  <2>4. RecallInv'  BY <1>3, <2>1, <2>2 DEF RecallInv, Memories!Ranking
  <2>5. Memories!RecallIsFull' /\ Memories!PinsComeFirst'
        BY <2>1 DEF Memories!RecallIsFull, Memories!PinsComeFirst, Memories!Answered
  <2> QED  BY <1>7, <2>3, <2>4, <2>5
           DEF MemoriesInv, Memories!TypeOK, Memories!Used, ErasedInv, Memories!ErasedIsGone
<1>9. CASE ~reranks
  <2>1. PICK ids \in Memories!Top(merged, pins, K) :
           recall' = [user |-> u, pool |-> {}, merged |-> {}, pins |-> pins, own |-> own,
                      crowd |-> crowd, pc |-> "unranked", ids |-> ids]
        BY <1>2, <1>9 DEF merged
  <2>2. /\ ids \subseteq merged /\ Cardinality(ids) = Memories!Least(K, Cardinality(merged))
        /\ merged \cap pins \subseteq ids \/ ids \subseteq pins
        BY <1>1, <1>5, TopIs
  <2>3. recall' \in Memories!Recall
        BY <1>3, <1>4, <1>6, <2>1, <2>2 DEF Memories!Recall
  <2>4. RecallInv'  BY <1>3, <2>1, <2>2 DEF RecallInv, Memories!Ranking
  <2>5. Memories!RecallIsFull' /\ Memories!PinsComeFirst'
        BY <1>3, <2>1, <2>2, MemoriesCount
        DEF Memories!RecallIsFull, Memories!PinsComeFirst, Memories!Answered
  <2> QED  BY <1>7, <2>3, <2>4, <2>5
           DEF MemoriesInv, Memories!TypeOK, Memories!Used, ErasedInv, Memories!ErasedIsGone
<1> QED  BY <1>8, <1>9

(* The reranker answers, or fails and the order by similarity stands.      *)
LEMMA RankKeeps ==
    ASSUME StoresAssumption, MemoriesInv, Memories!Rank \/ Memories!RankFails
    PROVE  MemoriesInv'
<1>1. recall # None /\ recall \in Memories!Recall /\ recall.pc = "ranking"
      BY DEF Memories!Rank, Memories!RankFails, Memories!Ranking, MemoriesInv, Memories!TypeOK
<1>2. /\ recall.pool \subseteq recall.own /\ recall.merged \subseteq recall.own
      /\ recall.pins \subseteq recall.merged
      /\ ~recall.crowd => Memories!Least(K, Cardinality(recall.merged))
                              = Memories!Least(K, Cardinality(recall.own))
      BY <1>1 DEF MemoriesInv, RecallInv, Memories!Ranking
<1>3. UNCHANGED <<row, nextRow, hasCode, reranks, erased>>
      BY DEF Memories!Rank, Memories!RankFails
<1>4. K \in Nat  BY DEF StoresAssumption, Memories!MemoryAssumption
<1>5. ASSUME NEW ids \in SUBSET recall.own, NEW pcs \in {"ranked", "unranked"},
             recall' = [recall EXCEPT !.pc = pcs, !.pool = {}, !.merged = {}, !.ids = ids],
             pcs = "unranked" =>
                /\ ~recall.crowd => Cardinality(ids) = Memories!Least(K, Cardinality(recall.own))
                /\ recall.pins \subseteq ids \/ ids \subseteq recall.pins
      PROVE  MemoriesInv'
  <2>1. recall' \in Memories!Recall  BY <1>1, <1>5 DEF Memories!Recall
  <2>2. /\ recall'.ids = ids /\ recall'.own = recall.own /\ recall'.pins = recall.pins
        /\ recall'.pc = pcs /\ recall'.crowd = recall.crowd
        BY <1>1, <1>5 DEF Memories!Recall
  <2>3. RecallInv'  BY <1>5, <2>2 DEF RecallInv, Memories!Ranking
  <2>4. Memories!RecallIsFull' /\ Memories!PinsComeFirst'
        BY <1>5, <2>2, MemoriesCount
        DEF Memories!RecallIsFull, Memories!PinsComeFirst, Memories!Answered
  <2> QED  BY <1>3, <2>1, <2>3, <2>4
           DEF MemoriesInv, Memories!TypeOK, Memories!Used, ErasedInv, Memories!ErasedIsGone
<1>6. CASE Memories!Rank
      BY <1>2, <1>5, <1>6 DEF Memories!Rank
<1>7. CASE Memories!RankFails
  <2>1. PICK ids \in Memories!Top(recall.merged, recall.pins, K) :
           recall' = [recall EXCEPT !.pc = "unranked", !.pool = {}, !.merged = {}, !.ids = ids]
        BY <1>7 DEF Memories!RankFails
  <2>2. IsFiniteSet(recall.merged)  BY <1>1, RowsAreFinite DEF Memories!Recall
  <2>3. /\ ids \subseteq recall.merged
        /\ Cardinality(ids) = Memories!Least(K, Cardinality(recall.merged))
        /\ recall.merged \cap recall.pins \subseteq ids \/ ids \subseteq recall.pins
        BY <1>4, <2>2, TopIs
  <2> QED  BY <1>2, <1>5, <2>1, <2>3
<1> QED  BY <1>6, <1>7

LEMMA RestartKeeps ==
    ASSUME StoresAssumption, MemoriesInv, Memories!Restart
    PROVE  MemoriesInv'
<1> USE DEF Memories!Restart, Memories!Without
<1>1. Memories!TypeOK'
      BY DEF MemoriesInv, Memories!TypeOK, Memories!Used
<1>2. ErasedInv'
      BY DEF MemoriesInv, Memories!TypeOK, Memories!Used, ErasedInv, Memories!ErasedIsGone
<1>3. RecallInv' /\ Memories!RecallIsFull' /\ Memories!PinsComeFirst'
      BY DEF RecallInv, Memories!RecallIsFull, Memories!PinsComeFirst, Memories!Answered
<1> QED  BY <1>1, <1>2, <1>3 DEF MemoriesInv

LEMMA MemoriesStay ==
    ASSUME StoresAssumption PROVE MemoriesInv /\ [Memories!Next]_memories => MemoriesInv'
<1> SUFFICES ASSUME MemoriesInv, [Memories!Next]_memories  PROVE MemoriesInv'
    OBVIOUS
<1>1. CASE UNCHANGED memories
      BY <1>1 DEF memories, MemoriesInv, Memories!TypeOK, Memories!Used, RecallInv, ErasedInv,
                  Memories!Ranking, Memories!ErasedIsGone, Memories!RecallIsFull,
                  Memories!PinsComeFirst, Memories!Answered
<1>2. CASE Memories!Next
      BY <1>2, RowsKeep, GatherKeeps, RankKeeps, RestartKeeps DEF Memories!Next
<1> QED  BY <1>1, <1>2

-----------------------------------------------------------------------------
(* Saver.  The rows of traces against the exchanges: a row has the day on  *)
(* which it was inserted, and of an exchange without one that was before   *)
(* the window of the history, seen from the sweep under way or from today, *)
(* unless the row went with its user.                                      *)
RowInv ==
    \A t \in Exchange : began[t] # None =>
        /\ began[t] <= today
        /\ started[t] # None => started[t] = began[t]
        /\ started[t] = None /\ t \notin removed =>
              began[t] + HistoryDays < (IF sweep.pc = "idle" THEN today ELSE sweep.now)

(* Whoever has checkpoints or is about to save one began.                  *)
BeganInv ==
    \A t \in Exchange : (t \in running \/ thread[t] # {} \/ started[t] # None) => began[t] # None

(* What a sweep has asked for and listed: every exchange it would not keep *)
(* is old, or has begun since.                                             *)
SweepInv ==
    /\ sweep.now <= today
    /\ sweep.pc \in {"asked", "listed"} =>
          \A t \in Exchange \ sweep.recent : began[t] # None =>
              \/ began[t] + CheckpointDays < sweep.now
              \/ began[t] + HistoryDays < sweep.now
              \/ t \in sweep.late \/ t \in removed
    /\ sweep.pc # "listed" => sweep.stale = {}
    /\ \A t \in sweep.stale : t \notin sweep.recent /\ began[t] # None

SaverInv == Saver!TypeOK /\ Saver!ResumePointKept /\ RowInv /\ BeganInv /\ SweepInv

-----------------------------------------------------------------------------
(* Sets of checkpoints are finite, and Newest keeps the newest of them.    *)
LEMMA NewestKeeps ==
    ASSUME StoresAssumption, NEW S \in SUBSET Nat, NEW n \in S, \A m \in S : m <= n
    PROVE  n \in Saver!Newest(S) /\ Saver!Newest(S) \subseteq S
<1>1. ASSUME NEW m \in S  PROVE ~(m > n)
  <2>1. m \in Nat /\ n \in Nat /\ m <= n  OBVIOUS
  <2> QED  BY <2>1
<1>2. {m \in S : m > n} = {}  BY <1>1, Zenon
<1>3. Cardinality({m \in S : m > n}) = 0  BY <1>2, FS_EmptySet
<1>4. Saver!Cardinality({m \in S : m > n}) = 0  BY <1>3 DEF Saver!Cardinality, Cardinality
<1> QED  BY <1>4 DEF Saver!Newest, StoresAssumption, Saver!CheckpointsAssumption

LEMMA SaverStarts == ASSUME StoresAssumption PROVE Saver!Init => SaverInv
  BY DEF StoresAssumption, Saver!CheckpointsAssumption, Saver!Init, SaverInv, Saver!TypeOK,
         Saver!ResumePointKept, RowInv, BeganInv, SweepInv,
         Saver!Idle, Saver!Time, Saver!Step, Saver!Sweep

(* The exchanges.                                                          *)
LEMMA ExchangeKeeps ==
    ASSUME StoresAssumption, SaverInv, NEW t \in Exchange, Saver!Begin(t) \/ Saver!DeleteUser(t)
    PROVE  SaverInv'
<1> USE StoresAssumption
  DEF StoresAssumption, Saver!CheckpointsAssumption, SaverInv, Saver!Begin, Saver!Began, Saver!DeleteUser,
      Saver!agent, Saver!Time
<1>1. Saver!TypeOK'  BY DEF Saver!TypeOK, Saver!Sweep
<1>2. Saver!ResumePointKept'  BY DEF Saver!TypeOK, Saver!ResumePointKept
<1>3. RowInv'  BY DEF Saver!TypeOK, RowInv, Saver!Sweep
<1>4. BeganInv'  BY DEF Saver!TypeOK, BeganInv
<1>5. SweepInv'  BY DEF Saver!TypeOK, SweepInv, Saver!Sweep
<1> QED  BY <1>1, <1>2, <1>3, <1>4, <1>5

LEMMA AgentKeeps ==
    ASSUME StoresAssumption, SaverInv, NEW t \in Exchange,
           Saver!Save(t) \/ Saver!WriteAfter(t) \/ Saver!End(t)
    PROVE  SaverInv'
<1> USE StoresAssumption
  DEF StoresAssumption, Saver!CheckpointsAssumption, SaverInv, Saver!agent, Saver!Time, Saver!Step
<1>1. CASE Saver!Save(t)
  <2> USE <1>1 DEF Saver!Save
  <2>1. Saver!TypeOK'  BY DEF Saver!TypeOK
  <2>2. Saver!ResumePointKept'  BY DEF Saver!TypeOK, Saver!ResumePointKept
  <2> QED  BY <2>1, <2>2 DEF Saver!TypeOK, RowInv, BeganInv, SweepInv
<1>2. CASE Saver!WriteAfter(t)
  <2> USE <1>2 DEF Saver!WriteAfter
  <2>1. Saver!TypeOK'  BY DEF Saver!TypeOK
  <2>2. Saver!ResumePointKept'  BY DEF Saver!TypeOK, Saver!ResumePointKept
  <2> QED  BY <2>1, <2>2 DEF RowInv, BeganInv, SweepInv
<1>3. CASE Saver!End(t)
      BY <1>3 DEF Saver!End, Saver!TypeOK, Saver!ResumePointKept, RowInv, BeganInv, SweepInv
<1> QED  BY <1>1, <1>2, <1>3

LEMMA DayPasses ==
    ASSUME StoresAssumption, SaverInv, Saver!Tick \/ UNCHANGED checkpoints
    PROVE  SaverInv'
<1> USE StoresAssumption
  DEF StoresAssumption, Saver!CheckpointsAssumption, SaverInv, Saver!agent, Saver!Time
<1>1. CASE Saver!Tick
  <2> USE <1>1 DEF Saver!Tick
  <2>1. Saver!TypeOK'  BY DEF Saver!TypeOK
  <2>2. RowInv'  BY DEF Saver!TypeOK, RowInv, Saver!Sweep
  <2>3. SweepInv'  BY DEF Saver!TypeOK, SweepInv, Saver!Sweep
  <2> QED  BY <2>1, <2>2, <2>3 DEF Saver!ResumePointKept, BeganInv
<1>2. CASE UNCHANGED checkpoints
      BY <1>2 DEF checkpoints, Saver!TypeOK, Saver!ResumePointKept, RowInv, BeganInv, SweepInv
<1> QED  BY <1>1, <1>2

(* The sweep.                                                              *)
LEMMA SweepLooks ==
    ASSUME StoresAssumption, SaverInv,
           Saver!SweepHistory \/ Saver!AskRecent \/ Saver!ListThreads \/ Saver!SweepFails
    PROVE  SaverInv'
<1> USE StoresAssumption
  DEF StoresAssumption, Saver!CheckpointsAssumption, SaverInv, Saver!agent, Saver!Time,
      Saver!Sweep, Saver!Idle
<1>1. CASE Saver!SweepHistory
  <2> USE <1>1 DEF Saver!SweepHistory
  <2>1. Saver!TypeOK'  BY DEF Saver!TypeOK
  <2>2. RowInv'  BY DEF Saver!TypeOK, RowInv
  <2> QED  BY <2>1, <2>2 DEF Saver!TypeOK, Saver!ResumePointKept, BeganInv, SweepInv
<1>2. CASE Saver!AskRecent
  <2> USE <1>2 DEF Saver!AskRecent
  <2>1. Saver!Recent \in SUBSET Exchange  BY DEF Saver!Recent
  <2>2. Saver!TypeOK'  BY <2>1 DEF Saver!TypeOK
  <2>3. RowInv'  BY DEF Saver!TypeOK, RowInv
  <2>4. SweepInv'
    <3>1. ASSUME NEW u \in Exchange \ Saver!Recent, began[u] # None
          PROVE  \/ began[u] + CheckpointDays < sweep.now
                 \/ began[u] + HistoryDays < sweep.now
                 \/ u \in removed
          BY <3>1 DEF Saver!TypeOK, Saver!Recent, RowInv
    <3>2. sweep.stale = {}  BY DEF SweepInv
    <3> QED  BY <3>1, <3>2 DEF Saver!TypeOK, SweepInv
  <2> QED  BY <2>2, <2>3, <2>4 DEF Saver!ResumePointKept, BeganInv
<1>3. CASE Saver!ListThreads
  <2> USE <1>3 DEF Saver!ListThreads
  <2>1. Saver!TypeOK'  BY DEF Saver!TypeOK
  <2>2. RowInv'  BY DEF Saver!TypeOK, RowInv
  <2>3. SweepInv'  BY DEF Saver!TypeOK, SweepInv, BeganInv
  <2> QED  BY <2>1, <2>2, <2>3 DEF Saver!ResumePointKept, BeganInv
<1>4. CASE Saver!SweepFails
  <2> USE <1>4 DEF Saver!SweepFails
  <2>1. Saver!TypeOK'  BY DEF Saver!TypeOK
  <2>2. RowInv'  BY DEF Saver!TypeOK, RowInv, SweepInv
  <2> QED  BY <2>1, <2>2 DEF Saver!TypeOK, Saver!ResumePointKept, BeganInv, SweepInv
<1> QED  BY <1>1, <1>2, <1>3, <1>4

LEMMA DropKeeps ==
    ASSUME StoresAssumption, SaverInv, Saver!Drop
    PROVE  SaverInv'
<1> USE StoresAssumption
  DEF StoresAssumption, Saver!CheckpointsAssumption, SaverInv, Saver!Drop, Saver!Time,
      Saver!Sweep, Saver!Idle, Saver!Step
<1>1. ASSUME NEW t \in Exchange  PROVE thread'[t] \subseteq thread[t]
      BY DEF Saver!Newest, Saver!TypeOK
<1>2. Saver!TypeOK'  BY <1>1 DEF Saver!TypeOK
<1>3. Saver!ResumePointKept'
  <2> SUFFICES ASSUME NEW t \in Exchange \ dropped'
               PROVE  /\ last[t] > 0 => last[t] \in thread'[t]
                      /\ t \in wrote => <<t, last[t]>> \in writes'
      BY DEF Saver!ResumePointKept
  <2>1. t \notin dropped /\ t \notin sweep.stale  BY DEF Saver!TypeOK
  <2>2. ASSUME last[t] > 0  PROVE last[t] \in thread'[t]
    <3>1. last[t] \in thread[t]  BY <2>1, <2>2 DEF Saver!ResumePointKept
    <3>2. thread[t] \in SUBSET Nat /\ \A m \in thread[t] : m <= last[t]  BY DEF Saver!TypeOK
    <3>3. last[t] \in Saver!Newest(thread[t])  BY <3>1, <3>2, NewestKeeps
    <3> QED  BY <3>3, <2>1
  <2>3. ASSUME t \in wrote  PROVE <<t, last[t]>> \in writes'
    <3>1. <<t, last[t]>> \in writes  BY <2>1, <2>3 DEF Saver!ResumePointKept
    <3>2. last[t] > 0  BY <3>1 DEF Saver!TypeOK
    <3> QED  BY <3>1, <3>2, <2>2
  <2> QED  BY <2>2, <2>3
<1>4. RowInv'  BY DEF Saver!TypeOK, RowInv, SweepInv
<1>5. BeganInv'  BY <1>1 DEF BeganInv
<1>6. SweepInv'  BY DEF Saver!TypeOK, SweepInv
<1> QED  BY <1>2, <1>3, <1>4, <1>5, <1>6

LEMMA SaverStays == ASSUME StoresAssumption PROVE SaverInv
                           /\ [Saver!Next]_checkpoints => SaverInv'
<1> SUFFICES ASSUME SaverInv, [Saver!Next]_checkpoints  PROVE SaverInv'
    OBVIOUS
<1>1. ASSUME NEW t \in Exchange,
             \/ Saver!Begin(t) \/ Saver!DeleteUser(t)
             \/ Saver!Save(t) \/ Saver!WriteAfter(t) \/ Saver!End(t)
                   PROVE SaverInv'
      BY <1>1, ExchangeKeeps, AgentKeeps
<1>2. ASSUME Saver!Tick \/ UNCHANGED checkpoints  PROVE SaverInv'
      BY <1>2, DayPasses
<1>3. ASSUME Saver!SweepHistory \/ Saver!AskRecent \/ Saver!ListThreads \/ Saver!SweepFails
      PROVE SaverInv'
      BY <1>3, SweepLooks
<1>4. ASSUME Saver!Drop  PROVE SaverInv'
      BY <1>4, DropKeeps
<1> QED  BY <1>1, <1>2, <1>3, <1>4 DEF Saver!Next

-----------------------------------------------------------------------------
(* Options.  While no two changes of profile have met, the session has the *)
(* profile with the options and overrides that go with it, but for what    *)
(* the change under way has still to assign.                               *)
Whole ==
    /\ Options!Calm => session.of = session.profile /\ session.tuned \in {"none", session.profile}
    /\ \A w \in Options!Switcher : switch[w] # Options!Idle =>
          /\ \A v \in Options!Switcher \ {w} : switch[v] = Options!Idle
          /\ session.profile = switch[w].to
          /\ switch[w].at # "options" => session.of = session.profile
          /\ switch[w].at = "announced" => session.tuned \in {"none", session.profile}

(* However they meet, its options are all those of one profile.            *)
SwitchInv ==
    /\ \A w \in Options!Switcher :
          /\ switch[w].at = "idle" <=> switch[w] = Options!Idle
          /\ switch[w] # Options!Idle => Options!Exists /\ switch[w].to \in Profile
    /\ ~Options!Exists => ~session.announced /\ turn = Options!NoTurn
    /\ Options!Exists =>
          /\ session.of \in Profile
          /\ \A f \in Labelled[session.of] : session.options[f] # Options!Absent
    /\ Options!Exists /\ ~tangled => Whole

(* What a prompt has read is still so, unless the profile has changed.     *)
TurnInv ==
    /\ turn.pc = "named" => turn.profile \in Profile
    /\ turn.pc = "named" /\ session.announced /\ Options!Calm => turn.profile = session.profile
    /\ turn.pc \in Options!Reading /\ ~turn.torn =>
          Options!Calm /\ ~tangled /\ turn.profile = session.profile
    /\ turn.pc \in Options!WithOptions => turn.of \in Profile

OptionsInv ==
    /\ Options!TypeOK /\ SwitchInv /\ TurnInv
    /\ Options!TurnIsOfOneProfile /\ Options!AnnouncedIsCurrent

(* The types of what an option is set in.                                  *)
Sessions == [profile : Options!Name, announced : BOOLEAN,
             options : [Options!Feature -> Options!Value], of : Options!Name,
             overrides : SUBSET Param, tuned : Options!Name]
Sent == [pc : {"none", "announcing", "named", "prompted"} \cup Options!Reading
              \cup Options!WithOptions,
         profile : Options!Name, options : [Options!Feature -> Options!Value],
         of : Options!Name, overrides : SUBSET Param, tuned : Options!Name,
         live : SUBSET {"options", "overrides", "nested"}, torn : BOOLEAN]
Switching == [to : Options!Name, at : {"idle", "options", "overrides", "announced"}]

LEMMA OptionsType ==
    Options!TypeOK <=>
        /\ session \in Sessions /\ turn \in Sent
        /\ switch \in [Options!Switcher -> Switching] /\ tangled \in BOOLEAN
        /\ seen \in [profile : Options!Name, options : [Options!Feature -> Options!Value]]
        /\ geared \in SUBSET Options!Feature /\ menu \in SUBSET Options!Feature
  BY DEF Options!TypeOK, Sessions, Sent, Switching

LEMMA NoTurnIs == Options!NoTurn \in Sent /\ Options!NoTurn.pc = "none"
  BY DEF Options!NoTurn, Options!NoOptions, Sent, Options!Name, Options!Value, Options!Absent

LEMMA OptionsStart == ASSUME StoresAssumption PROVE Options!Init => OptionsInv
<1> SUFFICES ASSUME Options!Init PROVE OptionsInv  OBVIOUS
<1> USE DEF Options!Init, Options!Name, Options!NoOptions, Options!Value, Options!Absent,
            Options!NoTurn, Options!Nothing, Options!Idle, Options!Exists
<1>1. Options!TypeOK
  <2>1. session \in Sessions  BY DEF Sessions
  <2>2. turn \in Sent  BY DEF Sent
  <2>3. switch \in [Options!Switcher -> Switching]  BY DEF Switching
  <2>4. menu \in SUBSET Options!Feature
        BY DEF StoresAssumption, Options!AcpOptionsAssumption, Options!SettingsItems
  <2> QED  BY <2>1, <2>2, <2>3, <2>4, OptionsType
<1>2. SwitchInv  BY DEF SwitchInv, Options!Switcher
<1>3. TurnInv  BY DEF TurnInv, Options!Reading, Options!WithOptions
<1> QED  BY <1>1, <1>2, <1>3
         DEF OptionsInv, Options!TurnIsOfOneProfile, Options!AnnouncedIsCurrent,
             Options!WithOptions, Options!WithOverrides

(* The features of a profile, and their defaults.                          *)
LEMMA OwnIs ==
    ASSUME StoresAssumption, NEW p \in Profile
    PROVE  /\ p # "none" /\ Labelled[p] \subseteq Options!Feature
           /\ Options!Own(p) \in [Options!Feature -> Options!Value]
           /\ \A f \in Labelled[p] : Options!Own(p)[f] # Options!Absent
  BY DEF StoresAssumption, Options!AcpOptionsAssumption, Options!Own, Options!Value, Options!Absent

(* What the client is shown has the type of options.                       *)
LEMMA ShowIs ==
    ASSUME NEW p, NEW o \in [Options!Feature -> Options!Value]
    PROVE  Options!ConfigOptions(p, o) \in [Options!Feature -> Options!Value]
  BY DEF Options!ConfigOptions, Options!Value, Options!Absent

(* A session begins with the options of the default profile.               *)
LEMMA SessionKeeps ==
    ASSUME StoresAssumption, OptionsInv, Options!NewSession
    PROVE  OptionsInv'
<1> USE DEF OptionsInv, Options!NewSession
<1>1. Default \in Profile  BY DEF StoresAssumption, Options!AcpOptionsAssumption
<1>2. session' \in Sessions  BY <1>1, OwnIs DEF Sessions, Options!Name
<1>3. Options!TypeOK'  BY <1>2 DEF Options!TypeOK, Sessions
<1>4. \A w \in Options!Switcher : switch[w] = Options!Idle  BY DEF SwitchInv
<1>5. turn = Options!NoTurn  BY DEF SwitchInv
<1>6. SwitchInv'
      BY <1>1, <1>4, OwnIs DEF SwitchInv, Whole, Options!Exists, Options!Calm
<1>7. TurnInv'  BY <1>5 DEF TurnInv, Options!NoTurn, Options!Reading, Options!WithOptions
<1>8. Options!TurnIsOfOneProfile'
      BY <1>5 DEF Options!TurnIsOfOneProfile, Options!NoTurn, Options!WithOptions,
                  Options!WithOverrides
<1> QED  BY <1>3, <1>6, <1>7, <1>8 DEF Options!AnnouncedIsCurrent

(* The prompt sets the flag, reads the profile and shows its options.      *)
LEMMA PromptKeeps ==
    ASSUME StoresAssumption, OptionsInv,
           Options!Prompt \/ Options!ReadMode \/ Options!Announce \/ Options!LeavePrompt
    PROVE  OptionsInv'
<1> USE DEF OptionsInv, Options!Reading, Options!WithOptions, Options!WithOverrides
<1>1. /\ session' \in Sessions /\ UNCHANGED <<switch, tangled, menu>>
      /\ session'.profile = session.profile /\ session'.options = session.options
      /\ session'.of = session.of /\ session'.tuned = session.tuned
  <2>1. session \in Sessions  BY OptionsType
  <2>2. session' = session \/ session' = [session EXCEPT !.announced = TRUE]
        BY DEF Options!Prompt, Options!ReadMode, Options!Announce, Options!LeavePrompt
  <2>3. UNCHANGED <<switch, tangled, menu>>
        BY DEF Options!Prompt, Options!ReadMode, Options!Announce, Options!LeavePrompt
  <2> QED  BY <2>1, <2>2, <2>3 DEF Sessions
<1>2. Options!Exists
      BY DEF Options!Prompt, Options!ReadMode, Options!Announce, Options!LeavePrompt, SwitchInv,
             Options!NoTurn
<1>3. turn' \in Sent /\ turn'.pc \in {"announcing", "named", "prompted", "none"}
  <2>1. turn \in Sent /\ session.profile \in Options!Name  BY OptionsType DEF Sessions
  <2>2. CASE Options!Prompt  BY <2>1, <2>2 DEF Options!Prompt, Sent
  <2>3. CASE Options!ReadMode  BY <2>1, <2>3 DEF Options!ReadMode, Sent
  <2>4. CASE Options!Announce  BY <2>1, <2>4 DEF Options!Announce, Sent, Options!Name
  <2>5. CASE Options!LeavePrompt  BY <2>5, NoTurnIs DEF Options!LeavePrompt
  <2> QED  BY <2>2, <2>3, <2>4, <2>5
<1>4. /\ seen' \in [profile : Options!Name, options : [Options!Feature -> Options!Value]]
      /\ geared' \in SUBSET Options!Feature
      BY ShowIs DEF Options!Prompt, Options!ReadMode, Options!Announce, Options!LeavePrompt,
                    Options!TypeOK
<1>5. Options!TypeOK'  BY <1>1, <1>3, <1>4 DEF Options!TypeOK, Sessions, Sent
<1>6. SwitchInv'  BY <1>1, <1>2 DEF SwitchInv, Whole, Options!Exists, Options!Calm
<1>7. Options!TurnIsOfOneProfile'  BY <1>3 DEF Options!TurnIsOfOneProfile
<1>8. CASE Options!Prompt
  <2>1. turn'.pc \in {"prompted", "announcing"} /\ UNCHANGED <<seen, geared>>
        /\ (turn'.pc = "prompted" => session.announced) /\ turn.pc = "none"
        BY <1>8 DEF Options!Prompt, Options!TypeOK
  <2>2. TurnInv'  BY <2>1 DEF TurnInv
  <2>3. Options!AnnouncedIsCurrent'
        BY <1>1, <2>1 DEF Options!AnnouncedIsCurrent, Options!ConfigOptions, Options!Calm
  <2> QED  BY <1>5, <1>6, <1>7, <2>2, <2>3
<1>9. CASE Options!ReadMode
  <2>1. turn'.pc = "named" /\ turn'.profile = session.profile /\ session.profile \in Profile
        BY <1>2, <1>9 DEF Options!ReadMode, Options!TypeOK, Options!Exists, Options!Name
  <2>2. TurnInv'  BY <1>1, <2>1 DEF TurnInv
  <2> QED  BY <1>5, <1>6, <1>7, <2>1, <2>2 DEF Options!AnnouncedIsCurrent
<1>10. CASE Options!Announce
  <2>1. turn.pc = "named" /\ turn'.pc = "prompted" /\ session' = session
        BY <1>10 DEF Options!Announce, Options!TypeOK
  <2>2. TurnInv'  BY <2>1 DEF TurnInv
  <2>3. Options!AnnouncedIsCurrent'
    <3> SUFFICES ASSUME session.announced, Options!Calm, Labelled[session.profile] # {}
                 PROVE  /\ seen'.profile = session.profile
                        /\ \A f \in Options!Feature : seen'.options[f] =
                              Options!ConfigOptions(session.profile, session.options)[f]
        BY <1>1, <2>1 DEF Options!AnnouncedIsCurrent, Options!Calm, Options!ConfigOptions
    <3>1. turn.profile = session.profile  BY <2>1 DEF TurnInv
    <3> QED  BY <1>10, <3>1 DEF Options!Announce
  <2> QED  BY <1>5, <1>6, <1>7, <2>2, <2>3
<1>11. CASE Options!LeavePrompt
  <2>1. turn'.pc = "none" /\ turn.pc = "prompted" /\ UNCHANGED <<session, seen, geared>>
        BY <1>11 DEF Options!LeavePrompt, Options!NoTurn
  <2>2. TurnInv'  BY <2>1 DEF TurnInv
  <2>3. Options!AnnouncedIsCurrent'
        BY <1>1, <2>1 DEF Options!AnnouncedIsCurrent, Options!ConfigOptions, Options!Calm
  <2> QED  BY <1>5, <1>6, <1>7, <2>2, <2>3
<1> QED  BY <1>8, <1>9, <1>10, <1>11

(* An option is set where it is, in the session and in a turn that has not *)
(* copied its dict.                                                        *)
LEMMA SetKeeps ==
    ASSUME StoresAssumption, OptionsInv, NEW f \in Options!Feature,
           NEW value \in {"true", "false"}, Options!Exists, Options!Set(f, value),
           switch' = switch, tangled' = tangled
    PROVE  /\ session' \in Sessions /\ turn' \in Sent
           /\ session' = [session EXCEPT !.options[f] = value]
           /\ session'.profile = session.profile /\ session'.announced = session.announced
           /\ turn'.pc = turn.pc /\ turn'.profile = turn.profile
           /\ SwitchInv' /\ TurnInv' /\ Options!TurnIsOfOneProfile'
<1> USE DEF OptionsInv, Options!Set, Options!Value, Options!Absent
<1>1. /\ session' \in Sessions /\ session' = [session EXCEPT !.options[f] = value]
      /\ session'.profile = session.profile /\ session'.announced = session.announced
      /\ session'.of = session.of /\ session'.tuned = session.tuned
      BY DEF Options!TypeOK, Sessions
<1>2. /\ turn' \in Sent /\ turn'.pc = turn.pc /\ turn'.profile = turn.profile
      /\ turn'.of = turn.of /\ turn'.tuned = turn.tuned /\ turn'.torn = turn.torn
      BY DEF Options!TypeOK, Sent
<1>3. SwitchInv'
  <2>1. \A g \in Options!Feature :
            session.options[g] # "absent" => session'.options[g] # "absent"
        BY <1>1 DEF Options!TypeOK
  <2>2. session.of \in Profile  BY DEF SwitchInv
  <2>3. Labelled[session.of] \subseteq Options!Feature  BY <2>2, OwnIs
  <2>4. \A g \in Labelled[session.of] : session'.options[g] # "absent"
        BY <2>1, <2>3 DEF SwitchInv
  <2> QED  BY <1>1, <2>2, <2>4 DEF SwitchInv, Whole, Options!Exists, Options!Calm
<1>4. TurnInv'  BY <1>1, <1>2 DEF TurnInv, Options!Calm
<1>5. Options!TurnIsOfOneProfile'
  <2>1. \A g \in Options!Feature : turn.options[g] # "absent" => turn'.options[g] # "absent"
        BY DEF Options!TypeOK
  <2>2. turn.pc \in Options!WithOptions =>
            \A g \in Labelled[turn.of] : g \in Options!Feature /\ turn.options[g] # "absent"
        BY OwnIs DEF TurnInv, Options!TurnIsOfOneProfile
  <2> QED  BY <1>2, <2>1, <2>2 DEF Options!TurnIsOfOneProfile
<1> QED  BY <1>1, <1>2, <1>3, <1>4, <1>5

LEMMA ClientSetKeeps ==
    ASSUME StoresAssumption, OptionsInv, NEW f \in Options!Feature, NEW v,
           Options!SetConfigOption(f, v)
    PROVE  OptionsInv'
<1> DEFINE value == IF v = "on" THEN "true" ELSE "false"
<1> DEFINE shown == Options!ConfigOptions(session.profile, session'.options)
<1>1. /\ Options!Exists /\ Options!Set(f, value)
      /\ seen' = [profile |-> session.profile, options |-> shown] /\ geared' = {}
      /\ switch' = switch /\ tangled' = tangled /\ menu' = menu
      BY DEF Options!SetConfigOption
<1>2. value \in {"true", "false"}  OBVIOUS
<1> HIDE DEF value
<1>3. /\ session' \in Sessions /\ turn' \in Sent /\ session'.profile = session.profile
      /\ SwitchInv' /\ TurnInv' /\ Options!TurnIsOfOneProfile'
      BY <1>1, <1>2, SetKeeps
<1>4. shown \in [Options!Feature -> Options!Value]  BY <1>3, ShowIs DEF Sessions
<1>5. seen' = [profile |-> session'.profile,
               options |-> Options!ConfigOptions(session'.profile, session'.options)]
      BY <1>1, <1>3
<1>6. Options!AnnouncedIsCurrent'
      BY <1>5 DEF Options!AnnouncedIsCurrent, Options!ConfigOptions
<1> HIDE DEF shown
<1>7. Options!TypeOK'
      BY <1>1, <1>3, <1>4 DEF OptionsInv, Options!TypeOK, Sessions, Sent
<1> QED  BY <1>3, <1>6, <1>7 DEF OptionsInv

LEMMA GearKeeps ==
    ASSUME StoresAssumption, OptionsInv,
           \/ \E f \in Options!Feature, value \in {"true", "false"} : Options!GearFeature(f, value)
           \/ \E k \in Param : Options!GearParam(k)
    PROVE  OptionsInv'
<1>1. ASSUME NEW f \in Options!Feature, NEW value \in {"true", "false"},
             Options!GearFeature(f, value)
      PROVE  OptionsInv'
  <2>1. /\ Options!Exists /\ Options!Set(f, value)
        /\ geared' = IF seen = Options!Nothing THEN geared ELSE geared \cup {f}
        /\ switch' = switch /\ tangled' = tangled /\ seen' = seen /\ menu' = menu
        BY <1>1 DEF Options!GearFeature
  <2>2. /\ session' \in Sessions /\ turn' \in Sent
        /\ session' = [session EXCEPT !.options[f] = value]
        /\ session'.profile = session.profile /\ session'.announced = session.announced
        /\ turn'.pc = turn.pc
        /\ SwitchInv' /\ TurnInv' /\ Options!TurnIsOfOneProfile'
        BY <2>1, SetKeeps
  <2>3. Options!TypeOK'
        BY <2>1, <2>2 DEF OptionsInv, Options!TypeOK, Sessions, Sent
  <2>4. Options!AnnouncedIsCurrent'
    <3> SUFFICES ASSUME session.announced, Options!Calm, turn.pc \notin {"announcing", "named"},
                        Labelled[session.profile] # {}
                 PROVE  /\ seen.profile = session.profile
                        /\ \A g \in Options!Feature \ geared' : seen.options[g] =
                              Options!ConfigOptions(session.profile, session'.options)[g]
        BY <2>1, <2>2 DEF Options!AnnouncedIsCurrent, Options!Calm
    <3>1. /\ seen.profile = session.profile
          /\ \A g \in Options!Feature \ geared : seen.options[g] =
                Options!ConfigOptions(session.profile, session.options)[g]
          BY DEF OptionsInv, Options!AnnouncedIsCurrent
    <3>2. seen # Options!Nothing  BY <2>1, <3>1 DEF Options!Nothing, Options!Exists
    <3>3. geared' = geared \cup {f}  BY <2>1, <3>2
    <3>4. \A g \in Options!Feature \ {f} : session'.options[g] = session.options[g]
          BY <2>2 DEF OptionsInv, Options!TypeOK
    <3>5. \A g \in Options!Feature \ geared' :
              Options!ConfigOptions(session.profile, session'.options)[g]
                  = Options!ConfigOptions(session.profile, session.options)[g]
          BY <3>3, <3>4 DEF Options!ConfigOptions
    <3> QED  BY <3>1, <3>3, <3>5
  <2> QED  BY <2>2, <2>3, <2>4 DEF OptionsInv
<1>2. ASSUME NEW k \in Param, Options!GearParam(k)
      PROVE  OptionsInv'
  <2> USE <1>2 DEF Options!GearParam, OptionsInv
  <2>1. /\ session' \in Sessions
        /\ session'.profile = session.profile /\ session'.announced = session.announced
        /\ session'.options = session.options /\ session'.of = session.of
        /\ session'.tuned = IF session.tuned = "none" THEN session.profile ELSE session.tuned
        BY DEF Options!TypeOK, Sessions
  <2>2. /\ turn' \in Sent /\ turn'.pc = turn.pc /\ turn'.profile = turn.profile
        /\ turn'.options = turn.options /\ turn'.of = turn.of
        /\ turn'.tuned = turn.tuned /\ turn'.torn = turn.torn
        BY DEF Options!TypeOK, Sent
  <2>3. UNCHANGED <<switch, tangled, seen, geared, menu>> /\ Options!Exists  OBVIOUS
  <2> HIDE DEF Options!GearParam
  <2>4. Options!TypeOK'  BY <2>1, <2>2, <2>3 DEF Options!TypeOK, Sessions, Sent
  <2>5. SwitchInv'  BY <2>1, <2>3 DEF SwitchInv, Whole, Options!Exists, Options!Calm
  <2>6. TurnInv'  BY <2>1, <2>2, <2>3 DEF TurnInv, Options!Calm
  <2>7. Options!TurnIsOfOneProfile'  BY <2>2 DEF Options!TurnIsOfOneProfile
  <2>8. Options!AnnouncedIsCurrent'
        BY <2>1, <2>2, <2>3 DEF Options!AnnouncedIsCurrent, Options!Calm, Options!ConfigOptions
  <2> QED  BY <2>4, <2>5, <2>6, <2>7, <2>8
<1> QED  BY <1>1, <1>2

(* A change of profile, one assignment after the other, beside the turn    *)
(* and another change.                                                     *)
LEMMA SwitchBegins ==
    ASSUME StoresAssumption, OptionsInv, NEW w \in Options!Switcher, NEW p \in Profile,
           Options!SwitchProfile(w, p)
    PROVE  OptionsInv'
<1> USE DEF OptionsInv, Options!SwitchProfile
<1>1. /\ session' \in Sessions
      /\ session'.profile = p /\ session'.announced = session.announced
      /\ session'.options = session.options /\ session'.of = session.of
      BY DEF Options!TypeOK, Sessions, Options!Name
<1>2. /\ turn' \in Sent /\ turn'.pc = turn.pc /\ turn'.profile = turn.profile
      /\ turn'.options = turn.options /\ turn'.of = turn.of /\ turn'.tuned = turn.tuned
      /\ turn'.torn = (turn.torn \/ turn.pc \in Options!Reading)
      BY DEF Options!TypeOK, Sent
<1>3. /\ switch' \in [Options!Switcher -> Switching]
      /\ switch'[w] = [to |-> p, at |-> "options"] /\ switch'[w] # Options!Idle
      /\ \A v \in Options!Switcher \ {w} : switch'[v] = switch[v]
      BY DEF Options!TypeOK, Switching, Options!Name, Options!Idle
<1>4. p # "none" /\ Options!Exists /\ Options!Exists' /\ ~Options!Calm'
      BY <1>1, <1>3, OwnIs DEF Options!Exists, Options!Calm
<1>5. Options!TypeOK'
      BY <1>1, <1>2, <1>3 DEF Options!TypeOK, Sessions, Sent, Switching, Options!Calm
<1>6. SwitchInv'
  <2>1. \A v \in Options!Switcher :
            /\ switch'[v].at = "idle" <=> switch'[v] = Options!Idle
            /\ switch'[v] # Options!Idle => switch'[v].to \in Profile
        BY <1>3 DEF SwitchInv, Options!Idle
  <2>2. ~tangled' => \A v \in Options!Switcher \ {w} : switch'[v] = Options!Idle
        BY <1>3 DEF Options!Calm
  <2>3. ~tangled' => Whole'
        BY <1>1, <1>3, <1>4, <2>2 DEF Whole
  <2> QED  BY <1>1, <1>4, <2>1, <2>3 DEF SwitchInv
<1>7. TurnInv'  BY <1>2, <1>4 DEF TurnInv
<1>8. Options!TurnIsOfOneProfile'
      BY <1>2 DEF Options!TurnIsOfOneProfile, Options!WithOptions, Options!WithOverrides
<1> QED  BY <1>4, <1>5, <1>6, <1>7, <1>8 DEF Options!AnnouncedIsCurrent

LEMMA SwitchGoesOn ==
    ASSUME StoresAssumption, OptionsInv, NEW w \in Options!Switcher,
           Options!SwitchOptions(w) \/ Options!SwitchOverrides(w)
    PROVE  OptionsInv'
<1> USE DEF OptionsInv, Options!SwitchOptions, Options!SwitchOverrides
<1> DEFINE p == switch[w].to
<1>1. /\ switch[w] # Options!Idle /\ switch[w].at # "idle" /\ p \in Profile /\ p # "none"
      /\ Options!Exists
      BY OwnIs DEF SwitchInv, Options!Idle
<1>2. /\ session' \in Sessions
      /\ session'.profile = session.profile /\ session'.announced = session.announced
      /\ \/ /\ session'.options = Options!Own(p) /\ session'.of = p
            /\ switch[w].at = "options" /\ session'.tuned = session.tuned
         \/ /\ session'.options = session.options /\ session'.of = session.of
            /\ switch[w].at = "overrides" /\ session'.tuned = "none"
  <2> HIDE DEF Options!SwitchOptions, Options!SwitchOverrides
  <2>1. session \in Sessions /\ p \in Options!Name  BY <1>1, OptionsType DEF Options!Name
  <2>2. Options!Own(p) \in [Options!Feature -> Options!Value]  BY <1>1, OwnIs
  <2>3. CASE Options!SwitchOptions(w)
        BY <2>1, <2>2, <2>3 DEF Options!SwitchOptions, Sessions
  <2>4. CASE Options!SwitchOverrides(w)
        BY <2>1, <2>4 DEF Options!SwitchOverrides, Sessions, Options!Name
  <2> QED  BY <2>3, <2>4
<1>3. /\ turn' \in Sent /\ turn'.pc = turn.pc /\ turn'.profile = turn.profile
      /\ turn'.options = turn.options /\ turn'.of = turn.of /\ turn'.tuned = turn.tuned
      /\ turn'.torn = turn.torn
      BY DEF Options!TypeOK, Sent
<1>4. /\ switch' \in [Options!Switcher -> Switching]
      /\ switch'[w].to = p /\ switch'[w] # Options!Idle /\ switch'[w].at # "idle"
      /\ switch[w].at = "options" => switch'[w].at = "overrides"
      /\ switch[w].at = "overrides" => switch'[w].at = "announced"
      /\ \A v \in Options!Switcher \ {w} : switch'[v] = switch[v]
      BY DEF Options!TypeOK, Switching, Options!Name, Options!Idle
<1>5. UNCHANGED <<tangled, seen, geared, menu>>  OBVIOUS
<1>6. Options!Exists' /\ ~Options!Calm' /\ ~Options!Calm
      BY <1>1, <1>2, <1>4 DEF Options!Exists, Options!Calm
<1> HIDE DEF p, Options!SwitchOptions, Options!SwitchOverrides
<1>7. Options!TypeOK'
      BY <1>2, <1>3, <1>4, <1>5 DEF Options!TypeOK, Sessions, Sent, Switching
<1>8. SwitchInv'
  <2>1. \A v \in Options!Switcher :
            /\ switch'[v].at = "idle" <=> switch'[v] = Options!Idle
            /\ switch'[v] # Options!Idle => switch'[v].to \in Profile
        BY <1>1, <1>4 DEF SwitchInv
  <2>2. session'.of \in Profile /\ \A f \in Labelled[session'.of] :
            session'.options[f] # Options!Absent
        BY <1>1, <1>2, OwnIs DEF SwitchInv
  <2>3. ASSUME ~tangled  PROVE Whole'
    <3>1. /\ \A v \in Options!Switcher \ {w} : switch[v] = Options!Idle
          /\ session.profile = p
          /\ switch[w].at # "options" => session.of = session.profile
          BY <1>1, <2>3 DEF SwitchInv, Whole, p
    <3> QED  BY <1>1, <1>2, <1>4, <1>6, <3>1 DEF Whole
  <2> QED  BY <1>5, <1>6, <2>1, <2>2, <2>3 DEF SwitchInv
<1>9. TurnInv'  BY <1>2, <1>3, <1>6 DEF TurnInv
<1>10. Options!TurnIsOfOneProfile'  BY <1>3 DEF Options!TurnIsOfOneProfile
<1> QED  BY <1>6, <1>7, <1>8, <1>9, <1>10 DEF Options!AnnouncedIsCurrent

LEMMA SwitchEnds ==
    ASSUME StoresAssumption, OptionsInv, NEW w \in Options!Switcher, Options!SwitchDone(w)
    PROVE  OptionsInv'
<1> USE DEF OptionsInv, Options!SwitchDone
<1>1. /\ switch[w] # Options!Idle /\ switch[w].to \in Profile /\ Options!Exists
      BY DEF SwitchInv, Options!Idle
<1>2. /\ session' \in Sessions /\ ~session'.announced
      /\ session'.profile = session.profile /\ session'.options = session.options
      /\ session'.of = session.of /\ session'.tuned = session.tuned
      BY DEF Options!TypeOK, Sessions
<1>3. /\ switch' \in [Options!Switcher -> Switching] /\ switch'[w] = Options!Idle
      /\ \A v \in Options!Switcher \ {w} : switch'[v] = switch[v]
      BY DEF Options!TypeOK, Switching, Options!Name, Options!Idle
<1>4. menu' \in SUBSET Options!Feature
      BY <1>1, OwnIs DEF Options!TypeOK, Options!MenuAfter, Options!SettingsItems
<1>5. seen' \in [profile : Options!Name, options : [Options!Feature -> Options!Value]]
      BY DEF Options!Nothing, Options!NoOptions, Options!Name, Options!Value, Options!Absent
<1>6. UNCHANGED <<tangled, turn>> /\ geared' = {} /\ switch[w].at = "announced"  OBVIOUS
<1> HIDE DEF Options!SwitchDone
<1>7. Options!TypeOK'
      BY <1>2, <1>3, <1>4, <1>5, <1>6 DEF Options!TypeOK, Sessions, Switching
<1>8. SwitchInv'
  <2>1. \A v \in Options!Switcher :
            /\ switch'[v].at = "idle" <=> switch'[v] = Options!Idle
            /\ switch'[v] # Options!Idle => switch'[v].to \in Profile
        BY <1>3 DEF SwitchInv, Options!Idle
  <2>2. ASSUME ~tangled  PROVE Whole'
    <3>1. /\ \A v \in Options!Switcher \ {w} : switch[v] = Options!Idle
          /\ session.of = session.profile /\ session.tuned \in {"none", session.profile}
          BY <1>1, <1>6, <2>2 DEF SwitchInv, Whole
    <3>2. \A v \in Options!Switcher : switch'[v] = Options!Idle  BY <1>3, <3>1
    <3> QED  BY <1>2, <3>1, <3>2 DEF Whole
  <2> QED  BY <1>1, <1>2, <1>6, <2>1, <2>2 DEF SwitchInv, Options!Exists
<1>9. TurnInv'
  <2>1. turn.pc \notin Options!Reading \/ turn.torn
        BY <1>1 DEF TurnInv, Options!Calm
  <2> QED  BY <1>2, <1>6, <2>1 DEF TurnInv
<1> QED  BY <1>2, <1>6, <1>7, <1>8, <1>9 DEF Options!TurnIsOfOneProfile, Options!AnnouncedIsCurrent

LEMMA MenuKeeps ==
    ASSUME StoresAssumption, OptionsInv, NEW p \in Profile, Options!SwitchMenu(p)
    PROVE  OptionsInv'
<1> USE DEF OptionsInv, Options!SwitchMenu
<1>1. menu' \in SUBSET Options!Feature
      BY OwnIs DEF Options!TypeOK, Options!MenuAfter, Options!SettingsItems
<1>2. UNCHANGED <<session, switch, tangled, seen, geared, turn>>  OBVIOUS
<1> HIDE DEF Options!SwitchMenu
<1>3. Options!TypeOK'  BY <1>1, <1>2 DEF Options!TypeOK
<1> QED  BY <1>2, <1>3
         DEF SwitchInv, Whole, TurnInv, Options!Exists, Options!Calm, Options!TurnIsOfOneProfile,
             Options!AnnouncedIsCurrent, Options!ConfigOptions

(* The turn reads its arguments one by one, merges and copies them.        *)
LEMMA TurnKeeps ==
    ASSUME StoresAssumption, OptionsInv,
           \/ Options!ReadProfile \/ Options!ReadOptions \/ Options!SendTurn
           \/ Options!StartTurn \/ Options!RunTurn \/ Options!EndTurn
    PROVE  OptionsInv'
<1> USE DEF OptionsInv
<1>1. UNCHANGED <<session, switch, tangled, seen, geared, menu>>
      BY DEF Options!ReadProfile, Options!ReadOptions, Options!SendTurn, Options!StartTurn,
             Options!RunTurn, Options!EndTurn
<1>2. /\ turn' \in Sent
      /\ turn.pc \notin {"none", "announcing", "named"}
      /\ turn'.pc \notin {"announcing", "named"}
  <2>1. turn \in Sent /\ session \in Sessions  BY OptionsType
  <2> USE DEF Options!Reading, Options!WithOptions
  <2>2. CASE Options!ReadProfile  BY <2>1, <2>2 DEF Options!ReadProfile, Sent, Sessions
  <2>3. CASE Options!ReadOptions  BY <2>1, <2>3 DEF Options!ReadOptions, Sent, Sessions
  <2>4. CASE Options!SendTurn  BY <2>1, <2>4 DEF Options!SendTurn, Sent, Sessions
  <2>5. CASE Options!StartTurn  BY <2>1, <2>5 DEF Options!StartTurn, Sent
  <2>6. CASE Options!RunTurn  BY <2>1, <2>6 DEF Options!RunTurn, Sent
  <2>7. CASE Options!EndTurn  BY <2>7, NoTurnIs DEF Options!EndTurn
  <2> QED  BY <2>2, <2>3, <2>4, <2>5, <2>6, <2>7
<1>3. Options!TypeOK'  BY <1>1, <1>2 DEF Options!TypeOK, Sent
<1>4. Options!Exists  BY <1>2 DEF SwitchInv, Options!NoTurn
<1>5. SwitchInv'  BY <1>1, <1>4 DEF SwitchInv, Whole, Options!Exists, Options!Calm
<1>6. Options!AnnouncedIsCurrent'
      BY <1>1, <1>2 DEF Options!AnnouncedIsCurrent, Options!Calm, Options!ConfigOptions
<1> USE DEF Options!Reading, Options!WithOptions, Options!WithOverrides
<1>7. CASE Options!ReadProfile
  <2>1. /\ turn'.pc = "profile" /\ turn'.profile = session.profile
        /\ turn'.torn = (~Options!Calm \/ tangled)
        BY <1>7 DEF Options!ReadProfile, Options!TypeOK
  <2>2. TurnInv'  BY <1>1, <2>1 DEF TurnInv, Options!Calm
  <2> QED  BY <1>3, <1>5, <1>6, <2>1, <2>2 DEF Options!TurnIsOfOneProfile
<1>8. CASE Options!ReadOptions
  <2>1. /\ turn.pc = "profile" /\ turn'.pc = "options" /\ turn'.profile = turn.profile
        /\ turn'.torn = turn.torn /\ turn'.options = session.options /\ turn'.of = session.of
        BY <1>8 DEF Options!ReadOptions, Options!TypeOK
  <2>2. TurnInv'  BY <1>1, <1>4, <2>1 DEF TurnInv, Options!Calm, SwitchInv
  <2>3. ~turn.torn => session.of = turn.profile
        BY <1>4, <2>1 DEF TurnInv, SwitchInv, Whole
  <2>4. Options!TurnIsOfOneProfile'
        BY <1>4, <2>1, <2>3 DEF Options!TurnIsOfOneProfile, SwitchInv
  <2> QED  BY <1>3, <1>5, <1>6, <2>2, <2>4
<1>9. CASE Options!SendTurn
  <2>1. /\ turn.pc = "options" /\ turn'.pc = "sent" /\ turn'.profile = turn.profile
        /\ turn'.torn = turn.torn /\ turn'.options = turn.options /\ turn'.of = turn.of
        /\ turn'.tuned = session.tuned
        BY <1>9 DEF Options!SendTurn, Options!TypeOK
  <2>2. TurnInv'  BY <1>1, <2>1 DEF TurnInv
  <2>3. ~turn.torn => session.tuned \in {"none", turn.profile}
        BY <1>4, <2>1 DEF TurnInv, SwitchInv, Whole
  <2>4. Options!TurnIsOfOneProfile'  BY <2>1, <2>3 DEF Options!TurnIsOfOneProfile
  <2> QED  BY <1>3, <1>5, <1>6, <2>2, <2>4
<1>10. CASE Options!StartTurn \/ Options!RunTurn
  <2>1. /\ turn.pc \in {"sent", "started"} /\ turn'.pc \in {"started", "running"}
        /\ turn'.profile = turn.profile /\ turn'.options = turn.options
        /\ turn'.of = turn.of /\ turn'.tuned = turn.tuned /\ turn'.torn = turn.torn
        BY <1>10 DEF Options!StartTurn, Options!RunTurn, Options!TypeOK
  <2>2. TurnInv'  BY <1>1, <2>1 DEF TurnInv
  <2>3. Options!TurnIsOfOneProfile'  BY <2>1 DEF Options!TurnIsOfOneProfile
  <2> QED  BY <1>3, <1>5, <1>6, <2>2, <2>3
<1>11. CASE Options!EndTurn
  <2>1. turn'.pc = "none"  BY <1>11 DEF Options!EndTurn, Options!NoTurn
  <2> QED  BY <1>3, <1>5, <1>6, <2>1 DEF TurnInv, Options!TurnIsOfOneProfile
<1> QED  BY <1>7, <1>8, <1>9, <1>10, <1>11

LEMMA OptionsStay ==
    ASSUME StoresAssumption PROVE OptionsInv /\ [Options!Next]_options => OptionsInv'
<1> SUFFICES ASSUME OptionsInv, [Options!Next]_options  PROVE OptionsInv'
    OBVIOUS
<1>1. CASE UNCHANGED options
      BY <1>1 DEF options, OptionsInv, Options!TypeOK, SwitchInv, Whole, TurnInv,
                  Options!Exists, Options!Calm, Options!TurnIsOfOneProfile,
                  Options!AnnouncedIsCurrent, Options!ConfigOptions
<1>2. CASE Options!Next
      BY <1>2, SessionKeeps, PromptKeeps, TurnKeeps, ClientSetKeeps, SwitchBegins, SwitchGoesOn,
         SwitchEnds, MenuKeeps, GearKeeps
      DEF Options!Next
<1> QED  BY <1>1, <1>2

-----------------------------------------------------------------------------
(* The parts share no state: each behaves as it does alone, whichever of   *)
(* them is at work.                                                        *)
THEOREM PartsAreThemselves ==
    StoresSpec => Spec /\ Memories!Spec /\ Saver!Spec /\ Options!Spec
<1>1. StoresInit => Init /\ Memories!Init /\ Saver!Init /\ Options!Init
      BY DEF StoresInit
<1>2. ASSUME [StoresNext]_<<part, vars, memories, checkpoints, options>>
      PROVE  /\ [Next]_vars /\ [Memories!Next]_(Memories!vars)
             /\ [Saver!Next]_(Saver!vars) /\ [Options!Next]_(Options!vars)
      BY <1>2 DEF StoresNext, memories, checkpoints, options, Memories!vars, Saver!vars,
                  Options!vars
<1> QED  BY <1>1, <1>2, PTL DEF StoresSpec, Spec, Memories!Spec, Saver!Spec, Options!Spec

LEMMA MemoriesInvariance == Memories!Spec => []MemoriesInv
<1>1. Memories!Init => MemoriesInv  BY StoresAssumption, MemoriesStart
<1>2. MemoriesInv /\ [Memories!Next]_(Memories!vars) => MemoriesInv'
      BY StoresAssumption, MemoriesStay DEF memories, Memories!vars
<1> QED  BY <1>1, <1>2, PTL DEF Memories!Spec

LEMMA SaverInvariance == Saver!Spec => []SaverInv
<1>1. Saver!Init => SaverInv  BY StoresAssumption, SaverStarts
<1>2. SaverInv /\ [Saver!Next]_(Saver!vars) => SaverInv'
      BY StoresAssumption, SaverStays DEF checkpoints, Saver!vars
<1> QED  BY <1>1, <1>2, PTL DEF Saver!Spec

LEMMA OptionsInvariance == Options!Spec => []OptionsInv
<1>1. Options!Init => OptionsInv  BY StoresAssumption, OptionsStart
<1>2. OptionsInv /\ [Options!Next]_(Options!vars) => OptionsInv'
      BY StoresAssumption, OptionsStay DEF options, Options!vars
<1> QED  BY <1>1, <1>2, PTL DEF Options!Spec

(* SqliteMemoryStore.recall: what is returned was the user's when it began *)
(* to ask, however late the reranker answers; ordered by similarity it is  *)
(* complete unless a table was crowded, and pinned memories come first.    *)
THEOREM RecallIsSoundHolds == StoresSpec => []RecallIsSound
<1>1. MemoriesInv => RecallIsSound
  <2> SUFFICES ASSUME MemoriesInv
               PROVE  Memories!RecallIsOwn /\ Memories!RecallIsFull /\ Memories!PinsComeFirst
      BY DEF RecallIsSound
  <2>1. Memories!RecallIsOwn
        BY DEF MemoriesInv, RecallInv, Memories!RecallIsOwn, Memories!Answered
  <2> QED  BY <2>1 DEF MemoriesInv
<1> QED  BY <1>1, PartsAreThemselves, MemoriesInvariance, PTL

(* delete_all_for_user: no row that an erasure met is there again, in any  *)
(* interleaving with chunks being written and with losses of the process.  *)
THEOREM ErasedIsGoneHolds == StoresSpec => []ErasedIsGone
<1>1. MemoriesInv => ErasedIsGone  BY DEF MemoriesInv, ErasedInv, ErasedIsGone
<1> QED  BY <1>1, PartsAreThemselves, MemoriesInvariance, PTL

(* run_prune and the saver: the newest checkpoint of an exchange, and what *)
(* was written after it, survives every sweep that does not drop the       *)
(* thread, whatever it keeps and whenever the agent saves.                 *)
THEOREM ResumePointIsKept == StoresSpec => []ResumePointKept
<1>1. SaverInv => ResumePointKept  BY DEF SaverInv, ResumePointKept
<1> QED  BY <1>1, PartsAreThemselves, SaverInvariance, PTL

(* A sweep drops only threads of exchanges whose row was inserted before a *)
(* window or since it asked which to keep, or went with its user.          *)
THEOREM DropsAreOld == StoresSpec => DroppedOnlyIfOld
<1>1. ASSUME SaverInv, [Saver!Next]_(Saver!vars)  PROVE [Saver!DropsOnlyOld]_checkpoints
  <2> SUFFICES ASSUME NEW t \in dropped' \ dropped
               PROVE  \/ began[t] + CheckpointDays < sweep.now
                      \/ began[t] + HistoryDays < sweep.now
                      \/ t \in sweep.late \/ t \in removed
      BY DEF Saver!DropsOnlyOld
  <2>1. Saver!Drop
        BY <1>1 DEF Saver!Next, Saver!vars, Saver!Begin, Saver!Began, Saver!DeleteUser, Saver!Save, Saver!WriteAfter,
                    Saver!End, Saver!Tick, Saver!agent, Saver!SweepHistory,
                    Saver!AskRecent, Saver!ListThreads, Saver!SweepFails
  <2>2. t \in sweep.stale /\ sweep.pc = "listed"  BY <2>1 DEF Saver!Drop
  <2>3. t \in Exchange  BY <1>1, <2>2 DEF SaverInv, Saver!TypeOK, Saver!Sweep
  <2> QED  BY <1>1, <2>2, <2>3 DEF SaverInv, SweepInv
<1> QED  BY <1>1, PartsAreThemselves, SaverInvariance, PTL DEF DroppedOnlyIfOld, Saver!Spec

(* acp/provider.py: in any interleaving of the client, the gear menu, two  *)
(* changes of profile and the reads of a turn, the turn has all options of *)
(* one profile, its own unless a change was under way or two had met, and  *)
(* what the client was told of them is true; and the types of all parts.   *)
THEOREM OptionsAgreeHolds == StoresSpec => []OptionsAgree
<1>1. IInv /\ MemoriesInv /\ SaverInv /\ OptionsInv => OptionsAgree
      BY DEF IInv, MemoriesInv, SaverInv, OptionsInv, OptionsAgree, TypesOK
<1> QED  BY <1>1, PartsAreThemselves, Invariance, MemoriesInvariance, SaverInvariance,
            OptionsInvariance, PTL
=============================================================================
