----------------------------- MODULE WidgetData -----------------------------
(***************************************************************************)
(* runtime/widget_store.py: the data of dashboard widgets, from the client *)
(* that fetches it to the queries of the agent.  A client answers a call   *)
(* of get_widget_data with a tool message and sends the whole chat again   *)
(* with every request; the router records every result it finds in it once *)
(* more.  The agent reads the newest recording, or queries temporary views *)
(* that are made on a connection of the pool and stay there.               *)
(*                                                                         *)
(* Data is the version of a widget at the time of the fetch, 0 is an error *)
(* or nothing.  The id of a recording is its place in the table.           *)
(***************************************************************************)
EXTENDS Naturals, Sequences, SequencesExt, FiniteSets

CONSTANTS
    Widget, Conv, User, Table, Connection,
    UserOf,      \* the user of a conversation
    TableOf,     \* _slugify_table_name of a widget
    Bounds       \* for each of the ways in which the widgets may be placed:
                 \* how often their data changes, requests of a conversation,
                 \* queries, recordings, and what clients there are

Places == DOMAIN Bounds

WidgetDataAssumption ==
    /\ IsFiniteSet(Widget)
    /\ UserOf \in [Conv -> User] /\ TableOf \in [Widget -> Table]
    /\ Places \subseteq [Widget -> {"fetched", "loaded", "file", "extra"}]
    /\ \A p \in Places :
          Bounds[p] \in [versions : [Widget -> Nat \ {0}], posts : [Conv -> Nat],
                         queries : Nat, rows : Nat, keeps : SUBSET BOOLEAN]

VARIABLES
    version,   \* the data of each widget, at its source
    place,     \* of each widget: on the dashboard, without its data or with
               \* it, an uploaded file, or only attached to the requests
    chat,      \* the messages of a conversation, as the client keeps them
    posts,     \* requests so far
    queries,   \* queries so far
    keeps,     \* whether the client keeps the calls it answers in the chat
    pc,        \* where the request of a conversation is
    todo,      \* what it still has to record
    since,     \* history: how many rows there were when it began
    failed,    \* history: it gave up recording
    prompt,      \* what the prompt says of the widgets and the store
    rows,      \* the table widget_data
    views,     \* the views of each connection, by table: the id of a row
    plan,      \* a query: the row each table is to show
    result     \* what the last query of a conversation came to

request == <<pc, todo, since, failed, prompt>>
query   == <<views, plan, result, queries>>
vars    == <<version, place, chat, posts, keeps, request, rows, query>>

Untold == [stored |-> {}, tables |-> {}, narrowed |-> FALSE]

Init ==
    /\ version = [w \in Widget |-> 1]
    /\ place \in Places
    /\ chat = [c \in Conv |-> <<>>]
    /\ posts = [c \in Conv |-> 0]
    /\ keeps \in Bounds[place].keeps
    /\ queries = 0
    /\ pc = [c \in Conv |-> "idle"]
    /\ todo = [c \in Conv |-> <<>>]
    /\ since = [c \in Conv |-> 0]
    /\ failed = [c \in Conv |-> FALSE]
    /\ prompt = [c \in Conv |-> Untold]
    /\ rows = <<>>
    /\ views = [k \in Connection |-> [t \in Table |-> 0]]
    /\ plan = [c \in Conv |-> <<>>]
    /\ result = [c \in Conv |-> [of |-> "nothing"]]

-----------------------------------------------------------------------------
(* Reading: the rows of a user, whatever the conversation.                 *)
Own(u) == {i \in 1..Len(rows) : UserOf[rows[i].conv] = u}

OfWidget(u, w) == {i \in Own(u) : rows[i].widget = w}

(* Mutant: in the order in which they were recorded.                       *)
ReadLatest_Oldest(u, w) == IF OfWidget(u, w) = {} THEN 0 ELSE Min(OfWidget(u, w))

(* read_latest by uuid: the id of the newest row, 0 when there is none.    *)
ReadLatest(u, w) == IF OfWidget(u, w) = {} THEN 0 ELSE Max(OfWidget(u, w))

(* Mutant: the first row of a table stays.                                 *)
Note_First(latest, row) ==
    IF row.own /\ ~\E i \in 1..Len(latest) : latest[i][1] = row.table
    THEN Append(latest, <<row.table, row.id>>) ELSE latest

(* The newest row of each table: a dictionary that query() fills row by    *)
(* row, to make a view of each; schema() lists the same from the end.      *)
Note(latest, row) ==
    LET known == SelectInSeq(latest, LAMBDA x : x[1] = row.table)
    IN  IF ~row.own THEN latest
        ELSE IF known # 0 THEN [latest EXCEPT ![known] = <<row.table, row.id>>]
        ELSE Append(latest, <<row.table, row.id>>)

Schema(u) ==
    FoldLeft(Note, <<>>,
             [i \in 1..Len(rows) |-> [own   |-> UserOf[rows[i].conv] = u,
                                      table |-> TableOf[rows[i].widget], id |-> i]])

Tables(u) == {TableOf[rows[i].widget] : i \in Own(u)}

-----------------------------------------------------------------------------
(* parse_widget_data_messages: a tool message answers the last call before *)
(* it, or the one it carries itself, source by source; anything but an ai  *)
(* message in between makes the call forgotten.                            *)
Read(acc, m) ==
    CASE m.role = "ai"    -> [acc EXCEPT !.call = IF m.sources = <<>> THEN @ ELSE m.sources]
      [] m.role = "human" -> [acc EXCEPT !.call = <<>>]
      [] m.role = "tool"  ->
            LET sources == IF acc.call # <<>> THEN acc.call ELSE m.sources
                data(i) == IF i <= Len(m.data) THEN m.data[i] ELSE 0
            IN  [call |-> <<>>,
                 all  |-> acc.all \o [i \in 1..Len(sources) |-> <<sources[i], data(i)>>]]

Results(messages) == FoldLeft(Read, [call |-> <<>>, all |-> <<>>], messages).all

(* What the router records of a request: no error, nothing empty, nothing  *)
(* of a widget that is not on the dashboard.                               *)
Keep(kept, r) == IF r[2] = 0 \/ place[r[1]] = "extra" THEN kept ELSE Append(kept, r)

Recordable(messages) == FoldLeft(Keep, <<>>, Results(messages))

(* The widgets that come with their data, and the uploads among them.      *)
Inline == {w \in Widget : place[w] \in {"loaded", "file"}}
Files  == {w \in Inline : place[w] = "file"}

Uploads ==
    SetToSeq({<<w, version[w]>> : w \in Inline})

HasResult(messages) == \E i \in 1..Len(messages) : messages[i].role = "tool"

(* A question in a chat that has no result yet is answered with a call for *)
(* every widget on the dashboard, before any agent runs; unless one of     *)
(* them came with its data.                                                *)
Fetchable == SetToSeq({w \in Widget : place[w] \in {"fetched", "loaded"}})

Preempts(messages) ==
    /\ Fetchable # <<>> /\ Last(messages).role = "human"
    /\ ~HasResult(messages)
    /\ Range(Fetchable) \cap Inline = {}

Received(c, messages) ==
    /\ posts[c] < Bounds[place].posts[c]
    /\ ~Preempts(messages)
    /\ posts' = [posts EXCEPT ![c] = @ + 1]
    /\ chat' = [chat EXCEPT ![c] = messages]
    /\ pc' = [pc EXCEPT ![c] = "recording"]
    /\ todo' = [todo EXCEPT ![c] = Recordable(messages) \o Uploads]
    /\ since' = [since EXCEPT ![c] = Len(rows)]
    /\ failed' = [failed EXCEPT ![c] = FALSE]
    /\ UNCHANGED <<version, place, keeps, prompt, rows, query>>

Human == [role |-> "human"]
Call(sources) == [role |-> "ai", sources |-> sources]

(* A question of the user, which the agent sees or the router answers.     *)
Asking(c) == Append(chat[c], Human)

Ask(c) ==
    /\ pc[c] = "idle"
    /\ Received(c, Asking(c))

AskPreempted(c) ==
    /\ pc[c] = "idle" /\ posts[c] < Bounds[place].posts[c]
    /\ Preempts(Asking(c))
    /\ chat' = [chat EXCEPT ![c] = Append(Asking(c), Call(Fetchable))]
    /\ pc' = [pc EXCEPT ![c] = "fetching"]
    /\ UNCHANGED <<version, place, posts, keeps, todo, since, failed, prompt, rows, query>>

(* The client answers the call, for each widget with its data or an error; *)
(* it keeps the call in the chat or puts it into the message with the data.*)
Reply(c) ==
    /\ pc[c] = "fetching"
    /\ LET call == Last(chat[c]).sources
       IN  \E good \in SUBSET (1..Len(call)) :
              LET data == [i \in 1..Len(call) |-> IF i \in good THEN version[call[i]] ELSE 0]
                  tool == [role |-> "tool", data |-> data,
                           sources |-> IF keeps THEN <<>> ELSE call]
              IN  Received(c, Append(IF keeps THEN chat[c] ELSE Front(chat[c]), tool))

(* store.record: one row and its commit; other requests run in between.    *)
Record(c) ==
    /\ pc[c] = "recording" /\ todo[c] # <<>> /\ Len(rows) < Bounds[place].rows
    /\ rows' = Append(rows, [conv |-> c, widget |-> Head(todo[c])[1], version |-> Head(todo[c])[2]])
    /\ todo' = [todo EXCEPT ![c] = Tail(@)]
    /\ UNCHANGED <<version, place, chat, posts, keeps, pc, since, failed, prompt, query>>

(* The store raises: the request goes on without the rest.                 *)
RecordFails(c) ==
    /\ pc[c] = "recording" /\ todo[c] # <<>>
    /\ todo' = [todo EXCEPT ![c] = <<>>]
    /\ failed' = [failed EXCEPT ![c] = TRUE]
    /\ UNCHANGED <<version, place, chat, posts, keeps, pc, since, prompt, rows, query>>

(* run_agent: which of the widgets at hand the user has rows of, whatever  *)
(* the conversation; a lookup of more than two seconds says of none.  Once *)
(* there is a row, or the chat has a result, the tools are narrowed to     *)
(* those that read and emit.                                               *)
Stored(c, inTime) == {w \in Widget : inTime /\ OfWidget(UserOf[c], w) # {}}

LookUp(c, inTime) ==
    LET stored == Stored(c, inTime)
    IN  /\ pc[c] = "recording" /\ todo[c] = <<>>
        /\ pc' = [pc EXCEPT ![c] = "building"]
        /\ prompt' = [prompt EXCEPT ![c] = [stored |-> stored, tables |-> {},
                                           narrowed |-> HasResult(chat[c]) \/ stored # {}]]
        /\ UNCHANGED <<version, place, chat, posts, keeps, todo, since, failed, rows, query>>

(* Mutant: the tables are those of the widgets that the lookup has found.  *)
TablesToRead_Found(c) == {TableOf[w] : w \in prompt[c].stored}

(* The tables of the store are looked up once more, if any tool reads them.*)
TablesToRead(c) == IF prompt[c].narrowed THEN Tables(UserOf[c]) ELSE {}

(* An upload is called unreadable, whether it is in the store or not.      *)
Prompt(c) ==
    /\ pc[c] = "building"
    /\ pc' = [pc EXCEPT ![c] = "running"]
    /\ prompt' = [prompt EXCEPT ![c].stored = @ \ Files, ![c].tables = TablesToRead(c)]
    /\ UNCHANGED <<version, place, chat, posts, keeps, todo, since, failed, rows, query>>

(* The tool get_widget_data: one call for widgets that are attached, which *)
(* ends the turn.  A widget that is not makes it raise.                    *)
GetWidgetData(c, w) ==
    /\ pc[c] = "running" /\ w \notin Files
    /\ chat' = [chat EXCEPT ![c] = Append(@, Call(<<w>>))]
    /\ pc' = [pc EXCEPT ![c] = "fetching"] /\ prompt' = [prompt EXCEPT ![c] = Untold]
    /\ UNCHANGED <<version, place, posts, keeps, todo, since, failed, rows, query>>

End(c) ==
    /\ pc[c] = "running"
    /\ pc' = [pc EXCEPT ![c] = "idle"] /\ prompt' = [prompt EXCEPT ![c] = Untold]
    /\ chat' = [chat EXCEPT ![c] = Append(@, Call(<<>>))]
    /\ result' = [result EXCEPT ![c] = [of |-> "nothing"]]
    /\ UNCHANGED <<version, place, posts, keeps, todo, since, failed, rows, views, plan, queries>>

Change(w) ==
    /\ w \notin Files /\ version[w] < Bounds[place].versions[w]
    /\ version' = [version EXCEPT ![w] = @ + 1]
    /\ UNCHANGED <<place, chat, posts, keeps, request, rows, query>>

-----------------------------------------------------------------------------
(* query(): the rows are chosen, then a connection makes the views.        *)
BeginQuery(c) ==
    /\ pc[c] = "running"
    /\ result' = [result EXCEPT ![c] = [of |-> "nothing"]]
    /\ queries < Bounds[place].queries /\ queries' = queries + 1
    /\ plan' = [plan EXCEPT ![c] = Schema(UserOf[c])]
    /\ pc' = [pc EXCEPT ![c] = "querying"]
    /\ UNCHANGED <<version, place, chat, posts, keeps, todo, since, failed, prompt, rows, views>>

(* A view is made and committed one by one, and not made when the          *)
(* connection has one of that name.                                        *)
Made(p, k) ==
    LET clash == SelectInSeq(p, LAMBDA x : views[k][x[1]] # 0)
        upto  == IF clash = 0 THEN Len(p) ELSE clash - 1
    IN  [all |-> clash = 0,
         views |-> [t \in Table |->
            IF \E i \in 1..upto : p[i][1] = t
            THEN p[SelectInSeq(p, LAMBDA x : x[1] = t)][2] ELSE views[k][t]]]

RunSql(c, t, k) ==
    /\ pc[c] = "querying"
    /\ LET made == Made(plan[c], k)
       IN  /\ views' = [views EXCEPT ![k] = made.views]
           /\ result' = [result EXCEPT ![c] =
                 [of   |-> IF made.all /\ made.views[t] # 0 THEN "rows" ELSE "error",
                  row  |-> made.views[t],
                  due  |-> LET i == SelectInSeq(plan[c], LAMBDA x : x[1] = t)
                           IN  IF i = 0 THEN 0 ELSE plan[c][i][2]]]
    /\ plan' = [plan EXCEPT ![c] = <<>>]
    /\ pc' = [pc EXCEPT ![c] = "running"]
    /\ UNCHANGED <<version, place, chat, posts, keeps, todo, since, failed, prompt, rows, queries>>

Next ==
    \/ \E c \in Conv : Ask(c) \/ AskPreempted(c) \/ Reply(c) \/ End(c)
    \/ \E c \in Conv : Record(c) \/ RecordFails(c) \/ Prompt(c)
    \/ \E c \in Conv, inTime \in BOOLEAN : LookUp(c, inTime)
    \/ \E c \in Conv, w \in Widget : GetWidgetData(c, w)
    \/ \E w \in Widget : Change(w)
    \/ \E c \in Conv : BeginQuery(c)
    \/ \E c \in Conv, t \in Table, k \in Connection : RunSql(c, t, k)

Spec == Init /\ [][Next]_vars

-----------------------------------------------------------------------------
TypeOK ==
    /\ place \in Places
    /\ \A w \in Widget : version[w] \in 1..Bounds[place].versions[w]
    /\ \A c \in Conv : posts[c] \in 0..Bounds[place].posts[c]
    /\ pc \in [Conv -> {"idle", "fetching", "recording", "building", "running", "querying"}]
    /\ \A c \in Conv : \A i \in 1..Len(todo[c]) : todo[c][i][1] \in Widget
    /\ since \in [Conv -> 0..Len(rows)] /\ failed \in [Conv -> BOOLEAN]
    /\ \A c \in Conv : prompt[c].stored \subseteq Widget /\ prompt[c].tables \subseteq Table
    /\ rows \in Seq([conv : Conv, widget : Widget, version : Nat \ {0}])
    /\ Len(rows) <= Bounds[place].rows
    /\ views \in [Connection -> [Table -> 0..Len(rows)]]
    /\ \A c \in Conv : plan[c] \in Seq(Table \X (1..Len(rows)))
    /\ \A c \in Conv : result[c].of \in {"nothing", "rows", "error"}

(* What a conversation was last told of a widget; 0 for nothing.           *)
Told(c, w) ==
    LET all  == Results(chat[c])
        last == SelectLastInSeq(all, LAMBDA r : r[1] = w /\ r[2] # 0)
    IN  IF last = 0 THEN 0 ELSE all[last][2]

(* Once its request was recorded the agent reads of a widget what its own  *)
(* conversation was last told, although all that it was told before is     *)
(* recorded again: unless another request recorded the widget meanwhile.   *)
ReadIsFresh ==
    \A c \in Conv : (pc[c] = "running" /\ ~failed[c]) =>
        \A w \in {x \in Widget : place[x] = "fetched"} :
            LET rival == \E i \in (since[c] + 1)..Len(rows) :
                            rows[i].widget = w /\ rows[i].conv # c
                data == Told(c, w)
            IN  (data # 0 /\ ~rival) => rows[ReadLatest(UserOf[c], w)].version = data

(* What the prompt calls stored can be read and queried; and of whatever    *)
(* its conversation was told, unless it could not be recorded, the prompt  *)
(* names the table, even when the first lookup came too late.              *)
PromptIsTrue ==
    \A c \in Conv : pc[c] \in {"running", "querying"} =>
        /\ \A w \in prompt[c].stored :
              ReadLatest(UserOf[c], w) # 0 /\ TableOf[w] \in prompt[c].tables
        /\ \A w \in Widget : (place[w] # "extra" /\ Told(c, w) # 0 /\ ~failed[c]) =>
              TableOf[w] \in prompt[c].tables

(* A query of a table that its user has shows the newest recording of that *)
(* table by that user, of the time when it began; never the view that some *)
(* other query has left on the connection.                                 *)
QueryIsSound ==
    \A c \in Conv : (result[c].of = "rows" /\ result[c].due # 0) =>
        result[c].row = result[c].due

(* The views of a query are to show, for each table that its user has, the *)
(* newest recording of it, whichever widgets and conversations share it.   *)
NewestAreQueried ==
    \A u \in User :
        /\ Range(Schema(u)) =
              {<<t, Max({i \in Own(u) : TableOf[rows[i].widget] = t})>> : t \in Tables(u)}
        /\ Len(Schema(u)) = Cardinality(Tables(u))

(* A query of a table that its user has is answered.                       *)
QueryIsAnswered ==
    \A c \in Conv : result[c].of = "error" => result[c].due = 0
=============================================================================
