------------------------------ MODULE Requests ------------------------------
(***************************************************************************)
(* What requests do to each other, one part at a time: the parts share no  *)
(* state, and a behaviour is one of the part that RequestsInit chooses.    *)
(* They are the exchanges, QueryRun itself; the data of widgets; and the   *)
(* accounts.                                                               *)
(***************************************************************************)
EXTENDS QueryRun, Sequences

CONSTANTS
    Widget, Conv, Reader, Table, Connection, ReaderOf, TableOf, Bounds,  \* of WidgetData
    Person, Key, Request, Command, Backend, Static, None         \* of Accounts

VARIABLES part,
          version, place, chat, posts, queries, keeps, pc, todo, since, failed,
          rows, views, plan, result, prompt,
          backend, users, keys, req, cmd, issued, gone, dead, left, flown

fetching == <<version, place, chat, posts, queries, keeps, pc, todo, since, failed,
              rows, views, plan, result, prompt>>
entering == <<backend, users, keys, req, cmd, issued, gone, dead, left, flown>>

Data == INSTANCE WidgetData WITH User <- Reader, UserOf <- ReaderOf

Entry == INSTANCE Accounts WITH User <- Person, erased <- left, doomed <- flown

ASSUME RequestsAssumption == Data!WidgetDataAssumption /\ Entry!AccountsAssumption

RequestsInit ==
    /\ part \in {"exchanges", "widgets", "accounts"}
    /\ Init /\ Data!Init /\ Entry!Init
    /\ part # "accounts" => backend = "table"
    /\ part # "widgets" => /\ place = CHOOSE p \in Data!Places : TRUE
                           /\ keeps = CHOOSE k \in Bounds[place].keeps : TRUE

RequestsNext ==
    /\ UNCHANGED part
    /\ \/ part = "exchanges" /\ Next /\ UNCHANGED <<fetching, entering>>
       \/ part = "widgets" /\ Data!Next /\ UNCHANGED <<vars, entering>>
       \/ part = "accounts" /\ Entry!Next /\ UNCHANGED <<vars, fetching>>

RequestsSpec == RequestsInit /\ [][RequestsNext]_<<part, vars, fetching, entering>>

-----------------------------------------------------------------------------
(* The agent reads of a widget what its conversation was told last, and a  *)
(* query shows the newest recording, never the view that another left; and *)
(* the prompt is right about what there is to read.                        *)
WidgetsAreRead ==
    part = "widgets" =>
        /\ Data!TypeOK /\ Data!ReadIsFresh /\ Data!PromptIsTrue
        /\ Data!NewestAreQueried /\ Data!QueryIsSound

(* A query of a table that its user has is answered.                       *)
QueryIsAnswered == part = "widgets" => Data!QueryIsAnswered

(* Keys have users, dead ones stay out, and whoever was erased comes back  *)
(* with a new key or by a request that had been let in before.             *)
KeysHold ==
    /\ [](part = "accounts" => Entry!TypeOK /\ Entry!KeysHaveUser /\ Entry!DeadKeysStayOut)
    /\ Entry!ErasedComesBackByFlight
=============================================================================
