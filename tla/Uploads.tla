------------------------------ MODULE Uploads -------------------------------
(***************************************************************************)
(* The files of a request (app/router.py, _collect_uploaded_files): what   *)
(* was uploaded, and every PDF that is found in the data of the widgets,   *)
(* in the results in the chat, which the client sends again with every     *)
(* request, and in the rest of the body.  Files are told apart by their    *)
(* link, or by their name when they have none, and each PDF is handed to   *)
(* the document store.                                                     *)
(*                                                                         *)
(* A name is a pair: a name somebody gave, the tail of a link, the hash of *)
(* the beginning of the bytes, or what is built from a widget.             *)
(***************************************************************************)
EXTENDS Naturals, Sequences, SequencesExt, FiniteSets

CONSTANTS
    Widget,
    Doc,         \* what may be a PDF: its link, name and bytes, or None,
                 \* and whether anything about it says so
    Data,        \* what a result or a widget may hold: sequences of them
    Upload,      \* uploaded_files of a request: sequences of files
    Generic,     \* names and tails that say nothing: "pdf", or up to 4 letters
    None,
    MaxWire,     \* bound: messages
    MaxRequests  \* bound: requests

UploadsAssumption ==
    /\ \A d \in Doc : DOMAIN d = {"link", "name", "body", "marked"}
    /\ Data \subseteq Seq(Doc) /\ <<>> \in Data
    /\ \A u \in Upload :
          /\ u \in Seq(Range(u))
          /\ \A f \in Range(u) : f.pdf \in BOOLEAN /\ f.from = None /\ f.name[1] = "name"
    /\ IsFiniteSet(Widget) /\ None \notin Widget
    /\ MaxWire \in Nat /\ MaxRequests \in Nat

VARIABLES
    uploads,   \* uploaded_files
    attached,  \* of each widget on the dashboard: the PDFs in its data
    context,   \* PDFs elsewhere in the body
    store,     \* whether the server has a document store
    wire,      \* the messages
    pc,        \* "client", "handing", "done"
    files,     \* the files of the request
    next,      \* the file to hand in next
    handed,    \* history: the files the document store has accepted
    refused,   \* history: the files for which it raised
    before,    \* history: the files of the request before
    requests

body == <<uploads, attached, context, store>>
vars == <<body, wire, pc, files, next, handed, refused, before, requests>>

Init ==
    /\ uploads \in Upload
    /\ attached \in [Widget -> Data]
    /\ context \in Data
    /\ store \in BOOLEAN
    /\ wire = <<>> /\ pc = "client"
    /\ files = <<>> /\ before = <<>>
    /\ next = 1 /\ handed = {} /\ refused = {}
    /\ requests = 0

-----------------------------------------------------------------------------
(* A dict is a PDF when its format, its link, its name or its bytes say so;*)
(* it is of use when there is a link or bytes anywhere in it.              *)
LooksLikePdf(d) == d.marked

HasSource(d) == d.link # None \/ d.body # None

Keep(pdfs, d) == IF LooksLikePdf(d) /\ HasSource(d) THEN Append(pdfs, d) ELSE pdfs

PDFs(data) == FoldLeft(Keep, <<>>, data)

(* _pdf_ref_from_dict: every PDF gets a name.                              *)
NameOf(d) ==
    CASE d.name # None                   -> <<"name", d.name>>
      [] d.name = None /\ d.link # None  -> <<"tail", d.link>>
      [] OTHER                           -> <<"hash", d.body>>

SaysNothing(name) == name[1] = "hash" \/ name[2] \in Generic

(* _walk_pdf_refs, and what the loops over widgets and messages add: the   *)
(* widget that it comes from, by which a result is also named when its own *)
(* name says nothing.                                                      *)
Found(d, widget, rename) ==
    [link |-> d.link, body |-> d.body, pdf |-> TRUE, from |-> widget,
     name |-> IF rename /\ SaysNothing(NameOf(d)) THEN <<"widget", widget>> ELSE NameOf(d)]

FoundIn(data, widget, rename) ==
    LET pdfs == PDFs(data) IN [i \in 1..Len(pdfs) |-> Found(pdfs[i], widget, rename)]

FileKey(f) == IF f.link # None THEN <<"link", f.link>> ELSE f.name

(* _push: the first of each key.                                           *)
Push(out, f) == IF \E g \in Range(out) : FileKey(g) = FileKey(f) THEN out ELSE Append(out, f)

Join(found, more) == found \o more

FromWidgets ==
    LET ws == SetToSeq(Widget)
    IN  FoldLeft(Join, <<>>, [i \in 1..Len(ws) |-> FoundIn(attached[ws[i]], ws[i], FALSE)])

(* Mutant: a question in between leaves the call standing.                 *)
Hint_Stays(hint, m) ==
    CASE m.role = "ai"    -> IF m.sources = <<>> THEN hint ELSE Head(m.sources)
      [] m.role = "human" -> hint
      [] m.role = "tool"  -> None

(* The widget of the call that a result would answer: the first one of the *)
(* last call, as long as nothing but words of the model come after it.     *)
Hint(hint, m) ==
    CASE m.role = "ai"              -> IF m.sources = <<>> THEN hint ELSE Head(m.sources)
      [] m.role \in {"human", "tool"} -> None

FromMessage(acc, m) ==
    [hint  |-> Hint(acc.hint, m),
     found |-> IF m.role # "tool" THEN acc.found
               ELSE acc.found \o FoundIn(m.data, acc.hint, acc.hint # None)]

FromMessages == FoldLeft(FromMessage, [hint |-> None, found |-> <<>>], wire).found

FromBody == FoundIn(context, None, FALSE)

Collected == FoldLeft(Push, <<>>, uploads \o FromWidgets \o FromMessages \o FromBody)

-----------------------------------------------------------------------------
(* The client: the chat grows between requests.                            *)
Says(m) ==
    /\ pc \in {"client", "done"} /\ Len(wire) < MaxWire
    /\ wire' = Append(wire, m)
    /\ pc' = "client"
    /\ UNCHANGED <<body, files, next, handed, refused, before, requests>>

Human        == Says([role |-> "human", sources |-> <<>>, data |-> <<>>])
AI(sources)  == Says([role |-> "ai", sources |-> sources, data |-> <<>>])
Result(data) == Says([role |-> "tool", sources |-> <<>>, data |-> data])

(* A request: _collect_uploaded_files_with_ingest.                         *)
Collect ==
    /\ pc = "client" /\ requests < MaxRequests
    /\ requests' = requests + 1
    /\ before' = files
    /\ files' = Collected
    /\ pc' = "handing" /\ next' = 1 /\ handed' = {} /\ refused' = {}
    /\ UNCHANGED <<body, wire>>

(* PDFs are handed in, one after the other, if there is a store.           *)
HandIn(accepted) ==
    /\ pc = "handing" /\ store /\ next <= Len(files)
    /\ next' = next + 1
    /\ handed' = IF files[next].pdf /\ accepted THEN handed \cup {next} ELSE handed
    /\ refused' = IF files[next].pdf /\ ~accepted THEN refused \cup {next} ELSE refused
    /\ UNCHANGED <<body, wire, pc, files, before, requests>>

Handed ==
    /\ pc = "handing" /\ (store => next > Len(files))
    /\ pc' = "done"
    /\ UNCHANGED <<body, wire, files, next, handed, refused, before, requests>>

Calls == {<<>>} \cup {<<w>> : w \in Widget} \cup {SetToSeq(Widget)}

Next ==
    \/ Human \/ Collect \/ Handed
    \/ \E sources \in Calls : AI(sources)
    \/ \E data \in Data : Result(data)
    \/ \E accepted \in BOOLEAN : HandIn(accepted)

Spec == Init /\ [][Next]_vars

-----------------------------------------------------------------------------
TypeOK ==
    /\ uploads \in Upload /\ attached \in [Widget -> Data] /\ context \in Data
    /\ store \in BOOLEAN
    /\ \A m \in Range(wire) : m.role \in {"human", "ai", "tool"} /\ m.data \in Data /\ m.sources \in Seq(Widget)
    /\ pc \in {"client", "handing", "done"}
    /\ \A f \in Range(files) : f.pdf \in BOOLEAN /\ f.from \in Widget \cup {None}
    /\ next \in 1..(Len(files) + 1) /\ handed \cup refused \subseteq 1..Len(files)
    /\ requests \in 0..MaxRequests

(* The call that message i answers, said without reading in order.         *)
CallOf(i) ==
    LET calls == {j \in 1..(i - 1) : /\ wire[j].role = "ai" /\ wire[j].sources # <<>>
                                     /\ \A k \in j..(i - 1) : wire[k].role = "ai"}
    IN  IF calls = {} THEN <<>>
        ELSE wire[CHOOSE j \in calls : \A k \in calls : k <= j].sources

Results == {i \in 1..Len(wire) : wire[i].role = "tool"}

Holds(data, f) == \E d \in Range(PDFs(data)) : d.body = f.body /\ d.link = f.link

(* A file names the widget that it came from, on the dashboard or by the   *)
(* call which its result answers, and no widget when there is none.        *)
SourceIsRight ==
    pc = "handing" => \A f \in Range(files) :
        IF f.from # None
        THEN \/ Holds(attached[f.from], f)
             \/ \E i \in Results : Holds(wire[i].data, f) /\ CallOf(i) # <<>> /\ Head(CallOf(i)) = f.from
        ELSE \/ f \in Range(uploads) \/ Holds(context, f)
             \/ \E i \in Results : Holds(wire[i].data, f) /\ CallOf(i) = <<>>

(* There is a file with the link of d or, where it has none, the name.     *)
Told(d, name) ==
    \E f \in Range(files) :
        IF d.link # None THEN f.link = d.link ELSE f.link = None /\ f.name = name

(* No two files are the same, and none is missing: whatever was uploaded,  *)
(* and every PDF of a widget, of the rest of the body and of a result, the *)
(* last by the widget of its call where its own name says nothing.         *)
NoneIsMissing ==
    pc = "handing" =>
        /\ \A i, j \in 1..Len(files) : FileKey(files[i]) = FileKey(files[j]) => i = j
        /\ \A f \in Range(uploads) : Told(f, f.name)
        /\ \A w \in Widget : \A d \in Range(PDFs(attached[w])) : Told(d, NameOf(d))
        /\ \A d \in Range(PDFs(context)) : Told(d, NameOf(d))
        /\ \A i \in Results : \A d \in Range(PDFs(wire[i].data)) :
              Told(d, IF CallOf(i) # <<>> /\ SaysNothing(NameOf(d))
                      THEN <<"widget", Head(CallOf(i))>> ELSE NameOf(d))

(* Once the request goes on the store, if there is one, was given every    *)
(* PDF, the ones after one that it refused included.                       *)
AllHandedIn ==
    pc = "done" => handed \cup refused = {i \in 1..Len(files) : store /\ files[i].pdf}

(* What a request had found in a chat the next one finds again, first and  *)
(* unchanged, however the chat goes on.                                    *)
FilesStay == pc = "handing" /\ context = <<>> => IsPrefix(before, files)
=============================================================================
