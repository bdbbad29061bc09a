------------------------------- MODULE Extras -------------------------------
(***************************************************************************)
(* What a run shows beside its text: the artifacts, citations and calls of *)
(* the Workspace that tools emit (runtime/emit.py and the tool sources),   *)
(* on their way through the stream of the agent and the buffers of         *)
(* protocol/adapter.py to the client, who may leave between any two frames.*)
(*                                                                         *)
(* A text is a sequence of lines, and a line is a word that counts, a      *)
(* heading of a scratchpad section ("plan"), another heading ("head") or   *)
(* a tool call that was written out ("call").                              *)
(***************************************************************************)
EXTENDS Naturals, Sequences, SequencesExt, FiniteSets

CONSTANTS
    Word,       \* the words that count (_citation_tokens)
    Show,       \* what the model may want to show
    Page,       \* pages of documents: <<document, page>>
    Backed,     \* documents shown by a widget of the dashboard
    Hit,        \* results of a search: [url, text, title]
    Odd,        \* a column name that cannot be a key
    None,
    MaxEmits,   \* bound: events of the stream
    MaxTalk     \* bound: deltas, steps and calls among them

ExtrasAssumption ==
    /\ {"plan", "head", "call"} \cap Word = {} /\ Odd \notin Word
    /\ \A s \in Show :
          /\ s.tool \in {"markdown", "table", "chart", "file"}
          /\ s.tool = "markdown" => s.body \in Seq(Word \cup {"plan", "head", "call"})
    /\ MaxEmits \in Nat /\ MaxTalk \in Nat
    /\ \A h \in Hit : h.title \subseteq Word

VARIABLES
    stream,     \* what was emitted and the adapter has not taken yet
    emitted,    \* history: everything that went into the stream
    cited,      \* the pages the tools have cited, widgets as page 0
    agent,      \* running, done or failed
    stage,      \* the adapter: reading, draining or over; or the router left
    prose,      \* _prose_buf, as words
    artifacts,  \* _artifacts
    citations,  \* _citations
    keys,       \* _citation_keys
    noted,      \* _answer_text_parts, as words
    out         \* the frames the client got

tools   == <<stream, emitted, cited, agent>>
adapter == <<stage, prose, artifacts, citations, keys, noted>>
vars    == <<tools, adapter, out>>

Init ==
    /\ stream = <<>> /\ emitted = <<>> /\ cited = {} /\ agent = "running"
    /\ stage = "reading" /\ prose = {} /\ artifacts = <<>>
    /\ citations = <<>> /\ keys = {} /\ noted = {}
    /\ out = <<>>

-----------------------------------------------------------------------------
(* _sanitise_markdown_body: the headings are walked in order, and what     *)
(* lies from a scratchpad heading to the next one is cut out; then every   *)
(* call that was written out.                                              *)
Headings(body) == {i \in 1..Len(body) : body[i] \in {"plan", "head"}}

NextHeading(body, i) ==
    Min({j \in Headings(body) : j > i} \cup {Len(body) + 1})

Cut(walk, i) ==
    IF walk.body[i] # "plan" THEN walk
    ELSE [walk EXCEPT !.text = @ \o SubSeq(walk.body, walk.cursor, i - 1),
                      !.cursor = NextHeading(walk.body, i)]

Write(text, line) == IF line = "call" THEN text ELSE Append(text, line)

Sanitised(body) ==
    LET walk == FoldLeft(Cut, [body |-> body, text |-> <<>>, cursor |-> 1],
                         [i \in 1..Len(body) |-> i])
    IN  FoldLeft(Write, <<>>, walk.text \o SubSeq(body, walk.cursor, Len(body)))

(* _resolve_artifact_table_content: a row becomes a record by the names of *)
(* the columns; of two columns with one name the later one stays, a short  *)
(* row is filled up, and a table without columns or rows is an empty text. *)
TableContent(columns, rows) ==
    IF columns = <<>> \/ rows = <<>> THEN <<>>
    ELSE [k \in 1..Len(rows) |->
            [c \in Range(columns) |->
                LET i == SelectLastInSeq(columns, LAMBDA x : x = c)
                IN  IF i <= Len(rows[k]) THEN rows[k][i] ELSE None]]

(* _build_artifact raises for a name that cannot be a key.                 *)
Builds(p) ==
    p.type = "table" => (p.rows = <<>> \/ Odd \notin Range(p.columns))

(* The wire shape of a payload; Workspace has no markdown type.            *)
Wire(p) ==
    [type    |-> IF p.type = "markdown" THEN "text" ELSE p.type,
     content |-> IF p.type = "table" THEN TableContent(p.columns, p.rows)
                 ELSE IF p.type = "chart" THEN <<>> ELSE p.content]

(* The words _note_for_citations reads: a text, or the cells of a table.   *)
WordsOf(a) ==
    Word \cap (IF a.type = "table" THEN UNION {Range(a.content[k]) : k \in DOMAIN a.content}
               ELSE Range(a.content))

(* _citation_is_relevant: a widget, no title, or six words of ten in what  *)
(* was shown.                                                              *)
Relevant(c, words) ==
    \/ c.widget # None
    \/ 10 * Cardinality(c.title \cap words) >= 6 * Cardinality(c.title)

(* _absorb_citations: what makes two citations the same one.  emit.cite    *)
(* puts the page of a document into the details, and this looks for it in  *)
(* the metadata; a citation with details of its own has no text there.     *)
KeyOf(c) ==
    IF c.widget # None THEN <<"widget", c.widget>> ELSE <<c.url, c.text>>

-----------------------------------------------------------------------------
(* The tools: what they emit goes into the stream, in their order.         *)

Emits(event) ==
    /\ stream' = Append(stream, event)
    /\ emitted' = Append(emitted, event)

Working ==
    agent = "running" /\ stage = "reading" /\ Len(emitted) < MaxEmits

(* emit_html_artifact, emit_markdown_artifact, emit_table_artifact,        *)
(* emit_chart_artifact, and the files and images of the media tools, which *)
(* need the data or a url.                                                 *)
Payload(s) ==
    CASE s.tool = "markdown" -> [type |-> "markdown", content |-> Sanitised(s.body)]
      [] s.tool = "table"    -> [type |-> "table", columns |-> s.columns, rows |-> s.rows]
      [] s.tool = "chart"    -> [type |-> "chart"]
      [] s.tool = "file"     -> [type |-> "html", content |-> <<>>]

(* A file without data and address raises before anything is emitted.      *)
Sourced(s) == s.tool = "file" => s.sourced

EmitArtifact(s) ==
    /\ Working
    /\ Sourced(s)
    /\ Emits([type |-> "artifact", payload |-> Payload(s)])
    /\ UNCHANGED <<cited, agent, adapter, out>>

Cites(c) == Emits([type |-> "citation", c |-> c])

(* web_search, fetch_url and cite_source.                                  *)
Source(h) ==
    [widget |-> None, page |-> None, url |-> h.url, text |-> h.text, title |-> h.title]

CiteWeb(h) ==
    /\ Working
    /\ Cites(Source(h))
    /\ UNCHANGED <<cited, agent, adapter, out>>

(* _emit_pdf_citation: one for each page of a document.  The document of a *)
(* widget is cited as that widget; another has neither text nor address.   *)
CitePage(p) ==
    /\ Working /\ p \notin cited
    /\ cited' = cited \cup {p}
    /\ Cites([widget |-> IF p[1] \in Backed THEN p[1] ELSE None, page |-> p,
              url |-> None, text |-> None, title |-> {}])
    /\ UNCHANGED <<agent, adapter, out>>

(* _cite_widget of the tools that read widgets: once for each widget.      *)
CiteWidget(w) ==
    /\ Working /\ <<w, 0>> \notin cited
    /\ cited' = cited \cup {<<w, 0>>}
    /\ Cites([widget |-> w, page |-> None, url |-> None, text |-> None, title |-> {}])
    /\ UNCHANGED <<agent, adapter, out>>

(* The agent's own text; a step; a call of a tool that runs here; and one  *)
(* the client runs, emitted by a tool (emit.function_call) or called by    *)
(* the model under the prefix or a name of the client's.                   *)
Talk == Cardinality({i \in 1..Len(emitted) : emitted[i].type \in {"text", "break", "call"}})

Say(words) ==
    /\ Working /\ Talk < MaxTalk
    /\ Emits([type |-> "text", words |-> words])
    /\ UNCHANGED <<cited, agent, adapter, out>>

Break(kind) ==
    /\ Working /\ Talk < MaxTalk
    /\ Emits([type |-> kind])
    /\ UNCHANGED <<cited, agent, adapter, out>>

Stop(how) ==
    /\ agent = "running"
    /\ agent' = how
    /\ UNCHANGED <<stream, emitted, cited, adapter, out>>

-----------------------------------------------------------------------------
(* The adapter: one event of the stream.                                   *)

Sends(frames) == out' = out \o frames

Absorb(c) ==
    IF KeyOf(c) \in keys THEN UNCHANGED <<keys, citations>>
    ELSE /\ keys' = keys \cup {KeyOf(c)}
         /\ citations' = Append(citations, c)

Taken(type) ==
    /\ stage = "reading" /\ stream # <<>> /\ Head(stream).type = type
    /\ stream' = Tail(stream)
    /\ UNCHANGED <<emitted, cited, agent>>

TakeArtifact ==
    /\ Taken("artifact")
    /\ LET p == Head(stream).payload
       IN  artifacts' = IF Builds(p) THEN Append(artifacts, Wire(p)) ELSE artifacts
    /\ UNCHANGED <<stage, prose, citations, keys, noted, out>>

TakeCitation ==
    /\ Taken("citation")
    /\ Absorb(Head(stream).c)
    /\ UNCHANGED <<stage, prose, artifacts, noted, out>>

TakeText ==
    /\ Taken("text")
    /\ prose' = prose \cup Head(stream).words
    /\ UNCHANGED <<stage, artifacts, citations, keys, noted, out>>

(* _flush_reasoning_segment: the text so far was a preface, not the answer.*)
Flush == prose' = {} /\ Sends(IF prose = {} THEN <<>> ELSE <<[kind |-> "row"]>>)

TakeBreak ==
    /\ Taken("break")
    /\ Flush
    /\ UNCHANGED <<stage, artifacts, citations, keys, noted>>

(* The frame of a call makes the router leave the stream, which is never   *)
(* drained.                                                                *)
TakeCall ==
    /\ Taken("call")
    /\ stage' = "left"
    /\ prose' = {}
    /\ Sends((IF prose = {} THEN <<>> ELSE <<[kind |-> "row"]>>) \o <<[kind |-> "call"]>>)
    /\ UNCHANGED <<artifacts, citations, keys, noted>>

(* The end of adapt(): the text, the artifacts one by one, and the         *)
(* citations that are about what was shown.                                *)
DrainText ==
    /\ stage = "reading" /\ stream = <<>> /\ agent = "done"
    /\ stage' = "draining"
    /\ prose' = {}
    /\ noted' = noted \cup prose
    /\ Sends(IF prose = {} THEN <<>> ELSE <<[kind |-> "text", words |-> prose]>>)
    /\ UNCHANGED <<tools, artifacts, citations, keys>>

DrainArtifact ==
    /\ stage = "draining" /\ artifacts # <<>>
    /\ artifacts' = Tail(artifacts)
    /\ noted' = noted \cup WordsOf(Head(artifacts))
    /\ Sends(<<[kind |-> "artifact", artifact |-> Head(artifacts)]>>)
    /\ UNCHANGED <<tools, stage, prose, citations, keys>>

(* Mutant: the citations are chosen before the artifacts were noted.       *)
DrainCitations_Early ==
    /\ stage = "draining" /\ artifacts = <<>>
    /\ stage' = "over"
    /\ LET early == UNION {out[i].words : i \in {j \in 1..Len(out) : out[j].kind = "text"}}
           kept  == SelectSeq(citations, LAMBDA c : Relevant(c, early))
       IN  Sends(IF kept = <<>> THEN <<>> ELSE <<[kind |-> "citations", all |-> kept]>>)
    /\ citations' = <<>> /\ keys' = {}
    /\ UNCHANGED <<tools, prose, artifacts, noted>>

Choose(chosen, c) == IF Relevant(c, noted) THEN Append(chosen, c) ELSE chosen

DrainCitations ==
    /\ stage = "draining" /\ artifacts = <<>>
    /\ stage' = "over"
    /\ LET kept == FoldLeft(Choose, <<>>, citations)
       IN  Sends(IF kept = <<>> THEN <<>> ELSE <<[kind |-> "citations", all |-> kept]>>)
    /\ citations' = <<>> /\ keys' = {}
    /\ UNCHANGED <<tools, prose, artifacts, noted>>

(* The stream raises, or the router stops asking: a stop, or a client that *)
(* is gone.  The generator unwinds and drains nothing.                     *)
Unwind ==
    /\ stage \in {"reading", "draining"}
    /\ stage' = "left"
    /\ UNCHANGED <<tools, prose, artifacts, citations, keys, noted, out>>

Next ==
    \/ \E s \in Show : EmitArtifact(s)
    \/ \E h \in Hit : CiteWeb(h)
    \/ \E p \in Page : CitePage(p)
    \/ \E w \in Backed : CiteWidget(w)
    \/ \E w \in Word : Say({w})
    \/ \E kind \in {"break", "call"} : Break(kind)
    \/ \E how \in {"done", "failed"} : Stop(how)
    \/ TakeArtifact \/ TakeCitation \/ TakeText \/ TakeBreak \/ TakeCall
    \/ DrainText \/ DrainArtifact \/ DrainCitations \/ Unwind

Spec == Init /\ [][Next]_vars

-----------------------------------------------------------------------------
Citation == [widget : Backed \cup {None}, page : Page \cup {None},
             url : {h.url : h \in Hit} \cup {None},
             text : {h.text : h \in Hit} \cup {None}, title : SUBSET Word]

TypeOK ==
    /\ Len(emitted) <= MaxEmits /\ IsSuffix(stream, emitted)
    /\ cited \subseteq Page \cup (Backed \X {0})
    /\ agent \in {"running", "done", "failed"}
    /\ stage \in {"reading", "draining", "over", "left"}
    /\ prose \subseteq Word /\ noted \subseteq Word
    /\ \A i \in 1..Len(citations) : citations[i] \in Citation /\ KeyOf(citations[i]) \in keys
    /\ \A i \in 1..Len(artifacts) : artifacts[i].type \in {"text", "table", "chart", "html"}

(* What a body says that is no scratchpad: no heading before it, or one    *)
(* of the analysis.                                                        *)
Analysis(body) ==
    LET over(i) == {j \in Headings(body) : j <= i}
    IN  FoldLeft(Write, <<>>,
                 [i \in 1..Len(body) |->
                     IF over(i) # {} /\ body[Max(over(i))] = "plan" THEN "call" ELSE body[i]])

(* What the artifacts that tools emitted come to, as the client would like *)
(* them, and those the client got.                                         *)
Built(all, e) ==
    IF e.type = "artifact" /\ Builds(e.payload) THEN Append(all, Wire(e.payload)) ELSE all

Got(all, f) == IF f.kind = "artifact" THEN Append(all, f.artifact) ELSE all

(* A run that comes to its end shows every artifact that can be built      *)
(* once, in the order in which the tools emitted them.                     *)
ArtifactsAreShown ==
    stage = "over" => FoldLeft(Got, <<>>, out) = FoldLeft(Built, <<>>, emitted)

(* Nothing of a scratchpad is shown, and all of the analysis.              *)
BodiesArePolished ==
    \A s \in Show : s.tool = "markdown" => Sanitised(s.body) = Analysis(s.body)

(* A run that comes to its end has cited, once, every source that is about *)
(* what it showed, the first of those that count as the same, and no other.*)
CitationsAreShown ==
    stage = "over" =>
        LET shown == UNION ({out[i].words : i \in {j \in 1..Len(out) : out[j].kind = "text"}}
                            \cup {WordsOf(out[i].artifact) :
                                    i \in {j \in 1..Len(out) : out[j].kind = "artifact"}})
            all   == {i \in 1..Len(emitted) : emitted[i].type = "citation"}
            first == {i \in all : \A j \in all :
                                    j < i => KeyOf(emitted[j].c) # KeyOf(emitted[i].c)}
            due   == {emitted[i].c : i \in {j \in first : Relevant(emitted[j].c, shown)}}
            got   == {i \in 1..Len(out) : out[i].kind = "citations"}
        IN  IF due = {} THEN got = {}
            ELSE \E i \in got : /\ got = {i} /\ Range(out[i].all) = due
                                /\ Len(out[i].all) = Cardinality(due)

(* Artifacts come after the text, and nothing comes after the citations.   *)
TailIsOrdered ==
    \A i, j \in 1..Len(out) : i < j =>
        /\ out[i].kind # "citations"
        /\ out[i].kind = "artifact" => out[j].kind \in {"artifact", "citations"}

(* Every page of a document that was cited gets a chip of its own.         *)
PagesHaveChips ==
    stage = "over" =>
        \A p \in Page \cap cited :
            \E i \in 1..Len(out) : /\ out[i].kind = "citations"
                                   /\ \E c \in Range(out[i].all) : c.page = p
=============================================================================
