---------------------------- MODULE StreamAdapter ----------------------------
(***************************************************************************)
(* protocol/adapter.py: how the text an agent streams becomes rows of the  *)
(* reasoning panel and the one answer of the run.                          *)
(*                                                                         *)
(* The agent's messages are scripts, sequences of tokens; a delta is any   *)
(* next piece of a script, and the deltas of several messages (subagents   *)
(* run in parallel) and the steps of tools interleave freely.  A token is  *)
(* known by its place <<message, index>>, so buffers and frames can be     *)
(* compared word by word.  Tags, citation brackets and harmony markers are *)
(* the only text the splitter looks at; a tag takes two tokens or more, so *)
(* that it can be torn between deltas.                                     *)
(***************************************************************************)
EXTENDS Naturals, Sequences, SequencesExt

CONSTANTS
    Msg,        \* messages of the agents, known by their id
    NoMsg,      \* _cur_id before the first delta
    Script,     \* what each message may consist of
    Hold,       \* _PARTIAL_TAG_HOLD, in tokens
    MaxBreaks,  \* bound: steps and tool calls of a run
    MaxCuts     \* bound: places where messages are interrupted

Kind == {"word", "reason", "<", "<think", "</think", ">", "[", "ref", "]", "harmony"}

StreamAdapterAssumption ==
    /\ NoMsg \notin Msg
    /\ Script \in [Msg -> SUBSET Seq(Kind)]
    /\ Hold \in Nat /\ MaxBreaks \in Nat /\ MaxCuts \in Nat

VARIABLES
    script,   \* the text each message will have
    pos,      \* how much of it was streamed
    src,      \* the source: open, exhausted, raised, or left after a call
    adapter,  \* _cur_id, the splitter and the two text buffers
    rows,     \* the text of the reasoning rows sent so far
    answer,   \* the text of the MessageChunk
    breaks,   \* steps and tool calls so far
    since,    \* history: pos at the last of them
    torn      \* history: the tokens after which a message was interrupted

frames == <<rows, answer>>
vars   == <<script, pos, src, adapter, frames, breaks, since, torn>>

Token  == Msg \X (Nat \ {0})

(* A splitter that was just created.  There is none before the first       *)
(* delta; a new one behaves alike.                                         *)
Renew(a) == [a EXCEPT !.buf = <<>>, !.inThinking = FALSE, !.sawOpen = FALSE,
                      !.signalled = FALSE, !.suppress = FALSE]

Adapter == [cur : Msg \cup {NoMsg},
            buf : Seq(Token), inThinking : BOOLEAN, sawOpen : BOOLEAN,
            signalled : BOOLEAN, suppress : BOOLEAN,
            reasoning : Seq(Token), prose : Seq(Token)]

TypeOK ==
    /\ \A m \in Msg : script[m] \in Script[m]
    /\ \A m \in Msg : pos[m] \in 0..Len(script[m]) /\ since[m] \in 0..pos[m]
    /\ src \in {"open", "ended", "raised", "left"}
    /\ adapter \in Adapter
    /\ rows \in Seq(Token) /\ answer \in Seq(Token)
    /\ breaks \in 0..MaxBreaks
    /\ torn \subseteq Token

Init ==
    /\ script \in {f \in [Msg -> UNION Range(Script)] : \A m \in Msg : f[m] \in Script[m]}
    /\ pos = [m \in Msg |-> 0]
    /\ src = "open"
    /\ adapter = [cur |-> NoMsg, buf |-> <<>>, inThinking |-> FALSE,
                  sawOpen |-> FALSE, signalled |-> FALSE, suppress |-> FALSE,
                  reasoning |-> <<>>, prose |-> <<>>]
    /\ rows = <<>> /\ answer = <<>>
    /\ breaks = 0
    /\ since = pos
    /\ torn = {}

KindOf(t) == script[t[1]][t[2]]
Is(t, kinds) == KindOf(t) \in kinds

-----------------------------------------------------------------------------
(* The regular expressions, as the spans <<first, last>> they match in a   *)
(* text; a search returns the leftmost.                                    *)

OpenTags(b) ==
    {s \in (1..Len(b)) \X (1..Len(b)) :
        /\ Is(b[s[1]], {"<think"}) /\ s[1] < s[2] /\ Is(b[s[2]], {">"})
        /\ \A i \in s[1]..(s[2] - 1) : ~Is(b[i], {">"})}

CloseTags(b) ==
    {<<i, i + 1>> : i \in {j \in 1..(Len(b) - 1) :
                             Is(b[j], {"</think"}) /\ Is(b[j + 1], {">"})}}

Markers(b) ==
    {s \in (1..Len(b)) \X (1..Len(b)) :
        /\ Is(b[s[1]], {"["}) /\ s[1] < s[2] /\ Is(b[s[2]], {"]"})
        /\ \A i \in s[1]..(s[2] - 1) : ~Is(b[i], {"]"})
        /\ \E i \in s[1]..s[2] : Is(b[i], {"ref"})}

Leftmost(spans) == CHOOSE s \in spans : \A t \in spans : s[1] <= t[1]

(* _CITATION_MARKER_RE.sub("", text)                                       *)
Uncited(b) ==
    LET cited == {b[i] : i \in {j \in 1..Len(b) :
                                  \E s \in Markers(b) : s[1] <= j /\ j <= s[2]}}
    IN  SelectSeq(b, LAMBDA t : t \notin cited)

(* How much of a text without a complete tag may leave the splitter: it    *)
(* keeps an unclosed bracket, and the start of a tag unless that is too    *)
(* far back to become one.                                                 *)
SafeEnd(b) ==
    LET bracket == SelectLastInSeq(b, LAMBDA t : Is(t, {"["}))
        lt      == SelectLastInSeq(b, LAMBDA t : Is(t, {"<", "<think", "</think"}))
        caps    == (IF bracket > 0 /\ \A i \in bracket..Len(b) : ~Is(b[i], {"]"})
                    THEN {bracket - 1} ELSE {})
                   \cup (IF lt > 0 /\ Len(b) - lt < Hold THEN {lt - 1} ELSE {})
    IN  Min(caps \cup {Len(b)})

-----------------------------------------------------------------------------
(* _emit_splits: what leaves the splitter goes to one of the two buffers.  *)
Put(a, channel, text) ==
    IF channel = "thinking" THEN [a EXCEPT !.reasoning = @ \o text]
                            ELSE [a EXCEPT !.prose = @ \o Uncited(text)]

(* A closing tag without an opening one: all prose so far was a thought.   *)
CloseUnmatched(a) ==
    [a EXCEPT !.reasoning = @ \o a.prose, !.prose = <<>>, !.signalled = TRUE]

Channel(a) == IF a.inThinking THEN "thinking" ELSE "prose"

(* One turn of the loop in feed().                                         *)
TakeTag(a) ==
    LET b       == a.buf
        opens   == IF a.inThinking THEN {} ELSE OpenTags(b)
        closes  == CloseTags(b)
        opening == opens # {} /\ \A c \in closes : Leftmost(opens)[1] <= c[1]
        tag     == Leftmost(IF opening THEN opens ELSE closes)
        orphan  == ~a.inThinking /\ ~opening /\ ~a.sawOpen /\ ~a.signalled
        from    == IF orphan THEN CloseUnmatched(a) ELSE a
        put     == Put(from, IF orphan THEN "thinking" ELSE Channel(a),
                       SubSeq(b, 1, tag[1] - 1))
    IN  [put EXCEPT !.buf = SubSeq(b, tag[2] + 1, Len(b)),
                    !.sawOpen = @ \/ opening,
                    !.inThinking = opening]

HasTag(a) == CloseTags(a.buf) # {} \/ (~a.inThinking /\ OpenTags(a.buf) # {})

Release(a) ==
    LET safe == SafeEnd(a.buf)
    IN  [Put(a, Channel(a), SubSeq(a.buf, 1, safe))
           EXCEPT !.buf = SubSeq(a.buf, safe + 1, Len(a.buf))]

(* Every turn takes a tag out of the buffer, so its length bounds them.    *)
Split(a) ==
    LET turn[n \in Nat] ==
            IF n = 0 THEN a
            ELSE LET x == turn[n - 1] IN IF HasTag(x) THEN TakeTag(x) ELSE x
    IN  Release(turn[Len(a.buf)])

Feed(a, delta) ==
    IF delta = <<>> \/ a.suppress THEN a
    ELSE LET b == a.buf \o delta
             h == SelectInSeq(b, LAMBDA t : Is(t, {"harmony"}))
         IN  Split(IF h = 0 THEN [a EXCEPT !.buf = b]
                   ELSE [a EXCEPT !.buf = SubSeq(b, 1, h - 1), !.suppress = TRUE])

(* The held back tail, then a new splitter.                                *)
FlushSplitter(a) == Renew(Put(a, Channel(a), a.buf))

Emptied(a) == [a EXCEPT !.reasoning = <<>>, !.prose = <<>>]

(* Where a delta of m, or a step for no m, interrupts messages.            *)
Cut(others, at) ==
    /\ torn' = torn \cup
          {<<q, at[q]>> : q \in {p \in others : 0 < at[p] /\ at[p] < Len(script[p])}}
    /\ Cardinality(torn') <= MaxCuts

(* Mutant: what the splitter holds is not part of the row.                 *)
CloseSegment_Early(a, upto) ==
    /\ rows' = rows \o a.reasoning \o a.prose
    /\ adapter' = Emptied(a)
    /\ breaks' = breaks + 1
    /\ since' = upto

(* _flush_reasoning_segment: text before a tool call or a step is a row.   *)
CloseSegment(a, upto) ==
    LET b == FlushSplitter(a)
    IN  /\ rows' = rows \o b.reasoning \o b.prose
        /\ adapter' = Emptied(b)
        /\ breaks' = breaks + 1
        /\ since' = upto

-----------------------------------------------------------------------------
(* _translate_messages up to the tool calls: a delta of n tokens.  The     *)
(* provider sends reasoning_content beside the text of the same delta.     *)
Taken(m, n) ==
    LET piece   == [k \in 1..n |-> <<m, pos[m] + k>>]
        text    == SelectSeq(piece, LAMBDA t : ~Is(t, {"reason"}))
        thought == SelectSeq(piece, LAMBDA t : Is(t, {"reason"}))
        turned  == IF m = adapter.cur THEN adapter
                   ELSE [FlushSplitter(adapter) EXCEPT !.cur = m]
        noted   == IF CloseTags(text) # {} THEN turned
                   ELSE Put(turned, "thinking", thought)
    IN  Feed(noted, text)

Stream(m, n) ==
    /\ src = "open"
    /\ pos' = [pos EXCEPT ![m] = @ + n]
    /\ UNCHANGED <<script, answer>>

Delta(m, n) ==
    /\ Stream(m, n)
    /\ adapter' = Taken(m, n)
    /\ Cut(Msg \ {m}, pos)
    /\ UNCHANGED <<src, rows, breaks, since>>

(* A delta that carries tool calls.  The frame of a client-side call makes *)
(* the router leave the stream.                                            *)
ToolCall(m, n, client) ==
    /\ Stream(m, n) /\ breaks < MaxBreaks
    /\ CloseSegment(Taken(m, n), pos')
    /\ src' = IF client THEN "left" ELSE src
    /\ Cut(Msg, pos')

(* A custom event: the step of a tool or middleware, or a function call    *)
(* emitted by a tool, which again ends the stream.                         *)
Custom(call) ==
    /\ src = "open" /\ breaks < MaxBreaks
    /\ CloseSegment(adapter, pos)
    /\ src' = IF call THEN "left" ELSE src
    /\ Cut(Msg, pos)
    /\ UNCHANGED <<script, pos, answer>>

(* The source is exhausted: _drain_pending.                                *)
End ==
    /\ src = "open"
    /\ src' = "ended"
    /\ LET a == FlushSplitter(adapter)
       IN  /\ rows' = rows \o a.reasoning
           /\ answer' = a.prose
           /\ adapter' = [Emptied(a) EXCEPT !.cur = NoMsg]
    /\ UNCHANGED <<script, pos, breaks, since, torn>>

(* The source raises: the generator unwinds and drains nothing.            *)
Raise ==
    /\ src = "open"
    /\ src' = "raised"
    /\ UNCHANGED <<script, pos, adapter, frames, breaks, since, torn>>

Next ==
    \/ \E m \in Msg : \E n \in 0..(Len(script[m]) - pos[m]) :
          Delta(m, n) \/ \E client \in BOOLEAN : ToolCall(m, n, client)
    \/ \E call \in BOOLEAN : Custom(call)
    \/ End \/ Raise

Spec == Init /\ [][Next]_vars

-----------------------------------------------------------------------------
(* What the text of a message means, read off the whole script.            *)

At(m, i, kinds) == script[m][i] \in kinds
Index(m) == 1..Len(script[m])

OpenBefore(m, i) ==
    \E o \in 1..(i - 1) : /\ At(m, o, {"<think"})
                          /\ \A c \in o..(i - 1) : ~At(m, c, {"</think"})

(* The closing tag that no opening tag precedes, the first of its kind.    *)
Orphan(m, c) ==
    /\ At(m, c, {"</think"})
    /\ \A o \in 1..(c - 1) : ~At(m, o, {"<think", "</think"})

HasOrphan(m) == \E c \in Index(m) : Orphan(m, c)

Thought(m, i) ==
    \/ At(m, i, {"reason"})
    \/ /\ At(m, i, {"word"})
       /\ OpenBefore(m, i) \/ \E c \in Index(m) : i < c /\ Orphan(m, c)

Leaked(m, i) == \E h \in 1..(i - 1) : At(m, h, {"harmony"})

Spoken(m, i) == At(m, i, {"word"}) /\ ~Thought(m, i) /\ ~Leaked(m, i)

(* Words that may vanish: after a harmony marker, inside a tag, and        *)
(* reasoning sent beside text in which a thought is closed.                *)
InTag(m, i) ==
    \E o \in 1..(i - 1) : /\ At(m, o, {"<think"})
                          /\ \A k \in o..i : ~At(m, k, {">"})

MayVanish(m, i) ==
    \/ Leaked(m, i) \/ InTag(m, i)
    \/ At(m, i, {"reason"}) /\ \E c \in Index(m) : At(m, c, {"</think"})

Torn(m) == \E t \in torn : t[1] = m

Done(m) == pos[m] = Len(script[m])

Anywhere == rows \o answer \o adapter.reasoning \o adapter.prose \o adapter.buf

Count(t, s) == Cardinality({i \in 1..Len(s) : s[i] = t})

-----------------------------------------------------------------------------
(* Whatever interleaves with a message and wherever its deltas are cut, no *)
(* word is lost, and none is shown or buffered twice.                      *)
WordsKept ==
    \A m \in Msg : \A i \in 1..pos[m] :
        At(m, i, {"word", "reason"}) =>
            LET n == Count(<<m, i>>, Anywhere)
            IN  n = 1 \/ (n = 0 /\ MayVanish(m, i))

(* A thought never becomes part of the answer once its message was         *)
(* streamed to the end, although every interruption makes the splitter     *)
(* forget that it was inside of a thought: the closing tag makes up for    *)
(* it, unless an interruption cut right through that tag.                  *)
CloseTorn(m) == \E t \in torn : t[1] = m /\ Is(t, {"</think"})

ThoughtStaysOut ==
    \A i \in 1..Len(answer) :
        LET m == answer[i][1]
        IN  Thought(m, answer[i][2]) => ~Done(m) \/ CloseTorn(m)

(* Text that preceded a step or a tool call is never part of the answer.   *)
PrefaceStaysOut ==
    \A i \in 1..Len(answer) : answer[i][2] > since[answer[i][1]]

(* The answer is every word spoken after the last step or tool call, in    *)
(* the order of each message, when the messages it consists of were not    *)
(* interrupted, and none of several opens with an unmarked thought.        *)
AnswerIsWhole ==
    LET last  == {m \in Msg : pos[m] > since[m]}
        plain == \A m \in last :
                    /\ Done(m) /\ since[m] = 0 /\ ~Torn(m)
                    /\ HasOrphan(m) => last = {m}
        said(m) == SelectSeq([i \in Index(m) |-> <<m, i>>],
                             LAMBDA t : Spoken(t[1], t[2]))
    IN  (src = "ended" /\ plain) =>
            \A m \in last :
                SelectSeq(answer, LAMBDA t : t[1] = m /\ Is(t, {"word"})) = said(m)
=============================================================================
