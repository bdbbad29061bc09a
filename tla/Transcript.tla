----------------------------- MODULE Transcript -----------------------------
(***************************************************************************)
(* What the model is shown: the messages Workspace sends with a request    *)
(* are converted (runtime/builder.py, _to_lc_messages), the agent loop     *)
(* adds answers and tool results, and before every call of the model       *)
(* plugins/middleware/tool_message_normaliser.py reduces the list to human *)
(* and assistant turns, or, for models that want it, keeps the tool role.  *)
(* A text is a sequence of numbers, one for each piece somebody wrote, and *)
(* 0 for what the conversion writes.                                       *)
(***************************************************************************)
EXTENDS Naturals, Sequences, SequencesExt

CONSTANTS
    CallId,      \* the call ids on the wire
    Key,         \* a tool and its arguments
    None,
    MaxWire,     \* bound: messages of the request
    MaxAnswers,  \* bound: answers of the model
    MaxCalls     \* bound: tool calls of one answer

TranscriptAssumption ==
    /\ MaxWire \in Nat /\ MaxAnswers \in Nat /\ MaxCalls \in Nat
    /\ CallId \cap 0..(2 * MaxWire) = {} /\ None \notin CallId

VARIABLES
    pc,       \* "request", "model", "tools", "over"
    wire,     \* the messages of the request
    lc,       \* the messages of the agent's state
    pieces,   \* history: how many texts were written
    answers   \* how often the model has answered

vars == <<pc, wire, lc, pieces, answers>>

Human(text) == [type |-> "human", text |-> text, calls |-> <<>>, id |-> None]
AI(text, calls) == [type |-> "ai", text |-> text, calls |-> calls, id |-> None]
Tool(text, id) == [type |-> "tool", text |-> text, calls |-> <<>>, id |-> id]
Call(id, key) == [id |-> id, key |-> key]   \* key None: a call without a name

Ids(calls) == {calls[i].id : i \in DOMAIN calls}

Said(all, m) == all \o m.text

Texts(msgs) == FoldLeft(Said, <<>>, msgs)

Init ==
    /\ pc = "request" /\ wire = <<>> /\ lc = <<>>
    /\ pieces = 0 /\ answers = 0

-----------------------------------------------------------------------------
(* What is said in place of the data that get_widget_data brought.         *)
Notice == <<0>>

Content(m) == IF m.role = "widgets" THEN Notice ELSE m.text

(* _to_lc_messages.  A call without an id is numbered by its place.        *)
IdOf(out, m) == IF m.id = None THEN Len(out) ELSE m.id

ConvertTool(out, m) ==
    LET id == IdOf(out, m)
        known == \E i \in DOMAIN out : id \in Ids(out[i].calls)
    IN  (IF known THEN out ELSE Append(out, AI(<<>>, <<Call(id, "tool")>>)))
            \o <<Tool(Content(m), id)>>

Convert(out, m) ==
    CASE m.role = "human"    -> Append(out, Human(m.text))
      [] m.role = "envelope" -> out
      [] m.role = "function" -> Append(out, AI(m.text, <<Call(IdOf(out, m), "tool")>>))
      [] m.role = "ai"       -> IF m.text = <<>> THEN out ELSE Append(out, AI(m.text, <<>>))
      [] m.role \in {"tool", "widgets"} -> ConvertTool(out, m)

ToLcMessages(msgs) == FoldLeft(Convert, <<>>, msgs)

-----------------------------------------------------------------------------
(* _strict_human_assistant: results wait until something else comes, and   *)
(* go out as, or in front of, a human turn.                                *)
KeepNamed(named, c) == IF c.key # None THEN Append(named, c) ELSE named

Named(calls) == FoldLeft(KeepNamed, <<>>, calls)

Pushed(s) == IF s.pending = <<>> THEN s.out ELSE Append(s.out, Human(s.pending))

ReduceTool(s, m) ==
    CASE m.text = <<>>                -> s
      [] m.text # <<>> /\ s.keepRole  -> [s EXCEPT !.out = Append(@, m)]
      [] m.text # <<>> /\ ~s.keepRole -> [s EXCEPT !.pending = @ \o m.text]

(* Mutant: the results that wait are not put out before an answer.         *)
ReduceAI_Late(s, m) ==
    LET calls == Named(m.calls)
    IN  IF m.text = <<>> /\ calls = <<>> THEN s
        ELSE [s EXCEPT !.out = Append(@, AI(m.text, calls))]

ReduceAI(s, m) ==
    LET calls == Named(m.calls)
        out   == Pushed(s)
    IN  [s EXCEPT !.pending = <<>>,
                  !.out = IF m.text = <<>> /\ calls = <<>> THEN out
                          ELSE Append(out, AI(m.text, calls))]

ReduceHuman(s, m) ==
    IF m.text = <<>> /\ s.pending = <<>> THEN s
    ELSE [s EXCEPT !.out = Append(@, Human(s.pending \o m.text)), !.pending = <<>>]

Reduce(s, m) ==
    CASE m.type = "tool"  -> ReduceTool(s, m)
      [] m.type = "ai"    -> ReduceAI(s, m)
      [] m.type = "human" -> ReduceHuman(s, m)

Reduced(msgs, keepRole) ==
    Pushed(FoldLeft(Reduce, [out |-> <<>>, pending |-> <<>>, keepRole |-> keepRole], msgs))

(* Neighbours of one type become one message, tool results excepted.       *)
Merge(out, m) ==
    IF m.type # "tool" /\ out # <<>> /\ Last(out).type = m.type
    THEN Front(out) \o <<[m EXCEPT !.text = Last(out).text \o @,
                                   !.calls = Last(out).calls \o @]>>
    ELSE Append(out, m)

Merged(msgs) == FoldLeft(Merge, <<>>, msgs)

KeepShown(shown, m) ==
    IF m.type = "ai" /\ m.text = <<>> /\ m.calls = <<>> THEN shown ELSE Append(shown, m)

StrictHumanAssistant(msgs, keepRole) == FoldLeft(KeepShown, <<>>, Merged(Reduced(msgs, keepRole)))

(* _dedupe_tool_calls: of equal calls in one answer the first is kept.     *)
KeepCall(out, c) ==
    IF \E i \in DOMAIN out : out[i].key = c.key THEN out ELSE Append(out, c)

DedupeToolCalls(calls) == FoldLeft(KeepCall, <<>>, calls)

-----------------------------------------------------------------------------
(* A text is blank or new.                                                 *)
Written(text) ==
    \/ text = <<>> /\ UNCHANGED pieces
    \/ text = <<pieces + 1>> /\ pieces' = pieces + 1

Text == {<<>>, <<pieces + 1>>}

(* One more message of the request.                                        *)
Send(role, text, id) ==
    /\ pc = "request" /\ Len(wire) < MaxWire
    /\ Written(text)
    /\ wire' = Append(wire, [role |-> role, text |-> text, id |-> id])
    /\ UNCHANGED <<pc, lc, answers>>

(* run_agent hands the converted messages to the agent.                    *)
Run ==
    /\ pc = "request" /\ wire # <<>>
    /\ lc' = ToLcMessages(wire)
    /\ pc' = "model"
    /\ UNCHANGED <<wire, pieces, answers>>

(* The model answers; its calls are numbered on their own, and some models *)
(* leave the name of a call empty.  Equal calls are merged if the response *)
(* is the message itself and not something around it.                      *)
Answer(text, keys) ==
    LET raw == [i \in DOMAIN keys |-> Call(100 * (answers + 1) + i, keys[i])]
    IN  \E calls \in {raw, DedupeToolCalls(raw)} :
        /\ pc = "model" /\ answers < MaxAnswers
        /\ Written(text)
        /\ lc' = Append(lc, AI(text, calls))
        /\ answers' = answers + 1
        /\ pc' = IF calls = <<>> THEN "over" ELSE "tools"
        /\ UNCHANGED wire

(* The agent loop adds one result for every call, some of them blank.      *)
Results ==
    /\ pc = "tools"
    /\ \E blank \in SUBSET DOMAIN Last(lc).calls :
          LET calls == Last(lc).calls
              text(i) == IF i \in blank THEN <<>> ELSE <<pieces + i>>
          IN  /\ lc' = lc \o [i \in DOMAIN calls |-> Tool(text(i), calls[i].id)]
              /\ pieces' = pieces + Len(calls)
    /\ pc' = "model"
    /\ UNCHANGED <<wire, answers>>

Next ==
    \/ \E text \in Text, id \in CallId \cup {None} :
          \E role \in {"function", "tool", "widgets"} : Send(role, text, id)
    \/ \E text \in Text, role \in {"human", "ai"} : Send(role, text, None)
    \/ Send("envelope", <<>>, None)
    \/ Run
    \/ \E text \in Text, keys \in BoundedSeq(Key \cup {None}, MaxCalls) : Answer(text, keys)
    \/ Results

Spec == Init /\ [][Next]_vars

-----------------------------------------------------------------------------
(* The type of every variable.                                             *)
TypeOK ==
    /\ pc \in {"request", "model", "tools", "over"}
    /\ pieces \in Nat /\ answers \in 0..MaxAnswers
    /\ Len(wire) <= MaxWire
    /\ \A i \in DOMAIN lc : lc[i].type \in {"human", "ai", "tool"}

(* Whatever the conversation, and for both kinds of models: the texts of   *)
(* the agent's messages reach the model once, in the order of the list,    *)
(* and begin with those of the request, envelopes left out and a notice    *)
(* in the place of widget data.                                            *)
Heard(all, m) == all \o IF m.role = "envelope" THEN <<>> ELSE Content(m)

NothingLost ==
    pc = "model" => \A keepRole \in BOOLEAN :
        LET shown == Texts(StrictHumanAssistant(lc, keepRole))
        IN  shown = Texts(lc) /\ IsPrefix(FoldLeft(Heard, <<>>, wire), shown)

(* A model that knows no tool role is shown turns that alternate.          *)
TurnsAlternate ==
    pc = "model" =>
        LET shown == StrictHumanAssistant(lc, FALSE)
        IN  \A i \in 1..(Len(shown) - 1) : shown[i].type # shown[i + 1].type

(* A model that wants the tool role is never shown a result without the    *)
(* call it answers, also where the request did not bring the call along.   *)
AnswersHaveCalls ==
    pc = "model" =>
        LET shown == StrictHumanAssistant(lc, TRUE)
            nameless == {c.id : c \in {d \in UNION {Range(lc[i].calls) : i \in DOMAIN lc} :
                                          d.key = None}}
        IN  \A i \in DOMAIN shown :
                shown[i].type = "tool" =>
                    \/ shown[i].id \in nameless
                    \/ \E j \in 1..(i - 1) : shown[i].id \in Ids(shown[j].calls)
=============================================================================
