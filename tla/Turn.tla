-------------------------------- MODULE Turn --------------------------------
(***************************************************************************)
(* What the answer of one turn is made of, one part at a time: the parts   *)
(* share no state, and a behaviour is one of the part that TurnInit        *)
(* chooses.  The tool loop is ToolLoop itself; the other parts are the     *)
(* stream adapter, the transcript the model is shown, the extras of the    *)
(* answer and the files of the requests.                                   *)
(***************************************************************************)
EXTENDS ToolLoop

CONSTANTS
    Msg, NoMsg, Script, Hold, MaxBreaks, MaxCuts,            \* StreamAdapter
    CallId, Name, MaxWire, MaxAnswers,                       \* Transcript
    Word, Show, Page, Backed, Hit, Odd, MaxEmits, MaxTalk,   \* Extras
    Widget, Doc, Data, Upload, Generic, MaxRequests          \* Uploads

VARIABLES part,
          script, pos, src, adapter, rows, answer, breaks, since, torn,
          phase, wire, lc, pieces, answers,
          stream, emitted, cited, agent, drain, prose, artifacts, citations,
          keys, noted, out,
          uploads, attached, context, store, chat, filing, files, next, handed,
          refused, before, requests

writing    == <<script, pos, src, adapter, rows, answer, breaks, since, torn>>
converting == <<phase, wire, lc, pieces, answers>>
showing    == <<stream, emitted, cited, agent, drain, prose, artifacts, citations,
                keys, noted, out>>
collecting == <<uploads, attached, context, store, chat, filing, files, next, handed,
                refused, before, requests>>
turn       == <<part, vars, writing, converting, showing, collecting>>

Texts    == INSTANCE StreamAdapter
Messages == INSTANCE Transcript WITH Key <- Name, pc <- phase
Shown    == INSTANCE Extras WITH stage <- drain
Filed    == INSTANCE Uploads WITH wire <- chat, pc <- filing

ASSUME TurnAssumption ==
    /\ Texts!StreamAdapterAssumption
    /\ Messages!TranscriptAssumption
    /\ Shown!ExtrasAssumption
    /\ Filed!UploadsAssumption

-----------------------------------------------------------------------------
TurnInit ==
    /\ part \in {"adapter", "transcript", "loop", "extras", "files"}
    /\ Init /\ Texts!Init /\ Messages!Init /\ Shown!Init /\ Filed!Init

TurnNext ==
    /\ UNCHANGED part
    /\ \/ part = "loop" /\ Next /\ UNCHANGED <<writing, converting, showing, collecting>>
       \/ part = "adapter" /\ Texts!Next /\ UNCHANGED <<vars, converting, showing, collecting>>
       \/ part = "transcript" /\ Messages!Next /\ UNCHANGED <<vars, writing, showing, collecting>>
       \/ part = "extras" /\ Shown!Next /\ UNCHANGED <<vars, writing, converting, collecting>>
       \/ part = "files" /\ Filed!Next /\ UNCHANGED <<vars, writing, converting, showing>>

TurnSpec == TurnInit /\ [][TurnNext]_turn

-----------------------------------------------------------------------------
(* No word is lost or shown twice; a thought and the text before a tool    *)
(* call stay out of the answer, and an answer that nothing disturbs is     *)
(* whole.                                                                  *)
AnswerIsRight ==
    /\ Texts!TypeOK /\ Texts!WordsKept
    /\ Texts!ThoughtStaysOut /\ Texts!PrefaceStaysOut /\ Texts!AnswerIsWhole

(* Every text of the request but that of envelopes and of widget data, and *)
(* every one of the run, reaches the model once, in its order, and in the  *)
(* form it knows: without a tool role the turns alternate, with one no     *)
(* result is without its call.                                             *)
TranscriptIsSound ==
    part = "transcript" =>
        Messages!TypeOK /\ Messages!NothingLost /\ Messages!TurnsAlternate /\ Messages!AnswersHaveCalls

(* A run that comes to its end has shown every artifact that can be built, *)
(* in order and without its scratchpad, after the text, and last of all    *)
(* each source that is about what it showed, once.                         *)
ExtrasAreShown ==
    part = "extras" =>
        Shown!TypeOK /\ Shown!ArtifactsAreShown /\ Shown!BodiesArePolished
        /\ Shown!CitationsAreShown /\ Shown!TailIsOrdered

(* The PDFs of a request, wherever they are in it, are among its files,    *)
(* once, from the widgets that they came from; the store, if there is one, *)
(* is given all, and they stay what they were as the chat grows.           *)
FilesAreTold ==
    part = "files" =>
        /\ Filed!TypeOK /\ Filed!SourceIsRight /\ Filed!NoneIsMissing
        /\ Filed!AllHandedIn /\ Filed!FilesStay

(* docs/explanation/adapter.md: each page of a PDF that was cited gets a   *)
(* chip of its own.                                                        *)
PagesHaveChips == part = "extras" => Shown!PagesHaveChips
=============================================================================
