------------------------------- MODULE MCTurn -------------------------------
(***************************************************************************)
(* The parts of Turn, one at a time, for TLC.                              *)
(*                                                                         *)
(* The tool loop: two calls that may be repeated, answers of up to two.    *)
(* The stream adapter: ten texts for one message and two for another.  The *)
(* transcript: one call id on the wire, requests of three messages of      *)
(* every kind, a model that answers once, with up to two calls.  The       *)
(* extras: artifacts of four kinds, two pages of one document and two      *)
(* search results, in any order.  The files: two requests with three       *)
(* messages between them, results that hold PDFs without names, of one     *)
(* name and with a link, and others in a widget and the body.              *)
(***************************************************************************)
EXTENDS Turn, SequencesExt

CONSTANTS m1, m2

-----------------------------------------------------------------------------
(* The building blocks of a message.                                       *)
Say     == <<"word">>
Reason  == <<"reason">>
Thinks  == <<"<think", ">", "word", "</think", ">">>
Attrs   == <<"<think", "word", ">", "word", "</think", ">">>
NoOpen  == <<"word", "</think", ">">>
Cites   == <<"[", "ref", "]">>
Math    == <<"[", "word", "<", "word">>
Leaks   == <<"harmony", "word">>

MCScript ==
    [m \in {m1, m2} |->
        IF m = m1
        THEN {Say, Reason \o Say, Attrs \o Say, Say \o Thinks \o Say,
              NoOpen \o Say \o Thinks, Thinks \o Thinks, Math,
              Say \o Cites \o Say, Thinks \o Say \o Leaks, Reason \o Thinks}
        ELSE {Thinks \o Say, NoOpen \o Say}]

MCShow ==
    {[tool |-> "markdown", body |-> <<"a", "plan", "b", "head", "call", "a">>],
     [tool |-> "table", columns |-> <<"x", "x">>, rows |-> <<<<"a", "b">>, <<"a">>>>],
     [tool |-> "table", columns |-> <<"odd">>, rows |-> <<<<"a">>>>],
     [tool |-> "file", sourced |-> FALSE]}

MCPage == {<<"d", 1>>, <<"d", 2>>}

Found(words) == [url |-> "u", text |-> "t", title |-> words]

MCHit == {Found({"a", "b"}), Found({"b"})}

PDF(link, name, body) == [link |-> link, name |-> name, body |-> body, marked |-> TRUE]

WebPage == [link |-> "page", name |-> None, body |-> None, marked |-> FALSE]
Absent  == PDF(None, "absent", None)

Nameless == <<PDF(None, None, 1), PDF(None, None, 2)>>
Named    == <<WebPage, PDF(None, "report", 3), Absent>>
Linked   == <<PDF(None, "report", 4), PDF("link", "pdf", 5)>>
Note     == [link |-> None, name |-> <<"name", "note">>, body |-> 6, pdf |-> FALSE, from |-> None]

MCDoc    == Range(Nameless \o Named \o Linked)
MCData   == {<<>>, Nameless, Named, Linked}
MCUpload == {<<Note>>}

(* Only the part that runs is given more than one initial state.           *)
MCInit ==
    /\ TurnInit
    /\ part # "adapter" => script = [m \in {m1, m2} |-> IF m = m1 THEN Say ELSE Thinks \o Say]
    /\ attached["a"] \in {<<>>, Named} /\ attached["b"] = <<>> /\ context \in {<<>>, Linked}
    /\ part # "files" => attached["a"] = <<>> /\ context = <<>> /\ store = TRUE

MCSpec == MCInit /\ [][TurnNext]_turn
=============================================================================
