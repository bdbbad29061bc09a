------------------------------ MODULE Desktop ------------------------------
(***************************************************************************)
(* The desktop window, one part at a time: the parts share no state, and a *)
(* behaviour is one of the part that Init chooses.  They are Turns, the    *)
(* turns of AcpTurn, and Window, the Canvas.                               *)
(***************************************************************************)
EXTENDS Naturals, Sequences, FiniteSets

CONSTANTS None, MaxTurns, Call

VARIABLES part,
          path, reader, messages, owner, set, told, pump, status, said, unread, asked,
          trace, rows, abandoned, failed,
          hasFeed, bound, offered, page, datasets, wired, handlers, feeds, feed, feedFailed,
          raced, mixed, controller, waiters, call

talking == <<path, reader, messages, owner, set, told, pump, status, said, unread, asked,
             trace, rows, abandoned, failed>>
drawing == <<hasFeed, bound, offered, page, datasets, wired, handlers, feeds, feed, feedFailed,
             raced, mixed, controller, waiters, call>>

Turns == INSTANCE AcpTurn

Window == INSTANCE Canvas

ASSUME DesktopAssumption == Turns!AcpTurnAssumption /\ Window!CanvasAssumption

Init ==
    /\ part \in {"turns", "canvas"}
    /\ Turns!Init /\ Window!Init
    /\ part # "turns" => path = "direct"
    /\ part # "canvas" => ~hasFeed

Next ==
    /\ UNCHANGED part
    /\ \/ part = "turns" /\ Turns!Next /\ UNCHANGED drawing
       \/ part = "canvas" /\ Window!Next /\ UNCHANGED talking

Turning(A) == part = "turns" /\ A /\ UNCHANGED <<part, drawing>>

(* The fairness of FairSpec of AcpTurn, for the turns.                     *)
Fairness ==
    \A t \in 1..MaxTurns :
        /\ WF_talking(Turning(Turns!PumpStep(t)))
        /\ WF_talking(Turning(Turns!ReaderStep(t)))
        /\ WF_talking(Turning(Turns!AgentEnds(t) \/ Turns!AgentRaises(t)))

Spec == Init /\ [][Next]_<<part, talking, drawing>> /\ Fairness

-----------------------------------------------------------------------------
(* The types of the parts.                                                 *)
TypeOK ==
    /\ part = "turns" => Turns!TypeOK
    /\ part = "canvas" => Window!TypeOK

(* A run is given its own question, unless a turn was given up at work;    *)
(* and history has of the conversation what the session remembers.         *)
TurnsAreOwn == part = "turns" => Turns!OwnQuestion /\ Turns!HistoryIsRemembered

(* Stop reaches the turn that is read, unless one was given up before it.  *)
CancelReachesTurn == part = "turns" => Turns!CancelReachesTurn

(* Everyone who asks comes back, and what was asked ends.                  *)
TurnEnds ==
    \A t \in 1..MaxTurns :
        reader[t] = "announcing" ~> reader[t] \in Turns!Back /\ pump[t] \in {"out", "over"}

(* A data request of the chart on the page gets one answer, and it is of   *)
(* that chart; whoever waits for the page can be told, and nobody else.    *)
PageIsAnswered ==
    part = "canvas" => Window!ChartIsAnswered /\ Window!WaitersAreWaiting
=============================================================================
