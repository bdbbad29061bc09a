------------------------------- MODULE Stores -------------------------------
(***************************************************************************)
(* What is kept between requests, one part at a time: the parts share no   *)
(* state, and a behaviour is one of the part that StoresInit chooses.      *)
(* They are History, History itself; Memories, MemoryStore, whose users    *)
(* are Owner; Saver, Checkpoints, whose traces are Exchange; and Options,  *)
(* AcpOptions.                                                             *)
(***************************************************************************)
EXTENDS History

CONSTANTS
    Owner, K, Fanout, Breadth, MaxMemories,
    Exchange, KeepLast, HistoryDays, CheckpointDays, MaxDays, MaxSteps,
    Profile, Default, Labelled, Param, Nested

VARIABLES part,
          row, nextRow, hasCode, reranks, recall, erased,
          today, started, began, removed, running, thread, last, writes, wrote, sweep, dropped,
          session, switch, tangled, seen, geared, menu, turn

memories    == <<row, nextRow, hasCode, reranks, recall, erased>>
checkpoints == <<today, started, began, removed, running, thread, last, writes, wrote, sweep, dropped>>
options     == <<session, switch, tangled, seen, geared, menu, turn>>

Memories == INSTANCE MemoryStore WITH User <- Owner, MaxRows <- MaxMemories, next <- nextRow

Saver == INSTANCE Checkpoints WITH Trace <- Exchange, MaxClock <- MaxDays, clock <- today

Options == INSTANCE AcpOptions

ASSUME StoresAssumption ==
    /\ Memories!MemoryAssumption /\ Memories!NoneApart
    /\ Saver!CheckpointsAssumption
    /\ Options!AcpOptionsAssumption

StoresInit ==
    /\ part \in {"history", "memories", "checkpoints", "options"}
    /\ Init /\ Memories!Init /\ Saver!Init /\ Options!Init
    /\ part # "memories" => ~hasCode /\ ~reranks

StoresNext ==
    /\ UNCHANGED part
    /\ \/ part = "history" /\ Next /\ UNCHANGED <<memories, checkpoints, options>>
       \/ part = "memories" /\ Memories!Next /\ UNCHANGED <<vars, checkpoints, options>>
       \/ part = "checkpoints" /\ Saver!Next /\ UNCHANGED <<vars, memories, options>>
       \/ part = "options" /\ Options!Next /\ UNCHANGED <<vars, memories, checkpoints>>

StoresSpec == StoresInit /\ [][StoresNext]_<<part, vars, memories, checkpoints, options>>

-----------------------------------------------------------------------------
(* A recall returns memories that its user had when it began, all of them  *)
(* when it is ordered by similarity and reaches as far as the tables, and  *)
(* leaves a pinned one out only for other pinned ones.                     *)
RecallIsSound ==
    part = "memories" =>
        Memories!RecallIsOwn /\ Memories!RecallIsFull /\ Memories!PinsComeFirst

(* What an erasure met stays erased.                                       *)
ErasedIsGone == part = "memories" => Memories!ErasedIsGone

(* The newest checkpoint of a thread that is not dropped stays, and what   *)
(* was done after it.                                                      *)
ResumePointKept == part = "checkpoints" => Saver!ResumePointKept

(* A thread is dropped only when its exchange is old, or began after the   *)
(* sweep had asked which are not.                                          *)
DroppedOnlyIfOld == [][Saver!DropsOnlyOld]_checkpoints

(* The types of the parts.                                                 *)
TypesOK ==
    /\ part = "history" => TypeOK
    /\ part = "memories" => Memories!TypeOK
    /\ part = "checkpoints" => Saver!TypeOK
    /\ part = "options" => Options!TypeOK

(* A turn reads its options late, and they are those of its profile; what  *)
(* the client was shown as the options of its session is what they are,    *)
(* but for those the gear menu has changed since; and every part has the   *)
(* types that it says.                                                     *)
OptionsAgree ==
    /\ TypesOK
    /\ part = "options" => Options!TurnIsOfOneProfile /\ Options!AnnouncedIsCurrent
=============================================================================
