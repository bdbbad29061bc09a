----------------------------- MODULE MCWorkers -----------------------------
(***************************************************************************)
(* Workers with three callers, so that two can wait for a third, and with  *)
(* three jobs: an ordinary one, one whose factory may raise and whose      *)
(* coroutine swallows the CancelledError, and one whose factory may raise  *)
(* and that an executor thread may cancel.                                 *)
(***************************************************************************)
EXTENDS Workers, TLC

MCCap    == "rpm" :> 2 @@ "tpm" :> 2
MCPeriod == "rpm" :> 3 @@ "tpm" :> 2
=============================================================================
