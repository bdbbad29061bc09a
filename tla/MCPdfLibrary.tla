---------------------------- MODULE MCPdfLibrary ----------------------------
(***************************************************************************)
(* Two users, two files, two requests: enough for one user's task to stand *)
(* in for another's, for a retry after a failure, and for a sweep or the   *)
(* loss of the process at any point of either.                             *)
(***************************************************************************)
EXTENDS PdfLibrary

CONSTANTS u1, u2, f1, f2
=============================================================================
