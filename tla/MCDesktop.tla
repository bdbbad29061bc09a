----------------------------- MODULE MCDesktop -----------------------------
(***************************************************************************)
(* Desktop for TLC.  The turns: two prompts, the second of which can meet  *)
(* what is left of the first.  The canvas: three tool calls, side by side, *)
(* which is enough for two charts that meet, or a chart, what takes its    *)
(* place, and a question about it.                                         *)
(***************************************************************************)
EXTENDS Desktop
=============================================================================
