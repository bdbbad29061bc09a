------------------------------ MODULE MCStores ------------------------------
(***************************************************************************)
(* Stores for TLC.  History: two users with a conversation each, a trace   *)
(* of the first, two calls at once: enough for two appends to one log, to  *)
(* two logs of one user, and for either to meet the deletion of its user   *)
(* or a sweep.  Memories: two users, one answer asked for and two          *)
(* candidates for it; two rows of each table are searched, so that a third *)
(* one is a crowd.  Checkpoints: an exchange, before or after the sweep    *)
(* looks, which looks at each by itself, and windows that end on different *)
(* days.  Options: a profile with a feature, the default one without any,  *)
(* and a parameter in a dict of its own.                                   *)
(***************************************************************************)
EXTENDS Stores, TLC

CONSTANTS u1, u2, w1, w2, m1, m2

\* Calls and the users of memories are told apart by nothing else.
Alike == Permutations({w1, w2}) \cup Permutations({m1, m2})

MCUserOf   == "a" :> u1 @@ "b" :> u2 @@ "t" :> u1
MCLabelled == "p" :> {"web"} @@ "q" :> {}
=============================================================================
