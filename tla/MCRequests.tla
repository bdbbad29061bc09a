----------------------------- MODULE MCRequests -----------------------------
(***************************************************************************)
(* Instances of Requests for TLC.                                          *)
(*                                                                         *)
(* Exchanges: two of one turn, a retry or a call and its follow-up.        *)
(* Widget data, read: two conversations of a user, one with a second       *)
(* request that sends everything again, a widget that changes and one that *)
(* is only attached.  Widget data, queried: a request of either, a widget  *)
(* to fetch and an uploaded file, and one connection.  Widget data, sent:  *)
(* a widget that comes with its data, so that the router fetches neither.  *)
(* Accounts: two requests and two commands about one user and two keys.    *)
(***************************************************************************)
EXTENDS Requests, TLC

CONSTANTS r1, r2, t1, u1, q1, q2, c1, c2

OneTurn == [r \in Run |-> t1]
OneUser == [t \in Turn |-> u1]

Ours == [c \in Conv |-> "u"]
Same == [w \in Widget |-> w]

Placed(w, x) == [w |-> w, x |-> x]

MCBounds ==
    Placed("fetched", "extra") :>
        [posts |-> [a |-> 2, b |-> 1], versions |-> [w |-> 2, x |-> 1],
         queries |-> 0, rows |-> 4, keeps |-> BOOLEAN]
    @@ Placed("fetched", "file") :>
        [posts |-> [a |-> 1, b |-> 1], versions |-> [w |-> 1, x |-> 1],
         queries |-> 2, rows |-> 3, keeps |-> {TRUE}]
    @@ Placed("loaded", "fetched") :>
        [posts |-> [a |-> 2, b |-> 0], versions |-> [w |-> 2, x |-> 1],
         queries |-> 0, rows |-> 4, keeps |-> {TRUE}]

\* Exchanges, requests and commands are told apart by nothing else.
Alike == Permutations({r1, r2}) \cup Permutations({q1, q2}) \cup Permutations({c1, c2})
=============================================================================
