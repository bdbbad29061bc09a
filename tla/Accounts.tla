------------------------------ MODULE Accounts ------------------------------
(***************************************************************************)
(* Who a request comes from (plugins/auth) and the rows behind it: the     *)
(* tables users and api_keys, which requests read to authenticate and      *)
(* refresh (upsert_user), which DELETE /v1/me clears, and which            *)
(* "openbb-agent keys" issues and revokes from a process of its own.       *)
(*                                                                         *)
(* Every read is a statement of its own and every commit one transaction:  *)
(* an update of a row that is gone raises (StaleDataError), and so does an *)
(* insert of a row that has come into being (IntegrityError).              *)
(***************************************************************************)
EXTENDS Naturals, FiniteSets

CONSTANTS
    User, Key, Request, Command,
    Backend,    \* the backends a server may run with
    Static,     \* user_id of BearerStaticAuthBackend
    None

AccountsAssumption ==
    /\ Backend \subseteq {"table", "header", "token", "bearer"}
    /\ Static \in User /\ None \notin User \cup Key

VARIABLES
    backend,
    users,     \* the users that have a row
    keys,      \* the row of each key: whose it is, and revoked_at
    req,       \* the requests
    cmd,       \* the commands
    issued,    \* history: the keys that were printed
    gone,      \* history: the keys of confirmed revocations and erasures
    dead,      \* history: gone, when a request began
    erased,    \* history: users erased, and neither given a key nor seen since
    doomed     \* history: the requests of a user that were in flight then

ghosts == <<issued, gone, dead, erased, doomed>>
vars   == <<backend, users, keys, req, cmd, ghosts>>

Idle == [pc |-> "idle", user |-> None, key |-> None, found |-> FALSE]

Init ==
    /\ backend \in Backend
    /\ users = {}
    /\ keys = [k \in Key |-> None]
    /\ req = [r \in Request |-> Idle]
    /\ cmd = [c \in Command |-> Idle]
    /\ issued = {} /\ gone = {} /\ dead = [r \in Request |-> {}]
    /\ erased = {} /\ doomed = {}

InFlight(u) == {r \in Request : req[r].user = u /\ req[r].pc \in {"keyed", "known", "reading"}}

Goes(r, pc) == req' = [req EXCEPT ![r].pc = pc]

-----------------------------------------------------------------------------
(* authenticate of ApiKeyTableAuthBackend: the row of the key, its secret, *)
(* and then the row of its user.                                           *)
ReadKey(r, k, right) ==
    /\ backend = "table" /\ req[r].pc = "idle"
    /\ dead' = [dead EXCEPT ![r] = gone]
    /\ IF keys[k] = None \/ keys[k].revoked \/ ~right
       THEN Goes(r, "refused")
       ELSE req' = [req EXCEPT ![r] = [@ EXCEPT !.pc = "keyed", !.user = keys[k].user, !.key = k]]
    /\ UNCHANGED <<backend, users, keys, cmd, issued, gone, erased, doomed>>

ReadUser(r) ==
    /\ req[r].pc = "keyed"
    /\ Goes(r, IF req[r].user \in users THEN "known" ELSE "refused")
    /\ UNCHANGED <<backend, users, keys, cmd, ghosts>>

(* OpenBBWorkspaceAuthBackend: the address in the header is the user;     *)
(* OidcJwtAuthBackend: the subject of a token that verifies; and           *)
(* BearerStaticAuthBackend: the same user for whoever has the token.  None *)
(* looks anything up.                                                      *)
Taken(r, u, accepted) ==
    /\ req[r].pc = "idle"
    /\ IF accepted THEN req' = [req EXCEPT ![r] = [@ EXCEPT !.pc = "known", !.user = u]]
       ELSE Goes(r, "refused")
    /\ UNCHANGED <<backend, users, keys, cmd, ghosts>>

ReadHeader(r, u, valid) == backend = "header" /\ Taken(r, u, valid)

ReadToken(r, u, verified) == backend = "token" /\ Taken(r, u, verified)

ReadBearer(r, same) == backend = "bearer" /\ Taken(r, Static, same)

(* upsert_user: the row is read, and then inserted or refreshed.           *)
UpsertRead(r) ==
    /\ req[r].pc = "known"
    /\ req' = [req EXCEPT ![r] = [@ EXCEPT !.pc = "reading", !.found = req[r].user \in users]]
    /\ UNCHANGED <<backend, users, keys, cmd, ghosts>>

UpsertCommit(r) ==
    LET u == req[r].user
    IN  /\ req[r].pc = "reading"
        /\ IF req[r].found = (u \in users)
           THEN /\ users' = users \cup {u}
                /\ erased' = IF r \in doomed THEN erased ELSE erased \ {u}
                /\ Goes(r, "admitted")
           ELSE UNCHANGED <<users, erased>> /\ Goes(r, "failed")
        /\ UNCHANGED <<backend, keys, cmd, issued, gone, dead, doomed>>

(* _cascade_delete: the keys of the user, by hand.                         *)
Without(u) == [k \in Key |-> IF keys[k] # None /\ keys[k].user = u THEN None ELSE keys[k]]

(* delete_user: the keys and the user among the tables of one transaction. *)
DeleteMe(r) ==
    LET u == req[r].user
    IN  /\ req[r].pc = "known"
        /\ users' = users \ {u}
        /\ keys' = Without(u)
        /\ gone' = gone \cup {k \in Key : keys[k] # None /\ keys[k].user = u}
        /\ erased' = erased \cup {u}
        /\ doomed' = doomed \cup (InFlight(u) \ {r})
        /\ Goes(r, "done")
        /\ UNCHANGED <<backend, cmd, issued, dead>>

Leave(r) ==
    /\ req[r].pc \in {"admitted", "refused", "failed", "done"}
    /\ req' = [req EXCEPT ![r] = Idle]
    /\ dead' = [dead EXCEPT ![r] = {}]
    /\ doomed' = doomed \ {r}
    /\ UNCHANGED <<backend, users, keys, cmd, issued, gone, erased>>

-----------------------------------------------------------------------------
(* issue: the row of the user is read, then filled up or inserted together *)
(* with the key.  The refresh of last_seen_at is an update of every row    *)
(* that was found: without the row it raises, and the key is not kept.     *)
IssueRead(c, u) ==
    /\ cmd[c].pc = "idle"
    /\ cmd' = [cmd EXCEPT ![c] = [@ EXCEPT !.pc = "issuing", !.user = u, !.found = u \in users]]
    /\ UNCHANGED <<backend, users, keys, req, ghosts>>

(* Mutant: a row that was found is left alone when nothing is missing.     *)
Lands_Untouched(c) == cmd[c].found \/ cmd[c].user \notin users

Lands(c) == cmd[c].found = (cmd[c].user \in users)

IssueCommit(c, k) ==
    LET u == cmd[c].user
    IN  /\ cmd[c].pc = "issuing" /\ k \notin issued
        /\ IF Lands(c)
           THEN /\ users' = IF cmd[c].found THEN users ELSE users \cup {u}
                /\ keys' = [keys EXCEPT ![k] = [user |-> u, revoked |-> FALSE]]
                /\ issued' = issued \cup {k}
                /\ erased' = erased \ {u}
           ELSE UNCHANGED <<users, keys, issued, erased>>
        /\ cmd' = [cmd EXCEPT ![c] = Idle]
        /\ UNCHANGED <<backend, req, gone, dead, doomed>>

(* revoke: False without the row; and it stamps the row it has read.       *)
RevokeRead(c, k) ==
    /\ cmd[c].pc = "idle" /\ k \in issued
    /\ cmd' = IF keys[k] = None THEN cmd
              ELSE [cmd EXCEPT ![c] = [@ EXCEPT !.pc = "revoking", !.key = k]]
    /\ UNCHANGED <<backend, users, keys, req, ghosts>>

RevokeCommit(c) ==
    LET k == cmd[c].key
    IN  /\ cmd[c].pc = "revoking"
        /\ keys' = IF keys[k] = None THEN keys ELSE [keys EXCEPT ![k].revoked = TRUE]
        /\ gone' = IF keys[k] = None THEN gone ELSE gone \cup {k}
        /\ cmd' = [cmd EXCEPT ![c] = Idle]
        /\ UNCHANGED <<backend, users, req, issued, dead, erased, doomed>>

Next ==
    \/ \E r \in Request :
          \/ \E k \in Key, right \in BOOLEAN : ReadKey(r, k, right)
          \/ \E u \in User, right \in BOOLEAN : ReadHeader(r, u, right) \/ ReadToken(r, u, right)
          \/ \E right \in BOOLEAN : ReadBearer(r, right)
          \/ ReadUser(r) \/ UpsertRead(r) \/ UpsertCommit(r) \/ DeleteMe(r) \/ Leave(r)
    \/ \E c \in Command :
          \/ \E u \in User : IssueRead(c, u)
          \/ \E k \in Key : IssueCommit(c, k) \/ RevokeRead(c, k)
          \/ RevokeCommit(c)

Spec == Init /\ [][Next]_vars

-----------------------------------------------------------------------------
TypeOK ==
    /\ backend \in Backend
    /\ users \subseteq User
    /\ \A k \in Key : keys[k] # None => keys[k] \in [user : User, revoked : BOOLEAN] /\ k \in issued
    /\ \A r \in Request :
          /\ req[r].pc \in {"idle", "keyed", "known", "reading", "admitted", "refused", "failed", "done"}
          /\ req[r].pc \in {"keyed", "known", "reading"} => req[r].user \in User
    /\ \A c \in Command : cmd[c].pc \in {"idle", "issuing", "revoking"}
    /\ gone \subseteq issued /\ issued \subseteq Key /\ erased \subseteq User /\ doomed \subseteq Request

(* No interleaving of commands, requests and the deletion of a user leaves *)
(* a key without its user.                                                 *)
KeysHaveUser == \A k \in Key : keys[k] # None => keys[k].user \in users

(* A key whose revocation was confirmed before a request began, or whose   *)
(* user was erased, does not let it in, even when the user has come back.  *)
DeadKeysStayOut ==
    \A r \in Request : (backend = "table" /\ req[r].pc \in {"keyed", "known", "reading", "admitted"}) =>
        req[r].key \in issued \ dead[r]

(* A user that was erased comes back only with a new key, or by a request  *)
(* that had been let in before.                                            *)
ErasedComesBackByFlight ==
    [][\A u \in User : (backend = "table" /\ u \in (erased \ users) \cap users') =>
          \/ issued' # issued
          \/ \E r \in doomed : req[r].user = u /\ req'[r].pc = "admitted"]_vars
=============================================================================
