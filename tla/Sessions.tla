------------------------------ MODULE Sessions ------------------------------
(***************************************************************************)
(* The refresh tokens: logins that issue one, rotations that revoke one    *)
(* and issue the next, logouts, and the account changes that end every     *)
(* session of a user.  Each request is a transaction whose row locks are   *)
(* taken one at a time; its writes show at its commit.  A DELETE sees the  *)
(* rows that were committed when it started, then waits for their locks.   *)
(*                                                                         *)
(* A definition named Mut_X is a plausible wrong X, kept beside it to show *)
(* that the properties tell the two apart; nothing else uses it.           *)
(***************************************************************************)
EXTENDS Integers, FiniteSets

CONSTANTS
  User,
  Token,       \* numbers, so that 0 can say: no token
  Tx,          \* the requests in flight at a time
  MaxChanges   \* bound on account changes by admins and password resets

ASSUME SessionsAssumption ==
  /\ User # {}
  /\ Token \subseteq Nat \ {0}
  /\ MaxChanges \in Nat

VARIABLES
  active,      \* users.is_active
  row,         \* refresh_tokens: "none", "live" or "revoked"
  owner,       \* the user of each token
  age,         \* 0 valid, 1 past expires_at within the JWT leeway, 2 beyond it
  issued,      \* the tokens handed to a client
  parent,      \* the token each was rotated from, 0 for a login
  family,      \* the login token each descends from
  disposed,    \* the tokens an end_all removed
  replayed,    \* the families whose reuse was detected and answered
  pc, req,     \* where each request is, and what it asks
  sees,        \* is_active as it read it
  stored,      \* the token row as it read it
  victims,     \* the rows its DELETE has yet to remove
  holds,       \* the token rows it has locked
  changes      \* how many account changes there were

tokens       == <<row, owner, issued, parent, family, disposed>>
locals       == <<req, sees, stored, victims, holds>>
sessionsVars == <<active, tokens, age, replayed, pc, locals, changes>>

Kinds == {"login", "google", "rotate", "deactivate", "reactivate", "reset"}
NoReq == [kind |-> "none", user |-> CHOOSE u \in User : TRUE, token |-> 0]
Request == [kind : Kinds, user : User, token : Token \cup {0}]

TypeOK ==
  /\ active \in [User -> BOOLEAN]
  /\ row \in [Token -> {"none", "live", "revoked"}]
  /\ owner \in [Token -> User]
  /\ age \in [Token -> 0..2]
  /\ issued \subseteq Token /\ disposed \subseteq issued
  /\ parent \in [Token -> Token \cup {0}]
  /\ family \in [Token -> Token]
  /\ replayed \subseteq Token
  /\ pc \in [Tx -> {"idle", "verified", "stamped", "linked", "shared", "found",
                    "updated", "delete"}]
  /\ req \in [Tx -> Request \cup {NoReq}]
  /\ sees \in [Tx -> BOOLEAN]
  /\ stored \in [Tx -> {"none", "live", "revoked"}]
  /\ victims \in [Tx -> SUBSET Token] /\ holds \in [Tx -> SUBSET Token]
  /\ changes \in 0..MaxChanges
  /\ \A k \in Token : row[k] # "none" => k \in issued \ disposed
  /\ \A t \in Tx : pc[t] = "idle" => holds[t] = {} /\ victims[t] = {}

Init ==
  /\ active = [u \in User |-> TRUE]
  /\ row = [k \in Token |-> "none"]
  /\ owner = [k \in Token |-> CHOOSE u \in User : TRUE]
  /\ age = [k \in Token |-> 0]
  /\ issued = {} /\ disposed = {} /\ replayed = {}
  /\ parent = [k \in Token |-> 0]
  /\ family = [k \in Token |-> k]
  /\ pc = [t \in Tx |-> "idle"]
  /\ req = [t \in Tx |-> NoReq]
  /\ sees = [t \in Tx |-> FALSE]
  /\ stored = [t \in Tx |-> "none"]
  /\ victims = [t \in Tx |-> {}] /\ holds = [t \in Tx |-> {}]
  /\ changes = 0

-----------------------------------------------------------------------------
(* Row locks.  A rotation reads its user FOR SHARE; Google logins and      *)
(* account changes update the users row.                                   *)

Mut_Shares(u) == {}
Shares(u) == {t \in Tx : req[t].kind = "rotate" /\ req[t].user = u /\ pc[t] # "idle"}

Updates(u) == {t \in Tx : req[t].user = u /\ pc[t] \in {"linked", "updated", "delete"}
                                          /\ req[t].kind # "rotate"}

UserFree(u) == Shares(u) = {} /\ Updates(u) = {}

TokenFree(t, k) == \A s \in Tx \ {t} : k \notin holds[s]

Of(u) == {k \in Token : row[k] # "none" /\ owner[k] = u}

-----------------------------------------------------------------------------
Begin(t, r, at) ==
  /\ pc[t] = "idle"
  /\ req' = [req EXCEPT ![t] = r]
  /\ pc' = [pc EXCEPT ![t] = at]

Finish(t) ==
  /\ pc' = [pc EXCEPT ![t] = "idle"]
  /\ req' = [req EXCEPT ![t] = NoReq]
  /\ sees' = [sees EXCEPT ![t] = FALSE]
  /\ stored' = [stored EXCEPT ![t] = "none"]
  /\ victims' = [victims EXCEPT ![t] = {}]
  /\ holds' = [holds EXCEPT ![t] = {}]

\* A request that ends without writing: an error, a failed commit, a crash.
Rollback(t) ==
  /\ Finish(t)
  /\ UNCHANGED <<active, tokens, age, replayed, changes>>

\* Bound: no token is issued once Token is used up.
Fresh == CHOOSE k \in Token \ issued : TRUE

\* session::start: the row of a new token of u, rotated from p or logged in (0).
Issue(u, p) ==
  /\ issued # Token
  /\ row' = [k \in Token |-> IF k = Fresh THEN "live" ELSE IF k = p THEN "revoked" ELSE row[k]]
  /\ owner' = [owner EXCEPT ![Fresh] = u]
  /\ parent' = [parent EXCEPT ![Fresh] = p]
  /\ family' = [family EXCEPT ![Fresh] = IF p = 0 THEN Fresh ELSE family[p]]
  /\ issued' = issued \cup {Fresh}
  /\ UNCHANGED disposed

-----------------------------------------------------------------------------
\* credentials::verify: the user is read once, and passed on.
Verify(t, u) ==
  /\ Begin(t, [kind |-> "login", user |-> u, token |-> 0], "verified")
  /\ active[u]
  /\ sees' = [sees EXCEPT ![t] = active[u]]
  /\ UNCHANGED <<active, tokens, age, replayed, stored, victims, holds, changes>>

\* update_last_login waits for whoever updates the user, and reads nothing.
Stamp(t) ==
  /\ pc[t] = "verified" /\ UserFree(req[t].user)
  /\ pc' = [pc EXCEPT ![t] = "stamped"]
  /\ UNCHANGED <<active, tokens, age, replayed, locals, changes>>

\* The INSERT of a login commits on its own and locks no users row.
Login(t) ==
  /\ pc[t] = "stamped" /\ sees[t]
  /\ Issue(req[t].user, 0)
  /\ Finish(t)
  /\ UNCHANGED <<active, age, replayed, changes>>

\* google_auth: the upsert locks the row and returns it as it is now.
GoogleUpsert(t, u) ==
  /\ Begin(t, [kind |-> "google", user |-> u, token |-> 0], "linked")
  /\ UserFree(u)
  /\ sees' = [sees EXCEPT ![t] = active[u]]
  /\ UNCHANGED <<active, tokens, age, replayed, stored, victims, holds, changes>>

GoogleCommit(t) ==
  /\ pc[t] = "linked" /\ sees[t]
  /\ Issue(req[t].user, 0)
  /\ Finish(t)
  /\ UNCHANGED <<active, age, replayed, changes>>

-----------------------------------------------------------------------------
\* rotate: the JWT decodes, and the user is locked FOR SHARE.
Present(t, k) ==
  /\ k \in issued /\ age[k] < 2
  /\ Begin(t, [kind |-> "rotate", user |-> owner[k], token |-> k], "shared")
  /\ Updates(owner[k]) = {}
  /\ sees' = [sees EXCEPT ![t] = active[owner[k]]]
  /\ UNCHANGED <<active, tokens, age, replayed, stored, victims, holds, changes>>

Mut_Find(t) ==
  /\ pc[t] = "shared"
  /\ stored' = [stored EXCEPT ![t] = row[req[t].token]]
  /\ pc' = [pc EXCEPT ![t] = "found"]
  /\ UNCHANGED <<active, tokens, age, replayed, req, sees, victims, holds, changes>>
\* SELECT ... FOR UPDATE of the token row.
Find(t) ==
  LET k == req[t].token IN
  /\ pc[t] = "shared" /\ TokenFree(t, k)
  /\ stored' = [stored EXCEPT ![t] = row[k]]
  /\ holds' = [holds EXCEPT ![t] = {j \in {k} : row[j] # "none"}]
  /\ pc' = [pc EXCEPT ![t] = "found"]
  /\ UNCHANGED <<active, tokens, age, replayed, req, sees, victims, changes>>

\* No row: 401.  An expired row: 401.
Refuse(t) ==
  /\ pc[t] = "found"
  /\ stored[t] = "none" \/ (stored[t] = "live" /\ age[req[t].token] > 0)
  /\ Rollback(t)

\* A revoked token came back, or the user is inactive: end_all starts.
EndFamily(t) ==
  /\ pc[t] = "found"
  /\ stored[t] = "revoked" \/ (stored[t] = "live" /\ age[req[t].token] = 0 /\ ~sees[t])
  /\ victims' = [victims EXCEPT ![t] = Of(req[t].user)]
  /\ pc' = [pc EXCEPT ![t] = "delete"]
  /\ UNCHANGED <<active, tokens, age, replayed, req, sees, stored, holds, changes>>

Rotate(t) ==
  /\ pc[t] = "found" /\ stored[t] = "live" /\ age[req[t].token] = 0 /\ sees[t]
  /\ Issue(req[t].user, req[t].token)
  /\ Finish(t)
  /\ UNCHANGED <<active, age, replayed, changes>>

-----------------------------------------------------------------------------
\* deactivate_tx, reactivate_tx, reset_password: the users row is updated first.
UpdateUser(t, u, kind) ==
  /\ Begin(t, [kind |-> kind, user |-> u, token |-> 0], "updated")
  /\ UserFree(u)
  /\ changes < MaxChanges /\ changes' = changes + 1
  /\ UNCHANGED <<active, tokens, age, replayed, sees, stored, victims, holds>>

EndAll(t) ==
  /\ pc[t] = "updated" /\ req[t].kind \in {"deactivate", "reset"}
  /\ victims' = [victims EXCEPT ![t] = Of(req[t].user)]
  /\ pc' = [pc EXCEPT ![t] = "delete"]
  /\ UNCHANGED <<active, tokens, age, replayed, req, sees, stored, holds, changes>>

Reactivate(t) ==
  /\ pc[t] = "updated" /\ req[t].kind = "reactivate"
  /\ active' = [active EXCEPT ![req[t].user] = TRUE]
  /\ Finish(t)
  /\ UNCHANGED <<tokens, age, replayed, changes>>

-----------------------------------------------------------------------------
\* The DELETE locks the rows it saw, in any order, and skips those gone by then.
LockVictim(t) ==
  /\ pc[t] = "delete"
  /\ \E k \in victims[t] \ holds[t] :
       /\ TokenFree(t, k)
       /\ IF row[k] # "none"
          THEN holds' = [holds EXCEPT ![t] = @ \cup {k}] /\ UNCHANGED victims
          ELSE victims' = [victims EXCEPT ![t] = @ \ {k}] /\ UNCHANGED holds
  /\ UNCHANGED <<active, tokens, age, replayed, pc, req, sees, stored, changes>>

Mut_Ended(ks) ==
  /\ row' = [k \in Token |-> IF k \in ks THEN "revoked" ELSE row[k]]
  /\ disposed' = disposed \cup ks
\* What end_all leaves: no rows, not revoked ones.
Ended(ks) ==
  /\ row' = [k \in Token |-> IF k \in ks THEN "none" ELSE row[k]]
  /\ disposed' = disposed \cup ks

CommitEnd(t) ==
  /\ pc[t] = "delete" /\ victims[t] \subseteq holds[t]
  /\ Ended(victims[t])
  /\ active' = [active EXCEPT ![req[t].user] = @ /\ req[t].kind # "deactivate"]
  /\ replayed' = IF stored[t] = "revoked" THEN replayed \cup {family[req[t].token]}
                                          ELSE replayed
  /\ Finish(t)
  /\ UNCHANGED <<owner, issued, parent, family, age, changes>>

\* Any open request may fail, be refused, or be the one PostgreSQL aborts to break
\* a circle of waiters; a login that has not inserted yet wrote only last_login.
Fail(t) == pc[t] # "idle" /\ Rollback(t)

-----------------------------------------------------------------------------
\* end: one statement, which waits for the row's lock; it may find no row.
Logout(k) ==
  /\ k \in issued /\ age[k] < 2
  /\ \A t \in Tx : k \notin holds[t]
  /\ row[k] = "live"
  /\ row' = [row EXCEPT ![k] = "revoked"]
  /\ UNCHANGED <<active, owner, issued, parent, family, disposed, age, replayed, pc, locals, changes>>

Purgeable == {k \in issued : row[k] # "none" /\ age[k] > 0}

\* The hourly DELETE of expired rows.
purge_expired ==
  /\ Purgeable # {}
  /\ \A t \in Tx : Purgeable \cap holds[t] = {}
  /\ row' = [k \in Token |-> IF k \in Purgeable THEN "none" ELSE row[k]]
  /\ UNCHANGED <<active, owner, issued, parent, family, disposed, age, replayed, pc, locals, changes>>

Expire(k) ==
  /\ k \in issued /\ age[k] < 2
  /\ age' = [age EXCEPT ![k] = @ + 1]
  /\ UNCHANGED <<active, tokens, replayed, pc, locals, changes>>

Start(t) ==
  \/ \E u \in User : Verify(t, u) \/ GoogleUpsert(t, u)
  \/ \E k \in Token : Present(t, k)
  \/ \E u \in User : \E kind \in {"deactivate", "reactivate", "reset"} : UpdateUser(t, u, kind)

Step(t) == Stamp(t) \/ Login(t) \/ GoogleCommit(t) \/ Find(t) \/ Refuse(t) \/ EndFamily(t)
             \/ Rotate(t) \/ EndAll(t) \/ Reactivate(t) \/ LockVictim(t) \/ CommitEnd(t)

Next ==
  \/ \E t \in Tx : Start(t) \/ Step(t) \/ Fail(t)
  \/ \E k \in Token : Logout(k) \/ Expire(k)
  \/ purge_expired

Spec == Init /\ [][Next]_sessionsVars

-----------------------------------------------------------------------------
\* session.rs, "rotation is atomic": two rotations of one token race, and one
\* of them wins.  No token is ever rotated into two.
RotatedOnce == \A j, k \in issued : parent[j] # 0 /\ parent[j] = parent[k] => j = k

\* session.rs on FOR SHARE: "an in-flight deactivation makes this wait, so the
\* is_active check sees it".  A rotated token is never left to an inactive user.
NoRotationPastDeactivation ==
  \A k \in issued : row[k] = "live" /\ parent[k] # 0 => active[owner[k]]

\* session.rs on retention: a token that was rotated away is recognised when it
\* comes back, until it expires or every session of its user is ended.
ReplayIsRecognised ==
  \A k \in issued : parent[k] # 0 /\ age[parent[k]] = 0 /\ parent[k] \notin disposed
                      => row[parent[k]] = "revoked"

\* session.rs on end_all: an old token it removed "is a plain 401", and cannot
\* end the sessions the user has opened since.
OldTokenIsPlain401 ==
  [][\A t \in Tx : pc[t] = "found" /\ pc'[t] = "delete" => req[t].token \notin disposed]_sessionsVars

\* session.rs: what a token that is presented again is answered depends on how it
\* died.  Rotated away, it is a replay and ends its family; ended with every
\* session of its user, it is a plain 401 and ends nothing.
TokensAnswerRight == []ReplayIsRecognised /\ OldTokenIsPlain401

\* session.rs: "a deactivated account gets no session on any issuing path".
DeactivatedHasNoSession == \A k \in issued : row[k] = "live" => active[owner[k]]

\* session.rs on reuse: the whole family is revoked, what the replayed token was
\* rotated into included.
FamilyRevoked == \A k \in issued : family[k] \in replayed => row[k] # "live"
=============================================================================
