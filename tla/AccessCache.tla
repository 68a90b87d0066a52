---------------------------- MODULE AccessCache ----------------------------
(***************************************************************************)
(* Who may act, and with which roles: requests that resolve it through a   *)
(* cache with two entries per user, the writes that change it, and the     *)
(* flush each write owes the cache once it is committed.  The lifetime of  *)
(* an entry counts down, one Tick at a time.                               *)
(*                                                                         *)
(* A definition named Mut_X is a plausible wrong X, kept beside it to show *)
(* that the properties tell the two apart; nothing else uses it.           *)
(***************************************************************************)
EXTENDS Integers

CONSTANTS
  User, Role,
  Request,                   \* the requests in flight at a time
  ACTIVE_CACHE_TTL, ROLE_CACHE_TTL,
  MaxUnflushed               \* bound on the writes that still owe a flush

ASSUME AccessAssumption ==
  /\ User # {}
  /\ ACTIVE_CACHE_TTL \in Nat \ {0} /\ ROLE_CACHE_TTL \in Nat \ {0}
  /\ MaxUnflushed \in Nat

VARIABLES
  active, roles,             \* what the database says
  activeEntry, rolesEntry,   \* what the cache says, while the entry lives
  activeTtl, rolesTtl,       \* ticks left to each entry, 0 if there is none
  unflushed,                 \* per user, the committed writes that owe a flush
  pc, user,                  \* where each request is, and whose it is
  readActive, readRoles,     \* what it read from the database
  old,                       \* history: whether that has changed since
  granted,                   \* its answer: may the user act
  excused                    \* history: a flush was lost, or ran before a fill

database   == <<active, roles>>
cache      == <<activeEntry, rolesEntry, activeTtl, rolesTtl>>
reads      == <<readActive, readRoles>>
requests   == <<pc, user, reads, old, granted>>
accessVars == <<database, cache, unflushed, requests, excused>>

TypeOK ==
  /\ active \in [User -> BOOLEAN] /\ roles \in [User -> SUBSET Role]
  /\ activeEntry \in [User -> BOOLEAN] /\ rolesEntry \in [User -> SUBSET Role]
  /\ activeTtl \in [User -> 0..ACTIVE_CACHE_TTL]
  /\ rolesTtl \in [User -> 0..ROLE_CACHE_TTL]
  /\ unflushed \in [User -> 0..MaxUnflushed]
  /\ pc \in [Request -> {"idle", "get_active", "read_active", "fill_active",
                         "get_roles", "read_roles", "fill_roles", "done"}]
  /\ user \in [Request -> User]
  /\ readActive \in [Request -> BOOLEAN] /\ readRoles \in [Request -> SUBSET Role]
  /\ old \in [Request -> BOOLEAN] /\ granted \in [Request -> BOOLEAN]
  /\ excused \in [User -> BOOLEAN]

Init ==
  /\ active = [u \in User |-> TRUE] /\ roles = [u \in User |-> {}]
  /\ activeEntry = [u \in User |-> FALSE] /\ rolesEntry = [u \in User |-> {}]
  /\ activeTtl = [u \in User |-> 0] /\ rolesTtl = [u \in User |-> 0]
  /\ unflushed = [u \in User |-> 0]
  /\ pc = [r \in Request |-> "idle"]
  /\ user = [r \in Request |-> CHOOSE u \in User : TRUE]
  /\ readActive = [r \in Request |-> FALSE] /\ readRoles = [r \in Request |-> {}]
  /\ old = [r \in Request |-> FALSE] /\ granted = [r \in Request |-> FALSE]
  /\ excused = [u \in User |-> FALSE]

-----------------------------------------------------------------------------
Goto(r, label) == pc' = [pc EXCEPT ![r] = label]

Answer(r, may) ==
  /\ Goto(r, "done")
  /\ granted' = [granted EXCEPT ![r] = may]

Begin(r, u) ==
  /\ pc[r] = "idle"
  /\ Goto(r, "get_active")
  /\ user' = [user EXCEPT ![r] = u]
  /\ UNCHANGED <<database, cache, unflushed, reads, old, granted, excused>>

\* A hit decides, a miss or an error of the cache goes to the database.
GetActive(r) ==
  /\ pc[r] = "get_active"
  /\ \/ /\ activeTtl[user[r]] > 0
        /\ IF activeEntry[user[r]] THEN Goto(r, "get_roles") /\ UNCHANGED granted
                                   ELSE Answer(r, FALSE)
     \/ Goto(r, "read_active") /\ UNCHANGED granted
  /\ UNCHANGED <<database, cache, unflushed, user, reads, old, excused>>

ReadActive(r) ==
  /\ pc[r] = "read_active"
  /\ Goto(r, "fill_active")
  /\ readActive' = [readActive EXCEPT ![r] = active[user[r]]]
  /\ old' = [old EXCEPT ![r] = FALSE]
  /\ UNCHANGED <<database, cache, unflushed, user, readRoles, granted, excused>>

\* A fill of something old is the known residual race.
Filled(r) ==
  /\ excused' = [excused EXCEPT ![user[r]] = @ \/ old[r]]
  /\ readActive' = [readActive EXCEPT ![r] = FALSE]
  /\ readRoles' = [readRoles EXCEPT ![r] = {}]
  /\ old' = [old EXCEPT ![r] = FALSE]

\* SET EX, whose errors are ignored; the request goes on with what it read.
FillActive(r) ==
  /\ pc[r] = "fill_active"
  /\ \/ /\ activeEntry' = [activeEntry EXCEPT ![user[r]] = readActive[r]]
        /\ activeTtl' = [activeTtl EXCEPT ![user[r]] = ACTIVE_CACHE_TTL]
        /\ UNCHANGED <<rolesEntry, rolesTtl>>
     \/ UNCHANGED cache
  /\ IF readActive[r] THEN Goto(r, "get_roles") /\ UNCHANGED granted ELSE Answer(r, FALSE)
  /\ Filled(r)
  /\ UNCHANGED <<database, unflushed, user>>

Mut_GetRoles(r) ==
  /\ pc[r] = "get_roles"
  /\ \/ /\ rolesTtl[user[r]] > 0 /\ Answer(r, TRUE)
        /\ activeTtl' = [activeTtl EXCEPT ![user[r]] =
                           IF activeTtl[user[r]] = 0 THEN 0 ELSE ACTIVE_CACHE_TTL]
        /\ UNCHANGED <<activeEntry, rolesEntry, rolesTtl>>
     \/ Goto(r, "read_roles") /\ UNCHANGED <<cache, granted>>
  /\ UNCHANGED <<database, unflushed, user, reads, old, excused>>
GetRoles(r) ==
  /\ pc[r] = "get_roles"
  /\ \/ rolesTtl[user[r]] > 0 /\ Answer(r, TRUE)
     \/ Goto(r, "read_roles") /\ UNCHANGED granted
  /\ UNCHANGED <<database, cache, unflushed, user, reads, old, excused>>

ReadRoles(r) ==
  /\ pc[r] = "read_roles"
  /\ Goto(r, "fill_roles")
  /\ readRoles' = [readRoles EXCEPT ![r] = roles[user[r]]]
  /\ old' = [old EXCEPT ![r] = FALSE]
  /\ UNCHANGED <<database, cache, unflushed, user, readActive, granted, excused>>

FillRoles(r) ==
  /\ pc[r] = "fill_roles"
  /\ \/ /\ rolesEntry' = [rolesEntry EXCEPT ![user[r]] = readRoles[r]]
        /\ rolesTtl' = [rolesTtl EXCEPT ![user[r]] = ROLE_CACHE_TTL]
        /\ UNCHANGED <<activeEntry, activeTtl>>
     \/ UNCHANGED cache
  /\ Answer(r, TRUE)
  /\ Filled(r)
  /\ UNCHANGED <<database, unflushed, user>>

Return(r) ==
  /\ pc[r] = "done"
  /\ Goto(r, "idle")
  /\ granted' = [granted EXCEPT ![r] = FALSE]
  /\ UNCHANGED <<database, cache, unflushed, user, reads, old, excused>>

-----------------------------------------------------------------------------
\* A committed write leaves its witness, AccessDirty, and makes what the requests
\* in between have read old.
Mut_Dirty(u) ==
  /\ UNCHANGED unflushed
  /\ old' = [r \in Request |-> old[r] \/ (user[r] = u /\ pc[r] \in {"fill_active", "fill_roles"})]
Dirty(u) ==
  /\ unflushed[u] < MaxUnflushed
  /\ unflushed' = [unflushed EXCEPT ![u] = @ + 1]
  /\ old' = [r \in Request |-> old[r] \/ (user[r] = u /\ pc[r] \in {"fill_active", "fill_roles"})]

\* deactivate_tx and reactivate_tx.
set_active(u, is_active) ==
  /\ active' = [active EXCEPT ![u] = is_active]
  /\ Dirty(u)
  /\ UNCHANGED <<roles, cache, pc, user, reads, granted, excused>>

assign_role(u, role) ==
  /\ roles' = [roles EXCEPT ![u] = @ \cup {role}]
  /\ Dirty(u)
  /\ UNCHANGED <<active, cache, pc, user, reads, granted, excused>>

\* One DEL drops both entries.
flush(u) ==
  /\ unflushed[u] > 0 /\ unflushed' = [unflushed EXCEPT ![u] = @ - 1]
  /\ activeEntry' = [activeEntry EXCEPT ![u] = FALSE] /\ activeTtl' = [activeTtl EXCEPT ![u] = 0]
  /\ rolesEntry' = [rolesEntry EXCEPT ![u] = {}] /\ rolesTtl' = [rolesTtl EXCEPT ![u] = 0]
  /\ excused' = [excused EXCEPT ![u] = FALSE]
  /\ UNCHANGED <<database, requests>>

\* The cache fails the DEL, which is only logged, or the process died before it.
LoseFlush(u) ==
  /\ unflushed[u] > 0 /\ unflushed' = [unflushed EXCEPT ![u] = @ - 1]
  /\ excused' = [excused EXCEPT ![u] = TRUE]
  /\ UNCHANGED <<database, cache, requests>>

Left(ttl, u) == IF ttl[u] > 0 THEN ttl[u] - 1 ELSE 0

Tick ==
  /\ \E u \in User : activeTtl[u] > 0 \/ rolesTtl[u] > 0
  /\ activeTtl' = [u \in User |-> Left(activeTtl, u)]
  /\ rolesTtl' = [u \in User |-> Left(rolesTtl, u)]
  /\ activeEntry' = [u \in User |-> Left(activeTtl, u) > 0 /\ activeEntry[u]]
  /\ rolesEntry' = [u \in User |-> IF Left(rolesTtl, u) = 0 THEN {} ELSE rolesEntry[u]]
  /\ UNCHANGED <<database, unflushed, requests, excused>>

Resolve(r) == GetActive(r) \/ ReadActive(r) \/ FillActive(r) \/ GetRoles(r) \/ ReadRoles(r)
                \/ FillRoles(r) \/ Return(r)

Next ==
  \/ \E r \in Request : Resolve(r) \/ \E u \in User : Begin(r, u)
  \/ \E u \in User : \/ \E b \in BOOLEAN : set_active(u, b)
                     \/ \E role \in Role : assign_role(u, role)
                     \/ flush(u) \/ LoseFlush(u)
  \/ Tick

\* Requests are served and time passes; nobody promises that a flush succeeds.
Spec == Init /\ [][Next]_accessVars
             /\ WF_accessVars(Tick) /\ \A r \in Request : WF_accessVars(Resolve(r))

-----------------------------------------------------------------------------
Stale(u) == \/ activeTtl[u] > 0 /\ activeEntry[u] # active[u]
            \/ rolesTtl[u] > 0 /\ rolesEntry[u] # roles[u]

\* access.rs on AccessDirty: an entry outlives what it says only while its flush
\* is under way, where the flush was lost, or in the "known residual race" of a
\* fill that read before the write and landed after the flush.
OnlyKnownStaleness == \A u \in User : Stale(u) => unflushed[u] > 0 \/ excused[u]

\* access.rs on ACTIVE_CACHE_TTL_SECONDS: "a deactivation that somehow skipped
\* flush still takes effect".  An account that stays inactive is, from some time
\* on, answered no, however many requests keep hitting the cache.
DeactivationTakesEffect == \A u \in User :
  <>[](~active[u]) => <>[](\A r \in Request : user[r] = u /\ pc[r] = "done" => ~granted[r])
=============================================================================
