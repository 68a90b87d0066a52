---------------------------- MODULE Registration ----------------------------
(***************************************************************************)
(* The birth of an account: by registering, by an admin, or by the first   *)
(* sign-in with Google, which may also link or refresh an account that is  *)
(* there.  The Google path looks before it writes, in statements of its    *)
(* own; what it writes is judged by the unique columns.  Registering is    *)
(* one insertion with no look before it.                                   *)
(*                                                                         *)
(* A definition named Mut_X is a plausible wrong X, kept beside it to show *)
(* that the properties tell the two apart; nothing else uses it.           *)
(***************************************************************************)
EXTENDS Integers, FiniteSets

CONSTANTS
  Account,                     \* rows of users
  Sub,                         \* Google identities
  Address,                     \* addresses of mail, in any spelling
  Login, NoOne,
  Mails,                       \* per identity, the addresses it has at one time or another
  MaxRemovals                  \* bound on the roles an admin takes away

\* An address has one normal form, whatever its case, and Google gives it to one identity.
ASSUME RegAssumption ==
  /\ NoOne \notin Address \cup Sub
  /\ Mails \in [Sub -> SUBSET Address]
  /\ \A s, t \in Sub : s # t => Mails[s] \cap Mails[t] = {}

VARIABLES
  email, google_id, password,  \* the rows of users; email NoOne for no row
  members,                     \* who has the role `member'
  events,                      \* user_registered events queued, per account
  welcomes,                    \* welcome notifications delivered, per account
  login,                       \* each Google sign-in: where it is, who, its plan
  toWelcome,                   \* committed requests that still owe a welcome
  removals,
  regranted                    \* history: a role given to an account bound before

accounts == <<email, google_id, password>>
regVars == <<accounts, members, events, welcomes, login, toWelcome, removals, regranted>>

Inserted == {u \in Account : email[u] # NoOne}
ByGoogle(s) == {u \in Inserted : google_id[u] = s}
ByEmail(e) == {u \in Inserted : email[u] = e}
NoLogin == [at |-> "idle", sub |-> NoOne, email |-> NoOne, plan |-> "none", user |-> NoOne,
            seen |-> {}]

RegInit ==
  /\ email = [u \in Account |-> NoOne] /\ google_id = [u \in Account |-> NoOne]
  /\ password = {} /\ members = {} /\ events = [u \in Account |-> 0]
  /\ welcomes = [u \in Account |-> 0] /\ login = [g \in Login |-> NoLogin]
  /\ toWelcome = {} /\ removals = 0 /\ regranted = FALSE

-----------------------------------------------------------------------------
\* create_account: the row, the role and the event are one transaction; an address that
\* is taken is a 409.  Registering owes a welcome afterwards, an admin's creation does not.
create_account(u, e, selfService) ==
  /\ u \notin Inserted /\ ByEmail(e) = {}
  /\ email' = [email EXCEPT ![u] = e] /\ password' = password \cup {u}
  /\ members' = members \cup {u} /\ events' = [events EXCEPT ![u] = 1]
  /\ toWelcome' = IF selfService THEN toWelcome \cup {<<u, NoOne>>} ELSE toWelcome
  /\ UNCHANGED <<google_id, welcomes, login, removals, regranted>>

\* notify::user_welcomed after the commit; a request that dies there never sends it.
Welcome(w) ==
  /\ w \in toWelcome /\ toWelcome' = toWelcome \ {w}
  /\ \/ welcomes' = [welcomes EXCEPT ![w[1]] = @ + 1]
     \/ UNCHANGED welcomes
  /\ UNCHANGED <<accounts, members, events, login, removals, regranted>>

\* An administrator takes the role away.
RemoveMember(u) ==
  /\ u \in members /\ removals < MaxRemovals /\ removals' = removals + 1
  /\ members' = members \ {u}
  /\ UNCHANGED <<accounts, events, welcomes, login, toWelcome, regranted>>

-----------------------------------------------------------------------------
\* google_auth, after the identity is proved.
AskGoogle(g, s, e) ==
  /\ login[g].at = "idle" /\ e \in Mails[s]
  /\ login' = [login EXCEPT ![g] =
                 [NoLogin EXCEPT !.at = "google", !.sub = s, !.email = e, !.seen = ByGoogle(s)]]
  /\ UNCHANGED <<accounts, members, events, welcomes, toWelcome, removals, regranted>>

Plan(g, action, u) ==
  login' = [login EXCEPT ![g].at = "write", ![g].plan = action, ![g].user = u]
GiveUp(g) == login' = [login EXCEPT ![g] = NoLogin]
LookedUp == UNCHANGED <<accounts, members, events, welcomes, toWelcome, removals, regranted>>

FindByGoogle(g) ==
  /\ login[g].at = "google" /\ LookedUp
  /\ \/ \E u \in ByGoogle(login[g].sub) : Plan(g, "refresh", u)
     \/ ByGoogle(login[g].sub) = {} /\ login' = [login EXCEPT ![g].at = "email"]
\* linking::plan: an address bound to any identity is a 409.
FindByEmail(g) ==
  LET found == ByEmail(login[g].email) IN
  /\ login[g].at = "email" /\ LookedUp
  /\ \/ \E u \in found : IF google_id[u] # NoOne THEN GiveUp(g) ELSE Plan(g, "link", u)
     \/ found = {} /\ Plan(g, "create", NoOne)

\* What create_or_update_google_user_tx writes: a new row, or the row of the identity with
\* the address Google gives now; an address taken by another account fails the request.
Upsert(g, u) ==
  LET l == login[g] IN
  /\ u \in (IF ByGoogle(l.sub) # {} THEN ByGoogle(l.sub) ELSE Account \ Inserted)
  /\ ByEmail(l.email) \subseteq {u}
  /\ email' = [email EXCEPT ![u] = l.email] /\ google_id' = [google_id EXCEPT ![u] = l.sub]
link_google_account_tx(g, u) ==
  /\ u = login[g].user /\ ByGoogle(login[g].sub) = {}
  /\ google_id' = [google_id EXCEPT ![u] = login[g].sub] /\ UNCHANGED email

\* The rest of the transaction: only a creation grants the role and owes a welcome; a
\* creation and a link are announced.
Mut_CommitGoogle(g, u) ==
  LET plan == login[g].plan IN
  /\ login[g].at = "write"
  /\ IF plan = "link" THEN link_google_account_tx(g, u) ELSE Upsert(g, u)
  /\ members' = members \cup {u}
  /\ regranted' = (regranted \/ (u \notin members /\ u \in login[g].seen))
  /\ events' = [events EXCEPT ![u] = IF plan \in {"create", "link"} THEN @ + 1 ELSE @]
  /\ toWelcome' = IF plan = "create" THEN toWelcome \cup {<<u, g>>} ELSE toWelcome
  /\ GiveUp(g) /\ UNCHANGED <<password, welcomes, removals>>
CommitGoogle(g, u) ==
  LET plan == login[g].plan IN
  /\ login[g].at = "write"
  /\ IF plan = "link" THEN link_google_account_tx(g, u) ELSE Upsert(g, u)
  /\ members' = IF plan = "create" THEN members \cup {u} ELSE members
  /\ regranted' = (regranted \/ (plan = "create" /\ u \notin members /\ u \in login[g].seen))
  /\ events' = [events EXCEPT ![u] = IF plan \in {"create", "link"} THEN @ + 1 ELSE @]
  /\ toWelcome' = IF plan = "create" THEN toWelcome \cup {<<u, g>>} ELSE toWelcome
  /\ GiveUp(g) /\ UNCHANGED <<password, welcomes, removals>>

\* A unique column, the database or the process fails the request.
FailGoogle(g) == login[g].at # "idle" /\ GiveUp(g) /\ LookedUp

RegNext ==
  \/ \E u \in Account, e \in Address, b \in BOOLEAN : create_account(u, e, b)
  \/ \E w \in toWelcome : Welcome(w)
  \/ \E u \in Account : RemoveMember(u)
  \/ \E g \in Login : \/ FindByGoogle(g) \/ FindByEmail(g) \/ FailGoogle(g)
                      \/ \E s \in Sub, e \in Address : AskGoogle(g, s, e)
                      \/ \E u \in Account : CommitGoogle(g, u)

RegSpec == RegInit /\ [][RegNext]_regVars

-----------------------------------------------------------------------------
\* auth/linking.rs and auth/provisioning.rs: however registrations and first sign-ins
\* interleave, an address and an identity each have one account; every account can sign
\* in and was announced; an account bears an address of its identity once it has one, or
\* the one it registered with; nobody is welcomed who was not born by that request; and
\* no sign-in gives a role back to an account that was bound to its identity when it began.
AccountsAreWhole ==
  /\ \A u, v \in Inserted : u # v =>
       email[u] # email[v] /\ (google_id[u] # NoOne => google_id[u] # google_id[v])
  /\ \A u \in Inserted : events[u] >= 1 /\ (u \in password \/ google_id[u] # NoOne)
  /\ \A u \in Inserted : google_id[u] # NoOne => email[u] \in Mails[google_id[u]]
  /\ \A u \in Inserted : welcomes[u] <= events[u]
  /\ ~regranted
=============================================================================
