---------------------------- MODULE ResetTokens ----------------------------
(***************************************************************************)
(* Password-reset links: an index names a user's current link, issuing a   *)
(* link voids the one the index names, and using a link takes it out of    *)
(* the store.  Every call of the store is a step of its own, and any of    *)
(* them may fail.                                                          *)
(*                                                                         *)
(* A definition named Mut_X is a plausible wrong X, kept beside it to show *)
(* that the properties tell the two apart; nothing else uses it.           *)
(***************************************************************************)
EXTENDS Integers, FiniteSets

CONSTANTS
  User,
  Token,      \* numbers, so that 0 can say: no token
  Request     \* the requests in flight at a time

VARIABLES
  of,         \* password_reset:{token}: the user the key names, while it lives
  live,       \* the token keys in the store
  index,      \* password_reset_current:{user}: the token it names, 0 for no key
  made,       \* the tokens generated so far
  mailed,     \* the tokens whose link was sent
  used,       \* how often each was consumed
  raced,      \* history: the tokens handled while another request of the user ran,
              \* and those taken out of the index by a request for another token
  pc, user, token, previous   \* where each request is, and what it works on

store     == <<of, live, index>>
history   == <<made, mailed, used, raced>>
resetVars == <<store, history, pc, user, token, previous>>

TypeOK ==
  /\ of \in [Token -> User]
  /\ live \subseteq made /\ mailed \subseteq made /\ made \subseteq Token
  /\ index \in [User -> made \cup {0}]
  /\ used \in [Token -> Nat] /\ raced \subseteq Token
  /\ pc \in [Request -> {"idle", "get_index", "void", "set_token", "set_index", "mail",
                         "getdel", "clear_index", "reset"}]
  /\ user \in [Request -> User]
  /\ token \in [Request -> Token \cup {0}]
  /\ previous \in [Request -> Token \cup {0}]

AnyUser == CHOOSE u \in User : TRUE

Init ==
  /\ of = [k \in Token |-> AnyUser] /\ live = {} /\ index = [u \in User |-> 0]
  /\ made = {} /\ mailed = {} /\ raced = {} /\ used = [k \in Token |-> 0]
  /\ pc = [r \in Request |-> "idle"]
  /\ user = [r \in Request |-> AnyUser]
  /\ token = [r \in Request |-> 0] /\ previous = [r \in Request |-> 0]

Goto(r, label) == pc' = [pc EXCEPT ![r] = label]

End(r) ==
  /\ Goto(r, "idle")
  /\ user' = [user EXCEPT ![r] = AnyUser]
  /\ token' = [token EXCEPT ![r] = 0] /\ previous' = [previous EXCEPT ![r] = 0]

\* A request of u that works on token k starts; it races those of u in flight.
Race(u, k) ==
  LET others == {token[r] : r \in {q \in Request : pc[q] # "idle" /\ user[q] = u}}
  IN raced' = IF others = {} THEN raced ELSE raced \cup others \cup {k}

\* Bound: no link is asked for once Token is used up.
Fresh == CHOOSE k \in Token \ made : TRUE

-----------------------------------------------------------------------------
\* forgot_password of a known user; issue makes the token first.
Forgot(r, u) ==
  /\ pc[r] = "idle" /\ made # Token
  /\ made' = made \cup {Fresh}
  /\ token' = [token EXCEPT ![r] = Fresh]
  /\ Race(u, Fresh)
  /\ Goto(r, "get_index")
  /\ user' = [user EXCEPT ![r] = u]
  /\ UNCHANGED <<store, mailed, used, previous>>

GetIndex(r) ==
  /\ pc[r] = "get_index"
  /\ previous' = [previous EXCEPT ![r] = index[user[r]]]
  /\ Goto(r, IF index[user[r]] = 0 THEN "set_token" ELSE "void")
  /\ UNCHANGED <<store, history, user, token>>

Void(r) ==
  /\ pc[r] = "void"
  /\ live' = live \ {previous[r]}
  /\ Goto(r, "set_token")
  /\ UNCHANGED <<of, index, history, user, token, previous>>

SetToken(r) ==
  /\ pc[r] = "set_token"
  /\ live' = live \cup {token[r]}
  /\ of' = [of EXCEPT ![token[r]] = user[r]]
  /\ Goto(r, "set_index")
  /\ UNCHANGED <<index, history, user, token, previous>>

SetIndex(r) ==
  /\ pc[r] = "set_index"
  /\ index' = [index EXCEPT ![user[r]] = token[r]]
  /\ Goto(r, "mail")
  /\ UNCHANGED <<of, live, history, user, token, previous>>

Mail(r) ==
  /\ pc[r] = "mail"
  /\ mailed' = mailed \cup {token[r]}
  /\ End(r)
  /\ UNCHANGED <<store, made, used, raced>>

-----------------------------------------------------------------------------
\* reset_password with a link that was mailed.
Present(r, k) ==
  /\ pc[r] = "idle" /\ k \in mailed
  /\ Race(of[k], k)
  /\ Goto(r, "getdel")
  /\ user' = [user EXCEPT ![r] = of[k]]
  /\ token' = [token EXCEPT ![r] = k]
  /\ UNCHANGED <<store, made, mailed, used, previous>>

Mut_GetDel(r) ==
  /\ pc[r] = "getdel" /\ token[r] \in live
  /\ Goto(r, "clear_index")
  /\ UNCHANGED <<store, history, user, token, previous>>
GetDel(r) ==
  /\ pc[r] = "getdel" /\ token[r] \in live
  /\ live' = live \ {token[r]}
  /\ Goto(r, "clear_index")
  /\ UNCHANGED <<of, index, history, user, token, previous>>

Refuse(r) ==
  /\ pc[r] = "getdel" /\ token[r] \notin live
  /\ End(r)
  /\ UNCHANGED <<store, history>>

\* DEL of the index, whatever token it names by now.
ClearIndex(r) ==
  /\ pc[r] = "clear_index"
  /\ index' = [index EXCEPT ![user[r]] = 0]
  /\ raced' = raced \cup ({index[user[r]]} \ {0, token[r]})
  /\ Goto(r, "reset")
  /\ UNCHANGED <<of, live, made, mailed, used, user, token, previous>>

\* The new password and the end of all sessions commit together.
Reset(r) ==
  /\ pc[r] = "reset"
  /\ used' = [used EXCEPT ![token[r]] = @ + 1]
  /\ End(r)
  /\ UNCHANGED <<store, made, mailed, raced>>

-----------------------------------------------------------------------------
\* A call of the store, the database or the mail server fails: 500, and what was
\* done stays done.
Fail(r) ==
  /\ pc[r] # "idle"
  /\ End(r)
  /\ UNCHANGED <<store, history>>

\* A token key is set before the index that names it, and expires before it.
ExpireToken(k) ==
  /\ k \in live
  /\ live' = live \ {k}
  /\ UNCHANGED <<of, index, history, pc, user, token, previous>>

ExpireIndex(u) ==
  /\ index[u] # 0 /\ index[u] \notin live
  /\ index' = [index EXCEPT ![u] = 0]
  /\ UNCHANGED <<of, live, history, pc, user, token, previous>>

Issue(r) == GetIndex(r) \/ Void(r) \/ SetToken(r) \/ SetIndex(r) \/ Mail(r)
Consume(r) == GetDel(r) \/ Refuse(r) \/ ClearIndex(r) \/ Reset(r)

Next ==
  \/ \E r \in Request :
       \/ \E u \in User : Forgot(r, u)
       \/ \E k \in Token : Present(r, k)
       \/ Issue(r) \/ Consume(r) \/ Fail(r)
  \/ \E k \in Token : ExpireToken(k)
  \/ \E u \in User : ExpireIndex(u)

Spec == Init /\ [][Next]_resetVars

-----------------------------------------------------------------------------
\* reset_tokens.rs: the "atomic GETDEL rules out the race of a double use".  A
\* link resets the password at most once, whoever follows it and how often.
UsedOnce == \A k \in Token : used[k] <= 1

\* reset_tokens.rs: issuing voids the previous token, so that "only the newest link
\* works": no two mailed links of a user work at once, whatever fails in the middle,
\* unless one was issued or followed while another request of the user ran.  Two that
\* are issued at once both work, since each reads the index before the other sets it;
\* and a link followed late clears an index that names a newer one, which nobody then
\* voids.
NewestUnlessRaced == \A j, k \in live \cap mailed : of[j] = of[k] => j = k \/ {j, k} \cap raced # {}
=============================================================================
