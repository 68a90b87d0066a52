--------------------------- MODULE Sessions_proofs ---------------------------
(***************************************************************************)
(* Rotation is atomic, and no rotation slips past a deactivation: for any  *)
(* users, tokens and requests in flight, failures and lock orders.         *)
(***************************************************************************)
EXTENDS MCSessions, TLAPS

USE SessionsAssumption DEF tokens, locals

\* What a request at each label asks for.
WellFormed == \A t \in Tx :
  /\ pc[t] # "idle" => req[t] \in Request
  /\ pc[t] \in {"shared", "found"} => req[t].kind = "rotate" /\ req[t].token \in Token
  /\ pc[t] \in {"verified", "stamped"} => req[t].kind = "login"
  /\ pc[t] = "linked" => req[t].kind = "google"
  /\ pc[t] = "updated" => req[t].kind \in {"deactivate", "reactivate", "reset"}
  /\ pc[t] = "delete" => req[t].kind \in {"rotate", "deactivate", "reset"}
  /\ pc[t] \notin {"found", "delete"} => stored[t] = "none"
  /\ pc[t] = "delete" /\ stored[t] = "revoked" => req[t].token \in Token
  /\ victims[t] \subseteq issued

\* A token row is locked by one request at a time.
TokenLock == \A s, t \in Tx : s # t => holds[s] \cap holds[t] = {}

\* A users row is updated by one request at a time, and shared with none then.
UserLock == \A s, t \in Tx : \A u \in User :
  s # t /\ s \in Updates(u) => t \notin Updates(u) /\ t \notin Shares(u)

\* What a rotation read is still so.
ReadsHold == \A t \in Tx :
  /\ pc[t] \in {"shared", "found"} => sees[t] = active[req[t].user]
  /\ pc[t] = "found" /\ stored[t] = "live"
       => req[t].token \in holds[t] /\ row[req[t].token] = "live"

\* A token that was rotated is not live.
RotatedIsSpent == \A k \in issued :
  parent[k] # 0 => parent[k] \in issued /\ row[parent[k]] # "live"

\* The DELETE of an account change has seen every rotated token of the user.
AllCaught == \A t \in Tx : \A k \in issued :
  /\ pc[t] = "delete" /\ req[t].kind # "rotate"
  /\ row[k] = "live" /\ parent[k] # 0 /\ owner[k] = req[t].user
  => k \in victims[t]

Inv == /\ TypeOK /\ WellFormed /\ TokenLock /\ UserLock /\ ReadsHold
       /\ RotatedIsSpent /\ AllCaught /\ RotatedOnce /\ NoRotationPastDeactivation

LEMMA VerifyKeeps ==
  ASSUME Inv, NEW t \in Tx, NEW u \in User, Verify(t, u) PROVE Inv'
<1>1. TypeOK'
  BY DEF Verify, Begin, Inv, TypeOK, WellFormed, Request, Kinds, NoReq
<1>2. WellFormed'
  BY DEF Verify, Begin, Inv, TypeOK, WellFormed, Request, Kinds, NoReq
<1>3. TokenLock'
  BY DEF Verify, Begin, Inv, TypeOK, TokenLock
<1>4. UserLock'
  BY DEF Verify, Begin, Inv, TypeOK, WellFormed, UserLock, Updates, Shares
<1>5. ReadsHold'
  BY DEF Verify, Begin, Inv, TypeOK, WellFormed, TokenLock, UserLock, ReadsHold, Updates, Shares
<1>6. RotatedIsSpent' /\ RotatedOnce' /\ NoRotationPastDeactivation'
  BY DEF Verify, Begin, Inv, TypeOK, ReadsHold, RotatedIsSpent, WellFormed, RotatedOnce, UserLock, AllCaught, NoRotationPastDeactivation, Updates, Shares
<1>7. AllCaught'
  BY DEF Verify, Begin, Inv, TypeOK, WellFormed, UserLock, AllCaught, Updates, Shares
<1> QED BY <1>1, <1>2, <1>3, <1>4, <1>5, <1>6, <1>7 DEF Inv

LEMMA StampKeeps ==
  ASSUME Inv, NEW t \in Tx, Stamp(t) PROVE Inv'
<1>1. TypeOK'
  BY DEF Stamp, Inv, TypeOK, WellFormed, Request, Kinds, NoReq
<1>2. WellFormed'
  BY DEF Stamp, Inv, TypeOK, WellFormed, Request, Kinds, NoReq
<1>3. TokenLock'
  BY DEF Stamp, Inv, TypeOK, TokenLock
<1>4. UserLock'
  BY DEF Stamp, Inv, TypeOK, WellFormed, UserLock, Updates, Shares
<1>5. ReadsHold'
  BY DEF Stamp, Inv, TypeOK, WellFormed, TokenLock, UserLock, ReadsHold, Updates, Shares
<1>6. RotatedIsSpent' /\ RotatedOnce' /\ NoRotationPastDeactivation'
  BY DEF Stamp, Inv, TypeOK, ReadsHold, RotatedIsSpent, WellFormed, RotatedOnce, UserLock, AllCaught, NoRotationPastDeactivation, Updates, Shares
<1>7. AllCaught'
  BY DEF Stamp, Inv, TypeOK, WellFormed, UserLock, AllCaught, Updates, Shares
<1> QED BY <1>1, <1>2, <1>3, <1>4, <1>5, <1>6, <1>7 DEF Inv

LEMMA LoginKeeps ==
  ASSUME Inv, NEW t \in Tx, Login(t) PROVE Inv'
<1>0. Fresh \in Token \ issued
  BY DEF Login, Issue, Finish, Fresh, Inv, TypeOK
<1>1. TypeOK'
  BY <1>0 DEF Login, Issue, Finish, Inv, TypeOK, WellFormed, Request, Kinds, NoReq
<1>2. WellFormed'
  BY <1>0 DEF Login, Issue, Finish, Inv, TypeOK, WellFormed, Request, Kinds, NoReq
<1>3. TokenLock'
  BY <1>0 DEF Login, Issue, Finish, Inv, TypeOK, TokenLock
<1>4. UserLock'
  BY <1>0 DEF Login, Issue, Finish, Inv, TypeOK, WellFormed, UserLock, Updates, Shares
<1>5. ReadsHold'
  BY <1>0 DEF Login, Issue, Finish, Inv, TypeOK, WellFormed, TokenLock, UserLock, ReadsHold, Updates, Shares
<1>6. RotatedIsSpent'
  BY <1>0 DEF Login, Issue, Finish, Inv, TypeOK, ReadsHold, RotatedIsSpent
<1>7. AllCaught'
  BY <1>0 DEF Login, Issue, Finish, Inv, TypeOK, WellFormed, UserLock, AllCaught, Updates, Shares
<1>8. RotatedOnce'
  BY <1>0 DEF Login, Issue, Finish, Inv, TypeOK, WellFormed, ReadsHold, RotatedIsSpent, RotatedOnce
<1>9. NoRotationPastDeactivation'
  BY <1>0 DEF Login, Issue, Finish, Inv, TypeOK, WellFormed, UserLock, ReadsHold, AllCaught, NoRotationPastDeactivation, Updates, Shares
<1> QED BY <1>1, <1>2, <1>3, <1>4, <1>5, <1>6, <1>7, <1>8, <1>9 DEF Inv

LEMMA GoogleUpsertKeeps ==
  ASSUME Inv, NEW t \in Tx, NEW u \in User, GoogleUpsert(t, u) PROVE Inv'
<1>1. TypeOK'
  BY DEF GoogleUpsert, Begin, UserFree, Inv, TypeOK, WellFormed, Request, Kinds, NoReq
<1>2. WellFormed'
  BY DEF GoogleUpsert, Begin, UserFree, Inv, TypeOK, WellFormed, Request, Kinds, NoReq
<1>3. TokenLock'
  BY DEF GoogleUpsert, Begin, UserFree, Inv, TypeOK, TokenLock
<1>4. UserLock'
  BY DEF GoogleUpsert, Begin, UserFree, Inv, TypeOK, WellFormed, UserLock, Updates, Shares
<1>5. ReadsHold'
  BY DEF GoogleUpsert, Begin, UserFree, Inv, TypeOK, WellFormed, TokenLock, UserLock, ReadsHold, Updates, Shares
<1>6. RotatedIsSpent' /\ RotatedOnce' /\ NoRotationPastDeactivation'
  BY DEF GoogleUpsert, Begin, UserFree, Inv, TypeOK, ReadsHold, RotatedIsSpent, WellFormed, RotatedOnce, UserLock, AllCaught, NoRotationPastDeactivation, Updates, Shares
<1>7. AllCaught'
  BY DEF GoogleUpsert, Begin, UserFree, Inv, TypeOK, WellFormed, UserLock, AllCaught, Updates, Shares
<1> QED BY <1>1, <1>2, <1>3, <1>4, <1>5, <1>6, <1>7 DEF Inv

LEMMA GoogleCommitKeeps ==
  ASSUME Inv, NEW t \in Tx, GoogleCommit(t) PROVE Inv'
<1>0. Fresh \in Token \ issued
  BY DEF GoogleCommit, Issue, Finish, Fresh, Inv, TypeOK
<1>1. TypeOK'
  BY <1>0 DEF GoogleCommit, Issue, Finish, Inv, TypeOK, WellFormed, Request, Kinds, NoReq
<1>2. WellFormed'
  BY <1>0 DEF GoogleCommit, Issue, Finish, Inv, TypeOK, WellFormed, Request, Kinds, NoReq
<1>3. TokenLock'
  BY <1>0 DEF GoogleCommit, Issue, Finish, Inv, TypeOK, TokenLock
<1>4. UserLock'
  BY <1>0 DEF GoogleCommit, Issue, Finish, Inv, TypeOK, WellFormed, UserLock, Updates, Shares
<1>5. ReadsHold'
  BY <1>0 DEF GoogleCommit, Issue, Finish, Inv, TypeOK, WellFormed, TokenLock, UserLock, ReadsHold, Updates, Shares
<1>6. RotatedIsSpent'
  BY <1>0 DEF GoogleCommit, Issue, Finish, Inv, TypeOK, ReadsHold, RotatedIsSpent
<1>7. AllCaught'
  BY <1>0 DEF GoogleCommit, Issue, Finish, Inv, TypeOK, WellFormed, UserLock, AllCaught, Updates, Shares
<1>8. RotatedOnce'
  BY <1>0 DEF GoogleCommit, Issue, Finish, Inv, TypeOK, WellFormed, ReadsHold, RotatedIsSpent, RotatedOnce
<1>9. NoRotationPastDeactivation'
  BY <1>0 DEF GoogleCommit, Issue, Finish, Inv, TypeOK, WellFormed, UserLock, ReadsHold, AllCaught, NoRotationPastDeactivation, Updates, Shares
<1> QED BY <1>1, <1>2, <1>3, <1>4, <1>5, <1>6, <1>7, <1>8, <1>9 DEF Inv

LEMMA PresentKeeps ==
  ASSUME Inv, NEW t \in Tx, NEW k \in Token, Present(t, k) PROVE Inv'
<1>1. TypeOK'
  BY DEF Present, Begin, Inv, TypeOK, WellFormed, Request, Kinds, NoReq
<1>2. WellFormed'
  BY DEF Present, Begin, Inv, TypeOK, WellFormed, Request, Kinds, NoReq
<1>3. TokenLock'
  BY DEF Present, Begin, Inv, TypeOK, TokenLock
<1>4. UserLock'
  BY DEF Present, Begin, Inv, TypeOK, WellFormed, UserLock, Updates, Shares
<1>5. ReadsHold'
  BY DEF Present, Begin, Inv, TypeOK, WellFormed, TokenLock, UserLock, ReadsHold, Updates, Shares
<1>6. RotatedIsSpent' /\ RotatedOnce' /\ NoRotationPastDeactivation'
  BY DEF Present, Begin, Inv, TypeOK, ReadsHold, RotatedIsSpent, WellFormed, RotatedOnce, UserLock, AllCaught, NoRotationPastDeactivation, Updates, Shares
<1>7. AllCaught'
  BY DEF Present, Begin, Inv, TypeOK, WellFormed, UserLock, AllCaught, Updates, Shares
<1> QED BY <1>1, <1>2, <1>3, <1>4, <1>5, <1>6, <1>7 DEF Inv

LEMMA FindKeeps ==
  ASSUME Inv, NEW t \in Tx, Find(t) PROVE Inv'
<1>1. TypeOK'
  <2>1. req[t].token \in Token
    BY DEF Find, Inv, WellFormed
  <2>2. stored' \in [Tx -> {"none", "live", "revoked"}] /\ holds' \in [Tx -> SUBSET Token]
    BY <2>1 DEF Find, Inv, TypeOK
  <2> QED BY <2>2 DEF Find, Inv, TypeOK
<1>2. WellFormed'
  BY DEF Find, TokenFree, Inv, TypeOK, WellFormed, Request, Kinds, NoReq
<1>3. TokenLock'
  BY DEF Find, TokenFree, Inv, TypeOK, TokenLock
<1>4. UserLock'
  BY DEF Find, TokenFree, Inv, TypeOK, WellFormed, UserLock, Updates, Shares
<1>5. ReadsHold'
  BY DEF Find, TokenFree, Inv, TypeOK, WellFormed, TokenLock, UserLock, ReadsHold, Updates, Shares
<1>6. RotatedIsSpent' /\ RotatedOnce' /\ NoRotationPastDeactivation'
  BY DEF Find, TokenFree, Inv, TypeOK, ReadsHold, RotatedIsSpent, WellFormed, RotatedOnce, UserLock, AllCaught, NoRotationPastDeactivation, Updates, Shares
<1>7. AllCaught'
  BY DEF Find, TokenFree, Inv, TypeOK, WellFormed, UserLock, AllCaught, Updates, Shares
<1> QED BY <1>1, <1>2, <1>3, <1>4, <1>5, <1>6, <1>7 DEF Inv

LEMMA RefuseKeeps ==
  ASSUME Inv, NEW t \in Tx, Refuse(t) PROVE Inv'
<1>1. TypeOK'
  BY DEF Refuse, Rollback, Finish, Inv, TypeOK, WellFormed, Request, Kinds, NoReq
<1>2. WellFormed'
  BY DEF Refuse, Rollback, Finish, Inv, TypeOK, WellFormed, Request, Kinds, NoReq
<1>3. TokenLock'
  BY DEF Refuse, Rollback, Finish, Inv, TypeOK, TokenLock
<1>4. UserLock'
  BY DEF Refuse, Rollback, Finish, Inv, TypeOK, WellFormed, UserLock, Updates, Shares
<1>5. ReadsHold'
  BY DEF Refuse, Rollback, Finish, Inv, TypeOK, WellFormed, TokenLock, UserLock, ReadsHold, Updates, Shares
<1>6. RotatedIsSpent' /\ RotatedOnce' /\ NoRotationPastDeactivation'
  BY DEF Refuse, Rollback, Finish, Inv, TypeOK, ReadsHold, RotatedIsSpent, WellFormed, RotatedOnce, UserLock, AllCaught, NoRotationPastDeactivation, Updates, Shares
<1>7. AllCaught'
  BY DEF Refuse, Rollback, Finish, Inv, TypeOK, WellFormed, UserLock, AllCaught, Updates, Shares
<1> QED BY <1>1, <1>2, <1>3, <1>4, <1>5, <1>6, <1>7 DEF Inv

LEMMA EndFamilyKeeps ==
  ASSUME Inv, NEW t \in Tx, EndFamily(t) PROVE Inv'
<1>1. TypeOK'
  BY DEF EndFamily, Of, Inv, TypeOK, WellFormed, Request, Kinds, NoReq
<1>2. WellFormed'
  <2>1. Of(req[t].user) \subseteq issued
    BY DEF Of, Inv, TypeOK
  <2>2. req[t].kind = "rotate" /\ req[t].token \in Token
    BY DEF EndFamily, Inv, WellFormed
  <2> QED BY <2>1, <2>2 DEF EndFamily, Inv, TypeOK, WellFormed
<1>3. TokenLock'
  BY DEF EndFamily, Of, Inv, TypeOK, TokenLock
<1>4. UserLock'
  BY DEF EndFamily, Of, Inv, TypeOK, WellFormed, UserLock, Updates, Shares
<1>5. ReadsHold'
  BY DEF EndFamily, Of, Inv, TypeOK, WellFormed, TokenLock, UserLock, ReadsHold, Updates, Shares
<1>6. RotatedIsSpent' /\ RotatedOnce' /\ NoRotationPastDeactivation'
  BY DEF EndFamily, Of, Inv, TypeOK, ReadsHold, RotatedIsSpent, WellFormed, RotatedOnce, UserLock, AllCaught, NoRotationPastDeactivation, Updates, Shares
<1>7. AllCaught'
  BY DEF EndFamily, Of, Inv, TypeOK, WellFormed, UserLock, AllCaught, Updates, Shares
<1> QED BY <1>1, <1>2, <1>3, <1>4, <1>5, <1>6, <1>7 DEF Inv

LEMMA RotateKeeps ==
  ASSUME Inv, NEW t \in Tx, Rotate(t) PROVE Inv'
<1>0. Fresh \in Token \ issued
  BY DEF Rotate, Issue, Finish, Fresh, Inv, TypeOK
<1>a. /\ req[t].token \in Token /\ req[t].user \in User
      /\ row[req[t].token] = "live" /\ req[t].token \in issued
  BY DEF Rotate, Inv, TypeOK, WellFormed, ReadsHold, Request
<1>1. TypeOK'
  BY ZenonT(30), <1>0, <1>a DEF Rotate, Issue, Finish, Inv, TypeOK, Request, NoReq
<1>2. WellFormed'
  BY <1>0 DEF Rotate, Issue, Finish, Inv, TypeOK, WellFormed, Request, Kinds, NoReq
<1>3. TokenLock'
  BY <1>0 DEF Rotate, Issue, Finish, Inv, TypeOK, TokenLock
<1>4. UserLock'
  BY <1>0 DEF Rotate, Issue, Finish, Inv, TypeOK, WellFormed, UserLock, Updates, Shares
<1>5. ReadsHold'
  BY <1>0 DEF Rotate, Issue, Finish, Inv, TypeOK, WellFormed, TokenLock, UserLock, ReadsHold, Updates, Shares
<1>6. RotatedIsSpent'
  BY <1>0, <1>a DEF Rotate, Issue, Inv, TypeOK, RotatedIsSpent
<1>7. AllCaught'
  <2> SUFFICES ASSUME NEW s \in Tx, NEW k \in issued', pc'[s] = "delete", req'[s].kind # "rotate",
                      row'[k] = "live", parent'[k] # 0, owner'[k] = req'[s].user
               PROVE  k \in victims'[s]
    BY DEF AllCaught
  <2>1. s # t /\ pc[s] = "delete" /\ req'[s] = req[s] /\ victims'[s] = victims[s]
    BY DEF Rotate, Finish, Inv, TypeOK
  <2>2. s \in Updates(req[s].user) /\ t \in Shares(req[t].user) /\ req[s].user \in User
    BY <2>1 DEF Rotate, Inv, WellFormed, Request, Updates, Shares
  <2>3. req[s].user # req[t].user
    BY <2>1, <2>2 DEF Inv, UserLock
  <2>4. k # Fresh
    BY <1>0, <2>1, <2>3 DEF Rotate, Issue, Inv, TypeOK
  <2>5. k \in issued /\ row[k] = "live" /\ parent[k] = parent'[k] /\ owner[k] = owner'[k]
    BY <1>0, <2>4 DEF Rotate, Issue, Inv, TypeOK
  <2> QED BY <2>1, <2>5 DEF Inv, AllCaught
<1>8. RotatedOnce'
  BY <1>0 DEF Rotate, Issue, Finish, Inv, TypeOK, WellFormed, ReadsHold, RotatedIsSpent, RotatedOnce
<1>9. NoRotationPastDeactivation'
  BY <1>0 DEF Rotate, Issue, Finish, Inv, TypeOK, WellFormed, UserLock, ReadsHold, AllCaught, NoRotationPastDeactivation, Updates, Shares
<1> QED BY <1>1, <1>2, <1>3, <1>4, <1>5, <1>6, <1>7, <1>8, <1>9 DEF Inv

LEMMA UpdateUserKeeps ==
  ASSUME Inv, NEW t \in Tx, NEW u \in User, NEW kind \in {"deactivate", "reactivate", "reset"}, UpdateUser(t, u, kind) PROVE Inv'
<1>1. TypeOK'
  BY DEF UpdateUser, Begin, UserFree, Inv, TypeOK, WellFormed, Request, Kinds, NoReq
<1>2. WellFormed'
  BY DEF UpdateUser, Begin, UserFree, Inv, TypeOK, WellFormed, Request, Kinds, NoReq
<1>3. TokenLock'
  BY DEF UpdateUser, Begin, UserFree, Inv, TypeOK, TokenLock
<1>4. UserLock'
  BY DEF UpdateUser, Begin, UserFree, Inv, TypeOK, WellFormed, UserLock, Updates, Shares
<1>5. ReadsHold'
  BY DEF UpdateUser, Begin, UserFree, Inv, TypeOK, WellFormed, TokenLock, UserLock, ReadsHold, Updates, Shares
<1>6. RotatedIsSpent' /\ RotatedOnce' /\ NoRotationPastDeactivation'
  BY DEF UpdateUser, Begin, UserFree, Inv, TypeOK, ReadsHold, RotatedIsSpent, WellFormed, RotatedOnce, UserLock, AllCaught, NoRotationPastDeactivation, Updates, Shares
<1>7. AllCaught'
  BY DEF UpdateUser, Begin, UserFree, Inv, TypeOK, WellFormed, UserLock, AllCaught, Updates, Shares
<1> QED BY <1>1, <1>2, <1>3, <1>4, <1>5, <1>6, <1>7 DEF Inv

LEMMA EndAllKeeps ==
  ASSUME Inv, NEW t \in Tx, EndAll(t) PROVE Inv'
<1>1. TypeOK'
  BY DEF EndAll, Of, Inv, TypeOK, WellFormed, Request, Kinds, NoReq
<1>2. WellFormed'
  <2>1. Of(req[t].user) \subseteq issued
    BY DEF Of, Inv, TypeOK
  <2> QED BY <2>1 DEF EndAll, Inv, TypeOK, WellFormed
<1>3. TokenLock'
  BY DEF EndAll, Of, Inv, TypeOK, TokenLock
<1>4. UserLock'
  BY DEF EndAll, Of, Inv, TypeOK, WellFormed, UserLock, Updates, Shares
<1>5. ReadsHold'
  BY DEF EndAll, Of, Inv, TypeOK, WellFormed, TokenLock, UserLock, ReadsHold, Updates, Shares
<1>6. RotatedIsSpent' /\ RotatedOnce' /\ NoRotationPastDeactivation'
  BY DEF EndAll, Of, Inv, TypeOK, ReadsHold, RotatedIsSpent, WellFormed, RotatedOnce, UserLock, AllCaught, NoRotationPastDeactivation, Updates, Shares
<1>7. AllCaught'
  BY DEF EndAll, Of, Inv, TypeOK, WellFormed, UserLock, AllCaught, Updates, Shares
<1> QED BY <1>1, <1>2, <1>3, <1>4, <1>5, <1>6, <1>7 DEF Inv

LEMMA ReactivateKeeps ==
  ASSUME Inv, NEW t \in Tx, Reactivate(t) PROVE Inv'
<1>1. TypeOK'
  BY DEF Reactivate, Finish, Inv, TypeOK, WellFormed, Request, Kinds, NoReq
<1>2. WellFormed'
  BY DEF Reactivate, Finish, Inv, TypeOK, WellFormed, Request, Kinds, NoReq
<1>3. TokenLock'
  BY DEF Reactivate, Finish, Inv, TypeOK, TokenLock
<1>4. UserLock'
  BY DEF Reactivate, Finish, Inv, TypeOK, WellFormed, UserLock, Updates, Shares
<1>5. ReadsHold'
  <2> SUFFICES ASSUME NEW s \in Tx, pc'[s] \in {"shared", "found"}
               PROVE  sees'[s] = active'[req'[s].user] /\
                      (pc'[s] = "found" /\ stored'[s] = "live"
                        => req'[s].token \in holds'[s] /\ row'[req'[s].token] = "live")
    BY DEF ReadsHold
  <2>1. s # t /\ pc[s] = pc'[s] /\ req[s].kind = "rotate" /\ req[s].user \in User
    BY DEF Reactivate, Finish, Inv, TypeOK, WellFormed, Request
  <2>2. req[t].user \in User /\ t \in Updates(req[t].user)
    BY DEF Reactivate, Inv, WellFormed, Request, Updates
  <2>3. req[s].user # req[t].user
    BY <2>1, <2>2 DEF Inv, UserLock, Shares
  <2> QED BY <2>1, <2>3 DEF Reactivate, Finish, Inv, TypeOK, ReadsHold
<1>6. RotatedIsSpent'
  BY DEF Reactivate, Finish, Inv, TypeOK, ReadsHold, RotatedIsSpent
<1>7. AllCaught'
  BY DEF Reactivate, Finish, Inv, TypeOK, WellFormed, UserLock, AllCaught, Updates, Shares
<1>8. RotatedOnce'
  BY DEF Reactivate, Finish, Inv, TypeOK, WellFormed, ReadsHold, RotatedIsSpent, RotatedOnce
<1>9. NoRotationPastDeactivation'
  BY DEF Reactivate, Finish, Inv, TypeOK, WellFormed, UserLock, ReadsHold, AllCaught, NoRotationPastDeactivation, Updates, Shares
<1> QED BY <1>1, <1>2, <1>3, <1>4, <1>5, <1>6, <1>7, <1>8, <1>9 DEF Inv

LEMMA LockVictimKeeps ==
  ASSUME Inv, NEW t \in Tx, LockVictim(t) PROVE Inv'
<1>1. TypeOK'
  <2>1. PICK k \in victims[t] \ holds[t] :
          \/ holds' = [holds EXCEPT ![t] = @ \cup {k}] /\ UNCHANGED victims
          \/ victims' = [victims EXCEPT ![t] = @ \ {k}] /\ UNCHANGED holds
    BY DEF LockVictim
  <2>2. victims' \in [Tx -> SUBSET Token] /\ holds' \in [Tx -> SUBSET Token]
    BY <2>1 DEF Inv, TypeOK
  <2>3. pc[t] = "delete"
    BY DEF LockVictim
  <2>4. \A u \in Tx : pc[u] = "idle" => holds'[u] = {} /\ victims'[u] = {}
    BY <2>1, <2>3 DEF Inv, TypeOK
  <2> QED BY <2>2, <2>4 DEF LockVictim, Inv, TypeOK
<1>2. WellFormed'
  BY DEF LockVictim, TokenFree, Inv, TypeOK, WellFormed, Request, Kinds, NoReq
<1>3. TokenLock'
  BY DEF LockVictim, TokenFree, Inv, TypeOK, TokenLock
<1>4. UserLock'
  BY DEF LockVictim, TokenFree, Inv, TypeOK, WellFormed, UserLock, Updates, Shares
<1>5. ReadsHold'
  BY DEF LockVictim, TokenFree, Inv, TypeOK, WellFormed, TokenLock, UserLock, ReadsHold, Updates, Shares
<1>6. RotatedIsSpent' /\ RotatedOnce' /\ NoRotationPastDeactivation'
  BY DEF LockVictim, TokenFree, Inv, TypeOK, ReadsHold, RotatedIsSpent, WellFormed, RotatedOnce, UserLock, AllCaught, NoRotationPastDeactivation, Updates, Shares
<1>7. AllCaught'
  <2> SUFFICES ASSUME NEW s \in Tx, NEW k \in issued, row[k] = "live",
                      k \in victims[s]
               PROVE  k \in victims'[s]
    BY DEF LockVictim, Inv, AllCaught
  <2>1. PICK j \in victims[t] \ holds[t] :
          victims' = victims \/ (row[j] = "none" /\ victims' = [victims EXCEPT ![t] = @ \ {j}])
    BY DEF LockVictim, Inv, TypeOK, WellFormed
  <2> QED BY <2>1 DEF Inv, TypeOK
<1> QED BY <1>1, <1>2, <1>3, <1>4, <1>5, <1>6, <1>7 DEF Inv

LEMMA CommitEndKeeps ==
  ASSUME Inv, NEW t \in Tx, CommitEnd(t) PROVE Inv'
<1>1. TypeOK'
  <2>1. victims[t] \subseteq issued /\ req[t] \in Request
    BY DEF CommitEnd, Inv, WellFormed
  <2>2. stored[t] = "revoked" => family[req[t].token] \in Token
    BY DEF CommitEnd, Inv, TypeOK, WellFormed
  <2>3. replayed' \subseteq Token
    BY <2>2 DEF CommitEnd, Inv, TypeOK
  <2>4. disposed' \subseteq issued' /\ row' \in [Token -> {"none", "live", "revoked"}]
    BY <2>1 DEF CommitEnd, Ended, Inv, TypeOK
  <2>5. active' \in [User -> BOOLEAN]
    BY <2>1 DEF CommitEnd, Inv, TypeOK, Request
  <2>6. \A k \in Token : row'[k] # "none" => k \in issued' \ disposed'
    BY DEF CommitEnd, Ended, Inv, TypeOK
  <2> QED BY <2>3, <2>4, <2>5, <2>6 DEF CommitEnd, Finish, Inv, TypeOK, NoReq
<1>2. WellFormed'
  BY DEF CommitEnd, Ended, Finish, Inv, TypeOK, WellFormed, Request, Kinds, NoReq
<1>3. TokenLock'
  BY DEF CommitEnd, Ended, Finish, Inv, TypeOK, TokenLock
<1>4. UserLock'
  BY DEF CommitEnd, Ended, Finish, Inv, TypeOK, WellFormed, UserLock, Updates, Shares
<1>5. ReadsHold'
  BY DEF CommitEnd, Ended, Finish, Inv, TypeOK, WellFormed, TokenLock, UserLock, ReadsHold, Updates, Shares
<1>6. RotatedIsSpent'
  BY DEF CommitEnd, Ended, Finish, Inv, TypeOK, ReadsHold, RotatedIsSpent
<1>7. AllCaught'
  BY DEF CommitEnd, Ended, Finish, Inv, TypeOK, WellFormed, UserLock, AllCaught, Updates, Shares
<1>8. RotatedOnce'
  BY DEF CommitEnd, Ended, Finish, Inv, TypeOK, WellFormed, ReadsHold, RotatedIsSpent, RotatedOnce
<1>9. NoRotationPastDeactivation'
  BY DEF CommitEnd, Ended, Finish, Inv, TypeOK, WellFormed, UserLock, ReadsHold, AllCaught, NoRotationPastDeactivation, Updates, Shares
<1> QED BY <1>1, <1>2, <1>3, <1>4, <1>5, <1>6, <1>7, <1>8, <1>9 DEF Inv

LEMMA FailKeeps ==
  ASSUME Inv, NEW t \in Tx, Fail(t) PROVE Inv'
<1>1. TypeOK'
  BY DEF Fail, Rollback, Finish, Inv, TypeOK, WellFormed, Request, Kinds, NoReq
<1>2. WellFormed'
  BY DEF Fail, Rollback, Finish, Inv, TypeOK, WellFormed, Request, Kinds, NoReq
<1>3. TokenLock'
  BY DEF Fail, Rollback, Finish, Inv, TypeOK, TokenLock
<1>4. UserLock'
  BY DEF Fail, Rollback, Finish, Inv, TypeOK, WellFormed, UserLock, Updates, Shares
<1>5. ReadsHold'
  BY DEF Fail, Rollback, Finish, Inv, TypeOK, WellFormed, TokenLock, UserLock, ReadsHold, Updates, Shares
<1>6. RotatedIsSpent' /\ RotatedOnce' /\ NoRotationPastDeactivation'
  BY DEF Fail, Rollback, Finish, Inv, TypeOK, ReadsHold, RotatedIsSpent, WellFormed, RotatedOnce, UserLock, AllCaught, NoRotationPastDeactivation, Updates, Shares
<1>7. AllCaught'
  BY DEF Fail, Rollback, Finish, Inv, TypeOK, WellFormed, UserLock, AllCaught, Updates, Shares
<1> QED BY <1>1, <1>2, <1>3, <1>4, <1>5, <1>6, <1>7 DEF Inv
LEMMA LogoutKeeps ==
  ASSUME Inv, NEW k \in Token, Logout(k) PROVE Inv'
<1>1. TypeOK'
  BY DEF Logout, Inv, TypeOK, WellFormed, TypeOK, Updates, Shares
<1>2. WellFormed' /\ TokenLock' /\ UserLock'
  BY DEF Logout, Inv, TypeOK, WellFormed, Updates, Shares, TokenLock, UserLock
<1>3. ReadsHold'
  BY DEF Logout, Inv, TypeOK, WellFormed, ReadsHold, Updates, Shares
<1>4. RotatedIsSpent'
  BY DEF Logout, Inv, TypeOK, WellFormed, RotatedIsSpent, Updates, Shares
<1>5. AllCaught'
  BY DEF Logout, Inv, TypeOK, WellFormed, AllCaught, Updates, Shares
<1>6. RotatedOnce'
  BY DEF Logout, Inv, TypeOK, WellFormed, RotatedOnce, Updates, Shares
<1>7. NoRotationPastDeactivation'
  BY DEF Logout, Inv, TypeOK, WellFormed, NoRotationPastDeactivation, Updates, Shares
<1> QED BY <1>1, <1>2, <1>3, <1>4, <1>5, <1>6, <1>7 DEF Inv

LEMMA ExpireKeeps ==
  ASSUME Inv, NEW k \in Token, Expire(k) PROVE Inv'
<1>1. TypeOK'
  BY DEF Expire, Inv, TypeOK, WellFormed, TypeOK, Updates, Shares
<1>2. WellFormed' /\ TokenLock' /\ UserLock'
  BY DEF Expire, Inv, TypeOK, WellFormed, Updates, Shares, TokenLock, UserLock
<1>3. ReadsHold'
  BY DEF Expire, Inv, TypeOK, WellFormed, ReadsHold, Updates, Shares
<1>4. RotatedIsSpent'
  BY DEF Expire, Inv, TypeOK, WellFormed, RotatedIsSpent, Updates, Shares
<1>5. AllCaught'
  BY DEF Expire, Inv, TypeOK, WellFormed, AllCaught, Updates, Shares
<1>6. RotatedOnce'
  BY DEF Expire, Inv, TypeOK, WellFormed, RotatedOnce, Updates, Shares
<1>7. NoRotationPastDeactivation'
  BY DEF Expire, Inv, TypeOK, WellFormed, NoRotationPastDeactivation, Updates, Shares
<1> QED BY <1>1, <1>2, <1>3, <1>4, <1>5, <1>6, <1>7 DEF Inv

LEMMA purge_expiredKeeps ==
  ASSUME Inv, purge_expired PROVE Inv'
<1>1. TypeOK'
  BY DEF purge_expired, Purgeable, Inv, TypeOK, WellFormed, TypeOK, Updates, Shares
<1>2. WellFormed' /\ TokenLock' /\ UserLock'
  BY DEF purge_expired, Purgeable, Inv, TypeOK, WellFormed, Updates, Shares, TokenLock, UserLock
<1>3. ReadsHold'
  BY DEF purge_expired, Purgeable, Inv, TypeOK, WellFormed, ReadsHold, Updates, Shares
<1>4. RotatedIsSpent'
  BY DEF purge_expired, Purgeable, Inv, TypeOK, WellFormed, RotatedIsSpent, Updates, Shares
<1>5. AllCaught'
  BY DEF purge_expired, Purgeable, Inv, TypeOK, WellFormed, AllCaught, Updates, Shares
<1>6. RotatedOnce'
  BY DEF purge_expired, Purgeable, Inv, TypeOK, WellFormed, RotatedOnce, Updates, Shares
<1>7. NoRotationPastDeactivation'
  BY DEF purge_expired, Purgeable, Inv, TypeOK, WellFormed, NoRotationPastDeactivation, Updates, Shares
<1> QED BY <1>1, <1>2, <1>3, <1>4, <1>5, <1>6, <1>7 DEF Inv

LEMMA InitInv == Init => Inv
<1> SUFFICES ASSUME Init PROVE Inv
  OBVIOUS
<1>1. TypeOK
  BY DEF Init, TypeOK, NoReq
<1>2. WellFormed /\ TokenLock /\ UserLock /\ ReadsHold /\ AllCaught
  BY DEF Init, WellFormed, TokenLock, UserLock, ReadsHold, AllCaught, Updates, Shares
<1>3. RotatedIsSpent /\ RotatedOnce /\ NoRotationPastDeactivation
  BY DEF Init, RotatedIsSpent, RotatedOnce, NoRotationPastDeactivation
<1> QED BY <1>1, <1>2, <1>3 DEF Inv

LEMMA NextKeeps == Inv /\ [Next]_sessionsVars => Inv'
<1> SUFFICES ASSUME Inv, [Next]_sessionsVars PROVE Inv'
  OBVIOUS
<1>1. CASE UNCHANGED sessionsVars
  BY <1>1 DEF sessionsVars, Inv, TypeOK, WellFormed, TokenLock, UserLock, ReadsHold, RotatedIsSpent,
              AllCaught, RotatedOnce, NoRotationPastDeactivation, Updates, Shares
<1>2. ASSUME NEW t \in Tx, Start(t) PROVE Inv'
  BY <1>2, VerifyKeeps, GoogleUpsertKeeps, PresentKeeps, UpdateUserKeeps DEF Start
<1>3. ASSUME NEW t \in Tx, Step(t) PROVE Inv'
  BY <1>3, StampKeeps, LoginKeeps, GoogleCommitKeeps, FindKeeps, RefuseKeeps, EndFamilyKeeps, RotateKeeps,
     EndAllKeeps, ReactivateKeeps, LockVictimKeeps, CommitEndKeeps DEF Step
<1> QED BY <1>1, <1>2, <1>3, FailKeeps, LogoutKeeps, ExpireKeeps, purge_expiredKeeps DEF Next

THEOREM SessionsInvariant == Spec => []Inv
BY InitInv, NextKeeps, PTL DEF Spec

\* session.rs, rotate: "rotation is atomic".  Of the requests that race to rotate
\* one token, whatever they wait for or run into, at most one ever gets the next.
THEOREM OneSuccessor == Spec => []RotatedOnce
<1>1. Inv => RotatedOnce
  BY DEF Inv
<1> QED BY <1>1, SessionsInvariant, PTL

\* session.rs, rotate on FOR SHARE: "an in-flight deactivation makes this wait".
\* No inactive user is ever left with a token that came from a rotation.
THEOREM DeactivationWins == Spec => []NoRotationPastDeactivation
<1>1. Inv => NoRotationPastDeactivation
  BY DEF Inv
<1> QED BY <1>1, SessionsInvariant, PTL

-----------------------------------------------------------------------------
(* What a token that comes back is answered.                               *)

\* A locked row is there, and whoever found a row has locked it.
LocksAreRows == \A t \in Tx :
  /\ \A k \in holds[t] : row[k] # "none"
  /\ pc[t] = "found" /\ stored[t] # "none" => req[t].token \in holds[t]

Answers == LocksAreRows /\ ReplayIsRecognised

\* The steps that leave the rows alone.
LEMMA QuietAnswers ==
  ASSUME ReplayIsRecognised, UNCHANGED <<row, issued, parent, age, disposed>>
  PROVE  ReplayIsRecognised'
BY DEF ReplayIsRecognised

\* A new token is nobody's parent, and the one it was rotated from is revoked.
LEMMA IssueAnswers ==
  ASSUME Inv, Answers, NEW t \in Tx, NEW u \in User, NEW p \in issued \cup {0},
         Issue(u, p), Finish(t), UNCHANGED age,
         p # 0 => row[p] # "none"
  PROVE  Answers'
<1>0. Fresh \in Token \ issued /\ p # Fresh
  BY DEF Issue, Fresh, Inv, TypeOK
<1>1. \A k \in Token : row[k] # "none" => row'[k] # "none"
  BY <1>0 DEF Issue, Inv, TypeOK
<1>2. LocksAreRows'
  <2>1. \A s \in Tx : holds'[s] \subseteq holds[s] /\ holds[s] \subseteq Token
    BY DEF Finish, Inv, TypeOK
  <2>2. \A s \in Tx : pc'[s] = "found" => /\ pc[s] = "found" /\ stored'[s] = stored[s]
                                          /\ req'[s] = req[s] /\ holds'[s] = holds[s]
    BY DEF Finish, Inv, TypeOK
  <2> QED BY <1>1, <2>1, <2>2 DEF Answers, LocksAreRows
<1>3. ReplayIsRecognised'
  <2> SUFFICES ASSUME NEW k \in issued', parent'[k] # 0, age'[parent'[k]] = 0, parent'[k] \notin disposed'
               PROVE  row'[parent'[k]] = "revoked"
    BY DEF ReplayIsRecognised
  <2>1. CASE k = Fresh
    <3>1. parent'[k] = p
      BY <1>0, <2>1 DEF Issue, Inv, TypeOK
    <3> QED BY <1>0, <3>1 DEF Issue, Inv, TypeOK
  <2>2. CASE k # Fresh
    <3>1. k \in issued /\ parent'[k] = parent[k]
      BY <2>2 DEF Issue, Inv, TypeOK
    <3>2. parent[k] \in issued /\ row[parent[k]] = "revoked"
      BY <3>1 DEF Issue, Inv, RotatedIsSpent, Answers, ReplayIsRecognised
    <3> QED BY <1>0, <3>1, <3>2 DEF Issue, Inv, TypeOK
  <2> QED BY <2>1, <2>2
<1> QED BY <1>2, <1>3 DEF Answers

\* Requests that begin, read, or end without writing.
LEMMA ReadingAnswers ==
  ASSUME Inv, Answers, UNCHANGED <<row, issued, parent, age, disposed>>,
         \A s \in Tx : /\ \A k \in holds'[s] : row[k] # "none"
                       /\ pc'[s] = "found" /\ stored'[s] # "none" => req'[s].token \in holds'[s]
  PROVE  Answers'
BY QuietAnswers DEF Answers, LocksAreRows

LEMMA StartAnswers == ASSUME Inv, Answers, NEW t \in Tx, Start(t) PROVE Answers'
<1>1. UNCHANGED <<row, issued, parent, age, disposed, holds, stored>>
  BY DEF Start, Verify, GoogleUpsert, Present, UpdateUser
<1>2. \A s \in Tx : pc'[s] = "found" => pc[s] = "found" /\ req'[s] = req[s]
  BY DEF Start, Verify, GoogleUpsert, Present, UpdateUser, Begin, Inv, TypeOK
<1> QED BY <1>1, <1>2, ReadingAnswers DEF Answers, LocksAreRows

LEMMA RollbackAnswers == ASSUME Inv, Answers, NEW t \in Tx, Rollback(t) PROVE Answers'
<1>1. UNCHANGED <<row, issued, parent, age, disposed>>
  BY DEF Rollback
<1>2. \A s \in Tx : holds'[s] \subseteq holds[s]
  BY DEF Rollback, Finish, Inv, TypeOK
<1>3. \A s \in Tx : pc'[s] = "found" => /\ pc[s] = "found" /\ stored'[s] = stored[s]
                                        /\ req'[s] = req[s] /\ holds'[s] = holds[s]
  BY DEF Rollback, Finish, Inv, TypeOK
<1> QED BY <1>1, <1>2, <1>3, ReadingAnswers DEF Answers, LocksAreRows

LEMMA CommitEndAnswers == ASSUME Inv, Answers, NEW t \in Tx, CommitEnd(t) PROVE Answers'
<1>1. victims[t] \subseteq holds[t] /\ holds[t] \subseteq Token
  BY DEF CommitEnd, Inv, TypeOK
<1>2. \A s \in Tx : s # t => /\ holds'[s] = holds[s] /\ pc'[s] = pc[s] /\ stored'[s] = stored[s]
                             /\ req'[s] = req[s] /\ holds[s] \subseteq Token
                             /\ holds[s] \cap victims[t] = {}
  BY <1>1 DEF CommitEnd, Finish, Inv, TypeOK, TokenLock
<1>3. holds'[t] = {} /\ pc'[t] = "idle"
  BY DEF CommitEnd, Finish, Inv, TypeOK
<1>4. LocksAreRows'
  BY <1>2, <1>3 DEF CommitEnd, Ended, Answers, LocksAreRows
<1>5. ReplayIsRecognised'
  BY DEF CommitEnd, Ended, Inv, TypeOK, RotatedIsSpent, Answers, ReplayIsRecognised
<1> QED BY <1>4, <1>5 DEF Answers

LEMMA StepAnswers == ASSUME Inv, Answers, NEW t \in Tx, Step(t) PROVE Answers'
<1>1. CASE Stamp(t)
  BY <1>1, ReadingAnswers DEF Stamp, Inv, TypeOK, Answers, LocksAreRows
<1>2. CASE Login(t)
  <2>1. req[t].user \in User
    BY <1>2 DEF Login, Inv, WellFormed, Request
  <2> QED BY <1>2, <2>1, IssueAnswers DEF Login
<1>3. CASE GoogleCommit(t)
  <2>1. req[t].user \in User
    BY <1>3 DEF GoogleCommit, Inv, WellFormed, Request
  <2> QED BY <1>3, <2>1, IssueAnswers DEF GoogleCommit
<1>4. CASE Find(t)
  <2>1. req[t].token \in Token
    BY <1>4 DEF Find, Inv, WellFormed
  <2>2. holds'[t] = {j \in {req[t].token} : row[j] # "none"} /\ stored'[t] = row[req[t].token]
    BY <1>4 DEF Find, Inv, TypeOK
  <2>3. \A s \in Tx : s # t => holds'[s] = holds[s] /\ stored'[s] = stored[s] /\ pc'[s] = pc[s]
    BY <1>4 DEF Find, Inv, TypeOK
  <2>4. UNCHANGED <<row, issued, parent, age, disposed, req>>
    BY <1>4 DEF Find
  <2> QED BY <2>1, <2>2, <2>3, <2>4, ReadingAnswers DEF Answers, LocksAreRows
<1>5. CASE Refuse(t)
  BY <1>5, RollbackAnswers DEF Refuse
<1>6. CASE EndFamily(t)
  BY <1>6, ReadingAnswers DEF EndFamily, Inv, TypeOK, Answers, LocksAreRows
<1>7. CASE Rotate(t)
  <2>1. req[t].user \in User /\ req[t].token \in issued /\ row[req[t].token] = "live"
    BY <1>7 DEF Rotate, Inv, TypeOK, WellFormed, ReadsHold, Request
  <2> QED BY <1>7, <2>1, IssueAnswers DEF Rotate
<1>8. CASE EndAll(t)
  BY <1>8, ReadingAnswers DEF EndAll, Inv, TypeOK, Answers, LocksAreRows
<1>9. CASE Reactivate(t)
  <2>1. UNCHANGED <<row, issued, parent, age, disposed>>
    BY <1>9 DEF Reactivate
  <2>2. \A s \in Tx : holds'[s] \subseteq holds[s]
    BY <1>9 DEF Reactivate, Finish, Inv, TypeOK
  <2>3. \A s \in Tx : pc'[s] = "found" => /\ pc[s] = "found" /\ stored'[s] = stored[s]
                                          /\ req'[s] = req[s] /\ holds'[s] = holds[s]
    BY <1>9 DEF Reactivate, Finish, Inv, TypeOK
  <2> QED BY <2>1, <2>2, <2>3, ReadingAnswers DEF Answers, LocksAreRows
<1>10. CASE LockVictim(t)
  <2>1. UNCHANGED <<row, issued, parent, age, disposed, pc, req, stored>>
    BY <1>10 DEF LockVictim
  <2>2. PICK k \in victims[t] : UNCHANGED holds \/ (row[k] # "none" /\ holds' = [holds EXCEPT ![t] = @ \cup {k}])
    BY <1>10 DEF LockVictim
  <2>3. \A s \in Tx : /\ holds[s] \subseteq holds'[s]
                      /\ \A j \in holds'[s] : row[j] # "none"
    <3>1. ASSUME NEW s \in Tx PROVE holds'[s] = holds[s] \/ (row[k] # "none" /\ holds'[s] = holds[s] \cup {k})
      BY <2>2 DEF Inv, TypeOK
    <3> QED BY <3>1 DEF Answers, LocksAreRows
  <2>4. \A s \in Tx : pc[s] = "found" /\ stored[s] # "none" => req[s].token \in holds[s]
    BY DEF Answers, LocksAreRows
  <2> QED BY <2>1, <2>3, <2>4, ReadingAnswers
<1>11. CASE CommitEnd(t)
  BY <1>11, CommitEndAnswers
<1> QED BY <1>1, <1>2, <1>3, <1>4, <1>5, <1>6, <1>7, <1>8, <1>9, <1>10, <1>11 DEF Step

LEMMA LogoutAnswers == ASSUME Inv, Answers, NEW k \in Token, Logout(k) PROVE Answers'
<1>1. \A j \in Token : row[j] # "none" => row'[j] # "none" /\ (row[j] = "revoked" => row'[j] = "revoked")
  BY DEF Logout, Inv, TypeOK
<1>2. LocksAreRows'
  BY <1>1 DEF Logout, Inv, TypeOK, Answers, LocksAreRows
<1>3. ReplayIsRecognised'
  BY <1>1 DEF Logout, Inv, TypeOK, RotatedIsSpent, Answers, ReplayIsRecognised
<1> QED BY <1>2, <1>3 DEF Answers

LEMMA purge_expiredAnswers == ASSUME Inv, Answers, purge_expired PROVE Answers'
<1>1. LocksAreRows'
  BY DEF purge_expired, Inv, TypeOK, Answers, LocksAreRows
<1>2. ReplayIsRecognised'
  BY DEF purge_expired, Purgeable, Inv, TypeOK, RotatedIsSpent, Answers, ReplayIsRecognised
<1> QED BY <1>1, <1>2 DEF Answers

\* Time only makes the tokens older.
LEMMA ExpireAnswers == ASSUME Inv, Answers, NEW k \in Token, Expire(k) PROVE Answers'
<1>1. \A j \in Token : age'[j] = 0 => age[j] = 0
  BY DEF Expire, Inv, TypeOK
<1>2. ReplayIsRecognised'
  BY <1>1 DEF Expire, Inv, TypeOK, RotatedIsSpent, Answers, ReplayIsRecognised
<1> QED BY <1>2 DEF Expire, Answers, LocksAreRows

LEMMA AnswersInductive == Inv /\ Answers /\ [Next]_sessionsVars => Answers'
<1> SUFFICES ASSUME Inv, Answers, [Next]_sessionsVars PROVE Answers'
  OBVIOUS
<1>1. CASE UNCHANGED sessionsVars
  BY <1>1, ReadingAnswers DEF sessionsVars, Answers, LocksAreRows
<1>2. ASSUME NEW t \in Tx, Fail(t) PROVE Answers'
  BY <1>2, RollbackAnswers DEF Fail
<1> QED BY <1>1, <1>2, StartAnswers, StepAnswers, LogoutAnswers, ExpireAnswers, purge_expiredAnswers DEF Next

\* Only the request that found a revoked row, or an inactive user's live one, begins
\* to end sessions, and the row it locked is still there.
LEMMA PlainStep ==
  ASSUME Inv, Answers, [Next]_sessionsVars, NEW t \in Tx, pc[t] = "found", pc'[t] = "delete"
  PROVE  req[t].token \notin disposed
<1>1. EndFamily(t)
  <2>1. ASSUME NEW s \in Tx, Start(s) PROVE FALSE
    BY <2>1 DEF Start, Verify, GoogleUpsert, Present, UpdateUser, Begin, Inv, TypeOK
  <2>2. ASSUME NEW s \in Tx, Fail(s) PROVE FALSE
    BY <2>2 DEF Fail, Rollback, Finish, Inv, TypeOK
  <2>3. ASSUME NEW s \in Tx, Step(s) PROVE EndFamily(t)
    BY <2>3 DEF Step, Stamp, Login, GoogleCommit, Find, Refuse, EndFamily, Rotate, EndAll, Reactivate,
                LockVictim, CommitEnd, Rollback, Finish, Inv, TypeOK
  <2>4. ~UNCHANGED pc
    OBVIOUS
  <2>5. ~purge_expired /\ \A k \in Token : ~Logout(k) /\ ~Expire(k)
    BY <2>4 DEF purge_expired, Logout, Expire
  <2>6. ~UNCHANGED sessionsVars
    BY <2>4 DEF sessionsVars
  <2> QED BY <2>1, <2>2, <2>3, <2>5, <2>6 DEF Next
<1>2. req[t].token \in holds[t] /\ row[req[t].token] # "none"
  BY <1>1 DEF EndFamily, Answers, LocksAreRows
<1> QED BY <1>2 DEF Inv, TypeOK, WellFormed

\* session.rs, rotate and end_all: a refresh token that was rotated away is known
\* for a replay until it expires or end_all removes it; one that end_all removed
\* is a plain 401, and whoever presents it ends no session opened since.
THEOREM ReturnedTokens == Spec => TokensAnswerRight
<1>1. Init => Answers
  BY DEF Init, Answers, LocksAreRows, ReplayIsRecognised
<1>2. Spec => []Answers
  BY <1>1, SessionsInvariant, AnswersInductive, PTL DEF Spec
<1>3. Answers => ReplayIsRecognised
  BY DEF Answers
<1>4. Inv /\ Answers /\ [Next]_sessionsVars
        => [\A t \in Tx : pc[t] = "found" /\ pc'[t] = "delete" => req[t].token \notin disposed]_sessionsVars
  BY PlainStep
<1>5. Spec => OldTokenIsPlain401
  BY <1>2, <1>4, SessionsInvariant, PTL DEF Spec, OldTokenIsPlain401
<1> QED BY <1>2, <1>3, <1>5, PTL DEF TokensAnswerRight

-----------------------------------------------------------------------------
(* Reset links.  A request is alone with the token it issues, and alone    *)
(* with the token it consumed; a link that no race touched is the one the  *)
(* index of its user names.                                                *)

Issuing(r) == at[r] \in {"get_index", "void", "set_token", "set_index", "mail"}
Using(r) == at[r] \in {"clear_index", "reset"}

\* How far the token of each request has come.
LinkPlaces == \A r \in LinkRequest :
  /\ at[r] # "idle" => link[r] \in made
  /\ Issuing(r) => link[r] \notin mailed
  /\ at[r] \in {"get_index", "void", "set_token"} => link[r] \notin live
  /\ at[r] \in {"set_index", "mail"} => of[link[r]] = asker[r]
  /\ at[r] \in {"getdel", "clear_index", "reset"} => link[r] \in mailed
  /\ Using(r) => link[r] \notin live /\ used[link[r]] = 0

\* No two issue or consume one token, and two of one user race.
LinkAlone == \A r, s \in LinkRequest : r # s =>
  /\ Issuing(r) /\ Issuing(s) => link[r] # link[s]
  /\ Using(r) /\ Using(s) => link[r] # link[s]
  /\ at[r] # "idle" /\ at[s] # "idle" /\ asker[r] = asker[s] => link[r] \in raced

\* A token that was used is gone, and does not come back.
LinkUses == \A k \in LinkToken : used[k] \in {0, 1} /\ (used[k] = 1 => k \in mailed \ live)

\* The links that work and were never in a race.
Settled == (live \cap mailed) \ raced

\* The index names each of them, until a request that issues the next voids it.
LinkIndex == \A k \in Settled : index[of[k]] = k
LinkGuard == \A r \in LinkRequest : \A k \in Settled : of[k] = asker[r] =>
  /\ at[r] = "void" => previous[r] = k
  /\ at[r] \notin {"set_token", "set_index"}
LinkNamed == \A r \in LinkRequest :
  at[r] = "mail" /\ link[r] \in live \ raced => index[asker[r]] = link[r]

LinkInv == /\ Links!TypeOK /\ LinkPlaces /\ LinkAlone /\ LinkUses
           /\ LinkIndex /\ LinkGuard /\ LinkNamed

\* A request that ends is idle, and works on nothing.
LEMMA LinkEnds ==
  ASSUME Links!TypeOK, NEW r \in LinkRequest, Links!End(r)
  PROVE  /\ at'[r] = "idle"
         /\ \A s \in LinkRequest : s # r => /\ at'[s] = at[s] /\ asker'[s] = asker[s]
                                            /\ link'[s] = link[s] /\ previous'[s] = previous[s]
         /\ DOMAIN at' = LinkRequest
         /\ \A s \in LinkRequest : at'[s] = "idle" \/ at'[s] = at[s]
         /\ asker' \in [LinkRequest -> LinkUser]
         /\ link' \in [LinkRequest -> LinkToken \cup {0}] /\ previous' \in [LinkRequest -> LinkToken \cup {0}]
         /\ at' \in [LinkRequest -> {"idle", "get_index", "void", "set_token", "set_index", "mail",
                                     "getdel", "clear_index", "reset"}]
<1>1. Links!AnyUser \in LinkUser
  BY LinkAssumption DEF Links!AnyUser
<1> QED BY <1>1 DEF Links!End, Links!Goto, Links!TypeOK

LEMMA LinkForgot ==
  ASSUME LinkInv, NEW r \in LinkRequest, NEW u \in LinkUser, Links!Forgot(r, u) PROVE LinkInv'
<1>0. Links!Fresh \in LinkToken \ made
  BY DEF Links!Forgot, Links!Fresh, LinkInv, Links!TypeOK
<1>a. raced \subseteq raced' /\ raced' \subseteq LinkToken
  <2>1. \A q \in LinkRequest : at[q] # "idle" => link[q] \in LinkToken
    BY DEF LinkInv, Links!TypeOK, LinkPlaces
  <2>2. raced \subseteq LinkToken
    BY DEF LinkInv, Links!TypeOK
  <2> QED BY <1>0, <2>1, <2>2 DEF Links!Forgot, Links!Race
<1>b. \A s \in LinkRequest : at[s] # "idle" /\ asker[s] = u => {link[s], Links!Fresh} \subseteq raced'
  BY DEF Links!Forgot, Links!Race
<1>c. /\ at'[r] = "get_index" /\ asker'[r] = u /\ link'[r] = Links!Fresh
      /\ \A s \in LinkRequest : s # r => /\ at'[s] = at[s] /\ asker'[s] = asker[s]
                                         /\ link'[s] = link[s] /\ previous'[s] = previous[s]
  BY DEF Links!Forgot, Links!Goto, LinkInv, Links!TypeOK
<1>1. Links!TypeOK'
  BY <1>0, <1>a DEF Links!Forgot, Links!Goto, LinkInv, Links!TypeOK, Links!store
<1>2. LinkPlaces'
  BY <1>0, <1>c DEF Links!Forgot, LinkInv, LinkPlaces, Issuing, Using, Links!TypeOK, Links!store
<1>3. LinkAlone'
  BY <1>0, <1>a, <1>b, <1>c DEF Links!Forgot, LinkInv, LinkPlaces, LinkAlone, Issuing, Using
<1>4. LinkUses'
  BY DEF Links!Forgot, Links!Race, Links!Goto, LinkInv, Links!TypeOK, Links!store, Links!history, LinkUses, LinkPlaces, Issuing, Using
<1>5. LinkIndex'
  BY DEF Links!Forgot, Links!Race, Links!Goto, LinkInv, Links!TypeOK, Links!store, Links!history, LinkIndex, LinkPlaces, Settled, LinkGuard, LinkNamed, Issuing, Using
<1>6. LinkGuard'
  <2>1. UNCHANGED <<live, of, mailed>>
    BY DEF Links!Forgot, Links!store
  <2>2. Settled' \subseteq Settled
    BY <1>a, <2>1 DEF Settled
  <2>3. at'[r] \notin {"void", "set_token", "set_index"}
    BY <1>c
  <2> QED BY <1>c, <2>1, <2>2, <2>3 DEF LinkInv, LinkGuard
<1>7. LinkNamed'
  BY DEF Links!Forgot, Links!Race, Links!Goto, LinkInv, Links!TypeOK, Links!store, Links!history, LinkNamed, LinkPlaces, Settled, LinkIndex, LinkGuard, Issuing, Using
<1> QED BY <1>1, <1>2, <1>3, <1>4, <1>5, <1>6, <1>7 DEF LinkInv

LEMMA LinkGetIndex ==
  ASSUME LinkInv, NEW r \in LinkRequest, Links!GetIndex(r) PROVE LinkInv'
<1>1. Links!TypeOK'
  BY DEF Links!GetIndex, Links!Goto, LinkInv, Links!TypeOK, Links!store, Links!history
<1>2. LinkPlaces'
  BY DEF Links!GetIndex, Links!Goto, LinkInv, Links!TypeOK, Links!store, Links!history, LinkPlaces, Issuing, Using
<1>3. LinkAlone'
  BY DEF Links!GetIndex, Links!Goto, LinkInv, Links!TypeOK, Links!store, Links!history, LinkAlone, LinkPlaces, Issuing, Using
<1>4. LinkUses'
  BY DEF Links!GetIndex, Links!Goto, LinkInv, Links!TypeOK, Links!store, Links!history, LinkUses, LinkPlaces, Issuing, Using
<1>5. LinkIndex'
  BY DEF Links!GetIndex, Links!Goto, LinkInv, Links!TypeOK, Links!store, Links!history, LinkIndex, LinkPlaces, Settled, LinkGuard, LinkNamed, Issuing, Using
<1>6. LinkGuard'
  BY LinkAssumption DEF Links!GetIndex, Links!Goto, LinkInv, Links!TypeOK, LinkGuard, LinkIndex, Settled, Links!store, Links!history
<1>7. LinkNamed'
  BY DEF Links!GetIndex, Links!Goto, LinkInv, Links!TypeOK, Links!store, Links!history, LinkNamed, LinkPlaces, Settled, LinkIndex, LinkGuard, Issuing, Using
<1> QED BY <1>1, <1>2, <1>3, <1>4, <1>5, <1>6, <1>7 DEF LinkInv

LEMMA LinkVoid ==
  ASSUME LinkInv, NEW r \in LinkRequest, Links!Void(r) PROVE LinkInv'
<1>1. Links!TypeOK'
  BY DEF Links!Void, Links!Goto, LinkInv, Links!TypeOK, Links!store, Links!history
<1>2. LinkPlaces'
  BY DEF Links!Void, Links!Goto, LinkInv, Links!TypeOK, Links!store, Links!history, LinkPlaces, Issuing, Using
<1>3. LinkAlone'
  BY DEF Links!Void, Links!Goto, LinkInv, Links!TypeOK, Links!store, Links!history, LinkAlone, LinkPlaces, Issuing, Using
<1>4. LinkUses'
  BY DEF Links!Void, Links!Goto, LinkInv, Links!TypeOK, Links!store, Links!history, LinkUses, LinkPlaces, Issuing, Using
<1>5. LinkIndex'
  BY DEF Links!Void, Links!Goto, LinkInv, Links!TypeOK, Links!store, Links!history, LinkIndex, LinkPlaces, Settled, LinkGuard, LinkNamed, Issuing, Using
<1>6. LinkGuard'
  BY DEF Links!Void, Links!Goto, LinkInv, Links!TypeOK, Links!store, Links!history, LinkGuard, LinkPlaces, Settled, LinkIndex, LinkNamed, Issuing, Using
<1>7. LinkNamed'
  BY DEF Links!Void, Links!Goto, LinkInv, Links!TypeOK, Links!store, Links!history, LinkNamed, LinkPlaces, Settled, LinkIndex, LinkGuard, Issuing, Using
<1> QED BY <1>1, <1>2, <1>3, <1>4, <1>5, <1>6, <1>7 DEF LinkInv

LEMMA LinkSetToken ==
  ASSUME LinkInv, NEW r \in LinkRequest, Links!SetToken(r) PROVE LinkInv'
<1>1. Links!TypeOK'
  <2>1. link[r] \in made /\ link[r] \in LinkToken
    BY DEF Links!SetToken, LinkInv, Links!TypeOK, LinkPlaces
  <2> QED BY <2>1 DEF Links!SetToken, Links!Goto, LinkInv, Links!TypeOK, Links!history
<1>2. LinkPlaces'
  BY DEF Links!SetToken, Links!Goto, LinkInv, Links!TypeOK, LinkPlaces, LinkAlone, Issuing, Using, Links!store, Links!history
<1>3. LinkAlone'
  BY DEF Links!SetToken, Links!Goto, LinkInv, Links!TypeOK, Links!store, Links!history, LinkAlone, LinkPlaces, Issuing, Using
<1>4. LinkUses'
  BY DEF Links!SetToken, Links!Goto, LinkInv, Links!TypeOK, Links!store, Links!history, LinkUses, LinkPlaces, Issuing, Using
<1>5. LinkIndex'
  BY DEF Links!SetToken, Links!Goto, LinkInv, Links!TypeOK, Links!store, Links!history, LinkIndex, LinkPlaces, Settled, LinkGuard, LinkNamed, Issuing, Using
<1>6. LinkGuard'
  BY DEF Links!SetToken, Links!Goto, LinkInv, Links!TypeOK, Links!store, Links!history, LinkGuard, LinkPlaces, Settled, LinkIndex, LinkNamed, Issuing, Using
<1>7. LinkNamed'
  BY DEF Links!SetToken, Links!Goto, LinkInv, Links!TypeOK, LinkNamed, LinkAlone, Issuing, LinkPlaces, Links!history
<1> QED BY <1>1, <1>2, <1>3, <1>4, <1>5, <1>6, <1>7 DEF LinkInv

LEMMA LinkSetIndex ==
  ASSUME LinkInv, NEW r \in LinkRequest, Links!SetIndex(r) PROVE LinkInv'
<1>1. Links!TypeOK'
  <2>1. link[r] \in made
    BY DEF Links!SetIndex, LinkInv, LinkPlaces
  <2> QED BY <2>1 DEF Links!SetIndex, Links!Goto, LinkInv, Links!TypeOK, Links!history
<1>2. LinkPlaces'
  BY DEF Links!SetIndex, Links!Goto, LinkInv, Links!TypeOK, Links!store, Links!history, LinkPlaces, Issuing, Using
<1>3. LinkAlone'
  BY DEF Links!SetIndex, Links!Goto, LinkInv, Links!TypeOK, Links!store, Links!history, LinkAlone, LinkPlaces, Issuing, Using
<1>4. LinkUses'
  BY DEF Links!SetIndex, Links!Goto, LinkInv, Links!TypeOK, Links!store, Links!history, LinkUses, LinkPlaces, Issuing, Using
<1>5. LinkIndex'
  BY DEF Links!SetIndex, Links!Goto, LinkInv, Links!TypeOK, Links!store, Links!history, LinkIndex, LinkPlaces, Settled, LinkGuard, LinkNamed, Issuing, Using
<1>6. LinkGuard'
  BY DEF Links!SetIndex, Links!Goto, LinkInv, Links!TypeOK, Links!store, Links!history, LinkGuard, LinkPlaces, Settled, LinkIndex, LinkNamed, Issuing, Using
<1>7. LinkNamed'
  BY DEF Links!SetIndex, Links!Goto, LinkInv, Links!TypeOK, LinkNamed, LinkAlone, LinkPlaces, Links!history
<1> QED BY <1>1, <1>2, <1>3, <1>4, <1>5, <1>6, <1>7 DEF LinkInv

LEMMA LinkMail ==
  ASSUME LinkInv, NEW r \in LinkRequest, Links!Mail(r) PROVE LinkInv'
<1>1. Links!TypeOK'
  BY LinkEnds DEF Links!Mail, LinkInv, LinkPlaces, Links!TypeOK, Links!store, Links!history
<1>2. LinkPlaces'
  BY LinkEnds DEF Links!Mail, LinkInv, LinkPlaces, LinkAlone, Issuing, Using, Links!store, Links!history
<1>3. LinkAlone'
  BY DEF Links!Mail, Links!Goto, Links!End, LinkInv, Links!TypeOK, Links!store, Links!history, LinkAlone, LinkPlaces, Issuing, Using
<1>4. LinkUses'
  BY DEF Links!Mail, Links!Goto, Links!End, LinkInv, Links!TypeOK, Links!store, Links!history, LinkUses, LinkPlaces, Issuing, Using
<1>5. LinkIndex'
  BY DEF Links!Mail, Links!Goto, Links!End, LinkInv, Links!TypeOK, Links!store, Links!history, LinkIndex, LinkPlaces, Settled, LinkGuard, LinkNamed, Issuing, Using
<1>6. LinkGuard'
  <2> SUFFICES ASSUME NEW s \in LinkRequest, NEW k \in Settled', of'[k] = asker'[s], at'[s] # "idle"
               PROVE  /\ at'[s] = "void" => previous'[s] = k
                      /\ at'[s] \notin {"set_token", "set_index"}
    BY DEF LinkGuard
  <2>1. s # r /\ at'[s] = at[s] /\ asker'[s] = asker[s] /\ previous'[s] = previous[s]
    BY LinkEnds DEF Links!Mail, LinkInv
  <2>2. k # link[r]
    BY <2>1 DEF Links!Mail, LinkInv, LinkPlaces, LinkAlone, Settled, Links!store
  <2>3. k \in Settled /\ of[k] = asker[s]
    BY <2>1, <2>2 DEF Links!Mail, Settled, Links!store
  <2> QED BY <2>1, <2>3 DEF LinkInv, LinkGuard
<1>7. LinkNamed'
  BY DEF Links!Mail, Links!Goto, Links!End, LinkInv, Links!TypeOK, Links!store, Links!history, LinkNamed, LinkPlaces, Settled, LinkIndex, LinkGuard, Issuing, Using
<1> QED BY <1>1, <1>2, <1>3, <1>4, <1>5, <1>6, <1>7 DEF LinkInv

LEMMA LinkPresent ==
  ASSUME LinkInv, NEW r \in LinkRequest, NEW k \in LinkToken, Links!Present(r, k) PROVE LinkInv'
<1>a. raced \subseteq raced' /\ raced' \subseteq LinkToken
  <2>1. \A q \in LinkRequest : at[q] # "idle" => link[q] \in LinkToken
    BY DEF LinkInv, Links!TypeOK, LinkPlaces
  <2>2. raced \subseteq LinkToken
    BY DEF LinkInv, Links!TypeOK
  <2> QED BY <2>1, <2>2 DEF Links!Present, Links!Race
<1>b. \A s \in LinkRequest : at[s] # "idle" /\ asker[s] = of[k] => {link[s], k} \subseteq raced'
  BY DEF Links!Present, Links!Race
<1>c. /\ at'[r] = "getdel" /\ asker'[r] = of[k] /\ link'[r] = k
      /\ \A s \in LinkRequest : s # r => /\ at'[s] = at[s] /\ asker'[s] = asker[s]
                                         /\ link'[s] = link[s] /\ previous'[s] = previous[s]
  BY DEF Links!Present, Links!Goto, LinkInv, Links!TypeOK
<1>1. Links!TypeOK'
  BY <1>a DEF Links!Present, Links!Goto, LinkInv, Links!TypeOK, Links!store
<1>2. LinkPlaces'
  BY DEF Links!Present, Links!Race, Links!Goto, LinkInv, Links!TypeOK, Links!store, Links!history, LinkPlaces, Issuing, Using
<1>3. LinkAlone'
  BY <1>a, <1>b, <1>c DEF Links!Present, LinkInv, LinkPlaces, LinkAlone, Issuing, Using
<1>4. LinkUses'
  BY DEF Links!Present, Links!Race, Links!Goto, LinkInv, Links!TypeOK, Links!store, Links!history, LinkUses, LinkPlaces, Issuing, Using
<1>5. LinkIndex'
  BY DEF Links!Present, Links!Race, Links!Goto, LinkInv, Links!TypeOK, Links!store, Links!history, LinkIndex, LinkPlaces, Settled, LinkGuard, LinkNamed, Issuing, Using
<1>6. LinkGuard'
  <2>1. UNCHANGED <<live, of, mailed>>
    BY DEF Links!Present, Links!store
  <2>2. Settled' \subseteq Settled
    BY <1>a, <2>1 DEF Settled
  <2>3. at'[r] \notin {"void", "set_token", "set_index"}
    BY <1>c
  <2> QED BY <1>c, <2>1, <2>2, <2>3 DEF LinkInv, LinkGuard
<1>7. LinkNamed'
  BY DEF Links!Present, Links!Race, Links!Goto, LinkInv, Links!TypeOK, Links!store, Links!history, LinkNamed, LinkPlaces, Settled, LinkIndex, LinkGuard, Issuing, Using
<1> QED BY <1>1, <1>2, <1>3, <1>4, <1>5, <1>6, <1>7 DEF LinkInv

LEMMA LinkGetDel ==
  ASSUME LinkInv, NEW r \in LinkRequest, Links!GetDel(r) PROVE LinkInv'
<1>1. Links!TypeOK'
  BY DEF Links!GetDel, Links!Goto, LinkInv, Links!TypeOK, Links!store, Links!history
<1>2. LinkPlaces'
  BY DEF Links!GetDel, Links!Goto, LinkInv, Links!TypeOK, LinkPlaces, LinkUses, Issuing, Using, Links!store, Links!history
<1>3. LinkAlone'
  BY DEF Links!GetDel, Links!Goto, LinkInv, Links!TypeOK, Links!store, Links!history, LinkAlone, LinkPlaces, Issuing, Using
<1>4. LinkUses'
  BY DEF Links!GetDel, Links!Goto, LinkInv, Links!TypeOK, Links!store, Links!history, LinkUses, LinkPlaces, Issuing, Using
<1>5. LinkIndex'
  BY DEF Links!GetDel, Links!Goto, LinkInv, Links!TypeOK, Links!store, Links!history, LinkIndex, LinkPlaces, Settled, LinkGuard, LinkNamed, Issuing, Using
<1>6. LinkGuard'
  BY DEF Links!GetDel, Links!Goto, LinkInv, Links!TypeOK, Links!store, Links!history, LinkGuard, LinkPlaces, Settled, LinkIndex, LinkNamed, Issuing, Using
<1>7. LinkNamed'
  BY DEF Links!GetDel, Links!Goto, LinkInv, Links!TypeOK, Links!store, Links!history, LinkNamed, LinkPlaces, Settled, LinkIndex, LinkGuard, Issuing, Using
<1> QED BY <1>1, <1>2, <1>3, <1>4, <1>5, <1>6, <1>7 DEF LinkInv

LEMMA LinkRefuse ==
  ASSUME LinkInv, NEW r \in LinkRequest, Links!Refuse(r) PROVE LinkInv'
<1>1. Links!TypeOK'
  BY LinkEnds DEF Links!Refuse, LinkInv, LinkPlaces, Links!TypeOK, Links!store, Links!history
<1>2. LinkPlaces'
  BY DEF Links!Refuse, Links!Goto, Links!End, LinkInv, Links!TypeOK, Links!store, Links!history, LinkPlaces, Issuing, Using
<1>3. LinkAlone'
  BY DEF Links!Refuse, Links!Goto, Links!End, LinkInv, Links!TypeOK, Links!store, Links!history, LinkAlone, LinkPlaces, Issuing, Using
<1>4. LinkUses'
  BY DEF Links!Refuse, Links!Goto, Links!End, LinkInv, Links!TypeOK, Links!store, Links!history, LinkUses, LinkPlaces, Issuing, Using
<1>5. LinkIndex'
  BY DEF Links!Refuse, Links!Goto, Links!End, LinkInv, Links!TypeOK, Links!store, Links!history, LinkIndex, LinkPlaces, Settled, LinkGuard, LinkNamed, Issuing, Using
<1>6. LinkGuard'
  BY DEF Links!Refuse, Links!Goto, Links!End, LinkInv, Links!TypeOK, Links!store, Links!history, LinkGuard, LinkPlaces, Settled, LinkIndex, LinkNamed, Issuing, Using
<1>7. LinkNamed'
  BY DEF Links!Refuse, Links!Goto, Links!End, LinkInv, Links!TypeOK, Links!store, Links!history, LinkNamed, LinkPlaces, Settled, LinkIndex, LinkGuard, Issuing, Using
<1> QED BY <1>1, <1>2, <1>3, <1>4, <1>5, <1>6, <1>7 DEF LinkInv

LEMMA LinkClearIndex ==
  ASSUME LinkInv, NEW r \in LinkRequest, Links!ClearIndex(r) PROVE LinkInv'
<1>1. Links!TypeOK'
  BY DEF Links!ClearIndex, Links!Goto, LinkInv, Links!TypeOK, Links!store, Links!history
<1>2. LinkPlaces'
  BY DEF Links!ClearIndex, Links!Goto, LinkInv, Links!TypeOK, Links!store, Links!history, LinkPlaces, Issuing, Using
<1>3. LinkAlone'
  BY DEF Links!ClearIndex, Links!Goto, LinkInv, Links!TypeOK, Links!store, Links!history, LinkAlone, LinkPlaces, Issuing, Using
<1>4. LinkUses'
  BY DEF Links!ClearIndex, Links!Goto, LinkInv, Links!TypeOK, Links!store, Links!history, LinkUses, LinkPlaces, Issuing, Using
<1>5. LinkIndex'
  BY DEF Links!ClearIndex, Links!Goto, LinkInv, Links!TypeOK, Links!store, Links!history, LinkIndex, LinkPlaces, Settled, LinkGuard, LinkNamed, Issuing, Using
<1>6. LinkGuard'
  BY DEF Links!ClearIndex, Links!Goto, LinkInv, Links!TypeOK, Links!store, Links!history, LinkGuard, LinkPlaces, Settled, LinkIndex, LinkNamed, Issuing, Using
<1>7. LinkNamed'
  BY DEF Links!ClearIndex, Links!Goto, LinkInv, Links!TypeOK, Links!store, Links!history, LinkNamed, LinkPlaces, Settled, LinkIndex, LinkGuard, Issuing, Using
<1> QED BY <1>1, <1>2, <1>3, <1>4, <1>5, <1>6, <1>7 DEF LinkInv

LEMMA LinkReset ==
  ASSUME LinkInv, NEW r \in LinkRequest, Links!Reset(r) PROVE LinkInv'
<1>1. Links!TypeOK'
  BY LinkEnds DEF Links!Reset, LinkInv, LinkPlaces, Links!TypeOK, Links!store, Links!history
<1>2. LinkPlaces'
  BY LinkEnds DEF Links!Reset, LinkInv, Links!TypeOK, LinkPlaces, LinkAlone, Issuing, Using, Links!store, Links!history
<1>3. LinkAlone'
  BY DEF Links!Reset, Links!Goto, Links!End, LinkInv, Links!TypeOK, Links!store, Links!history, LinkAlone, LinkPlaces, Issuing, Using
<1>4. LinkUses'
  BY DEF Links!Reset, Links!Goto, Links!End, LinkInv, Links!TypeOK, Links!store, Links!history, LinkUses, LinkPlaces, Issuing, Using
<1>5. LinkIndex'
  BY DEF Links!Reset, Links!Goto, Links!End, LinkInv, Links!TypeOK, Links!store, Links!history, LinkIndex, LinkPlaces, Settled, LinkGuard, LinkNamed, Issuing, Using
<1>6. LinkGuard'
  BY DEF Links!Reset, Links!Goto, Links!End, LinkInv, Links!TypeOK, Links!store, Links!history, LinkGuard, LinkPlaces, Settled, LinkIndex, LinkNamed, Issuing, Using
<1>7. LinkNamed'
  BY DEF Links!Reset, Links!Goto, Links!End, LinkInv, Links!TypeOK, Links!store, Links!history, LinkNamed, LinkPlaces, Settled, LinkIndex, LinkGuard, Issuing, Using
<1> QED BY <1>1, <1>2, <1>3, <1>4, <1>5, <1>6, <1>7 DEF LinkInv

LEMMA LinkFail ==
  ASSUME LinkInv, NEW r \in LinkRequest, Links!Fail(r) PROVE LinkInv'
<1>1. Links!TypeOK'
  BY LinkEnds DEF Links!Fail, LinkInv, LinkPlaces, Links!TypeOK, Links!store, Links!history
<1>2. LinkPlaces'
  BY DEF Links!Fail, Links!Goto, Links!End, LinkInv, Links!TypeOK, Links!store, Links!history, LinkPlaces, Issuing, Using
<1>3. LinkAlone'
  BY DEF Links!Fail, Links!Goto, Links!End, LinkInv, Links!TypeOK, Links!store, Links!history, LinkAlone, LinkPlaces, Issuing, Using
<1>4. LinkUses'
  BY DEF Links!Fail, Links!Goto, Links!End, LinkInv, Links!TypeOK, Links!store, Links!history, LinkUses, LinkPlaces, Issuing, Using
<1>5. LinkIndex'
  BY DEF Links!Fail, Links!Goto, Links!End, LinkInv, Links!TypeOK, Links!store, Links!history, LinkIndex, LinkPlaces, Settled, LinkGuard, LinkNamed, Issuing, Using
<1>6. LinkGuard'
  BY DEF Links!Fail, Links!Goto, Links!End, LinkInv, Links!TypeOK, Links!store, Links!history, LinkGuard, LinkPlaces, Settled, LinkIndex, LinkNamed, Issuing, Using
<1>7. LinkNamed'
  BY DEF Links!Fail, Links!Goto, Links!End, LinkInv, Links!TypeOK, Links!store, Links!history, LinkNamed, LinkPlaces, Settled, LinkIndex, LinkGuard, Issuing, Using
<1> QED BY <1>1, <1>2, <1>3, <1>4, <1>5, <1>6, <1>7 DEF LinkInv

LEMMA LinkExpireToken ==
  ASSUME LinkInv, NEW k \in LinkToken, Links!ExpireToken(k) PROVE LinkInv'
<1>1. Links!TypeOK'
  BY DEF Links!ExpireToken, LinkInv, Links!TypeOK, Links!history
<1>2. LinkPlaces' /\ LinkAlone' /\ LinkUses'
  BY DEF Links!ExpireToken, LinkInv, LinkPlaces, LinkAlone, LinkUses, Issuing, Using, Links!history
<1>3. LinkIndex' /\ LinkGuard' /\ LinkNamed'
  BY DEF Links!ExpireToken, LinkInv, Settled, LinkIndex, LinkGuard, LinkNamed, Links!history
<1> QED BY <1>1, <1>2, <1>3 DEF LinkInv

LEMMA LinkExpireIndex ==
  ASSUME LinkInv, NEW u \in LinkUser, Links!ExpireIndex(u) PROVE LinkInv'
<1>1. Links!TypeOK'
  BY DEF Links!ExpireIndex, LinkInv, Links!TypeOK, Links!history
<1>2. LinkPlaces' /\ LinkAlone' /\ LinkUses'
  BY DEF Links!ExpireIndex, LinkInv, LinkPlaces, LinkAlone, LinkUses, Issuing, Using, Links!history
<1>3. LinkIndex' /\ LinkGuard' /\ LinkNamed'
  BY DEF Links!ExpireIndex, LinkInv, Links!TypeOK, LinkPlaces, Settled, LinkIndex, LinkGuard, LinkNamed, Links!history
<1> QED BY <1>1, <1>2, <1>3 DEF LinkInv

LEMMA LinkNextKeeps == LinkInv /\ [Links!Next]_(Links!resetVars) => LinkInv'
<1> SUFFICES ASSUME LinkInv, [Links!Next]_(Links!resetVars) PROVE LinkInv'
  OBVIOUS
<1>1. CASE UNCHANGED Links!resetVars
  BY <1>1 DEF Links!resetVars, Links!store, Links!history, LinkInv, Links!TypeOK, LinkPlaces, LinkAlone,
              LinkUses, LinkIndex, LinkGuard, LinkNamed, Settled, Issuing, Using
<1>2. ASSUME NEW r \in LinkRequest, Links!Issue(r) PROVE LinkInv'
  BY <1>2, LinkGetIndex, LinkVoid, LinkSetToken, LinkSetIndex, LinkMail DEF Links!Issue
<1>3. ASSUME NEW r \in LinkRequest, Links!Consume(r) PROVE LinkInv'
  BY <1>3, LinkGetDel, LinkRefuse, LinkClearIndex, LinkReset DEF Links!Consume
<1> QED BY <1>1, <1>2, <1>3, LinkForgot, LinkPresent, LinkFail, LinkExpireToken, LinkExpireIndex DEF Links!Next

LEMMA LinkInit == Links!Init => LinkInv
<1> SUFFICES ASSUME Links!Init PROVE LinkInv
  OBVIOUS
<1>1. Links!AnyUser \in LinkUser
  BY LinkAssumption DEF Links!AnyUser
<1>2. Links!TypeOK
  BY <1>1 DEF Links!Init, Links!TypeOK
<1>3. LinkPlaces /\ LinkAlone /\ LinkUses
  BY DEF Links!Init, LinkPlaces, LinkAlone, LinkUses, Issuing, Using
<1>4. LinkIndex /\ LinkGuard /\ LinkNamed
  BY DEF Links!Init, LinkIndex, LinkGuard, LinkNamed, Settled
<1> QED BY <1>2, <1>3, <1>4 DEF LinkInv

\* reset_tokens.rs: a link resets the password at most once, and "only the newest
\* link works", for any users, links and requests in flight, whatever call of the
\* store fails, as long as the links were in no race and no racer struck them out.
THEOREM LinksAreGood == Links!Spec => []LinksHold
<1>1. Links!Spec => []LinkInv
  BY LinkInit, LinkNextKeeps, PTL DEF Links!Spec
<1>2. LinkInv => LinksHold
  <2>1. LinkInv => Links!UsedOnce
    BY DEF LinkInv, LinkUses, Links!UsedOnce
  <2>2. LinkInv => Links!NewestUnlessRaced
    BY DEF LinkInv, LinkIndex, Settled, Links!NewestUnlessRaced
  <2> QED BY <2>1, <2>2 DEF LinksHold
<1> QED BY <1>1, <1>2, PTL
=============================================================================
