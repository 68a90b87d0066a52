---------------------------- MODULE Leave_proofs ----------------------------
(***************************************************************************)
(* What Leave promises, for any enrolments, sessions, rows and requests in *)
(* flight.  The argument is that of the row locks: what a transaction read *)
(* of a row it has locked is still so when it commits, because whoever     *)
(* would change it needs the same lock.                                    *)
(***************************************************************************)
EXTENDS Leave, FiniteSetTheorems, TLAPS

Label == {"idle", "insert", "decide", "project", "decided", "source", "target", "room", "cancel",
          "victims", "plan", "next", "upsert"}
LeaveTypes ==
  /\ enrolled \in [Enrolment -> {"none", "active", "cancelled"}]
  /\ status \in [Leave -> {"none", "pending", "approved", "rejected", "cancelled"}]
  /\ of \in [Leave -> Enrolment \cup {None}] /\ session \in [Leave -> Session \cup {None}]
  /\ makeup \in [Leave -> Session \cup {None}]
  /\ pc \in [Tx -> Label] /\ held \in [Tx -> SUBSET Leave]
  /\ DOMAIN req = Tx /\ DOMAIN todo = Tx /\ DOMAIN wrote = Tx

\* A row of leave_requests names its enrolment and its session.
RowsNameBoth == \A l \in Leave : status[l] # "none" => of[l] \in Enrolment /\ session[l] \in Session

\* A row is locked by one transaction.
LeavesHeldOnce == \A t, u \in Tx : t # u => held[t] \cap held[u] = {}
MarksHeldOnce == \A t, u \in Tx : t # u => DOMAIN wrote[t] \cap DOMAIN wrote[u] = {}

Place(l) == <<session[l], of[l]>>

\* What each request asks for.
Asked(t) ==
  /\ pc[t] = "insert" => req[t].enrolment \in Enrolment /\ req[t].session \in Session
  /\ pc[t] \in {"decide", "project", "decided"} =>
       req[t].leave \in Leave /\ req[t].kind \in {"approve", "reject"}
  /\ pc[t] = "project" => req[t].kind = "approve"
  /\ pc[t] \in {"source", "target", "room"} => req[t].leave \in Leave /\ req[t].session \in Session
  /\ pc[t] \in {"cancel", "victims"} => req[t].enrolment \in Enrolment

\* What a transaction read of the leaves it holds is still so.
Holding == {"project", "decided", "victims", "target", "room"}
StillSo(t) ==
  /\ pc[t] \in {"project", "decided"} =>
       held[t] = {req[t].leave} /\ status[req[t].leave] = "pending"
  /\ pc[t] \in {"target", "room"} =>
       /\ held[t] = {req[t].leave} /\ status[req[t].leave] = "approved"
       /\ makeup[req[t].leave] = None
  /\ pc[t] = "victims" => \A l \in held[t] : status[l] = "pending"
  /\ pc[t] \notin Holding => held[t] = {}

\* A cancellation has each pending leave of its enrolment behind it or before it.
VictimsCaught(t) ==
  pc[t] = "victims" =>
    \A l \in Leave : status[l] = "pending" /\ of[l] = req[t].enrolment /\ l \notin late
                       => l \in held[t] \cup todo[t]

\* What a transaction is about to write into attendance takes no approval away.
WritesAgree(t) ==
  /\ pc[t] \notin {"decided", "next", "upsert"} => DOMAIN wrote[t] = {}
  /\ pc[t] = "decided" =>
       /\ DOMAIN wrote[t] \subseteq {Place(req[t].leave)}
       /\ \A x \in DOMAIN wrote[t] : wrote[t][x] = "leave"
       /\ req[t].kind = "approve" => Place(req[t].leave) \in DOMAIN wrote[t]
  /\ \A x \in DOMAIN wrote[t] : wrote[t][x] # "leave" =>
       \A l \in Leave : status[l] = "approved" /\ Place(l) = x => l \in overwritten

Sound(t) == Asked(t) /\ StillSo(t) /\ VictimsCaught(t) /\ WritesAgree(t)

LeaveInv ==
  /\ LeaveTypes /\ RowsNameBoth /\ LeavesHeldOnce /\ MarksHeldOnce
  /\ \A t \in Tx : Sound(t)
  /\ CancelledLeavesNone /\ ApprovalWins

LEMMA InitLeave == Init => LeaveInv
<1> SUFFICES ASSUME Init PROVE LeaveInv
  OBVIOUS
<1>0. LeaveTypes
  <2>1. /\ enrolled \in [Enrolment -> {"none", "active", "cancelled"}]
        /\ status \in [Leave -> {"none", "pending", "approved", "rejected", "cancelled"}]
    BY DEF Init
  <2>2. /\ of \in [Leave -> Enrolment \cup {None}] /\ session \in [Leave -> Session \cup {None}]
        /\ makeup \in [Leave -> Session \cup {None}]
    BY DEF Init
  <2>3. pc \in [Tx -> Label] /\ held \in [Tx -> SUBSET Leave]
    BY DEF Init, Label
  <2>4. DOMAIN req = Tx /\ DOMAIN todo = Tx /\ DOMAIN wrote = Tx
    BY DEF Init
  <2> QED  BY <2>1, <2>2, <2>3, <2>4 DEF LeaveTypes
<1>1. RowsNameBoth /\ LeavesHeldOnce /\ MarksHeldOnce
  BY DEF Init, RowsNameBoth, LeavesHeldOnce, MarksHeldOnce, NoWrites
<1>2. \A t \in Tx : Sound(t)
  BY DEF Init, Sound, Asked, StillSo, Holding, VictimsCaught, WritesAgree, NoWrites
<1>3. CancelledLeavesNone /\ ApprovalWins
  BY DEF Init, CancelledLeavesNone, ApprovalWins
<1> QED
  BY <1>0, <1>1, <1>2, <1>3 DEF LeaveInv

-----------------------------------------------------------------------------
\* A request that a step is not of stays where it is.
Still(u) == /\ pc'[u] = pc[u] /\ req'[u] = req[u] /\ todo'[u] = todo[u]
            /\ held'[u] = held[u] /\ wrote'[u] = wrote[u]

\* What a step must leave alone for u to stay sound: the leaves u has locked, and the
\* approvals and the pending leaves u has accounted for.
Gentle(u) ==
  /\ \A l \in held[u] : /\ status'[l] = status[l] /\ makeup'[l] = makeup[l]
                        /\ of'[l] = of[l] /\ session'[l] = session[l]
  /\ pc[u] = "victims" =>
       \A l \in Leave : status'[l] = "pending" /\ of'[l] = req[u].enrolment /\ l \notin late'
                          => status[l] = "pending" /\ of[l] = req[u].enrolment /\ l \notin late
  /\ \A x \in DOMAIN wrote[u] : wrote[u][x] # "leave" =>
       \A l \in Leave : status'[l] = "approved" /\ Place(l)' = x /\ l \notin overwritten'
                          => status[l] = "approved" /\ Place(l) = x /\ l \notin overwritten

LEMMA GentleSound ==
  ASSUME NEW u \in Tx, Sound(u), Still(u), Gentle(u)
  PROVE  Sound(u)'
<1>1. Asked(u)'
  BY DEF Sound, Asked, Still
<1>2. StillSo(u)'
  BY DEF Sound, StillSo, Still, Gentle, Asked, Holding
<1>3. VictimsCaught(u)'
  BY DEF Sound, VictimsCaught, Still, Gentle
<1>4. WritesAgree(u)'
  <2>1. pc[u] = "decided" => Place(req[u].leave)' = Place(req[u].leave)
    BY DEF Sound, StillSo, Still, Gentle, Place
  <2> QED  BY <2>1 DEF Sound, WritesAgree, Still, Gentle, Place
<1> QED
  BY <1>1, <1>2, <1>3, <1>4 DEF Sound

\* What is left to show of a step of t, once it is known to be gentle to the others.
Alone(t) == \A u \in Tx \ {t} : Still(u)
Apart(t) == \A u \in Tx \ {t} : /\ held'[t] \cap held[u] = {}
                                /\ DOMAIN wrote'[t] \cap DOMAIN wrote[u] = {}

LEMMA Together ==
  ASSUME LeaveInv, NEW t \in Tx, Alone(t), Apart(t), Sound(t)', LeaveTypes',
         \A u \in Tx \ {t} : Gentle(u), RowsNameBoth', CancelledLeavesNone', ApprovalWins'
  PROVE  LeaveInv'
<1>1. LeavesHeldOnce' /\ MarksHeldOnce'
  BY DEF LeaveInv, LeavesHeldOnce, MarksHeldOnce, Alone, Apart, Still
<1>2. \A u \in Tx : Sound(u)'
  BY GentleSound DEF LeaveInv, Alone
<1> QED
  BY <1>1, <1>2 DEF LeaveInv

\* Most steps touch only their own request.
LEMMA UntouchedIsGentle == ASSUME NEW u \in Tx, UNCHANGED Database PROVE Gentle(u)
  BY DEF Gentle, Database, leaves, history, Place

LEMMA UntouchedHolds ==
  ASSUME LeaveInv, UNCHANGED Database
  PROVE  /\ RowsNameBoth' /\ CancelledLeavesNone' /\ ApprovalWins'
  BY DEF LeaveInv, RowsNameBoth, CancelledLeavesNone, ApprovalWins, Database, leaves, history

LEMMA OwnStep ==
  ASSUME LeaveInv, UNCHANGED Database, NEW t \in Tx, Alone(t), Apart(t), Sound(t)', LeaveTypes'
  PROVE  LeaveInv'
  BY UntouchedIsGentle, UntouchedHolds, Together

\* The end of a transaction leaves nothing behind.
LEMMA Finished ==
  ASSUME LeaveInv, NEW t \in Tx, Finish(t)
  PROVE  /\ Alone(t) /\ Apart(t) /\ Sound(t)'
         /\ pc' \in [Tx -> Label] /\ held' \in [Tx -> SUBSET Leave]
         /\ DOMAIN req' = Tx /\ DOMAIN todo' = Tx /\ DOMAIN wrote' = Tx
<1> USE DEF LeaveInv, LeaveTypes, Finish
<1>1. Alone(t)
  BY DEF Alone, Still
<1>2. Apart(t)
  BY DEF Apart, NoWrites
<1>3. Sound(t)'
  BY DEF Sound, Asked, StillSo, Holding, VictimsCaught, WritesAgree, NoWrites
<1>4. /\ pc' \in [Tx -> Label] /\ held' \in [Tx -> SUBSET Leave]
      /\ DOMAIN req' = Tx /\ DOMAIN todo' = Tx /\ DOMAIN wrote' = Tx
  BY DEF Label
<1> QED
  BY <1>1, <1>2, <1>3, <1>4

LEMMA RollbackStep == ASSUME LeaveInv, NEW t \in Tx, Rollback(t) PROVE LeaveInv'
<1>1. LeaveTypes'
  BY Finished DEF Rollback, Database, leaves, history, LeaveInv, LeaveTypes
<1> QED
  BY <1>1, Finished, OwnStep DEF Rollback

\* Asking locks nothing.
LEMMA AskStep == ASSUME LeaveInv, NEW t \in Tx, Ask(t) PROVE LeaveInv'
<1> USE DEF LeaveInv, LeaveTypes
<1>1. ASSUME NEW r, NEW label \in {"insert", "decide", "cancel", "source", "plan"}, Begin(t, r, label),
             DOMAIN todo' = Tx, \A u \in Tx \ {t} : todo'[u] = todo[u],
             label = "insert" => r.enrolment \in Enrolment /\ r.session \in Session,
             label = "decide" => r.leave \in Leave /\ r.kind \in {"approve", "reject"},
             label = "cancel" => r.enrolment \in Enrolment,
             label = "source" => r.leave \in Leave /\ r.session \in Session
      PROVE  LeaveInv'
  <2>0. pc[t] = "idle" /\ held[t] = {} /\ DOMAIN wrote[t] = {}
    BY <1>1 DEF Begin, Sound, StillSo, Holding, WritesAgree
  <2>1. LeaveTypes'
    BY <1>1 DEF Begin, Label, Database, leaves
  <2>2. Alone(t) /\ Apart(t)
    BY <1>1, <2>0 DEF Begin, Alone, Still, Apart
  <2>3. Sound(t)'
    <3>1. Asked(t)'
      BY <1>1 DEF Begin, Asked
    <3>2. StillSo(t)' /\ VictimsCaught(t)'
      BY <1>1, <2>0 DEF Begin, StillSo, Holding, VictimsCaught
    <3>3. WritesAgree(t)'
      BY <1>1, <2>0 DEF Begin, WritesAgree
    <3> QED  BY <3>1, <3>2, <3>3 DEF Sound
  <2> QED  BY <1>1, <2>1, <2>2, <2>3, OwnStep DEF Begin, Database
<1>2. ASSUME NEW e \in Enrolment, NEW s \in Session, AskLeave(t, e, s) PROVE LeaveInv'
  <2> DEFINE r == [NoReq EXCEPT !.kind = "create", !.enrolment = e, !.session = s]
  <2>1. Begin(t, r, "insert") /\ DOMAIN todo' = Tx /\ \A u \in Tx \ {t} : todo'[u] = todo[u]
    BY <1>2 DEF AskLeave
  <2>2. r.enrolment \in Enrolment /\ r.session \in Session
    BY DEF NoReq
  <2> HIDE DEF r
  <2> QED  BY <1>1, <2>1, <2>2
<1>3. ASSUME NEW l \in Leave, NEW kind \in {"approve", "reject"}, AskDecision(t, l, kind) PROVE LeaveInv'
  <2> DEFINE r == [NoReq EXCEPT !.kind = kind, !.leave = l]
  <2>1. Begin(t, r, "decide") /\ DOMAIN todo' = Tx /\ \A u \in Tx \ {t} : todo'[u] = todo[u]
    BY <1>3 DEF AskDecision
  <2>2. r.leave \in Leave /\ r.kind \in {"approve", "reject"}
    BY DEF NoReq
  <2> HIDE DEF r
  <2> QED  BY <1>1, <2>1, <2>2
<1>4. ASSUME NEW e \in Enrolment, AskCancel(t, e) PROVE LeaveInv'
  <2> DEFINE r == [NoReq EXCEPT !.kind = "cancel", !.enrolment = e]
  <2>1. Begin(t, r, "cancel") /\ DOMAIN todo' = Tx /\ \A u \in Tx \ {t} : todo'[u] = todo[u]
    BY <1>4 DEF AskCancel
  <2>2. r.enrolment \in Enrolment
    BY DEF NoReq
  <2> HIDE DEF r
  <2> QED  BY <1>1, <2>1, <2>2
<1>5. ASSUME NEW l \in Leave, NEW s \in Session, AskMakeup(t, l, s) PROVE LeaveInv'
  <2> DEFINE r == [NoReq EXCEPT !.kind = "makeup", !.leave = l, !.session = s]
  <2>1. Begin(t, r, "source") /\ DOMAIN todo' = Tx /\ \A u \in Tx \ {t} : todo'[u] = todo[u]
    BY <1>5 DEF AskMakeup
  <2>2. r.leave \in Leave /\ r.session \in Session
    BY DEF NoReq
  <2> HIDE DEF r
  <2> QED  BY <1>1, <2>1, <2>2
<1>6. ASSUME NEW s \in Session, NEW marks \in Marks, AskMark(t, s, marks) PROVE LeaveInv'
  <2> DEFINE r == [NoReq EXCEPT !.kind = "mark", !.session = s]
  <2>1. Begin(t, r, "plan") /\ DOMAIN todo' = Tx /\ \A u \in Tx \ {t} : todo'[u] = todo[u]
    BY <1>6 DEF AskMark
  <2>2. TRUE
    BY DEF NoReq
  <2> HIDE DEF r
  <2> QED  BY <1>1, <2>1, <2>2
<1> QED
  BY <1>2, <1>3, <1>4, <1>5, <1>6 DEF Ask

-----------------------------------------------------------------------------
\* The steps that lock a row or read one.
LEMMA LockLeaveStep == ASSUME LeaveInv, NEW t \in Tx, LockLeave(t) PROVE LeaveInv'
<1> USE DEF LeaveInv, LeaveTypes
<1>1. CASE Rollback(t)
  BY <1>1, RollbackStep
<1>2. CASE ~Rollback(t)
  <2>1. /\ pc[t] = "decide" /\ status[req[t].leave] = "pending" /\ LeaveLocked(t, req[t].leave) = {}
        /\ pc' = [pc EXCEPT ![t] = AfterLock(t)] /\ held' = [held EXCEPT ![t] = {req[t].leave}]
        /\ UNCHANGED <<req, todo, wrote>> /\ UNCHANGED Database
    BY <1>2 DEF LockLeave, Goto
  <2>2. req[t].leave \in Leave /\ req[t].kind \in {"approve", "reject"} /\ DOMAIN wrote[t] = {}
    BY <2>1 DEF Sound, Asked, WritesAgree
  <2>3. LeaveTypes'
    BY <2>1, <2>2 DEF AfterLock, Label, Database, leaves
  <2>4. Alone(t) /\ Apart(t)
    BY <2>1, <2>2 DEF Alone, Still, Apart, LeaveLocked
  <2>5. Asked(t)' /\ StillSo(t)' /\ VictimsCaught(t)'
    BY <2>1, <2>2 DEF AfterLock, Asked, StillSo, Holding, VictimsCaught, Database, leaves
  <2>6. WritesAgree(t)'
    BY <2>1, <2>2 DEF AfterLock, WritesAgree
  <2> QED  BY <2>1, <2>3, <2>4, <2>5, <2>6, OwnStep DEF Sound
<1> QED
  BY <1>1, <1>2

\* The row an approval projects to is locked by nobody else.
LEMMA ProjectStep == ASSUME LeaveInv, NEW t \in Tx, project_approved_leave(t) PROVE LeaveInv'
<1> DEFINE x == Place(req[t].leave)
<1> USE DEF LeaveInv, LeaveTypes
<1>1. /\ pc[t] = "project" /\ RowLocked(t, x) = {}
      /\ wrote' = [wrote EXCEPT ![t] = [y \in DOMAIN wrote[t] \cup {x} |-> IF y = x THEN "leave" ELSE wrote[t][y]]]
      /\ pc' = [pc EXCEPT ![t] = "decided"]
      /\ UNCHANGED <<req, todo, held>> /\ UNCHANGED Database
  BY DEF project_approved_leave, Place, Writable, Write, Goto
<1>2. DOMAIN wrote[t] = {} /\ Asked(t) /\ StillSo(t)
  BY <1>1 DEF Sound, WritesAgree
<1>3. LeaveTypes'
  BY <1>1 DEF Label, Database, leaves
<1>4. DOMAIN wrote'[t] = {x} /\ wrote'[t][x] = "leave"
  BY <1>1, <1>2
<1>5. Alone(t) /\ Apart(t)
  BY <1>1, <1>4 DEF Alone, Still, Apart, RowLocked, LeavesHeldOnce
<1>6. Asked(t)' /\ StillSo(t)' /\ VictimsCaught(t)'
  BY <1>1, <1>2 DEF Asked, StillSo, Holding, VictimsCaught, Database, leaves
<1>7. WritesAgree(t)'
  <2>1. x' = x
    BY <1>1 DEF Place, Database, leaves
  <2> QED  BY <1>1, <1>4, <2>1 DEF WritesAgree
<1> QED
  BY <1>1, <1>3, <1>5, <1>6, <1>7, OwnStep DEF Sound

\* The cancellation's statement sees every pending leave there is.
LEMMA CancelEnrolmentStep == ASSUME LeaveInv, NEW t \in Tx, CancelEnrolment(t) PROVE LeaveInv'
<1> USE DEF LeaveInv, LeaveTypes
<1>1. CASE Rollback(t)
  BY <1>1, RollbackStep
<1>2. CASE ~Rollback(t)
  <2>1. /\ pc[t] = "cancel" /\ pc' = [pc EXCEPT ![t] = "victims"]
        /\ todo' = [todo EXCEPT ![t] = {l \in Leave : of[l] = req[t].enrolment /\ status[l] = "pending"}]
        /\ UNCHANGED <<req, held, wrote>> /\ UNCHANGED Database
    BY <1>2 DEF CancelEnrolment, Goto
  <2>2. held[t] = {} /\ DOMAIN wrote[t] = {} /\ Asked(t)
    BY <2>1 DEF Sound, StillSo, Holding, WritesAgree
  <2>3. LeaveTypes'
    BY <2>1 DEF Label, Database, leaves
  <2>4. Alone(t) /\ Apart(t)
    BY <2>1, <2>2 DEF Alone, Still, Apart
  <2>5. Asked(t)' /\ StillSo(t)' /\ WritesAgree(t)'
    BY <2>1, <2>2 DEF Asked, StillSo, Holding, WritesAgree
  <2>6. VictimsCaught(t)'
    BY <2>1 DEF VictimsCaught, Database, leaves
  <2> QED  BY <2>1, <2>3, <2>4, <2>5, <2>6, OwnStep DEF Sound
<1> QED
  BY <1>1, <1>2

\* A row the cancellation passes is pending and locked, or pending no more.
LEMMA CancelPendingStep ==
  ASSUME LeaveInv, NEW t \in Tx, NEW l \in Leave, CancelPending(t, l) PROVE LeaveInv'
<1> USE DEF LeaveInv, LeaveTypes
<1>1. /\ pc[t] = "victims" /\ LeaveLocked(t, l) = {} /\ todo' = [todo EXCEPT ![t] = @ \ {l}]
      /\ held' = [held EXCEPT ![t] = IF status[l] = "pending" THEN @ \cup {l} ELSE @]
      /\ UNCHANGED <<pc, req, wrote>> /\ UNCHANGED Database
  BY DEF CancelPending
<1>2. DOMAIN wrote[t] = {} /\ Asked(t) /\ StillSo(t) /\ VictimsCaught(t)
  BY <1>1 DEF Sound, WritesAgree
<1>3. LeaveTypes'
  BY <1>1 DEF Database, leaves
<1>4. Alone(t) /\ Apart(t)
  BY <1>1, <1>2 DEF Alone, Still, Apart, LeaveLocked, LeavesHeldOnce
<1>5. Asked(t)' /\ StillSo(t)' /\ WritesAgree(t)'
  BY <1>1, <1>2 DEF Asked, StillSo, Holding, WritesAgree, Database, leaves
<1>6. VictimsCaught(t)'
  BY <1>1, <1>2 DEF VictimsCaught, Database, leaves, history
<1> QED
  BY <1>1, <1>3, <1>4, <1>5, <1>6, OwnStep DEF Sound

LEMMA LockSourceStep == ASSUME LeaveInv, NEW t \in Tx, LockSource(t) PROVE LeaveInv'
<1> USE DEF LeaveInv, LeaveTypes
<1>1. CASE Rollback(t)
  BY <1>1, RollbackStep
<1>2. CASE ~Rollback(t)
  <2>1. /\ pc[t] = "source" /\ check_makeup_source(req[t].leave) /\ LeaveLocked(t, req[t].leave) = {}
        /\ pc' = [pc EXCEPT ![t] = "target"] /\ held' = [held EXCEPT ![t] = {req[t].leave}]
        /\ UNCHANGED <<req, todo, wrote>> /\ UNCHANGED Database
    BY <1>2 DEF LockSource, Goto
  <2>2. DOMAIN wrote[t] = {} /\ Asked(t)
    BY <2>1 DEF Sound, WritesAgree
  <2>3. LeaveTypes'
    BY <2>1, <2>2 DEF Asked, Label, Database, leaves
  <2>4. Alone(t) /\ Apart(t)
    BY <2>1, <2>2 DEF Alone, Still, Apart, LeaveLocked
  <2>5. Asked(t)' /\ StillSo(t)' /\ VictimsCaught(t)'
    BY <2>1, <2>2 DEF Asked, StillSo, Holding, VictimsCaught, check_makeup_source, Database, leaves
  <2>6. WritesAgree(t)'
    BY <2>1, <2>2 DEF WritesAgree
  <2> QED  BY <2>1, <2>3, <2>4, <2>5, <2>6, OwnStep DEF Sound
<1> QED
  BY <1>1, <1>2

\* Steps that only go on: counting a session's room, planning marks, starting one.
LEMMA OnwardStep ==
  ASSUME LeaveInv, NEW t \in Tx, LockTarget(t) \/ plan(t) \/ \E m \in todo[t] : StartUpsert(t, m)
  PROVE  LeaveInv'
<1> USE DEF LeaveInv, LeaveTypes
<1>1. CASE Rollback(t)
  BY <1>1, RollbackStep
<1>2. CASE ~Rollback(t)
  <2>1. /\ <<pc[t], pc'[t]>> \in {<<"target", "room">>, <<"plan", "next">>, <<"next", "upsert">>}
        /\ pc' = [pc EXCEPT ![t] = pc'[t]]
        /\ pc[t] = "target" => req'[t] = req[t]
        /\ DOMAIN req' = Tx /\ \A u \in Tx \ {t} : req'[u] = req[u]
        /\ UNCHANGED <<todo, held, wrote>> /\ UNCHANGED Database
    BY <1>2 DEF LockTarget, plan, StartUpsert, Goto
  <2>2. Asked(t) /\ StillSo(t) /\ WritesAgree(t)
    BY DEF Sound
  <2>3. LeaveTypes'
    BY <2>1 DEF Label, Database, leaves
  <2>4. Alone(t) /\ Apart(t)
    BY <2>1 DEF Alone, Still, Apart, LeavesHeldOnce, MarksHeldOnce
  <2>5. Asked(t)' /\ StillSo(t)' /\ VictimsCaught(t)'
    BY <2>1, <2>2 DEF Asked, StillSo, Holding, VictimsCaught, Database, leaves
  <2>6. WritesAgree(t)'
    BY <2>1, <2>2 DEF WritesAgree, Place, Database, leaves, history
  <2> QED  BY <2>1, <2>3, <2>4, <2>5, <2>6, OwnStep DEF Sound
<1> QED
  BY <1>1, <1>2

-----------------------------------------------------------------------------
\* The steps that write.  A new leave is nobody's, and past its enrolment's
\* cancellation it counts as late.
LEMMA InsertStep == ASSUME LeaveInv, NEW t \in Tx, Insert(t) PROVE LeaveInv'
<1> DEFINE e == req[t].enrolment
           s == req[t].session
<1> USE DEF LeaveInv, LeaveTypes
<1>1. CASE Rollback(t)
  BY <1>1, RollbackStep
<1>2. CASE ~Rollback(t)
  <2>1. pc[t] = "insert" /\ e \in Enrolment /\ s \in Session
    BY DEF Insert, Sound, Asked
  <2>2. PICK l \in Unused :
          /\ status' = [status EXCEPT ![l] = "pending"]
          /\ of' = [of EXCEPT ![l] = e] /\ session' = [session EXCEPT ![l] = s]
          /\ late' = (IF Past(e) THEN late \cup {l} ELSE late)
          /\ UNCHANGED <<makeup, enrolled, attendance, started, squeezed, overwritten>>
          /\ Finish(t)
    BY <1>2 DEF Insert
  <2>3. l \in Leave /\ status[l] = "none" /\ status'[l] = "pending" /\ of'[l] = e /\ session'[l] = s
    BY <2>2 DEF Unused
  <2>4. \A k \in Leave \ {l} : status'[k] = status[k] /\ of'[k] = of[k] /\ session'[k] = session[k]
                                /\ (k \in late' <=> k \in late)
    BY <2>2
  <2>5. LeaveTypes'
    BY <2>1, <2>2, <2>3, Finished
  <2>6. ASSUME NEW u \in Tx \ {t} PROVE Gentle(u)
    <3>1. l \notin held[u]
      BY <2>3 DEF Sound, StillSo, Holding
    <3>2. pc[u] = "victims" /\ req[u].enrolment = e => l \in late'
      BY <2>2 DEF Past
    <3>3. \A k \in held[u] : /\ status'[k] = status[k] /\ makeup'[k] = makeup[k]
                             /\ of'[k] = of[k] /\ session'[k] = session[k]
      BY <2>2, <2>4, <3>1
    <3>4. \A x \in DOMAIN wrote[u] : wrote[u][x] # "leave" =>
            \A k \in Leave : status'[k] = "approved" /\ Place(k)' = x /\ k \notin overwritten'
                               => status[k] = "approved" /\ Place(k) = x /\ k \notin overwritten
      BY <2>2, <2>3, <2>4 DEF Place
    <3>5. pc[u] = "victims" =>
            \A k \in Leave : status'[k] = "pending" /\ of'[k] = req[u].enrolment /\ k \notin late'
                               => status[k] = "pending" /\ of[k] = req[u].enrolment /\ k \notin late
      BY <2>3, <2>4, <3>2
    <3> QED  BY <3>3, <3>4, <3>5 DEF Gentle
  <2>7. RowsNameBoth'
    BY <2>1, <2>3, <2>4 DEF RowsNameBoth
  <2>8. CancelledLeavesNone'
    BY <2>2, <2>3, <2>4 DEF CancelledLeavesNone, Past
  <2>9. ApprovalWins'
    BY <2>2, <2>3, <2>4 DEF ApprovalWins
  <2> QED  BY <2>2, <2>5, <2>6, <2>7, <2>8, <2>9, Finished, Together
<1> QED
  BY <1>1, <1>2

\* A commit that turns the leaves t holds into something decided is gentle: nobody
\* else holds them, none becomes pending, and an approval is written where it says.
LEMMA DecidingIsGentle ==
  ASSUME LeaveInv, NEW t \in Tx, NEW u \in Tx \ {t},
         UNCHANGED <<of, session, makeup, late, overwritten>>,
         \A l \in Leave \ held[t] : status'[l] = status[l],
         \A l \in held[t] : status'[l] # "pending",
         \A l \in held[t] : status'[l] = "approved" => Place(l) \in DOMAIN wrote[t]
  PROVE  Gentle(u)
<1> USE DEF LeaveInv, LeaveTypes
<1>1. \A l \in held[u] : l \notin held[t] /\ l \in Leave
  BY DEF LeavesHeldOnce
<1>2. \A x \in DOMAIN wrote[u] : x \notin DOMAIN wrote[t]
  BY DEF MarksHeldOnce
<1> QED
  BY <1>1, <1>2 DEF Gentle, Place

LEMMA CommitDecisionStep == ASSUME LeaveInv, NEW t \in Tx, CommitDecision(t) PROVE LeaveInv'
<1> DEFINE k == req[t].leave
           decided == IF req[t].kind = "approve" THEN "approved" ELSE "rejected"
<1> USE DEF LeaveInv, LeaveTypes
<1>1. /\ pc[t] = "decided" /\ status' = [status EXCEPT ![k] = decided]
      /\ attendance' = Overlay(t) /\ Finish(t)
      /\ UNCHANGED <<enrolled, of, session, makeup, started, history>>
  BY DEF CommitDecision
<1>2. k \in Leave /\ held[t] = {k} /\ status[k] = "pending" /\ WritesAgree(t)
  BY <1>1 DEF Sound, Asked, StillSo
<1>3. status'[k] = decided /\ \A l \in Leave \ {k} : status'[l] = status[l]
  BY <1>1, <1>2
<1>4. LeaveTypes'
  BY <1>1, <1>2, Finished
<1>5. ASSUME NEW u \in Tx \ {t} PROVE Gentle(u)
  <2>1. status'[k] = "approved" => Place(k) \in DOMAIN wrote[t]
    BY <1>1, <1>2, <1>3 DEF WritesAgree
  <2> QED  BY <1>1, <1>2, <1>3, <2>1, DecidingIsGentle DEF history
<1>6. RowsNameBoth' /\ CancelledLeavesNone'
  BY <1>1, <1>2, <1>3 DEF RowsNameBoth, CancelledLeavesNone, history
<1>7. ApprovalWins'
  <2> SUFFICES ASSUME NEW l \in Leave, status'[l] = "approved", l \notin overwritten'
               PROVE  attendance'[Place(l)] = "leave"
    BY <1>1 DEF ApprovalWins, Place
  <2>1. Place(l) \in Session \X Enrolment
    <3>1. of[l] \in Enrolment /\ session[l] \in Session
      BY <1>2, <1>3 DEF RowsNameBoth
    <3> QED  BY <3>1 DEF Place
  <2>2. attendance'[Place(l)] = IF Place(l) \in DOMAIN wrote[t] THEN wrote[t][Place(l)]
                                ELSE attendance[Place(l)]
    BY <1>1, <2>1 DEF Overlay
  <2>3. CASE Place(l) \in DOMAIN wrote[t]
    BY <1>1, <1>2, <2>2, <2>3 DEF WritesAgree
  <2>4. CASE Place(l) \notin DOMAIN wrote[t]
    <3>1. l # k
      BY <1>1, <1>2, <1>3, <2>4 DEF WritesAgree
    <3> QED  BY <1>1, <1>3, <2>2, <2>4, <3>1 DEF ApprovalWins, Place, history
  <2> QED  BY <2>3, <2>4
<1> QED
  BY <1>1, <1>4, <1>5, <1>6, <1>7, Finished, Together

LEMMA CommitCancelStep == ASSUME LeaveInv, NEW t \in Tx, CommitCancel(t) PROVE LeaveInv'
<1> USE DEF LeaveInv, LeaveTypes
<1>1. /\ pc[t] = "victims" /\ todo[t] = {}
      /\ enrolled' = [enrolled EXCEPT ![req[t].enrolment] = "cancelled"]
      /\ status' = [l \in Leave |-> IF l \in held[t] THEN "cancelled" ELSE status[l]]
      /\ Finish(t) /\ UNCHANGED <<of, session, makeup, attendance, started, history>>
  BY DEF CommitCancel
<1>2. req[t].enrolment \in Enrolment /\ VictimsCaught(t) /\ StillSo(t)
  BY <1>1 DEF Sound, Asked
<1>3. LeaveTypes'
  BY <1>1, <1>2, Finished
<1>4. ASSUME NEW u \in Tx \ {t} PROVE Gentle(u)
  BY <1>1, DecidingIsGentle DEF history
<1>5. RowsNameBoth' /\ ApprovalWins'
  BY <1>1, <1>2 DEF RowsNameBoth, ApprovalWins, StillSo, history
<1>6. CancelledLeavesNone'
  BY <1>1, <1>2 DEF CancelledLeavesNone, VictimsCaught, history
<1> QED
  BY <1>1, <1>3, <1>4, <1>5, <1>6, Finished, Together

LEMMA CommitMakeupStep == ASSUME LeaveInv, NEW t \in Tx, CommitMakeup(t) PROVE LeaveInv'
<1> DEFINE k == req[t].leave
<1> USE DEF LeaveInv, LeaveTypes
<1>1. /\ pc[t] = "room" /\ makeup' = [makeup EXCEPT ![k] = req[t].session] /\ Finish(t)
      /\ UNCHANGED <<enrolled, status, of, session, attendance, started, history>>
  BY DEF CommitMakeup
<1>2. k \in Leave /\ req[t].session \in Session /\ held[t] = {k}
  BY <1>1 DEF Sound, Asked, StillSo
<1>3. LeaveTypes'
  BY <1>1, <1>2, Finished
<1>4. ASSUME NEW u \in Tx \ {t} PROVE Gentle(u)
  <2>1. k \notin held[u] /\ held[u] \subseteq Leave
    BY <1>2 DEF LeavesHeldOnce
  <2> QED  BY <1>1, <1>2, <2>1 DEF Gentle, Place, history
<1>5. RowsNameBoth' /\ CancelledLeavesNone' /\ ApprovalWins'
  BY <1>1 DEF RowsNameBoth, CancelledLeavesNone, ApprovalWins, history
<1> QED
  BY <1>1, <1>3, <1>4, <1>5, Finished, Together

\* A mark that does not say `leave' gets past the approvals it has not seen only by
\* writing over them, and past those it has only where their row was lost before.
LEMMA UpsertStep == ASSUME LeaveInv, NEW t \in Tx, Upsert(t) PROVE LeaveInv'
<1> DEFINE e == req[t].enrolment
           x == <<req[t].session, e>>
           v == (CHOOSE m \in todo[t] : m[1] = e)[2]
<1> USE DEF LeaveInv, LeaveTypes
<1>1. CASE Rollback(t)
  BY <1>1, RollbackStep
<1>2. CASE ~Rollback(t)
  <2>1. /\ pc[t] = "upsert" /\ RowLocked(t, x) = {} /\ MayOverwrite(x, v, sees[t])
        /\ wrote' = [wrote EXCEPT ![t] = [y \in DOMAIN wrote[t] \cup {x} |-> IF y = x THEN v ELSE wrote[t][y]]]
        /\ todo' = [todo EXCEPT ![t] = @ \ {<<e, v>>}]
        /\ overwritten' = (IF v = "leave" \/ sees[t] THEN overwritten
                           ELSE overwritten \cup Approved(req[t].session, e))
        /\ pc' = [pc EXCEPT ![t] = "next"]
        /\ req' = [req EXCEPT ![t].enrolment = None]
        /\ UNCHANGED <<held, enrolled, leaves, attendance, started, squeezed, late>>
    BY <1>2 DEF Upsert, Writable, Write, Goto
  <2>2. held[t] = {} /\ WritesAgree(t)
    BY <2>1 DEF Sound, StillSo, Holding
  <2>3. LeaveTypes'
    BY <2>1 DEF Label, leaves
  <2>4. Alone(t) /\ Apart(t)
    BY <2>1, <2>2 DEF Alone, Still, Apart, RowLocked, MarksHeldOnce
  <2>5. overwritten \subseteq overwritten'
    BY <2>1
  <2>6. ASSUME NEW u \in Tx \ {t} PROVE Gentle(u)
    BY <2>1, <2>5 DEF Gentle, Place, leaves
  <2>7. RowsNameBoth' /\ CancelledLeavesNone' /\ ApprovalWins'
    BY <2>1, <2>5 DEF RowsNameBoth, CancelledLeavesNone, ApprovalWins, leaves
  <2>8. v # "leave" => \A l \in Leave : status[l] = "approved" /\ Place(l) = x => l \in overwritten'
    <3> SUFFICES ASSUME v # "leave", NEW l \in Leave, status[l] = "approved", Place(l) = x
                 PROVE  l \in overwritten'
      OBVIOUS
    <3>1. CASE sees[t]
      <4>1. attendance[x] # "leave"
        BY <2>1, <3>1 DEF MayOverwrite
      <4> QED  BY <2>5, <4>1 DEF ApprovalWins, Place
    <3>2. CASE ~sees[t]
      BY <2>1, <3>2 DEF Approved, Place
    <3> QED  BY <3>1, <3>2
  <2>9. Asked(t)' /\ StillSo(t)' /\ VictimsCaught(t)'
    BY <2>1, <2>2 DEF Asked, StillSo, Holding, VictimsCaught
  <2>10. WritesAgree(t)'
    <3>1. \A y \in DOMAIN wrote'[t] : wrote'[t][y] # "leave" =>
            \A l \in Leave : status[l] = "approved" /\ Place(l) = y => l \in overwritten'
      <4> SUFFICES ASSUME NEW y \in DOMAIN wrote'[t], wrote'[t][y] # "leave",
                          NEW l \in Leave, status[l] = "approved", Place(l) = y
                   PROVE  l \in overwritten'
        OBVIOUS
      <4> HIDE DEF x, v
      <4>1. y = x \/ (y \in DOMAIN wrote[t] /\ wrote'[t][y] = wrote[t][y])
        BY <2>1
      <4>2. y = x => wrote'[t][y] = v
        BY <2>1
      <4> QED  BY <2>2, <2>5, <2>8, <4>1, <4>2 DEF WritesAgree
    <3> QED  BY <2>1, <3>1 DEF WritesAgree, Place, leaves
  <2> QED  BY <2>3, <2>4, <2>6, <2>7, <2>9, <2>10, Together DEF Sound
<1> QED
  BY <1>1, <1>2

LEMMA CommitMarkStep == ASSUME LeaveInv, NEW t \in Tx, CommitMark(t) PROVE LeaveInv'
<1> USE DEF LeaveInv, LeaveTypes
<1>1. /\ pc[t] = "next" /\ attendance' = Overlay(t) /\ Finish(t)
      /\ UNCHANGED <<enrolled, leaves, started, history>>
  BY DEF CommitMark
<1>2. LeaveTypes'
  BY <1>1, Finished DEF leaves
<1>3. ASSUME NEW u \in Tx \ {t} PROVE Gentle(u)
  BY <1>1 DEF Gentle, Place, leaves, history
<1>4. RowsNameBoth' /\ CancelledLeavesNone'
  BY <1>1 DEF RowsNameBoth, CancelledLeavesNone, leaves, history
<1>5. ApprovalWins'
  <2> SUFFICES ASSUME NEW l \in Leave, status[l] = "approved", l \notin overwritten
               PROVE  attendance'[Place(l)] = "leave"
    BY <1>1 DEF ApprovalWins, Place, leaves, history
  <2>1. Place(l) \in Session \X Enrolment
    BY DEF RowsNameBoth, Place
  <2>2. attendance'[Place(l)] = IF Place(l) \in DOMAIN wrote[t] THEN wrote[t][Place(l)]
                                ELSE attendance[Place(l)]
    BY <1>1, <2>1 DEF Overlay
  <2> QED  BY <2>2 DEF Sound, WritesAgree, ApprovalWins, Place
<1> QED
  BY <1>1, <1>2, <1>3, <1>4, <1>5, Finished, Together

\* Requests of one statement, which take no lock they keep.
LEMMA OneStatement ==
  ASSUME LeaveInv, UNCHANGED locals, \A u \in Tx : Gentle(u), LeaveTypes',
         RowsNameBoth', CancelledLeavesNone', ApprovalWins'
  PROVE  LeaveInv'
<1>1. \A u \in Tx : Sound(u)'
  BY GentleSound DEF LeaveInv, Still, locals
<1>2. LeavesHeldOnce' /\ MarksHeldOnce'
  BY DEF LeaveInv, LeavesHeldOnce, MarksHeldOnce, locals
<1> QED
  BY <1>1, <1>2 DEF LeaveInv

LEMMA WithdrawStep == ASSUME LeaveInv, NEW l \in Leave, cancel_leave_request(l) PROVE LeaveInv'
<1> USE DEF LeaveInv, LeaveTypes, cancel_leave_request
<1>1. LeaveTypes'
  BY DEF locals
<1>2. ASSUME NEW u \in Tx PROVE Gentle(u)
  BY DEF Gentle, Place, history
<1>3. RowsNameBoth' /\ CancelledLeavesNone' /\ ApprovalWins'
  BY DEF RowsNameBoth, CancelledLeavesNone, ApprovalWins, history
<1> QED
  BY <1>1, <1>2, <1>3, OneStatement

LEMMA EnrolStep == ASSUME LeaveInv, NEW e \in Enrolment, enrol(e) PROVE LeaveInv'
<1> USE DEF LeaveInv, LeaveTypes, enrol
<1>1. LeaveTypes'
  BY DEF locals, leaves
<1>2. ASSUME NEW u \in Tx PROVE Gentle(u)
  BY DEF Gentle, Place, leaves
<1>3. RowsNameBoth' /\ CancelledLeavesNone' /\ ApprovalWins'
  BY DEF RowsNameBoth, CancelledLeavesNone, ApprovalWins, leaves
<1> QED
  BY <1>1, <1>2, <1>3, OneStatement

LEMMA BeginsStep == ASSUME LeaveInv, NEW s \in Session, Begins(s) PROVE LeaveInv'
<1> USE DEF LeaveInv, LeaveTypes, Begins
<1>1. LeaveTypes'
  BY DEF locals, leaves
<1>2. ASSUME NEW u \in Tx PROVE Gentle(u)
  BY DEF Gentle, Place, leaves, history
<1>3. RowsNameBoth' /\ CancelledLeavesNone' /\ ApprovalWins'
  BY DEF RowsNameBoth, CancelledLeavesNone, ApprovalWins, leaves, history
<1> QED
  BY <1>1, <1>2, <1>3, OneStatement

LEMMA StutterLeave == ASSUME LeaveInv, UNCHANGED leaveVars PROVE LeaveInv'
<1>1. UNCHANGED Database /\ UNCHANGED locals
  BY DEF leaveVars, Database, history
<1>2. LeaveTypes'
  BY <1>1 DEF LeaveInv, LeaveTypes, Database, leaves, locals
<1> QED
  BY <1>1, <1>2, UntouchedIsGentle, UntouchedHolds, OneStatement

LEMMA NextLeave == ASSUME LeaveInv, [Next]_leaveVars PROVE LeaveInv'
<1>1. ASSUME NEW t \in Tx, Ask(t) PROVE LeaveInv'
  BY <1>1, AskStep
<1>2. ASSUME NEW t \in Tx, Step(t) PROVE LeaveInv'
  BY <1>2, InsertStep, LockLeaveStep, ProjectStep, CommitDecisionStep, CancelEnrolmentStep,
     CommitCancelStep, CancelPendingStep, LockSourceStep, OnwardStep, CommitMakeupStep, UpsertStep,
     CommitMarkStep DEF Step
<1>3. ASSUME NEW t \in Tx, Fail(t) PROVE LeaveInv'
  BY <1>3, RollbackStep DEF Fail
<1>4. ASSUME NEW l \in Leave, cancel_leave_request(l) PROVE LeaveInv'
  BY <1>4, WithdrawStep
<1>5. ASSUME NEW e \in Enrolment, enrol(e) PROVE LeaveInv'
  BY <1>5, EnrolStep
<1>6. ASSUME NEW s \in Session, Begins(s) PROVE LeaveInv'
  BY <1>6, BeginsStep
<1>7. CASE UNCHANGED leaveVars
  BY <1>7, StutterLeave
<1> QED
  BY <1>1, <1>2, <1>3, <1>4, <1>5, <1>6, <1>7 DEF Next

LEMMA LeaveInvariant == Spec => []LeaveInv
  BY InitLeave, NextLeave, PTL DEF Spec

-----------------------------------------------------------------------------
\* ADR-0008, "an approval always wins": however approvals and markings race, the
\* attendance of an approved leave says so, but for the overwriting it knows of.
THEOREM ApprovalsWin == Spec => []ApprovalWins
<1>1. LeaveInv => ApprovalWins
  BY DEF LeaveInv
<1> QED
  BY <1>1, LeaveInvariant, PTL

\* leave/rules.rs: however inserts, decisions and refunds race, a cancelled enrolment
\* leaves no pending request behind, but for one inserted past its cancellation.
THEOREM NothingLeftPending == Spec => []CancelledLeavesNone
<1>1. LeaveInv => CancelledLeavesNone
  BY DEF LeaveInv
<1> QED
  BY <1>1, LeaveInvariant, PTL

\* leave/service.rs: whoever else decides, withdraws, refunds or makes up at the same
\* time, a decision stands and a makeup is booked once.
THEOREM DecisionsStand == Spec => DecidedIsFinal
<1> DEFINE Stands == \A l \in Leave : /\ status[l] \notin {"none", "pending"} => status'[l] = status[l]
                                      /\ makeup[l] # None => makeup'[l] = makeup[l]
<1>1. ASSUME LeaveInv, Next PROVE Stands
  <2> USE DEF LeaveInv, LeaveTypes
  <2>1. CASE UNCHANGED leaves
    BY <2>1 DEF leaves
  <2>2. ASSUME NEW t \in Tx, Step(t), ~UNCHANGED leaves PROVE Stands
    <3>1. Insert(t) \/ CommitDecision(t) \/ CommitCancel(t) \/ CommitMakeup(t)
      BY <2>2 DEF Step, LockLeave, project_approved_leave, CancelEnrolment, CancelPending, LockSource,
                  LockTarget, plan, Upsert, CommitMark, StartUpsert, Rollback, Database
    <3>2. CASE Insert(t)
      <4>1. PICK l \in Leave : /\ status[l] = "none" /\ status' = [status EXCEPT ![l] = "pending"]
                               /\ makeup' = makeup
        BY <2>2, <3>2 DEF Insert, Unused, Rollback, Database
      <4> QED  BY <1>1, <4>1
    <3>3. CASE CommitDecision(t)
      <4>1. req[t].leave \in Leave /\ status[req[t].leave] = "pending"
        BY <1>1, <3>3 DEF CommitDecision, Sound, Asked, StillSo
      <4>2. /\ makeup' = makeup
            /\ \A l \in Leave \ {req[t].leave} : status'[l] = status[l]
        BY <3>3 DEF CommitDecision
      <4> QED  BY <1>1, <4>1, <4>2
    <3>4. CASE CommitCancel(t)
      <4>1. \A l \in held[t] : status[l] = "pending"
        BY <1>1, <3>4 DEF CommitCancel, Sound, StillSo
      <4>2. makeup' = makeup /\ \A l \in Leave \ held[t] : status'[l] = status[l]
        BY <3>4 DEF CommitCancel
      <4> QED  BY <1>1, <4>1, <4>2
    <3>5. CASE CommitMakeup(t)
      <4>1. req[t].leave \in Leave /\ makeup[req[t].leave] = None
        BY <1>1, <3>5 DEF CommitMakeup, Sound, Asked, StillSo
      <4>2. status' = status /\ \A l \in Leave \ {req[t].leave} : makeup'[l] = makeup[l]
        BY <3>5 DEF CommitMakeup
      <4> QED  BY <1>1, <4>1, <4>2
    <3> QED  BY <3>1, <3>2, <3>3, <3>4, <3>5
  <2>3. ASSUME NEW l \in Leave, cancel_leave_request(l) PROVE Stands
    BY <2>3 DEF cancel_leave_request
  <2>4. ASSUME NEW t \in Tx, Ask(t) PROVE UNCHANGED leaves
    BY <2>4 DEF Ask, AskLeave, AskDecision, AskCancel, AskMakeup, AskMark, Begin, Database
  <2>5. ASSUME NEW t \in Tx, Fail(t) PROVE UNCHANGED leaves
    BY <2>5 DEF Fail, Rollback, Database
  <2>6. ASSUME NEW e \in Enrolment, enrol(e) PROVE UNCHANGED leaves
    BY <2>6 DEF enrol
  <2>7. ASSUME NEW s \in Session, Begins(s) PROVE UNCHANGED leaves
    BY <2>7 DEF Begins
  <2> QED
    BY <1>1, <2>1, <2>2, <2>3, <2>4, <2>5, <2>6, <2>7 DEF Next
<1>2. ASSUME LeaveInv, [Next]_leaveVars PROVE [Stands]_leaveVars
  BY <1>1, <1>2
<1> QED
  BY <1>2, LeaveInvariant, PTL DEF Spec, DecidedIsFinal

-----------------------------------------------------------------------------
\* The steps that write enrolments or leaves.
LEMMA WhoWrites ==
  ASSUME LeaveInv, Next
  PROVE  \/ UNCHANGED <<enrolled, leaves, squeezed>>
         \/ \E t \in Tx : \/ Insert(t) /\ ~Rollback(t)
                          \/ CommitDecision(t) \/ CommitCancel(t) \/ CommitMakeup(t)
         \/ \E l \in Leave : cancel_leave_request(l)
         \/ \E e \in Enrolment : enrol(e)
<1>1. ASSUME NEW t \in Tx, Ask(t) PROVE UNCHANGED <<enrolled, leaves, squeezed>>
  BY <1>1 DEF Ask, AskLeave, AskDecision, AskCancel, AskMakeup, AskMark, Begin, Database, history
<1>2. ASSUME NEW t \in Tx, Rollback(t) PROVE UNCHANGED <<enrolled, leaves, squeezed>>
  BY <1>2 DEF Rollback, Database, history
<1>3. ASSUME NEW t \in Tx, Step(t), ~Rollback(t),
             ~Insert(t), ~CommitDecision(t), ~CommitCancel(t), ~CommitMakeup(t)
      PROVE  UNCHANGED <<enrolled, leaves, squeezed>>
  BY <1>3 DEF Step, LockLeave, project_approved_leave, CancelEnrolment, CancelPending, LockSource,
              LockTarget, plan, Upsert, CommitMark, StartUpsert, Database, history
<1>4. ASSUME NEW s \in Session, Begins(s) PROVE UNCHANGED <<enrolled, leaves, squeezed>>
  BY <1>4 DEF Begins, history
<1> QED
  BY <1>1, <1>2, <1>3, <1>4 DEF Next, Fail

\* A row of leave_requests, once there, stays that of its enrolment and session.
LEMMA RowsStay ==
  ASSUME LeaveInv, [Next]_leaveVars
  PROVE  \A l \in Leave : status[l] # "none" =>
           status'[l] # "none" /\ of'[l] = of[l] /\ session'[l] = session[l]
<1> USE DEF LeaveInv, LeaveTypes
<1>1. CASE UNCHANGED leaves
  BY <1>1 DEF leaves
<1>2. ASSUME NEW t \in Tx, Insert(t), ~Rollback(t)
      PROVE  \E l \in Leave : /\ status[l] = "none"
                              /\ \A k \in Leave \ {l} : status'[k] = status[k] /\ of'[k] = of[k]
                                                        /\ session'[k] = session[k]
  BY <1>2 DEF Insert, Unused
<1>3. ASSUME NEW t \in Tx, CommitDecision(t) \/ CommitCancel(t) \/ CommitMakeup(t)
      PROVE  /\ UNCHANGED <<of, session>>
             /\ \A l \in Leave : status'[l] = status[l] \/ status'[l] # "none"
  BY <1>3 DEF CommitDecision, CommitCancel, CommitMakeup
<1>4. ASSUME NEW l \in Leave, cancel_leave_request(l)
      PROVE  /\ UNCHANGED <<of, session>>
             /\ \A k \in Leave : status'[k] = status[k] \/ status'[k] # "none"
  BY <1>4 DEF cancel_leave_request
<1>5. ASSUME NEW e \in Enrolment, enrol(e) PROVE UNCHANGED leaves
  BY <1>5 DEF enrol
<1> QED
  BY <1>1, <1>2, <1>3, <1>4, <1>5, WhoWrites DEF leaveVars, leaves

\* Only the commit of its cancellation takes an active enrolment away.
LEMMA EnrolmentsStay ==
  ASSUME LeaveInv, [Next]_leaveVars
  PROVE  \A e \in Enrolment :
           /\ enrolled[e] # "none" => enrolled'[e] # "none"
           /\ enrolled[e] = "active" => \/ enrolled'[e] = "active"
                                        \/ \E t \in Tx : /\ pc[t] = "victims" /\ req[t].enrolment = e
                                                         /\ Finish(t)
<1> USE DEF LeaveInv, LeaveTypes
<1>1. CASE UNCHANGED enrolled
  BY <1>1
<1>2. ASSUME NEW t \in Tx, Insert(t) \/ CommitDecision(t) \/ CommitMakeup(t) PROVE UNCHANGED enrolled
  BY <1>2 DEF Insert, CommitDecision, CommitMakeup, Rollback, Database
<1>3. ASSUME NEW t \in Tx, CommitCancel(t)
      PROVE  /\ pc[t] = "victims" /\ Finish(t)
             /\ enrolled' = [enrolled EXCEPT ![req[t].enrolment] = "cancelled"]
  BY <1>3 DEF CommitCancel
<1>4. ASSUME NEW l \in Leave, cancel_leave_request(l) PROVE UNCHANGED enrolled
  BY <1>4 DEF cancel_leave_request
<1>5. ASSUME NEW e \in Enrolment, enrol(e)
      PROVE  enrolled[e] = "none" /\ enrolled' = [enrolled EXCEPT ![e] = "active"]
  BY <1>5 DEF enrol
<1> QED
  BY <1>1, <1>2, <1>3, <1>4, <1>5, WhoWrites DEF leaveVars, leaves

-----------------------------------------------------------------------------
\* What a request holds and waits for.
Kind(t) ==
  /\ DOMAIN req[t] = {"kind", "enrolment", "session", "leave"}
  /\ t \in Markings <=> pc[t] \in {"plan", "next", "upsert"}
Victims(t) ==
  pc[t] = "victims" =>
    /\ Active(req[t].enrolment)
    /\ \A l \in held[t] \cup todo[t] : l \in Leave /\ status[l] # "none" /\ of[l] = req[t].enrolment

\* An enrolment is cancelled by one transaction at a time, a session's room counted by one.
OneCancels == \A t, u \in Tx :
  pc[t] = "victims" /\ pc[u] = "victims" /\ req[t].enrolment = req[u].enrolment => t = u
OneInRoom == \A t, u \in Tx :
  pc[t] = "room" /\ pc[u] = "room" /\ req[t].session = req[u].session => t = u

WaitInv == OneCancels /\ OneInRoom /\ \A t \in Tx : Kind(t) /\ Victims(t)

\* Nobody holds or waits for anything at first.
LEMMA InitWait == Init => WaitInv
  BY DEF Init, WaitInv, OneCancels, OneInRoom, Kind, Markings, Victims, NoReq

\* A step of one transaction leaves the others where they are.
LEMMA StepAlone ==
  ASSUME LeaveInv, NEW t \in Tx, Ask(t) \/ Step(t) \/ Fail(t) PROVE Alone(t)
<1> USE DEF LeaveInv, LeaveTypes, Alone, Still
<1>1. CASE Finish(t)
  BY <1>1 DEF Finish
<1>2. CASE Ask(t)
  BY <1>2 DEF Ask, AskLeave, AskDecision, AskCancel, AskMakeup, AskMark, Begin
<1>3. ASSUME ~Finish(t), Step(t) PROVE Alone(t)
  <2>1. CASE LockLeave(t)
    BY <2>1, <1>3 DEF LockLeave, Rollback, Goto
  <2>2. CASE project_approved_leave(t)
    BY <2>2 DEF project_approved_leave, Goto, Write
  <2>3. CASE CancelEnrolment(t)
    BY <2>3, <1>3 DEF CancelEnrolment, Rollback, Goto
  <2>4. ASSUME NEW l \in Leave, CancelPending(t, l) PROVE Alone(t)
    BY <2>4 DEF CancelPending
  <2>5. CASE LockSource(t) \/ LockTarget(t) \/ plan(t)
    BY <2>5, <1>3 DEF LockSource, LockTarget, plan, Rollback, Goto
  <2>6. CASE Upsert(t)
    BY <2>6, <1>3 DEF Upsert, Rollback, Goto, Write
  <2>7. ASSUME NEW m \in todo[t], StartUpsert(t, m) PROVE Alone(t)
    BY <2>7 DEF StartUpsert, Goto
  <2> QED
    BY <1>3, <2>1, <2>2, <2>3, <2>4, <2>5, <2>6, <2>7
    DEF Step, Insert, CommitDecision, CommitCancel, CommitMakeup, CommitMark, Rollback
<1> QED
  BY <1>1, <1>2, <1>3 DEF Fail, Rollback

\* What t does to itself: it ends, it asks, or it goes on with what it asked.
LEMMA OwnKindAndVictims ==
  ASSUME LeaveInv, WaitInv, NEW t \in Tx, Ask(t) \/ Step(t) \/ Fail(t),
         \A l \in Leave : status[l] # "none" => status'[l] # "none" /\ of'[l] = of[l]
  PROVE  /\ Kind(t)' /\ Victims(t)'
         /\ pc'[t] = "victims" =>
              /\ req'[t].enrolment = req[t].enrolment
              /\ pc[t] = "victims" \/ EnrolmentLocked(t, req[t].enrolment) = {}
         /\ pc'[t] = "room" =>
              /\ req'[t].session = req[t].session
              /\ pc[t] = "room" \/ SessionLocked(t, req[t].session) = {}
<1> USE DEF LeaveInv, LeaveTypes, WaitInv
<1>1. CASE Finish(t)
  BY <1>1 DEF Finish, Kind, Markings, Victims, NoReq
<1>2. CASE Ask(t)
  <2> DEFINE Opens == Kind(t)' /\ Victims(t)' /\ pc'[t] \notin {"victims", "room"}
  <2>1. ASSUME NEW r, NEW label \in {"insert", "decide", "cancel", "source", "plan"}, Begin(t, r, label),
               DOMAIN r = {"kind", "enrolment", "session", "leave"}, r.kind = "mark" <=> label = "plan"
        PROVE  Opens
    BY <2>1 DEF Begin, Kind, Markings, Victims
  <2>2. ASSUME NEW e \in Enrolment, NEW s \in Session, AskLeave(t, e, s) PROVE Opens
    <3> DEFINE r == [NoReq EXCEPT !.kind = "create", !.enrolment = e, !.session = s]
    <3>1. Begin(t, r, "insert")
      BY <2>2 DEF AskLeave
    <3>2. /\ DOMAIN r = {"kind", "enrolment", "session", "leave"}
          /\ r.kind = "mark" <=> "insert" = "plan"
      BY DEF NoReq
    <3> HIDE DEF r
    <3> QED  BY <2>1, <3>1, <3>2
  <2>3. ASSUME NEW l \in Leave, NEW kind \in {"approve", "reject"}, AskDecision(t, l, kind) PROVE Opens
    <3> DEFINE r == [NoReq EXCEPT !.kind = kind, !.leave = l]
    <3>1. Begin(t, r, "decide")
      BY <2>3 DEF AskDecision
    <3>2. /\ DOMAIN r = {"kind", "enrolment", "session", "leave"}
          /\ r.kind = "mark" <=> "decide" = "plan"
      BY DEF NoReq
    <3> HIDE DEF r
    <3> QED  BY <2>1, <3>1, <3>2
  <2>4. ASSUME NEW e \in Enrolment, AskCancel(t, e) PROVE Opens
    <3> DEFINE r == [NoReq EXCEPT !.kind = "cancel", !.enrolment = e]
    <3>1. Begin(t, r, "cancel")
      BY <2>4 DEF AskCancel
    <3>2. /\ DOMAIN r = {"kind", "enrolment", "session", "leave"}
          /\ r.kind = "mark" <=> "cancel" = "plan"
      BY DEF NoReq
    <3> HIDE DEF r
    <3> QED  BY <2>1, <3>1, <3>2
  <2>5. ASSUME NEW l \in Leave, NEW s \in Session, AskMakeup(t, l, s) PROVE Opens
    <3> DEFINE r == [NoReq EXCEPT !.kind = "makeup", !.leave = l, !.session = s]
    <3>1. Begin(t, r, "source")
      BY <2>5 DEF AskMakeup
    <3>2. /\ DOMAIN r = {"kind", "enrolment", "session", "leave"}
          /\ r.kind = "mark" <=> "source" = "plan"
      BY DEF NoReq
    <3> HIDE DEF r
    <3> QED  BY <2>1, <3>1, <3>2
  <2>6. ASSUME NEW s \in Session, NEW marks \in Marks, AskMark(t, s, marks) PROVE Opens
    <3> DEFINE r == [NoReq EXCEPT !.kind = "mark", !.session = s]
    <3>1. Begin(t, r, "plan")
      BY <2>6 DEF AskMark
    <3>2. /\ DOMAIN r = {"kind", "enrolment", "session", "leave"}
          /\ r.kind = "mark" <=> "plan" = "plan"
      BY DEF NoReq
    <3> HIDE DEF r
    <3> QED  BY <2>1, <3>1, <3>2
  <2> QED
    BY <1>2, <2>2, <2>3, <2>4, <2>5, <2>6 DEF Ask
<1>3. ASSUME ~Finish(t), Step(t)
      PROVE  /\ Kind(t)' /\ Victims(t)'
             /\ pc'[t] = "victims" =>
                  /\ req'[t].enrolment = req[t].enrolment
                  /\ pc[t] = "victims" \/ EnrolmentLocked(t, req[t].enrolment) = {}
             /\ pc'[t] = "room" =>
                  /\ req'[t].session = req[t].session
                  /\ pc[t] = "room" \/ SessionLocked(t, req[t].session) = {}
  <2>1. CASE LockLeave(t) \/ LockSource(t)
    BY <2>1, <1>3 DEF LockLeave, LockSource, Rollback, Goto, AfterLock, Kind, Markings, Victims
  <2>2. CASE project_approved_leave(t)
    BY <2>2 DEF project_approved_leave, Goto, Kind, Markings, Victims
  <2>3. CASE CancelEnrolment(t)
    <3>1. /\ pc[t] = "cancel" /\ pc' = [pc EXCEPT ![t] = "victims"]
          /\ Active(req[t].enrolment) /\ EnrolmentLocked(t, req[t].enrolment) = {}
          /\ todo'[t] = {l \in Leave : of[l] = req[t].enrolment /\ status[l] = "pending"}
          /\ req' = req /\ held' = held /\ enrolled' = enrolled
      BY <2>3, <1>3 DEF CancelEnrolment, Rollback, Goto, Database
    <3>2. held[t] = {}
      BY <3>1 DEF Sound, StillSo, Holding
    <3>3. Kind(t)'
      BY <3>1 DEF Kind, Markings
    <3>4. Victims(t)'
      BY <3>1, <3>2 DEF Victims, Active
    <3> QED  BY <3>1, <3>3, <3>4
  <2>4. ASSUME NEW l \in Leave, CancelPending(t, l)
        PROVE  /\ Kind(t)' /\ Victims(t)' /\ pc[t] = "victims" /\ pc' = pc /\ req' = req
    <3>1. /\ pc[t] = "victims" /\ pc' = pc /\ req' = req /\ enrolled' = enrolled
          /\ l \in todo[t] /\ todo'[t] = todo[t] \ {l} /\ held'[t] \subseteq held[t] \cup {l}
      BY <2>4 DEF CancelPending, Database
    <3> QED  BY <3>1 DEF Kind, Markings, Victims, Active
  <2>5. CASE LockTarget(t)
    BY <2>5, <1>3 DEF LockTarget, Rollback, Goto, Kind, Markings, Victims
  <2>6. CASE plan(t)
    BY <2>6, <1>3 DEF plan, Rollback, Goto, Kind, Markings, Victims
  <2>7. ASSUME pc[t] \in {"next", "upsert"}, pc'[t] \in {"next", "upsert"},
               NEW n, req' = [req EXCEPT ![t].enrolment = n]
        PROVE  Kind(t)' /\ Victims(t)'
    <3>1. req'[t] = [req[t] EXCEPT !.enrolment = n]
      BY <2>7
    <3>2. DOMAIN req'[t] = DOMAIN req[t] /\ req'[t].kind = req[t].kind
      BY <3>1 DEF Kind
    <3> QED  BY <2>7, <3>2 DEF Kind, Markings, Victims
  <2>8. CASE Upsert(t)
    BY <2>7, <2>8, <1>3 DEF Upsert, Rollback, Goto
  <2>9. ASSUME NEW m \in todo[t], StartUpsert(t, m)
        PROVE  Kind(t)' /\ Victims(t)' /\ pc'[t] = "upsert"
    BY <2>7, <2>9 DEF StartUpsert, Goto
  <2> QED
    BY <1>3, <2>1, <2>2, <2>3, <2>4, <2>5, <2>6, <2>8, <2>9
    DEF Step, Insert, CommitDecision, CommitCancel, CommitMakeup, CommitMark, Rollback
<1> QED
  BY <1>1, <1>2, <1>3 DEF Fail, Rollback

\* The requests that a step is not of keep what they hold and wait for.
LEMMA OthersKindAndVictims ==
  ASSUME LeaveInv, WaitInv, [Next]_leaveVars, NEW u \in Tx, Still(u),
         pc[u] = "victims" => Active(req[u].enrolment)'
  PROVE  Kind(u)' /\ Victims(u)'
<1>1. Kind(u)'
  BY DEF WaitInv, Kind, Markings, Still
<1>2. Victims(u)'
  BY RowsStay DEF WaitInv, Victims, Still
<1> QED
  BY <1>1, <1>2

\* No step hands a lock to a second transaction.
LEMMA NextWait == ASSUME LeaveInv, WaitInv, [Next]_leaveVars PROVE WaitInv'
<1> USE DEF WaitInv
<1>1. ASSUME NEW t \in Tx, Ask(t) \/ Step(t) \/ Fail(t) PROVE WaitInv'
  <2>1. Alone(t)
    BY <1>1, StepAlone
  <2>2. \A l \in Leave : status[l] # "none" => status'[l] # "none" /\ of'[l] = of[l]
    BY RowsStay
  <2>3. /\ Kind(t)' /\ Victims(t)'
        /\ pc'[t] = "victims" =>
             /\ req'[t].enrolment = req[t].enrolment
             /\ pc[t] = "victims" \/ EnrolmentLocked(t, req[t].enrolment) = {}
        /\ pc'[t] = "room" =>
             /\ req'[t].session = req[t].session
             /\ pc[t] = "room" \/ SessionLocked(t, req[t].session) = {}
    BY <1>1, <2>2, OwnKindAndVictims
  <2>4. ASSUME NEW u \in Tx \ {t} PROVE Kind(u)' /\ Victims(u)'
    <3>1. ASSUME pc[u] = "victims" PROVE Active(req[u].enrolment)'
      <4>1. req[u].enrolment \in Enrolment /\ Active(req[u].enrolment) /\ req'[u] = req[u] /\ pc'[u] = pc[u]
        BY <2>1, <3>1 DEF LeaveInv, Sound, Asked, Victims, Alone, Still
      <4>2. ASSUME NEW v \in Tx, pc[v] = "victims", req[v].enrolment = req[u].enrolment, Finish(v)
            PROVE  FALSE
        <5>1. u = v
          BY <3>1, <4>2 DEF OneCancels
        <5> QED  BY <3>1, <4>1, <4>2, <5>1 DEF Finish, LeaveInv, LeaveTypes
      <4> QED  BY <4>1, <4>2, EnrolmentsStay DEF Active
    <3> QED  BY <2>1, <3>1, OthersKindAndVictims DEF Alone
  <2>5. OneCancels'
    BY <2>1, <2>3 DEF OneCancels, EnrolmentLocked, Alone, Still
  <2>6. OneInRoom'
    BY <2>1, <2>3 DEF OneInRoom, SessionLocked, Alone, Still
  <2> QED  BY <2>3, <2>4, <2>5, <2>6
<1>2. ASSUME UNCHANGED locals, \A u \in Tx : pc[u] = "victims" => Active(req[u].enrolment)' PROVE WaitInv'
  <2>1. \A u \in Tx : Kind(u)' /\ Victims(u)'
    BY <1>2, OthersKindAndVictims DEF Still, locals
  <2> QED  BY <1>2, <2>1 DEF OneCancels, OneInRoom, locals
<1>3. \A u \in Tx : pc[u] = "victims" => req[u].enrolment \in Enrolment /\ Active(req[u].enrolment)
  BY DEF LeaveInv, Sound, Asked, Victims
<1>4. ASSUME NEW l \in Leave, cancel_leave_request(l) PROVE WaitInv'
  BY <1>2, <1>3, <1>4 DEF cancel_leave_request, locals, Active
<1>5. ASSUME NEW e \in Enrolment, enrol(e) PROVE WaitInv'
  BY <1>2, <1>3, <1>5 DEF enrol, locals, Active, LeaveInv, LeaveTypes
<1>6. ASSUME NEW s \in Session, Begins(s) PROVE WaitInv'
  BY <1>2, <1>3, <1>6 DEF Begins, locals, Active
<1>7. CASE UNCHANGED leaveVars
  BY <1>2, <1>3, <1>7 DEF leaveVars, locals, Active
<1> QED
  BY <1>1, <1>4, <1>5, <1>6, <1>7 DEF Next

LEMMA WaitInvariant == Spec => []WaitInv
  BY InitWait, NextWait, LeaveInvariant, PTL DEF Spec

-----------------------------------------------------------------------------
\* Who can be in the way: whoever is waited for holds a leave, is writing attendance,
\* is counting a session's room or is cancelling an enrolment.
LEMMA WhoBlocks ==
  ASSUME LeaveInv, WaitInv, NEW t \in Tx, NEW u \in Blockers(t)
  PROVE  /\ u \in Tx \ {t}
         /\ pc[t] \in {"insert", "decide", "source", "project", "target", "cancel", "victims", "upsert"}
         /\ pc[t] \in {"project", "target", "upsert"} =>
              pc[u] = "room" \/ pc[u] = "decided" \/ u \in Markings
         /\ pc[u] \in Holding \/ u \in Markings
         /\ pc[t] = "victims" => pc[u] # "victims"
<1> USE DEF LeaveInv, LeaveTypes, WaitInv
<1>1. \A l \in Leave : u \in LeaveLocked(t, l) => u \in Tx \ {t} /\ l \in held[u] /\ pc[u] \in Holding
  BY DEF LeaveLocked, Sound, StillSo
<1>2. ASSUME NEW x, u \in RowLocked(t, x) PROVE u \in Tx \ {t} /\ (pc[u] = "decided" \/ u \in Markings)
  BY <1>2 DEF RowLocked, Sound, WritesAgree, Kind
<1>3. ASSUME NEW s, u \in SessionLocked(t, s) PROVE u \in Tx \ {t} /\ pc[u] = "room"
  BY <1>3 DEF SessionLocked
<1>4. ASSUME NEW s, u \in SessionShared(t, s) PROVE u \in Tx \ {t} /\ (pc[u] = "decided" \/ u \in Markings)
  BY <1>4 DEF SessionShared, Sound, WritesAgree, Kind
<1>5. ASSUME NEW e, u \in EnrolmentLocked(t, e) PROVE u \in Tx \ {t} /\ pc[u] = "victims"
  BY <1>5 DEF EnrolmentLocked
<1>6. CASE pc[t] = "insert"
  <2>1. u \in SessionLocked(t, req[t].session) \/ \E l \in Leave : u \in LeaveLocked(t, l)
    BY <1>6 DEF Blockers, Live
  <2> QED  BY <1>1, <1>3, <1>6, <2>1 DEF Holding
<1>7. CASE pc[t] \in {"decide", "source"}
  <2>1. u \in LeaveLocked(t, req[t].leave) /\ req[t].leave \in Leave
    BY <1>7 DEF Blockers, Sound, Asked
  <2> QED  BY <1>1, <1>7, <2>1 DEF Holding
<1>8. CASE pc[t] \in {"project", "upsert"}
  <2>1. (\E x : u \in RowLocked(t, x)) \/ (\E s : u \in SessionLocked(t, s))
    BY <1>8 DEF Blockers
  <2> QED  BY <1>2, <1>3, <1>8, <2>1 DEF Holding
<1>9. CASE pc[t] = "target"
  <2>1. u \in SessionLocked(t, req[t].session) \cup SessionShared(t, req[t].session)
    BY <1>9 DEF Blockers
  <2> QED  BY <1>3, <1>4, <1>9, <2>1 DEF Holding
<1>10. CASE pc[t] = "cancel"
  <2>1. u \in EnrolmentLocked(t, req[t].enrolment)
    BY <1>10 DEF Blockers
  <2> QED  BY <1>5, <1>10, <2>1 DEF Holding
<1>11. CASE pc[t] = "victims"
  <2>1. PICK l \in todo[t] : u \in LeaveLocked(t, l)
    BY <1>11 DEF Blockers
  <2>2. l \in Leave /\ of[l] = req[t].enrolment
    BY <1>11, <2>1 DEF Victims
  <2>3. u \in Tx \ {t} /\ l \in held[u] /\ pc[u] \in Holding
    BY <1>1, <2>1, <2>2
  <2>4. pc[u] # "victims"
    BY <1>11, <2>2, <2>3 DEF Victims, OneCancels
  <2> QED  BY <1>11, <2>3, <2>4
<1> QED
  <2>1. pc[t] \notin {"insert", "decide", "source", "project", "target", "cancel", "victims", "upsert"}
          => Blockers(t) = {}
    BY DEF Blockers, Label
  <2> QED  BY <1>6, <1>7, <1>8, <1>9, <1>10, <1>11, <2>1

\* ADR-0008, addendum of 2026-09-27: a cancellation that waits for leaves waits for a
\* decision or a makeup, and those wait only for markings; whoever waits in vain waits
\* for markings that wait for each other.
THEOREM OnlyMarkingsRing == Spec => []RingsAreMarkings
<1>1. ASSUME LeaveInv, WaitInv PROVE RingsAreMarkings
  <2> SUFFICES ASSUME NEW S \in SUBSET Tx, Stuck(S) PROVE Stuck(S \cap Markings)
    BY DEF RingsAreMarkings
  <2>1. \A t \in S : \E u \in S : u \in Blockers(t)
    BY DEF Stuck
  <2>2. \A t \in S : pc[t] \notin {"room", "decided"}
    BY <1>1, <2>1, WhoBlocks
  <2>3. \A t \in S : pc[t] \in {"project", "target", "upsert"} =>
          \E u \in S : u \in Blockers(t) /\ u \in Markings
    BY <1>1, <2>1, <2>2, WhoBlocks
  <2>4. \A t \in S : t \in Markings => pc[t] = "upsert"
    BY <1>1, <2>1, WhoBlocks DEF WaitInv, Kind
  <2>5. \A t \in S : \E u \in S : u \in Markings
    <3> SUFFICES ASSUME NEW t \in S, \A u \in S : u \notin Markings PROVE FALSE
      OBVIOUS
    <3>1. \A u \in S : pc[u] \notin {"project", "target"}
      BY <2>3
    <3>2. \A u, v \in S : v \in Blockers(u) => pc[v] = "victims" /\ pc[u] # "victims"
      BY <1>1, <2>2, <3>1, WhoBlocks DEF Holding
    <3> QED  BY <2>1, <3>2
  <2>6. S \cap Markings # {}
    BY <2>5 DEF Stuck
  <2>7. \A t \in S \cap Markings : Blockers(t) \cap (S \cap Markings) # {}
    BY <2>3, <2>4
  <2> QED  BY <2>6, <2>7 DEF Stuck
<1> QED
  BY <1>1, LeaveInvariant, WaitInvariant, PTL

-----------------------------------------------------------------------------
\* A member has one live request for a session (uniq_leave_requests_active), so that a
\* cancelled enrolment gives its seat back and frees at most one less.
OneLive == \A e \in Enrolment, s \in Session : \A k, l \in Live(e, s) : k = l

\* Leaves are asked for by members who bought the course.
Bought == /\ \A l \in Leave : status[l] # "none" => enrolled[of[l]] # "none"
          /\ \A t \in Tx : pc[t] = "insert" => enrolled[req[t].enrolment] # "none"

MakeupsApproved == \A l \in Leave : makeup[l] # None => status[l] = "approved"

\* Whoever has counted a session's room keeps a seat of it.
InRoom(s) == \E t \in Tx : pc[t] = "room" /\ req[t].session = s
SeatsKept ==
  \A s \in Session \ squeezed :
    /\ MadeUp(s) # {} => remaining(s) >= 0
    /\ InRoom(s) => remaining(s) >= 1

SeatInv == OneLive /\ Bought /\ MakeupsApproved /\ SeatsKept

\* No leave has been asked for at first.
LEMMA InitSeats == Init => SeatInv
<1> SUFFICES ASSUME Init PROVE SeatInv
  OBVIOUS
<1>1. OneLive
  BY DEF Init, OneLive, Live
<1>2. Bought /\ MakeupsApproved
  BY DEF Init, Bought, MakeupsApproved
<1>3. \A s \in Session : MadeUp(s) = {} /\ ~InRoom(s)
  BY LeaveAssumption DEF Init, MadeUp, InRoom, LeaveAssumption
<1> QED
  BY <1>1, <1>2, <1>3 DEF SeatInv, SeatsKept

\* The index refuses a second live request.
LEMMA NextLive == ASSUME LeaveInv, OneLive, [Next]_leaveVars PROVE OneLive'
<1> USE DEF LeaveInv, LeaveTypes
<1>1. ASSUME \A l \in Leave : status'[l] \in {"pending", "approved"} =>
               /\ status[l] \in {"pending", "approved"} /\ of'[l] = of[l] /\ session'[l] = session[l]
      PROVE  OneLive'
  BY <1>1 DEF OneLive, Live
<1>2. CASE UNCHANGED leaves
  BY <1>1, <1>2 DEF leaves
<1>3. ASSUME NEW t \in Tx, Insert(t), ~Rollback(t) PROVE OneLive'
  <2>1. PICK l \in Unused :
          /\ Live(req[t].enrolment, req[t].session) = {}
          /\ status' = [status EXCEPT ![l] = "pending"] /\ of' = [of EXCEPT ![l] = req[t].enrolment]
          /\ session' = [session EXCEPT ![l] = req[t].session]
    BY <1>3 DEF Insert
  <2>2. l \in Leave /\ status[l] = "none" /\ of'[l] = req[t].enrolment /\ session'[l] = req[t].session
    BY <2>1 DEF Unused
  <2>3. \A k \in Leave \ {l} : status'[k] = status[k] /\ of'[k] = of[k] /\ session'[k] = session[k]
    BY <2>1
  <2> QED  BY <2>1, <2>2, <2>3 DEF OneLive, Live
<1>4. ASSUME NEW t \in Tx, CommitDecision(t) PROVE OneLive'
  <2>1. req[t].leave \in Leave /\ status[req[t].leave] = "pending"
    BY <1>4 DEF CommitDecision, Sound, Asked, StillSo
  <2> QED  BY <1>1, <1>4, <2>1 DEF CommitDecision
<1>5. ASSUME NEW t \in Tx, CommitCancel(t) \/ CommitMakeup(t) PROVE OneLive'
  BY <1>1, <1>5 DEF CommitCancel, CommitMakeup
<1>6. ASSUME NEW l \in Leave, cancel_leave_request(l) PROVE OneLive'
  BY <1>1, <1>6 DEF cancel_leave_request
<1>7. ASSUME NEW e \in Enrolment, enrol(e) PROVE OneLive'
  BY <1>2, <1>7 DEF enrol
<1> QED
  BY <1>2, <1>3, <1>4, <1>5, <1>6, <1>7, WhoWrites DEF leaveVars, leaves

\* Neither leaves nor makeups come before what they need.
LEMMA NextBought == ASSUME LeaveInv, Bought, MakeupsApproved, [Next]_leaveVars
                    PROVE  Bought' /\ MakeupsApproved'
<1> USE DEF LeaveInv, LeaveTypes
<1>1. \A e \in Enrolment : enrolled[e] # "none" => enrolled'[e] # "none"
  BY EnrolmentsStay
<1>2. ASSUME NEW t \in Tx, pc'[t] = "insert" PROVE enrolled'[req'[t].enrolment] # "none"
  <2>1. CASE pc[t] = "insert" /\ req'[t] = req[t]
    BY <1>1, <2>1 DEF Bought, Sound, Asked
  <2>2. CASE Ask(t)
    <3>1. PICK e \in Enrolment, s \in Session : AskLeave(t, e, s)
      BY <1>2, <2>2 DEF Ask, AskDecision, AskCancel, AskMakeup, AskMark, Begin
    <3> QED  BY <1>2, <3>1 DEF AskLeave, Begin, NoReq, Active, Database
  <2>3. ASSUME NEW u \in Tx, Ask(u) \/ Step(u) \/ Fail(u), u # t PROVE pc[t] = "insert" /\ req'[t] = req[t]
    BY <1>2, <2>3, StepAlone DEF Alone, Still
  <2>4. CASE Step(t) \/ Fail(t)
    <3>1. pc'[t] # "insert"
      BY <2>4 DEF Step, Fail, Rollback, Finish, Insert, LockLeave, AfterLock, project_approved_leave,
         CommitDecision, CancelEnrolment, CancelPending, CommitCancel, LockSource, LockTarget,
         CommitMakeup, plan, Upsert, CommitMark, StartUpsert, Goto
    <3> QED  BY <1>2, <3>1
  <2>5. UNCHANGED locals => pc[t] = "insert" /\ req'[t] = req[t]
    BY <1>2 DEF locals
  <2>6. (\E u \in Tx : Ask(u) \/ Step(u) \/ Fail(u)) \/ UNCHANGED locals
    BY DEF Next, cancel_leave_request, enrol, Begins, leaveVars
  <2> QED  BY <2>1, <2>2, <2>3, <2>4, <2>5, <2>6
<1>3. ASSUME \A l \in Leave : /\ status'[l] # "none" => status[l] # "none" /\ of'[l] = of[l]
                              /\ status[l] = "approved" => status'[l] = "approved",
             UNCHANGED makeup
      PROVE  Bought' /\ MakeupsApproved'
  <2>1. \A l \in Leave : status[l] # "none" => enrolled[of[l]] # "none" /\ of[l] \in Enrolment
    BY DEF Bought, RowsNameBoth
  <2> QED  BY <1>1, <1>2, <1>3, <2>1 DEF Bought, MakeupsApproved
<1>4. CASE UNCHANGED leaves
  BY <1>3, <1>4 DEF leaves
<1>5. ASSUME NEW t \in Tx, Insert(t), ~Rollback(t) PROVE Bought' /\ MakeupsApproved'
  <2>1. PICK l \in Unused :
          /\ status' = [status EXCEPT ![l] = "pending"] /\ of' = [of EXCEPT ![l] = req[t].enrolment]
          /\ UNCHANGED <<makeup, enrolled>>
    BY <1>5 DEF Insert
  <2>2. l \in Leave /\ status[l] = "none" /\ of'[l] = req[t].enrolment
    BY <2>1 DEF Unused
  <2>3. enrolled[req[t].enrolment] # "none"
    BY <1>5 DEF Insert, Bought
  <2>4. \A k \in Leave \ {l} : status'[k] = status[k] /\ of'[k] = of[k]
    BY <2>1
  <2> QED  BY <1>2, <2>1, <2>2, <2>3, <2>4 DEF Bought, MakeupsApproved
<1>6. ASSUME NEW t \in Tx, CommitDecision(t) PROVE Bought' /\ MakeupsApproved'
  <2>1. req[t].leave \in Leave /\ status[req[t].leave] = "pending"
    BY <1>6 DEF CommitDecision, Sound, Asked, StillSo
  <2> QED  BY <1>3, <1>6, <2>1 DEF CommitDecision
<1>7. ASSUME NEW t \in Tx, CommitCancel(t) PROVE Bought' /\ MakeupsApproved'
  <2>1. \A l \in held[t] : status[l] = "pending"
    BY <1>7 DEF CommitCancel, Sound, StillSo
  <2> QED  BY <1>3, <1>7, <2>1 DEF CommitCancel
<1>8. ASSUME NEW t \in Tx, CommitMakeup(t) PROVE Bought' /\ MakeupsApproved'
  <2>1. /\ req[t].leave \in Leave /\ status[req[t].leave] = "approved"
        /\ makeup' = [makeup EXCEPT ![req[t].leave] = req[t].session] /\ UNCHANGED <<enrolled, status, of>>
    BY <1>8 DEF CommitMakeup, Sound, Asked, StillSo
  <2> QED  BY <1>2, <2>1 DEF Bought, MakeupsApproved
<1>9. ASSUME NEW l \in Leave, cancel_leave_request(l) PROVE Bought' /\ MakeupsApproved'
  BY <1>3, <1>9 DEF cancel_leave_request
<1>10. ASSUME NEW e \in Enrolment, enrol(e) PROVE Bought' /\ MakeupsApproved'
  BY <1>4, <1>10 DEF enrol
<1> QED
  BY <1>4, <1>5, <1>6, <1>7, <1>8, <1>9, <1>10, WhoWrites DEF leaveVars, leaves

\* The seats of a course and of a session are counted over finitely many rows.
LEMMA SeatsAreCounted ==
  ASSUME NEW s \in Session
  PROVE  /\ IsFiniteSet(Taken) /\ IsFiniteSet(Freed(s)) /\ IsFiniteSet(MadeUp(s))
         /\ Cardinality(Taken) \in Nat /\ Cardinality(Freed(s)) \in Nat /\ Cardinality(MadeUp(s)) \in Nat
         /\ Cardinality(Taken)' \in Nat /\ Cardinality(Freed(s))' \in Nat /\ Cardinality(MadeUp(s))' \in Nat
         /\ IsFiniteSet(Taken)' /\ IsFiniteSet(Freed(s))' /\ IsFiniteSet(MadeUp(s))'
         /\ max_students \in Nat
<1>1. /\ \A S \in SUBSET Enrolment : IsFiniteSet(S) /\ Cardinality(S) \in Nat
      /\ \A S \in SUBSET Leave : IsFiniteSet(S) /\ Cardinality(S) \in Nat
  BY LeaveAssumption, FS_Subset, FS_CardinalityType DEF LeaveAssumption
<1>2. /\ Taken \in SUBSET Enrolment /\ Freed(s) \in SUBSET Leave /\ MadeUp(s) \in SUBSET Leave
      /\ Taken' \in SUBSET Enrolment /\ Freed(s)' \in SUBSET Leave /\ MadeUp(s)' \in SUBSET Leave
  BY DEF Taken, Freed, MadeUp
<1> QED
  BY <1>1, <1>2, LeaveAssumption DEF LeaveAssumption

\* One member less, and at most one more.
LEMMA OneLess ==
  ASSUME NEW S, IsFiniteSet(S), NEW x \in S PROVE Cardinality(S \ {x}) = Cardinality(S) - 1
  BY FS_RemoveElement

LEMMA OneMore ==
  ASSUME NEW S, IsFiniteSet(S), NEW x
  PROVE  /\ IsFiniteSet(S \cup {x}) /\ Cardinality(S \cup {x}) <= Cardinality(S) + 1
         /\ Cardinality(S \cup {x}) \in Nat
<1>1. Cardinality(S) \in Nat
  BY FS_CardinalityType
<1> QED
  BY <1>1, FS_AddElement

\* Nothing takes a seat: there are no more enrolments and makeups, and no fewer leaves.
LEMMA SeatsStay ==
  ASSUME NEW s \in Session, Taken' = Taken, Freed(s) \subseteq Freed(s)', MadeUp(s)' = MadeUp(s)
  PROVE  remaining(s)' >= remaining(s) /\ remaining(s)' \in Int /\ remaining(s) \in Int
<1>1. Cardinality(Freed(s)) <= Cardinality(Freed(s)')
  BY SeatsAreCounted, FS_Subset
<1> QED
  BY <1>1, SeatsAreCounted DEF remaining

\* Whoever newly stands in a session's room has just counted it.
LEMMA RoomIsCounted ==
  ASSUME LeaveInv, NEW t \in Tx, Ask(t) \/ Step(t) \/ Fail(t), pc'[t] = "room"
  PROVE  /\ UNCHANGED Database /\ req' = req /\ pc[t] = "target"
         /\ ~(remaining(req[t].session) <= 0)
<1> USE DEF LeaveInv, LeaveTypes
<1>1. ~Ask(t)
  BY DEF Ask, AskLeave, AskDecision, AskCancel, AskMakeup, AskMark, Begin
<1>2. ~Finish(t)
  BY DEF Finish
<1>3. Step(t)
  BY <1>1, <1>2 DEF Fail, Rollback
<1>4. LockTarget(t)
  BY <1>2, <1>3 DEF Step, Rollback, Insert, LockLeave, AfterLock, project_approved_leave, CommitDecision,
     CancelEnrolment, CancelPending, CommitCancel, LockSource, CommitMakeup, plan, Upsert, CommitMark,
     StartUpsert, Goto
<1> QED
  BY <1>2, <1>4 DEF LockTarget, Rollback

\* Who is in a session's room stays there, or has just come, or the step is another's.
LEMMA RoomFollows ==
  ASSUME LeaveInv, [Next]_leaveVars, NEW s \in Session, InRoom(s)'
  PROVE  InRoom(s) \/ (UNCHANGED Database /\ ~(remaining(s) <= 0))
<1>1. PICK t \in Tx : pc'[t] = "room" /\ req'[t].session = s
  BY DEF InRoom
<1>2. CASE pc[t] = "room" /\ req[t] = req'[t]
  BY <1>1, <1>2 DEF InRoom
<1>3. CASE UNCHANGED locals
  BY <1>1, <1>2, <1>3 DEF locals
<1>4. ASSUME NEW u \in Tx, Ask(u) \/ Step(u) \/ Fail(u), u # t PROVE pc[t] = "room" /\ req[t] = req'[t]
  BY <1>1, <1>4, StepAlone DEF Alone, Still
<1>5. CASE Ask(t) \/ Step(t) \/ Fail(t)
  BY <1>1, <1>5, RoomIsCounted
<1> QED
  BY <1>2, <1>3, <1>4, <1>5 DEF Next, cancel_leave_request, enrol, Begins, leaveVars

\* No step takes the seat that a makeup has, or that a request in the room counts on: a
\* cancellation gives one back and unfrees at most one, a makeup takes the one counted.
LEMMA NextSeats ==
  ASSUME LeaveInv, LeaveInv', WaitInv, SeatInv, [Next]_leaveVars PROVE SeatsKept'
<1> USE DEF LeaveInv, LeaveTypes
<1> SUFFICES ASSUME NEW s \in Session, s \notin squeezed'
             PROVE  /\ MadeUp(s)' # {} => remaining(s)' >= 0
                    /\ InRoom(s)' => remaining(s)' >= 1
  BY DEF SeatsKept
<1>0. squeezed \subseteq squeezed'
  <2>1. ASSUME NEW t \in Tx, Insert(t) \/ CommitDecision(t) \/ CommitCancel(t) \/ CommitMakeup(t)
        PROVE  UNCHANGED squeezed
    BY <2>1 DEF Insert, CommitDecision, CommitCancel, CommitMakeup, Rollback, Database, history
  <2>2. ASSUME NEW l \in Leave, cancel_leave_request(l) PROVE UNCHANGED squeezed
    BY <2>2 DEF cancel_leave_request, history
  <2>3. ASSUME NEW e \in Enrolment, enrol(e) PROVE squeezed \subseteq squeezed'
    BY <2>3 DEF enrol
  <2> QED  BY <2>1, <2>2, <2>3, WhoWrites DEF leaveVars, history
<1>1. (MadeUp(s) # {} => remaining(s) >= 0) /\ (InRoom(s) => remaining(s) >= 1)
  BY <1>0 DEF SeatInv, SeatsKept
<1>2. remaining(s) \in Int /\ remaining(s)' \in Int
  BY SeatsAreCounted DEF remaining
<1>3. ASSUME Taken' = Taken, Freed(s) \subseteq Freed(s)', MadeUp(s)' = MadeUp(s)
      PROVE  /\ MadeUp(s)' # {} => remaining(s)' >= 0
             /\ InRoom(s)' => remaining(s)' >= 1
  <2>1. remaining(s)' >= remaining(s)
    BY <1>3, SeatsStay
  <2>2. InRoom(s)' => remaining(s) >= 1
    BY <1>1, <1>2, RoomFollows
  <2> QED  BY <1>1, <1>2, <1>3, <2>1, <2>2
<1>4. CASE UNCHANGED <<enrolled, leaves, squeezed>>
  <2>1. Taken' = Taken /\ Freed(s)' = Freed(s) /\ MadeUp(s)' = MadeUp(s)
    BY <1>4 DEF Taken, Freed, MadeUp, Active, leaves
  <2> QED  BY <1>3, <2>1
<1>5. ASSUME NEW t \in Tx, Insert(t), ~Rollback(t)
      PROVE  Taken' = Taken /\ Freed(s)' = Freed(s) /\ MadeUp(s)' = MadeUp(s)
  <2>1. PICK l \in Unused :
          /\ status' = [status EXCEPT ![l] = "pending"] /\ of' = [of EXCEPT ![l] = req[t].enrolment]
          /\ session' = [session EXCEPT ![l] = req[t].session]
          /\ UNCHANGED <<makeup, enrolled>>
    BY <1>5 DEF Insert
  <2>2. l \in Leave /\ status[l] = "none" /\ status'[l] = "pending" /\ makeup[l] # s
    BY <2>1, LeaveAssumption DEF Unused, SeatInv, MakeupsApproved, LeaveAssumption
  <2>3. \A k \in Leave \ {l} : status'[k] = status[k] /\ of'[k] = of[k] /\ session'[k] = session[k]
    BY <2>1
  <2> QED  BY <2>1, <2>2, <2>3 DEF Taken, Freed, MadeUp, Active
<1>6. ASSUME NEW t \in Tx, CommitDecision(t)
      PROVE  Taken' = Taken /\ Freed(s) \subseteq Freed(s)' /\ MadeUp(s)' = MadeUp(s)
  <2>1. req[t].leave \in Leave /\ status[req[t].leave] = "pending"
    BY <1>6 DEF CommitDecision, Sound, Asked, StillSo
  <2> QED  BY <1>6, <2>1 DEF CommitDecision, Taken, Freed, MadeUp, Active
<1>7. ASSUME NEW l \in Leave, cancel_leave_request(l)
      PROVE  Taken' = Taken /\ Freed(s) \subseteq Freed(s)' /\ MadeUp(s)' = MadeUp(s)
  BY <1>7 DEF cancel_leave_request, Taken, Freed, MadeUp, Active
<1>8. ASSUME NEW t \in Tx, CommitCancel(t)
      PROVE  /\ MadeUp(s)' # {} => remaining(s)' >= 0
             /\ InRoom(s)' => remaining(s)' >= 1
  <2> DEFINE e == req[t].enrolment
  <2>1. /\ enrolled' = [enrolled EXCEPT ![e] = "cancelled"] /\ e \in Enrolment /\ Active(e)
        /\ \A l \in Leave : status[l] = "approved" => status'[l] = "approved"
        /\ \A l \in Leave : status'[l] = "approved" => status[l] = "approved"
        /\ UNCHANGED <<of, session, makeup>>
    BY <1>8 DEF CommitCancel, Sound, Asked, StillSo, WaitInv, Victims
  <2>2. Taken' = Taken \ {e} /\ e \in Taken
    BY <2>1 DEF Taken, Active
  <2>3. Cardinality(Taken') = Cardinality(Taken) - 1
    BY <2>2, SeatsAreCounted, OneLess
  <2>4. MadeUp(s)' \subseteq MadeUp(s)
    BY <2>1 DEF MadeUp, Active
  <2>5. Cardinality(MadeUp(s)') <= Cardinality(MadeUp(s))
    BY <2>4, SeatsAreCounted, FS_Subset
  <2>6. Freed(s)' = Freed(s) \ Live(e, s)
    BY <2>1 DEF Freed, Live, Active
  <2>7. Cardinality(Freed(s)') >= Cardinality(Freed(s)) - 1
    <3>1. CASE Freed(s)' = Freed(s)
      BY <3>1, SeatsAreCounted
    <3>2. CASE Freed(s)' # Freed(s)
      <4>1. PICK l \in Freed(s) : l \in Live(e, s)
        BY <2>6, <3>2
      <4>2. Freed(s)' = Freed(s) \ {l}
        BY <2>1, <2>6, <4>1 DEF SeatInv, OneLive
      <4> QED  BY <4>1, <4>2, SeatsAreCounted, OneLess
    <3> QED  BY <3>1, <3>2
  <2>8. remaining(s)' >= remaining(s)
    BY <2>3, <2>5, <2>7, SeatsAreCounted DEF remaining
  <2>9. InRoom(s)' => InRoom(s)
    BY <1>8, RoomFollows, <2>1 DEF Database, Active
  <2> QED  BY <1>1, <1>2, <2>4, <2>8, <2>9
<1>9. ASSUME NEW t \in Tx, CommitMakeup(t)
      PROVE  /\ MadeUp(s)' # {} => remaining(s)' >= 0
             /\ InRoom(s)' => remaining(s)' >= 1
  <2> DEFINE k == req[t].leave
  <2>1. /\ pc[t] = "room" /\ k \in Leave /\ makeup[k] = None /\ req[t].session \in Session
        /\ makeup' = [makeup EXCEPT ![k] = req[t].session]
        /\ UNCHANGED <<enrolled, status, of, session>> /\ Finish(t)
    BY <1>9 DEF CommitMakeup, Sound, Asked, StillSo
  <2>2. Taken' = Taken /\ Freed(s)' = Freed(s)
    BY <2>1 DEF Taken, Freed, Active
  <2>3. CASE req[t].session # s
    <3>1. MadeUp(s)' = MadeUp(s)
      BY <2>1, <2>3, LeaveAssumption DEF MadeUp, Active, LeaveAssumption
    <3> QED  BY <1>3, <2>2, <3>1
  <2>4. CASE req[t].session = s
    <3>1. MadeUp(s)' \subseteq MadeUp(s) \cup {k}
      BY <2>1 DEF MadeUp, Active
    <3>2. /\ IsFiniteSet(MadeUp(s) \cup {k}) /\ Cardinality(MadeUp(s) \cup {k}) <= Cardinality(MadeUp(s)) + 1
          /\ Cardinality(MadeUp(s) \cup {k}) \in Nat
      BY SeatsAreCounted, OneMore
    <3>3. Cardinality(MadeUp(s)') <= Cardinality(MadeUp(s) \cup {k})
      BY <3>1, <3>2, FS_Subset
    <3>5. remaining(s)' >= remaining(s) - 1
      BY <2>2, <3>2, <3>3, SeatsAreCounted DEF remaining
    <3>6. remaining(s) >= 1
      BY <1>1, <2>1, <2>4 DEF InRoom
    <3>7. ~InRoom(s)'
      <4>1. Alone(t)
        BY <2>1, Finished
      <4>2. pc'[t] = "idle"
        BY <2>1 DEF Finish
      <4> QED  BY <2>1, <2>4, <4>1, <4>2 DEF InRoom, Alone, Still, WaitInv, OneInRoom
    <3> QED  BY <1>2, <3>5, <3>6, <3>7
  <2> QED  BY <2>3, <2>4
<1>10. ASSUME NEW e \in Enrolment, enrol(e)
       PROVE  /\ MadeUp(s)' = {} /\ ~InRoom(s)'
  <2>1. /\ enrolled[e] = "none" /\ enrolled' = [enrolled EXCEPT ![e] = "active"]
        /\ MadeUp(s) = {} /\ ~InRoom(s)
        /\ UNCHANGED <<leaves, locals>>
    BY <1>10 DEF enrol, InRoom
  <2>2. \A l \in Leave : makeup[l] = s => status[l] = "approved" /\ of[l] \in Enrolment /\ of[l] # e
    BY <2>1, LeaveAssumption DEF SeatInv, MakeupsApproved, Bought, RowsNameBoth, LeaveAssumption
  <2>3. MadeUp(s)' = {}
    BY <2>1, <2>2 DEF MadeUp, Active, leaves
  <2> QED  BY <2>1, <2>3 DEF InRoom, locals
<1> QED
  BY <1>3, <1>4, <1>5, <1>6, <1>7, <1>8, <1>9, <1>10, WhoWrites DEF leaveVars, leaves, history

LEMMA SeatInvariant == Spec => []SeatInv
<1>1. ASSUME LeaveInv, LeaveInv', WaitInv, SeatInv, [Next]_leaveVars PROVE SeatInv'
  BY <1>1, NextLive, NextBought, NextSeats DEF SeatInv
<1> QED
  BY <1>1, InitSeats, LeaveInvariant, WaitInvariant, PTL DEF Spec

\* leave/seats.rs: makeups never take a seat that is not there, however they
\* race each other, approvals and cancellations.
THEOREM SeatsAreRespected == Spec => []SeatsRespected
<1>1. SeatInv => SeatsRespected
  BY DEF SeatInv, SeatsKept, SeatsRespected
<1> QED
  BY <1>1, SeatInvariant, PTL

\* ADR-0008 as a whole, for any number of requests in flight.
THEOREM LeavesAlwaysAgree == Spec => []LeavesAgree
  BY ApprovalsWin, SeatsAreRespected, NothingLeftPending, OnlyMarkingsRing, PTL DEF LeavesAgree

=============================================================================
