--------------------------- MODULE People_proofs ---------------------------
(***************************************************************************)
(* People and the process that serves them: codes, limits, accounts,       *)
(* conversations, coaches, the way the process stops, the cache of what    *)
(* each user may do, and the seed.  Each part has an inductive invariant   *)
(* of its own, and each theorem is about that part's specification alone.  *)
(***************************************************************************)
EXTENDS AccessCache, Throttle, Otp, Registration, Conversations, Coaches, Seed, Lifecycle,
        SumTheorems, SequenceTheorems

-----------------------------------------------------------------------------
(* The process: what it starts with, and how it stops.                     *)

Starting == {"loading", "validating", "connecting", "binding", "refused"}
Stopping == {"draining", "closing", "exited"} \cup Loops
Drained  == {"closing", "exited"} \cup Loops

LifeTypeOK ==
  /\ setting \in Setting
  /\ life \in Starting \cup {"serving", "stopping"} \cup Stopping
  /\ loops \in [Loops -> {"none", "waiting", "working", "over"}]
  /\ inFlight \in [Call -> {"none", "busy", "done"}] /\ mails \in [Call -> {"none", "sending", "over"}]
  /\ spent \in Nat

\* What the start has judged so far.
SettingsJudged ==
  /\ life \notin {"loading", "refused"} => load(setting)
  /\ life \notin {"loading", "validating", "refused"} => validate_production_config(setting)

\* How far the teardown is says what is over.
Idle(l) == loops[l] \in {"none", "over"}
JoinedSoFar ==
  /\ life \in {"dispatcher", "cleanup", "closing"} => Idle("consumer")
  /\ life \in {"cleanup", "closing"} => Idle("dispatcher")
  /\ life = "closing" => Idle("cleanup")
  /\ pool = "closed" => life = "exited" /\ \A l \in Loops : Idle(l)
RequestsOver ==
  /\ life \in Starting => \A c \in Call : inFlight[c] = "none"
  /\ life \in Stopping => told /\ \A c \in Call : inFlight[c] # "busy"
MailsOver ==
  /\ life \notin Stopping => spent = 0
  /\ spent <= SHUTDOWN_DEADLINE
  /\ life = "draining" => spent <= DRAIN_BUDGET
  /\ life \in Drained => \A c \in Call : mails[c] = "sending" => drainLate /\ spent >= DRAIN_BUDGET
ExitsInTime == life = "exited" => pool = "closed" \/ (cut /\ spent = SHUTDOWN_DEADLINE)

LifeInv == LifeTypeOK /\ SettingsJudged /\ JoinedSoFar /\ RequestsOver /\ MailsOver /\ ExitsInTime

LEMMA LifeStarts == LifeInit => LifeInv
BY LifeAssumption
   DEF LifeInit, LifeInv, LifeTypeOK, SettingsJudged, JoinedSoFar, RequestsOver, MailsOver, ExitsInTime,
       Starting, Stopping, Drained, Loops

LEMMA StartKeeps == ASSUME LifeInv, Load \/ Validate \/ Connect \/ Bind PROVE LifeInv'
<1> USE DEF LifeInv, mainVars
<1>1. /\ UNCHANGED <<setting, told, drainLate, cut, inFlight, mails, spent>>
      /\ life \in Starting /\ life' \in Starting \cup {"serving"}
      /\ pool' = pool \/ pool' \in {"none", "open"}
  BY DEF Load, Validate, Connect, Bind, Starting
<1>2. loops' \in [Loops -> {"none", "waiting", "working", "over"}]
  BY DEF LifeTypeOK, Load, Validate, Connect, Bind
<1>3. LifeTypeOK'
  BY <1>1, <1>2 DEF LifeTypeOK
<1>4. SettingsJudged'
  BY <1>1 DEF SettingsJudged, Load, Validate, Connect, Bind, load, validate_production_config, LongEnough
<1>5. pool # "closed"
  BY <1>1 DEF JoinedSoFar, Starting
<1> QED BY <1>1, <1>3, <1>4, <1>5
        DEF JoinedSoFar, RequestsOver, MailsOver, ExitsInTime, Starting, Stopping, Drained, Loops

LEMMA ServeKeeps ==
  ASSUME LifeInv, NEW c \in Call, AcceptCall(c) \/ AnswerCall(c) \/ MailOver(c) PROVE LifeInv'
<1> USE DEF LifeInv, mainVars
<1>1. /\ UNCHANGED <<setting, told, drainLate, cut, life, loops, spent, pool>>
      /\ \/ life \in {"serving", "stopping"}
         \/ UNCHANGED inFlight /\ mails' = [mails EXCEPT ![c] = "over"]
  BY DEF AcceptCall, AnswerCall, MailOver
<1>2. LifeTypeOK'
  BY <1>1 DEF LifeTypeOK, AcceptCall, AnswerCall, MailOver
<1>3. \A d \in Call : mails'[d] = "sending" => mails[d] = "sending" \/ life \in {"serving", "stopping"}
  BY <1>1 DEF LifeTypeOK
<1> QED BY <1>1, <1>2, <1>3
        DEF SettingsJudged, JoinedSoFar, Idle, RequestsOver, MailsOver, ExitsInTime, Starting, Stopping,
            Drained, Loops

LEMMA LoopsKeep ==
  ASSUME LifeInv, NEW l \in Loops, StartPass(l) \/ EndPass(l) \/ LoopOver(l) PROVE LifeInv'
<1> USE DEF LifeInv, mainVars
<1>1. /\ UNCHANGED <<setting, told, drainLate, cut, life, inFlight, mails, spent, pool>>
      /\ loops[l] \in {"waiting", "working"} /\ life # "exited"
      /\ loops' \in [Loops -> {"none", "waiting", "working", "over"}]
      /\ \A m \in Loops \ {l} : loops'[m] = loops[m]
  BY DEF StartPass, EndPass, LoopOver, LifeTypeOK
<1>2. \A m \in Loops : Idle(m) => Idle(m)'
  BY <1>1 DEF Idle
<1>3. JoinedSoFar'
  BY <1>1, <1>2 DEF JoinedSoFar, Loops
<1> QED BY <1>1, <1>3 DEF LifeTypeOK, SettingsJudged, RequestsOver, MailsOver, ExitsInTime

LEMMA TeardownKeeps ==
  ASSUME LifeInv, Signal \/ HttpStopped \/ Drain \/ (\E l \in Loops : Join(l)) \/ ClosePool \/ CutShort \/ TimeGoes
  PROVE  LifeInv'
<1> USE DEF LifeInv, mainVars
<1>1. UNCHANGED <<setting, loops, inFlight, mails>>
  BY DEF Signal, HttpStopped, Drain, Join, ClosePool, CutShort, TimeGoes
<1>2. CASE Signal \/ HttpStopped
  BY <1>1, <1>2, LifeAssumption
     DEF Signal, HttpStopped, LifeTypeOK, SettingsJudged, JoinedSoFar, Idle, RequestsOver, MailsOver, ExitsInTime,
         Starting, Stopping, Drained, Loops
<1>3. CASE Drain
  BY <1>1, <1>3, LifeAssumption
     DEF Drain, LifeTypeOK, SettingsJudged, JoinedSoFar, Idle, RequestsOver, MailsOver, ExitsInTime,
         Starting, Stopping, Drained, Loops
<1>4. CASE \E l \in Loops : Join(l)
  <2> PICK l \in Loops : Join(l)
    BY <1>4
  <2>1. /\ UNCHANGED <<told, drainLate, cut, spent, pool>> /\ life = l /\ Idle(l)
        /\ \/ l = "consumer" /\ life' = "dispatcher"
           \/ l = "dispatcher" /\ life' = "cleanup"
           \/ l = "cleanup" /\ life' = "closing"
    BY DEF Join, AfterJoin, Loops, Idle
  <2> QED BY <1>1, <2>1
     DEF LifeTypeOK, SettingsJudged, JoinedSoFar, Idle, RequestsOver, MailsOver, ExitsInTime,
         Starting, Stopping, Drained, Loops
<1>5. CASE ClosePool
  BY <1>1, <1>5
     DEF ClosePool, LifeTypeOK, SettingsJudged, JoinedSoFar, Idle, RequestsOver, MailsOver, ExitsInTime,
         Starting, Stopping, Drained, Loops
<1>6. CASE CutShort
  BY <1>1, <1>6, LifeAssumption
     DEF CutShort, TearingDown, LifeTypeOK, SettingsJudged, JoinedSoFar, Idle, RequestsOver, MailsOver, ExitsInTime,
         Starting, Stopping, Drained, Loops
<1>7. CASE TimeGoes
  BY <1>1, <1>7, LifeAssumption
     DEF TimeGoes, TearingDown, LifeTypeOK, SettingsJudged, JoinedSoFar, Idle, RequestsOver, MailsOver, ExitsInTime,
         Starting, Stopping, Drained, Loops
<1> QED BY <1>2, <1>3, <1>4, <1>5, <1>6, <1>7

\* main.rs, config/mod.rs, utils/mail_tracker: for any setting, requests in flight, and
\* any deadline that is longer than the time the mails are given.
THEOREM ShutdownsAreOrderly == LifeSpec => []ShutdownIsOrderly
<1>1. ASSUME LifeInv, [LifeNext]_lifeVars PROVE LifeInv'
  <2>1. CASE UNCHANGED lifeVars
    BY <1>1, <2>1 DEF lifeVars, mainVars, LifeInv, LifeTypeOK, SettingsJudged, JoinedSoFar, Idle, RequestsOver,
                      MailsOver, ExitsInTime
  <2> QED BY <1>1, <2>1, StartKeeps, ServeKeeps, LoopsKeep, TeardownKeeps DEF LifeNext
<1>2. LifeInv => ShutdownIsOrderly
  BY DEF LifeInv, LifeTypeOK, Setting, SettingsJudged, load, validate_production_config, LongEnough, JoinedSoFar,
         Idle, RequestsOver, MailsOver, ExitsInTime, ShutdownIsOrderly, Stopping, Drained, Loops
<1> QED BY <1>1, <1>2, LifeStarts, PTL DEF LifeSpec

-----------------------------------------------------------------------------
(* Phones: a verified phone received a code that was sent for its user.    *)

OtpAct == [at : {"idle", "rate", "store", "reset", "sms", "attempt", "burn", "compare", "update",
                 "consume", "forget"},
           of : Owner \cup {"nobody"}, phone : Phone \cup {NoPhone}, code : Nat]

OtpTypeOK ==
  /\ rate \in [Owner -> Nat] /\ rateTtl \in [Owner -> Nat]
  /\ otp \in [Owner -> (Phone \cup {NoPhone}) \X Nat] /\ otpTtl \in [Owner -> Nat]
  /\ attempts \in [Owner -> Nat] /\ attemptsTtl \in [Owner -> Nat]
  /\ phone \in [Owner -> Phone \cup {NoPhone}] /\ phone_verified \in [Owner -> BOOLEAN]
  /\ act \in [Act -> OtpAct] /\ \A a \in Act : act[a].at # "idle" => act[a].of \in Owner
  /\ sentInWindow \in [Owner -> Nat] /\ minted \in Nat

\* Where a code may be: in the store, with the request that is sending it, or sent.
Carried ==
  {<<u, otp[u][1], otp[u][2]>> : u \in Owner}
    \cup {<<act[a].of, act[a].phone, act[a].code>> : a \in {b \in Act : act[b].at \in {"reset", "sms"}}}
    \cup sent

\* A code was drawn once, for one user and one phone.
CodesAreUnlike ==
  /\ \A x \in Carried : x[3] \in Nat /\ x[3] <= minted
  /\ \A x, y \in Carried : x[3] = y[3] /\ x[3] # 0 => x = y

\* What is tried was received; what is about to be verified was received for it.
TriesWereSent == \A a \in Act :
  /\ act[a].at \in {"attempt", "compare"} => act[a].code = 0 \/ \E s \in sent : s[3] = act[a].code
  /\ act[a].at = "update" => <<act[a].of, act[a].phone, act[a].code>> \in sent

WindowsHold == \A u \in Owner :
  /\ sentInWindow[u] <= rate[u] /\ sentInWindow[u] <= OTP_REQUESTS_PER_HOUR
  /\ rate[u] > 0 <=> rateTtl[u] > 0
  /\ attempts[u] > 0 <=> attemptsTtl[u] > 0

PhonesHold ==
  /\ \A u \in Owner : phone_verified[u] => \E s \in sent : s[1] = u /\ s[2] = phone[u]
  /\ \A u, v \in Owner : phone_verified[u] /\ phone_verified[v] /\ phone[u] = phone[v] => u = v

OtpInv == OtpTypeOK /\ CodesAreUnlike /\ TriesWereSent /\ WindowsHold /\ PhonesHold

-----------------------------------------------------------------------------
LEMMA OtpStarts == OtpInit => OtpInv
<1> SUFFICES ASSUME OtpInit PROVE OtpInv
  OBVIOUS
<1>1. OtpTypeOK /\ WindowsHold
  BY OtpAssumption DEF OtpInit, OtpTypeOK, OtpAct, NoAct, NoOtp, WindowsHold
<1>2. \A x \in Carried : x[3] = 0
  BY DEF OtpInit, Carried, NoOtp, NoAct
<1>3. CodesAreUnlike
  BY <1>2 DEF CodesAreUnlike, OtpInit
<1>4. TriesWereSent
  BY DEF TriesWereSent, OtpInit, NoAct
<1>5. PhonesHold
  <2>1. /\ \A u, v \in Owner : phone[u] = phone[v] /\ u # v => phone[u] = NoPhone
        /\ \A u \in Owner : phone_verified[u] <=> phone[u] # NoPhone
    BY DEF OtpInit
  <2>2. \A u \in Owner : phone_verified[u] => <<u, phone[u], 0>> \in sent
    BY DEF OtpInit
  <2> QED BY <2>1, <2>2 DEF PhonesHold
<1> QED BY <1>1, <1>3, <1>4, <1>5 DEF OtpInv

\* Codes that are dropped or passed on are as unlike as they were.
LEMMA FewerCodes ==
  ASSUME CodesAreUnlike, minted \in Nat, minted' = minted, \A x \in Carried' : x \in Carried \/ x[3] = 0
  PROVE  CodesAreUnlike'
BY DEF CodesAreUnlike

\* Time passes, and a request that moves on or ends.
LEMMA StoreForgets == ASSUME OtpInv, TtlElapses PROVE OtpInv'
<1> USE DEF OtpInv
<1>1. OtpTypeOK'
  <2>1. \A f \in [Owner -> Nat] : Down(f) \in [Owner -> Nat]
    BY DEF Down
  <2>2. NoOtp \in (Phone \cup {NoPhone}) \X Nat
    BY DEF NoOtp
  <2>3. /\ rateTtl' = Down(rateTtl) /\ otpTtl' = Down(otpTtl) /\ attemptsTtl' = Down(attemptsTtl)
        /\ \E A, B, C \in SUBSET Owner :
             /\ rate' = [u \in Owner |-> IF u \in A THEN 0 ELSE rate[u]]
             /\ sentInWindow' = [u \in Owner |-> IF u \in A THEN 0 ELSE sentInWindow[u]]
             /\ otp' = [u \in Owner |-> IF u \in B THEN NoOtp ELSE otp[u]]
             /\ attempts' = [u \in Owner |-> IF u \in C THEN 0 ELSE attempts[u]]
        /\ UNCHANGED <<phone, phone_verified, act, minted>>
    <3> DEFINE A == {u \in Owner : Forget(rateTtl, u)}
               B == {u \in Owner : Forget(otpTtl, u)}
               C == {u \in Owner : Forget(attemptsTtl, u)}
    <3>1. A \in SUBSET Owner /\ B \in SUBSET Owner /\ C \in SUBSET Owner
      OBVIOUS
    <3> QED BY <3>1 DEF TtlElapses, otpUsers
  <2> QED BY <2>1, <2>2, <2>3 DEF OtpTypeOK
<1>2. WindowsHold'
  <2> SUFFICES ASSUME NEW u \in Owner
               PROVE  /\ sentInWindow'[u] <= rate'[u] /\ sentInWindow'[u] <= OTP_REQUESTS_PER_HOUR
                      /\ rate'[u] > 0 <=> rateTtl'[u] > 0
                      /\ attempts'[u] > 0 <=> attemptsTtl'[u] > 0
    BY DEF WindowsHold
  <2>1. /\ rateTtl'[u] = IF rateTtl[u] = 0 THEN 0 ELSE rateTtl[u] - 1
        /\ attemptsTtl'[u] = IF attemptsTtl[u] = 0 THEN 0 ELSE attemptsTtl[u] - 1
        /\ rate'[u] = IF rateTtl[u] = 1 THEN 0 ELSE rate[u]
        /\ sentInWindow'[u] = IF rateTtl[u] = 1 THEN 0 ELSE sentInWindow[u]
        /\ attempts'[u] = IF attemptsTtl[u] = 1 THEN 0 ELSE attempts[u]
    BY DEF TtlElapses, Down, Forget
  <2>2. /\ rate[u] \in Nat /\ rateTtl[u] \in Nat /\ sentInWindow[u] \in Nat
        /\ attempts[u] \in Nat /\ attemptsTtl[u] \in Nat
    BY DEF OtpTypeOK
  <2> QED BY <2>1, <2>2, OtpAssumption DEF WindowsHold
<1>3. \A u \in Owner : otp'[u] = otp[u] \/ otp'[u] = NoOtp
  BY DEF TtlElapses
<1>4. UNCHANGED <<act, sent, minted, phone, phone_verified>>
  BY DEF TtlElapses, otpUsers
<1>5. \A x \in Carried' : x \in Carried \/ x[3] = 0
  BY <1>3, <1>4 DEF Carried, NoOtp
<1>6. CodesAreUnlike'
  BY <1>4, <1>5, FewerCodes DEF OtpTypeOK
<1> QED BY <1>1, <1>2, <1>4, <1>6 DEF TriesWereSent, PhonesHold

\* A call of a request: what each leaves alone, and where the request goes.
LEMMA CallsKeepCodes ==
  ASSUME OtpInv, NEW a \in Act,
         \/ CallFails(a) \/ CountRequest(a) \/ ResetAttempts(a) \/ SendSms(a) \/ CountAttempt(a)
         \/ BurnCode(a) \/ CompareCode(a) \/ update_phone_verified(a) \/ ConsumeCode(a)
         \/ ConsumeAttempts(a)
  PROVE  OtpTypeOK' /\ CodesAreUnlike' /\ TriesWereSent'
<1> USE DEF OtpInv, otpStore, otpUsers, Goes, Ends
<1>1. /\ DOMAIN act = Act /\ act' = [b \in Act |-> act'[b]] /\ minted' = minted
      /\ sent \subseteq sent'
      /\ \A b \in Act \ {a} : act'[b] = act[b]
      /\ act'[a] = NoAct \/ \E l \in {"store", "sms", "burn", "compare", "update", "consume", "forget"} :
                              act'[a] = [act[a] EXCEPT !.at = l]
  <2>1. CASE CallFails(a)
    BY <2>1 DEF CallFails, OtpTypeOK
  <2>2. CASE CountRequest(a)
    BY <2>2 DEF CountRequest, OtpTypeOK
  <2>3. CASE ResetAttempts(a)
    BY <2>3 DEF ResetAttempts, OtpTypeOK
  <2>4. CASE SendSms(a)
    BY <2>4 DEF SendSms, OtpTypeOK
  <2>5. CASE CountAttempt(a)
    BY <2>5 DEF CountAttempt, OtpTypeOK
  <2>6. CASE BurnCode(a)
    BY <2>6 DEF BurnCode, OtpTypeOK
  <2>7. CASE CompareCode(a)
    BY <2>7 DEF CompareCode, OtpTypeOK
  <2>8. CASE update_phone_verified(a)
    BY <2>8 DEF update_phone_verified, OtpTypeOK
  <2>9. CASE ConsumeCode(a)
    BY <2>9 DEF ConsumeCode, OtpTypeOK
  <2>10. CASE ConsumeAttempts(a)
    BY <2>10 DEF ConsumeAttempts, OtpTypeOK
  <2> QED BY <2>1, <2>2, <2>3, <2>4, <2>5, <2>6, <2>7, <2>8, <2>9, <2>10
<1>2. /\ act'[a].at = "sms" => act[a].at = "reset"
      /\ act'[a].at = "compare" => act[a].at = "attempt"
      /\ act'[a].at = "update" => act[a].at = "compare" /\ otp[act[a].of] = <<act[a].phone, act[a].code>>
                                  /\ act[a].code # 0
      /\ act'[a].at \notin {"reset", "attempt"} /\ act[a].at # "idle"
  <2>0. act[a] \in OtpAct
    BY DEF OtpTypeOK
  <2>1. CASE CallFails(a) \/ CountRequest(a) \/ ResetAttempts(a) \/ SendSms(a)
    BY <2>0, <2>1, <1>1 DEF CallFails, CountRequest, ResetAttempts, SendSms, OtpAct, NoAct
  <2>2. CASE CountAttempt(a) \/ BurnCode(a) \/ CompareCode(a)
    BY <2>0, <2>2, <1>1 DEF CountAttempt, BurnCode, CompareCode, OtpAct, NoAct
  <2>3. CASE update_phone_verified(a) \/ ConsumeCode(a) \/ ConsumeAttempts(a)
    BY <2>0, <2>3, <1>1 DEF update_phone_verified, ConsumeCode, ConsumeAttempts, OtpAct, NoAct
  <2> QED BY <2>1, <2>2, <2>3
<1>3. /\ otp' = [u \in Owner |-> otp'[u]]
      /\ \A u \in Owner : otp'[u] = otp[u] \/ otp'[u] = NoOtp
      /\ sent' = sent \/ (act[a].at = "sms" /\ sent' = sent \cup {<<act[a].of, act[a].phone, act[a].code>>})
  BY DEF CallFails, CountRequest, ResetAttempts, SendSms, CountAttempt, BurnCode, CompareCode,
         update_phone_verified, ConsumeCode, ConsumeAttempts, OtpTypeOK
<1>4. OtpTypeOK'
  <2>1. act' \in [Act -> OtpAct] /\ \A b \in Act : act'[b].at # "idle" => act'[b].of \in Owner
    <3>1. act[a] \in OtpAct /\ act[a].of \in Owner /\ NoAct \in OtpAct
      BY <1>2 DEF OtpTypeOK, OtpAct, NoAct
    <3>2. act'[a] \in OtpAct /\ (act'[a].at # "idle" => act'[a].of \in Owner)
      BY <1>1, <3>1 DEF OtpAct, NoAct
    <3>3. \A b \in Act : act'[b] \in OtpAct /\ (act'[b].at # "idle" => act'[b].of \in Owner)
      BY <1>1, <3>2 DEF OtpTypeOK
    <3> QED BY <1>1, <3>3
  <2>2. otp' \in [Owner -> (Phone \cup {NoPhone}) \X Nat]
    BY <1>3 DEF OtpTypeOK, NoOtp
  <2>3. /\ rate' \in [Owner -> Nat] /\ rateTtl' \in [Owner -> Nat] /\ otpTtl' \in [Owner -> Nat]
        /\ attempts' \in [Owner -> Nat] /\ attemptsTtl' \in [Owner -> Nat]
        /\ sentInWindow' \in [Owner -> Nat]
    <3>1. CASE CallFails(a)
      BY <3>1, OtpAssumption DEF CallFails, OtpTypeOK
    <3>2. CASE CountRequest(a)
      BY <3>2, OtpAssumption DEF CountRequest, OtpTypeOK
    <3>3. CASE ResetAttempts(a)
      BY <3>3, OtpAssumption DEF ResetAttempts, OtpTypeOK
    <3>4. CASE SendSms(a)
      BY <3>4, OtpAssumption DEF SendSms, OtpTypeOK
    <3>5. CASE CountAttempt(a)
      BY <3>5, OtpAssumption DEF CountAttempt, OtpTypeOK
    <3>6. CASE BurnCode(a)
      BY <3>6, OtpAssumption DEF BurnCode, OtpTypeOK
    <3>7. CASE CompareCode(a)
      BY <3>7, OtpAssumption DEF CompareCode, OtpTypeOK
    <3>8. CASE update_phone_verified(a)
      BY <3>8, OtpAssumption DEF update_phone_verified, OtpTypeOK
    <3>9. CASE ConsumeCode(a)
      BY <3>9, OtpAssumption DEF ConsumeCode, OtpTypeOK
    <3>10. CASE ConsumeAttempts(a)
      BY <3>10, OtpAssumption DEF ConsumeAttempts, OtpTypeOK
    <3> QED BY <3>1, <3>2, <3>3, <3>4, <3>5, <3>6, <3>7, <3>8, <3>9, <3>10
  <2>4. phone' \in [Owner -> Phone \cup {NoPhone}] /\ phone_verified' \in [Owner -> BOOLEAN]
    <3>1. CASE update_phone_verified(a)
      BY <3>1 DEF update_phone_verified, OtpTypeOK, OtpAct
    <3>2. CASE ~update_phone_verified(a)
      BY <3>2 DEF CallFails, CountRequest, ResetAttempts, SendSms, CountAttempt, BurnCode,
         CompareCode, ConsumeCode, ConsumeAttempts, OtpTypeOK
    <3> QED BY <3>1, <3>2
  <2> QED BY <1>1, <2>1, <2>2, <2>3, <2>4 DEF OtpTypeOK
<1>5. \A x \in Carried' : x \in Carried \/ x[3] = 0
  <2>1. \A u \in Owner : <<u, otp'[u][1], otp'[u][2]>> \in Carried \/ otp'[u][2] = 0
    BY <1>3 DEF Carried, NoOtp
  <2>2. \A b \in Act : act'[b].at \in {"reset", "sms"} =>
           /\ act[b].at \in {"reset", "sms"}
           /\ act'[b].of = act[b].of /\ act'[b].phone = act[b].phone /\ act'[b].code = act[b].code
    <3>1. act[a] \in OtpAct
      BY DEF OtpTypeOK
    <3>2. act'[a].at \in {"reset", "sms"} =>
            /\ act[a].at = "reset" /\ act'[a].of = act[a].of
            /\ act'[a].phone = act[a].phone /\ act'[a].code = act[a].code
      BY <1>1, <1>2, <3>1 DEF OtpAct, NoAct
    <3> QED BY <1>1, <3>2
  <2>3. sent' \subseteq Carried
    BY <1>3 DEF Carried
  <2> QED BY <2>1, <2>2, <2>3 DEF Carried
<1>6. CodesAreUnlike'
  BY <1>1, <1>5, FewerCodes DEF OtpTypeOK
<1>7. TriesWereSent'
  <2>1. \A b \in Act \ {a} :
          /\ act'[b].at \in {"attempt", "compare"} => act'[b].code = 0 \/ \E s \in sent' : s[3] = act'[b].code
          /\ act'[b].at = "update" => <<act'[b].of, act'[b].phone, act'[b].code>> \in sent'
    BY <1>1 DEF TriesWereSent
  <2>2. /\ act'[a].of = act[a].of \/ act'[a].at = "idle"
        /\ act'[a].phone = act[a].phone \/ act'[a].at = "idle"
        /\ act'[a].code = act[a].code \/ act'[a].at = "idle"
    BY <1>1 DEF OtpTypeOK, OtpAct, NoAct
  <2>3. act'[a].at = "compare" => act'[a].code = 0 \/ \E s \in sent' : s[3] = act'[a].code
    <3>1. act'[a].at = "compare" => act[a].at = "attempt" /\ act'[a].code = act[a].code
      BY <1>2, <2>2
    <3>2. act[a].at = "attempt" => act[a].code = 0 \/ \E s \in sent : s[3] = act[a].code
      BY DEF TriesWereSent
    <3> QED BY <1>1, <3>1, <3>2
  <2>4. ASSUME act'[a].at = "update"
        PROVE  <<act[a].of, act[a].phone, act[a].code>> \in sent
    <3>1. PICK s \in sent : s[3] = act[a].code
      BY <1>2, <2>4 DEF TriesWereSent
    <3>2. act[a].of \in Owner /\ <<act[a].of, otp[act[a].of][1], otp[act[a].of][2]>> \in Carried /\ s \in Carried
      BY <1>2, <3>1 DEF OtpTypeOK, Carried
    <3> QED BY <1>2, <2>4, <3>1, <3>2 DEF CodesAreUnlike
  <2>5. act'[a].at # "attempt" /\ (act'[a].at = "update" => <<act'[a].of, act'[a].phone, act'[a].code>> \in sent')
    BY <1>1, <1>2, <2>2, <2>4
  <2>6. \A b \in Act : b = a \/ b \in Act \ {a}
    OBVIOUS
  <2> QED BY <2>1, <2>3, <2>5, <2>6 DEF TriesWereSent
<1> QED BY <1>4, <1>6, <1>7

LEMMA CallsKeepWindows ==
  ASSUME OtpInv, NEW a \in Act,
         \/ CallFails(a) \/ CountRequest(a) \/ StoreCode(a) \/ ResetAttempts(a) \/ SendSms(a)
         \/ CountAttempt(a) \/ BurnCode(a) \/ CompareCode(a) \/ update_phone_verified(a)
         \/ ConsumeCode(a) \/ ConsumeAttempts(a)
  PROVE  WindowsHold'
<1> USE DEF OtpInv
<1>0. \A u \in Owner : /\ rate[u] \in Nat /\ rateTtl[u] \in Nat /\ sentInWindow[u] \in Nat
                       /\ attempts[u] \in Nat /\ attemptsTtl[u] \in Nat
  BY DEF OtpTypeOK
<1>1. CASE CountRequest(a)
  <2>1. UNCHANGED <<attempts, attemptsTtl>>
    BY <1>1 DEF CountRequest
  <2>2. \A u \in Owner \ {act[a].of} : UNCHANGED <<rate[u], rateTtl[u], sentInWindow[u]>>
    BY <1>1 DEF CountRequest, OtpTypeOK
  <2>3. ASSUME act[a].of \in Owner, NEW u, u = act[a].of
        PROVE  /\ rate'[u] = rate[u] + 1
               /\ rateTtl'[u] = IF rate[u] = 0 THEN OTP_RATE_TTL ELSE rateTtl[u]
               /\ sentInWindow'[u] = IF rate[u] + 1 > OTP_REQUESTS_PER_HOUR THEN sentInWindow[u]
                                     ELSE sentInWindow[u] + 1
    BY <1>1, <2>3 DEF CountRequest, OtpTypeOK
  <2> QED BY <1>0, <2>1, <2>2, <2>3, OtpAssumption DEF WindowsHold
<1>2. CASE CountAttempt(a)
  <2>1. UNCHANGED <<rate, rateTtl, sentInWindow>>
    BY <1>2 DEF CountAttempt
  <2>2. \A u \in Owner \ {act[a].of} : UNCHANGED <<attempts[u], attemptsTtl[u]>>
    BY <1>2 DEF CountAttempt, OtpTypeOK
  <2>3. ASSUME act[a].of \in Owner, NEW u, u = act[a].of
        PROVE  /\ attempts'[u] = attempts[u] + 1
               /\ attemptsTtl'[u] = IF attempts[u] = 0 THEN OTP_TTL ELSE attemptsTtl[u]
    BY <1>2, <2>3 DEF CountAttempt, OtpTypeOK
  <2> QED BY <1>0, <2>1, <2>2, <2>3, OtpAssumption DEF WindowsHold
<1>3. CASE ResetAttempts(a) \/ ConsumeAttempts(a)
  <2>1. UNCHANGED <<rate, rateTtl, sentInWindow>>
    BY <1>3 DEF ResetAttempts, ConsumeAttempts
  <2>2. \A u \in Owner : UNCHANGED <<attempts[u], attemptsTtl[u]>> \/ (attempts'[u] = 0 /\ attemptsTtl'[u] = 0)
    BY <1>3 DEF ResetAttempts, ConsumeAttempts, OtpTypeOK
  <2> QED BY <1>0, <2>1, <2>2 DEF WindowsHold
<1>4. CASE \/ CallFails(a) \/ StoreCode(a) \/ SendSms(a) \/ BurnCode(a) \/ CompareCode(a)
           \/ update_phone_verified(a) \/ ConsumeCode(a)
  BY <1>4 DEF WindowsHold, CallFails, StoreCode, SendSms, BurnCode, CompareCode,
              update_phone_verified, ConsumeCode, otpStore
<1> QED BY <1>1, <1>2, <1>3, <1>4

\* Only the update writes a phone, and it names the message that proved it.
LEMMA CallsKeepPhones ==
  ASSUME OtpInv, NEW a \in Act,
         \/ CallFails(a) \/ CountRequest(a) \/ StoreCode(a) \/ ResetAttempts(a) \/ SendSms(a)
         \/ CountAttempt(a) \/ BurnCode(a) \/ CompareCode(a) \/ update_phone_verified(a)
         \/ ConsumeCode(a) \/ ConsumeAttempts(a)
  PROVE  PhonesHold'
<1> USE DEF OtpInv, otpUsers
<1>1. sent \subseteq sent'
  BY DEF CallFails, CountRequest, StoreCode, ResetAttempts, SendSms, CountAttempt, BurnCode,
         CompareCode, update_phone_verified, ConsumeCode, ConsumeAttempts
<1>2. CASE update_phone_verified(a)
  <2>1. CASE UNCHANGED <<phone, phone_verified>>
    BY <1>1, <2>1 DEF PhonesHold
  <2>2. CASE ~UNCHANGED <<phone, phone_verified>>
    <3> DEFINE u == act[a].of  p == act[a].phone
    <3>1. /\ act[a].at = "update"
          /\ ~\E v \in Owner \ {u} : phone[v] = p /\ phone_verified[v]
          /\ phone' = [phone EXCEPT ![u] = p] /\ phone_verified' = [phone_verified EXCEPT ![u] = TRUE]
      BY <1>2, <2>2 DEF update_phone_verified
    <3>2. u \in Owner /\ <<u, p, act[a].code>> \in sent'
      BY <1>1, <3>1 DEF OtpTypeOK, TriesWereSent
    <3> HIDE DEF u, p
    <3>3. /\ phone'[u] = p
          /\ \A v \in Owner \ {u} : phone'[v] = phone[v] /\ phone_verified'[v] = phone_verified[v]
      BY <3>1, <3>2 DEF OtpTypeOK
    <3> QED BY <1>1, <3>1, <3>2, <3>3 DEF PhonesHold
  <2> QED BY <2>1, <2>2
<1>3. CASE ~update_phone_verified(a)
  <2>1. UNCHANGED <<phone, phone_verified>>
    BY <1>3 DEF CallFails, CountRequest, StoreCode, ResetAttempts, SendSms, CountAttempt, BurnCode,
         CompareCode, ConsumeCode, ConsumeAttempts
  <2> QED BY <1>1, <2>1 DEF PhonesHold
<1> QED BY <1>2, <1>3

LEMMA StoreCodeKeeps == ASSUME OtpInv, NEW a \in Act, StoreCode(a) PROVE OtpInv'
<1> USE DEF OtpInv
<1> DEFINE u == act[a].of
           new == [act[a] EXCEPT !.at = "reset", !.code = minted']
<1>1. /\ u \in Owner /\ minted' = minted + 1 /\ minted \in Nat /\ act[a].phone \in Phone \cup {NoPhone}
      /\ otp' = [otp EXCEPT ![u] = <<act[a].phone, minted'>>] /\ otpTtl' = [otpTtl EXCEPT ![u] = OTP_TTL]
      /\ UNCHANGED <<rate, rateTtl, attempts, attemptsTtl, phone, phone_verified, sent, sentInWindow>>
  BY DEF StoreCode, OtpTypeOK, OtpAct, otpUsers
<1>2. act' = [act EXCEPT ![a] = new]
  <2>1. act' = [act EXCEPT ![a].at = "reset", ![a].code = minted']
    BY DEF StoreCode
  <2>2. act \in [Act -> OtpAct]
    BY DEF OtpTypeOK
  <2> QED BY <2>1, <2>2
<1>3. new \in OtpAct /\ new.at = "reset" /\ new.of = u /\ new.phone = act[a].phone /\ new.code = minted'
  <2>1. act[a] \in OtpAct /\ minted' \in Nat
    BY <1>1 DEF OtpTypeOK
  <2> QED BY <2>1 DEF OtpAct
<1> HIDE DEF u, new
<1>4. act' \in [Act -> OtpAct] /\ act'[a] = new /\ \A b \in Act \ {a} : act'[b] = act[b]
  BY <1>2, <1>3 DEF OtpTypeOK
<1>5. OtpTypeOK'
  BY <1>1, <1>3, <1>4, OtpAssumption, SMTT(30) DEF OtpTypeOK
<1>6. \A x \in Carried' : x \in Carried \/ x = <<u, act[a].phone, minted'>>
  <2>1. \A v \in Owner : otp'[v] = IF v = u THEN <<act[a].phone, minted'>> ELSE otp[v]
    BY <1>1 DEF OtpTypeOK
  <2>2. \A v \in Owner : LET x == <<v, otp'[v][1], otp'[v][2]>> IN x \in Carried \/ x = <<u, act[a].phone, minted'>>
    BY <2>1 DEF Carried
  <2>3. \A b \in Act : act'[b].at \in {"reset", "sms"} =>
          LET x == <<act'[b].of, act'[b].phone, act'[b].code>> IN x \in Carried \/ x = <<u, act[a].phone, minted'>>
    BY <1>3, <1>4 DEF Carried
  <2>4. sent' \subseteq Carried
    BY <1>1 DEF Carried
  <2> QED BY <2>2, <2>3, <2>4 DEF Carried
<1>7. CodesAreUnlike'
  BY <1>1, <1>6 DEF CodesAreUnlike
<1>8. TriesWereSent'
  BY <1>1, <1>3, <1>4 DEF TriesWereSent
<1> QED BY <1>5, <1>7, <1>8, CallsKeepWindows, CallsKeepPhones

LEMMA AskKeeps ==
  ASSUME OtpInv, NEW a \in Act, NEW u \in Owner, NEW p \in Phone, NEW c \in 0..MaxSent,
         AskCode(a, u, p) \/ AskVerify(a, u, p, c)
  PROVE  OtpInv'
<1> USE DEF OtpInv, otpUsers, otpStore
<1> DEFINE new == [at |-> IF AskCode(a, u, p) THEN "rate" ELSE "attempt", of |-> u, phone |-> p,
                   code |-> IF AskCode(a, u, p) THEN 0 ELSE c]
<1>1. /\ UNCHANGED <<rate, rateTtl, otp, otpTtl, attempts, attemptsTtl, phone, phone_verified, sent,
                     sentInWindow, minted>>
      /\ act' = [act EXCEPT ![a] = new]
  BY DEF AskCode, AskVerify
<1>2. new \in OtpAct /\ new.at \in {"rate", "attempt"} /\ new.of = u
  BY OtpAssumption DEF OtpAct
<1>3. new.at = "attempt" => new.code = 0 \/ \E s \in sent : s[3] = new.code
  BY DEF AskVerify
<1> HIDE DEF new
<1>4. OtpTypeOK'
  BY <1>1, <1>2 DEF OtpTypeOK
<1>5. Carried' \subseteq Carried /\ TriesWereSent'
  BY <1>1, <1>2, <1>3 DEF Carried, OtpTypeOK, TriesWereSent
<1> QED BY <1>1, <1>4, <1>5, FewerCodes DEF WindowsHold, PhonesHold, OtpTypeOK

LEMMA SetPhoneKeeps == ASSUME OtpInv, NEW u \in Owner, NEW p \in Phone, SetPhone(u, p) PROVE OtpInv'
<1> USE DEF OtpInv, otpStore
<1>1. /\ UNCHANGED <<rate, rateTtl, otp, otpTtl, attempts, attemptsTtl, act, sent, sentInWindow, minted>>
      /\ phone' = [phone EXCEPT ![u] = p] /\ phone_verified' = [phone_verified EXCEPT ![u] = FALSE]
  BY DEF SetPhone
<1>2. /\ OtpTypeOK' /\ ~phone_verified'[u]
      /\ \A v \in Owner \ {u} : phone'[v] = phone[v] /\ phone_verified'[v] = phone_verified[v]
  BY <1>1 DEF OtpTypeOK
<1> QED BY <1>1, <1>2 DEF Carried, CodesAreUnlike, TriesWereSent, WindowsHold, PhonesHold

\* auth/otp.rs, auth/service.rs `verify_otp': for any users, phones, requests at once,
\* limits and lifetimes, however the calls interleave or fail.
THEOREM PhonesAreProven == OtpSpec => []PhoneIsProven
<1>1. ASSUME OtpInv, [OtpNext]_otpVars PROVE OtpInv'
  <2>1. CASE TtlElapses
    BY <1>1, <2>1, StoreForgets
  <2>2. ASSUME NEW a \in Act,
               \/ CallFails(a) \/ CountRequest(a) \/ ResetAttempts(a) \/ SendSms(a) \/ CountAttempt(a)
               \/ BurnCode(a) \/ CompareCode(a) \/ update_phone_verified(a) \/ ConsumeCode(a)
               \/ ConsumeAttempts(a)
        PROVE  OtpInv'
    BY <1>1, <2>2, CallsKeepCodes, CallsKeepWindows, CallsKeepPhones DEF OtpInv
  <2>3. ASSUME NEW a \in Act, StoreCode(a) PROVE OtpInv'
    BY <1>1, <2>3, StoreCodeKeeps
  <2>4. ASSUME NEW a \in Act, NEW u \in Owner, NEW p \in Phone,
               AskCode(a, u, p) \/ \E c \in 0..MaxSent : AskVerify(a, u, p, c)
        PROVE  OtpInv'
    BY <1>1, <2>4, AskKeeps, OtpAssumption
  <2>5. ASSUME NEW u \in Owner, NEW p \in Phone, SetPhone(u, p) PROVE OtpInv'
    BY <1>1, <2>5, SetPhoneKeeps
  <2>6. CASE UNCHANGED otpVars
    BY <1>1, <2>6 DEF otpVars, otpStore, otpUsers, OtpInv, OtpTypeOK, Carried, CodesAreUnlike,
                      TriesWereSent, WindowsHold, PhonesHold
  <2> QED BY <1>1, <2>1, <2>2, <2>3, <2>4, <2>5, <2>6 DEF OtpNext
<1>2. OtpInv => PhoneIsProven
  BY DEF OtpInv, WindowsHold, PhonesHold, PhoneIsProven, OtpTypeOK
<1> QED BY <1>1, <1>2, OtpStarts, PTL DEF OtpSpec

-----------------------------------------------------------------------------
(* Counters that expire: none outlives its window or lets more through.    *)

ThrottleTypeOK ==
  /\ count \in [Counter -> Nat] /\ ttl \in [Counter -> Nat] /\ admitted \in [Counter -> Nat]
  /\ guesses \in Nat /\ DOMAIN stage = Visit /\ stage = [c \in Visit |-> stage[c]]

CountersHold ==
  /\ \A k \in Counter : count[k] > 0 <=> ttl[k] > 0
  /\ \A k \in Counter \ {"login_fail"} : admitted[k] <= MaxRequests[k] /\ admitted[k] <= count[k]

\* Who is past the check of the failures, which they will count one by one.
Comparing == {c \in Visit : stage[c] = "compare"}
GuessesHold ==
  ~forgotten =>
    /\ guesses = count["login_fail"]
    /\ guesses + Cardinality(Comparing) < MaxRequests["login_fail"] + Cardinality(Visit)

ThrottleInv == ThrottleTypeOK /\ CountersHold /\ GuessesHold

LEMMA VisitSets ==
  /\ Cardinality(Visit) \in Nat \ {0}
  /\ \A S \in SUBSET Visit : /\ IsFiniteSet(S) /\ Cardinality(S) \in Nat
                             /\ Cardinality(S) <= Cardinality(Visit)
                             /\ \A c \in S : Cardinality(S \ {c}) = Cardinality(S) - 1
BY FS_Subset, FS_CardinalityType, FS_EmptySet, FS_RemoveElement, ThrottleAssumption

LEMMA ThrottleStarts == ThrottleInit => ThrottleInv
<1> SUFFICES ASSUME ThrottleInit PROVE ThrottleInv
  OBVIOUS
<1>1. Comparing = {}
  BY DEF ThrottleInit, Comparing
<1>2. "login_fail" \in Counter
  BY DEF Counter
<1>3. guesses + Cardinality(Comparing) < MaxRequests["login_fail"] + Cardinality(Visit)
  BY <1>1, <1>2, VisitSets, FS_EmptySet, ThrottleAssumption DEF ThrottleInit
<1> QED BY <1>2, <1>3, ThrottleAssumption DEF ThrottleInv, ThrottleInit, ThrottleTypeOK, CountersHold, GuessesHold

\* A request that comes to compare nothing, or stops comparing, makes no more guesses.
LEMMA NoMoreGuesses ==
  ASSUME ThrottleInv, NEW c \in Visit, NEW label, stage' = [stage EXCEPT ![c] = label], label # "compare"
  PROVE  /\ ThrottleTypeOK => stage' = [d \in Visit |-> stage'[d]]
         /\ DOMAIN stage' = Visit
         /\ Comparing' = Comparing \ {c}
         /\ Cardinality(Comparing) \in Nat /\ Cardinality(Comparing') \in Nat
         /\ Cardinality(Comparing') = IF c \in Comparing THEN Cardinality(Comparing) - 1 ELSE Cardinality(Comparing)
<1>1. DOMAIN stage' = Visit /\ stage' = [d \in Visit |-> stage'[d]]
  BY DEF ThrottleInv, ThrottleTypeOK
<1>2. Comparing' = Comparing \ {c}
  BY DEF ThrottleInv, ThrottleTypeOK, Comparing
<1>3. Comparing \subseteq Visit
  BY DEF Comparing
<1>4. c \notin Comparing => Comparing' = Comparing
  BY <1>2
<1> QED BY <1>1, <1>2, <1>3, <1>4, VisitSets

LEMMA IncrKeeps ==
  ASSUME ThrottleInv, NEW k \in Counter, incr_with_ttl(k)
  PROVE  /\ count' \in [Counter -> Nat] /\ ttl' \in [Counter -> Nat]
         /\ \A j \in Counter : count'[j] = IF j = k THEN count[j] + 1 ELSE count[j]
         /\ \A j \in Counter : count'[j] > 0 <=> ttl'[j] > 0
<1>1. /\ count' = [count EXCEPT ![k] = @ + 1]
      /\ ttl' = [ttl EXCEPT ![k] = IF count[k] = 0 THEN WindowTicks[k] ELSE @]
  BY DEF incr_with_ttl
<1>2. count \in [Counter -> Nat] /\ ttl \in [Counter -> Nat] /\ WindowTicks[k] \in Nat \ {0}
  BY ThrottleAssumption DEF ThrottleInv, ThrottleTypeOK
<1>3. \A j \in Counter : count[j] > 0 <=> ttl[j] > 0
  BY DEF ThrottleInv, CountersHold
<1>4. count' \in [Counter -> Nat] /\ ttl' \in [Counter -> Nat]
  BY <1>1, <1>2
<1>5. /\ \A j \in Counter : count'[j] = IF j = k THEN count[j] + 1 ELSE count[j]
      /\ \A j \in Counter \ {k} : ttl'[j] = ttl[j]
      /\ ttl'[k] = IF count[k] = 0 THEN WindowTicks[k] ELSE ttl[k]
  BY <1>1, <1>2
<1>6. count'[k] > 0 /\ ttl'[k] > 0
  <2>1. count[k] \in Nat /\ ttl[k] \in Nat
    BY <1>2
  <2> QED BY <1>2, <1>3, <1>5, <2>1
<1> QED BY <1>3, <1>4, <1>5, <1>6

LEMMA WindowKeeps == ASSUME ThrottleInv, WindowElapses PROVE ThrottleInv'
<1> USE DEF ThrottleInv
<1>0. "login_fail" \in Counter
  BY DEF Counter
<1>1. ThrottleTypeOK'
  BY DEF ThrottleTypeOK, WindowElapses
<1>2. CountersHold'
  <2> SUFFICES ASSUME NEW k \in Counter
               PROVE  /\ count'[k] > 0 <=> ttl'[k] > 0
                      /\ k # "login_fail" => admitted'[k] <= MaxRequests[k] /\ admitted'[k] <= count'[k]
    BY DEF CountersHold
  <2>1. /\ ttl'[k] = IF ttl[k] = 0 THEN 0 ELSE ttl[k] - 1
        /\ count'[k] = IF ttl'[k] = 0 THEN 0 ELSE count[k]
        /\ admitted'[k] = IF ttl'[k] = 0 THEN 0 ELSE admitted[k]
    BY DEF WindowElapses
  <2>2. count[k] \in Nat /\ ttl[k] \in Nat /\ admitted[k] \in Nat /\ MaxRequests[k] \in Nat
    BY ThrottleAssumption DEF ThrottleTypeOK
  <2> QED BY <2>1, <2>2 DEF CountersHold
<1>3. GuessesHold'
  <2>1. UNCHANGED <<forgotten, stage>> /\ Comparing' = Comparing
    BY DEF WindowElapses, Comparing
  <2>2. /\ count'["login_fail"] = 0 \/ count'["login_fail"] = count["login_fail"]
        /\ guesses' = IF count'["login_fail"] = 0 THEN 0 ELSE guesses
    BY <1>0 DEF WindowElapses
  <2>3. Cardinality(Comparing) \in Nat /\ Comparing \subseteq Visit
    BY VisitSets DEF Comparing
  <2> QED BY <1>0, <2>1, <2>2, <2>3, ThrottleAssumption, VisitSets DEF GuessesHold, ThrottleTypeOK
<1> QED BY <1>1, <1>2, <1>3

LEMMA GateKeeps ==
  ASSUME ThrottleInv, NEW c \in Visit, NEW k \in Counter, k # "login_fail", NEW here, NEW there,
         Gate(c, k, here, there), there # "compare"
  PROVE  ThrottleInv'
<1> USE DEF ThrottleInv
<1>0. "login_fail" \in Counter
  BY DEF Counter
<1> USE <1>0
<1>1. PICK label : stage' = [stage EXCEPT ![c] = label] /\ label # "compare"
  BY DEF Gate, To, Leave
<1>2. UNCHANGED <<guesses, forgotten>>
  BY DEF Gate, ledgerOf
<1>3. \/ /\ incr_with_ttl(k)
         /\ \/ UNCHANGED admitted
            \/ count[k] + 1 <= MaxRequests[k] /\ admitted' = [admitted EXCEPT ![k] = @ + 1]
      \/ UNCHANGED <<count, ttl, admitted>>
  <2>1. count[k] \in Nat /\ MaxRequests[k] \in Nat
    BY ThrottleAssumption DEF ThrottleTypeOK
  <2> QED BY <2>1 DEF Gate, ledgerOf
<1>4. CASE incr_with_ttl(k)
  <2>1. ThrottleTypeOK'
    BY <1>1, <1>2, <1>3, <1>4, IncrKeeps, NoMoreGuesses DEF ThrottleTypeOK
  <2>2. CountersHold'
    <3>1. \A j \in Counter : /\ count[j] \in Nat /\ admitted[j] \in Nat /\ MaxRequests[j] \in Nat
                             /\ admitted'[j] = admitted[j] \/ (j = k /\ count[k] + 1 <= MaxRequests[k] /\ admitted'[j] = admitted[j] + 1)
      BY <1>3, ThrottleAssumption DEF ThrottleTypeOK
    <3> QED BY <1>4, <3>1, IncrKeeps DEF CountersHold
  <2>3. GuessesHold'
    BY <1>1, <1>2, <1>4, IncrKeeps, NoMoreGuesses, ThrottleAssumption, VisitSets DEF GuessesHold, ThrottleTypeOK
  <2> QED BY <2>1, <2>2, <2>3
<1>5. CASE UNCHANGED <<count, ttl, admitted>>
  BY <1>1, <1>2, <1>5, NoMoreGuesses, ThrottleAssumption, VisitSets DEF ThrottleTypeOK, CountersHold, GuessesHold
<1> QED BY <1>3, <1>4, <1>5

LEMMA ForgotKeeps == ASSUME ThrottleInv, NEW c \in Visit, forgot_allowed(c) PROVE ThrottleInv'
<1> USE DEF ThrottleInv
<1>0. "login_fail" \in Counter /\ "forgot" \in Counter
  BY DEF Counter
<1> USE <1>0
<1>1. /\ stage' = [stage EXCEPT ![c] = "idle"] /\ UNCHANGED <<guesses, forgotten>>
  BY DEF forgot_allowed, Leave, ledgerOf
<1>2. CASE incr_with_ttl("forgot")
  <2>1. \/ UNCHANGED admitted
        \/ count["forgot"] + 1 <= MaxRequests["forgot"] /\ admitted' = [admitted EXCEPT !["forgot"] = @ + 1]
    <3>1. CASE admitted' = [admitted EXCEPT !["forgot"] =
                 IF count["forgot"] + 1 <= MaxRequests["forgot"] THEN @ + 1 ELSE @]
      BY <3>1 DEF ThrottleTypeOK
    <3> QED BY <3>1 DEF forgot_allowed, ledgerOf
  <2>2. ThrottleTypeOK'
    BY <1>1, <1>2, <2>1, IncrKeeps, NoMoreGuesses DEF ThrottleTypeOK
  <2>3. CountersHold'
    <3>1. \A j \in Counter : /\ count[j] \in Nat /\ admitted[j] \in Nat /\ MaxRequests[j] \in Nat
                             /\ \/ admitted'[j] = admitted[j]
                                \/ /\ j = "forgot" /\ count["forgot"] + 1 <= MaxRequests["forgot"]
                                   /\ admitted'[j] = admitted[j] + 1
      BY <2>1, ThrottleAssumption DEF ThrottleTypeOK
    <3> QED BY <1>2, <3>1, IncrKeeps DEF CountersHold
  <2>4. GuessesHold'
    BY <1>1, <1>2, IncrKeeps, NoMoreGuesses, ThrottleAssumption, VisitSets DEF GuessesHold, ThrottleTypeOK
  <2> QED BY <2>2, <2>3, <2>4
<1>3. CASE UNCHANGED <<count, ttl, admitted>>
  BY <1>1, <1>3, NoMoreGuesses, ThrottleAssumption, VisitSets DEF ThrottleTypeOK, CountersHold, GuessesHold
<1> QED BY <1>2, <1>3 DEF forgot_allowed, ledgerOf

\* The only way to compare is through the check; each failure is counted as a guess is.
LEMMA LoginKeeps ==
  ASSUME ThrottleInv, NEW c \in Visit, login_locked_out(c)
  PROVE  ThrottleInv'
<1> USE DEF ThrottleInv
<1>0. "login_fail" \in Counter
  BY DEF Counter
<1> USE <1>0
<1>1. UNCHANGED <<count, ttl, admitted, guesses>>
  BY DEF login_locked_out, ledgerOf
<1>2. stage' = [stage EXCEPT ![c] = "idle"] \/ stage' = [stage EXCEPT ![c] = "compare"]
  BY DEF login_locked_out, Leave, To
<1>3. ThrottleTypeOK' /\ CountersHold'
  BY <1>1, <1>2 DEF ThrottleTypeOK, CountersHold
<1>4. GuessesHold'
  <2>1. CASE stage' = [stage EXCEPT ![c] = "idle"] /\ forgotten' = forgotten
    BY <1>1, <2>1, NoMoreGuesses, ThrottleAssumption, VisitSets, SMTT(30) DEF GuessesHold, ThrottleTypeOK
  <2>2. CASE count["login_fail"] < MaxRequests["login_fail"] /\ forgotten' = forgotten
    <3>1. Comparing' \subseteq Visit
      BY <1>2 DEF Comparing
    <3>2. Cardinality(Comparing') \in Nat /\ Cardinality(Comparing') <= Cardinality(Visit)
      BY <3>1, VisitSets
    <3>3. count["login_fail"] \in Nat /\ MaxRequests["login_fail"] \in Nat
      BY ThrottleAssumption DEF ThrottleTypeOK
    <3> QED BY <1>1, <2>2, <3>2, <3>3, VisitSets DEF GuessesHold
  <2>3. CASE forgotten' = TRUE
    BY <2>3 DEF GuessesHold
  <2>4. count["login_fail"] \in Nat /\ MaxRequests["login_fail"] \in Nat
    BY ThrottleAssumption DEF ThrottleTypeOK
  <2>5. \/ (count["login_fail"] >= MaxRequests["login_fail"] /\ Leave(c) /\ forgotten' = forgotten)
        \/ (~(count["login_fail"] >= MaxRequests["login_fail"]) /\ forgotten' = forgotten)
        \/ forgotten' = TRUE
    BY DEF login_locked_out
  <2>7. ~(count["login_fail"] >= MaxRequests["login_fail"]) => count["login_fail"] < MaxRequests["login_fail"]
    BY <2>4
  <2>6. Leave(c) => stage' = [stage EXCEPT ![c] = "idle"]
    BY DEF Leave
  <2> QED BY <2>1, <2>2, <2>3, <2>5, <2>6, <2>7
<1> QED BY <1>3, <1>4

LEMMA ComparedKeeps ==
  ASSUME ThrottleInv, NEW c \in Visit,
         record_login_failure(c) \/ clear_login_failures(c) \/ RejectInactive(c)
  PROVE  ThrottleInv'
<1> USE DEF ThrottleInv
<1>0. "login_fail" \in Counter
  BY DEF Counter
<1> USE <1>0
<1>1. /\ stage' = [stage EXCEPT ![c] = "idle"] /\ UNCHANGED admitted /\ c \in Comparing
  BY DEF record_login_failure, clear_login_failures, RejectInactive, Leave, ledgerOf, Comparing
<1>2. CASE record_login_failure(c) /\ incr_with_ttl("login_fail")
  <2>1. guesses' = guesses + 1 /\ (UNCHANGED forgotten \/ forgotten' = TRUE)
    BY <1>2 DEF record_login_failure
  <2>2. ThrottleTypeOK' /\ CountersHold'
    BY <1>1, <1>2, <2>1, IncrKeeps, NoMoreGuesses DEF ThrottleTypeOK, CountersHold
  <2>3. GuessesHold'
    <3>1. /\ count'["login_fail"] = count["login_fail"] + 1
          /\ Cardinality(Comparing') = Cardinality(Comparing) - 1 /\ Cardinality(Comparing) \in Nat
      BY <1>1, <1>2, IncrKeeps, NoMoreGuesses
    <3>2. count["login_fail"] \in Nat /\ MaxRequests["login_fail"] \in Nat /\ guesses \in Nat
      BY ThrottleAssumption DEF ThrottleTypeOK
    <3> QED BY <2>1, <3>1, <3>2, VisitSets DEF GuessesHold
  <2> QED BY <2>2, <2>3
<1>3. CASE record_login_failure(c) /\ ~incr_with_ttl("login_fail")
  <2>1. guesses' = guesses + 1 /\ forgotten' = TRUE /\ UNCHANGED <<count, ttl>>
    BY <1>3 DEF record_login_failure
  <2> QED BY <1>1, <2>1, NoMoreGuesses DEF ThrottleTypeOK, CountersHold, GuessesHold
<1>4. CASE clear_login_failures(c) \/ RejectInactive(c)
  <2>1. UNCHANGED forgotten
    BY <1>4 DEF clear_login_failures, RejectInactive
  <2>2. CASE UNCHANGED <<count, ttl, guesses>>
    BY <1>1, <2>1, <2>2, NoMoreGuesses, ThrottleAssumption, VisitSets
       DEF ThrottleTypeOK, CountersHold, GuessesHold
  <2>3. CASE /\ count' = [count EXCEPT !["login_fail"] = 0] /\ ttl' = [ttl EXCEPT !["login_fail"] = 0]
             /\ guesses' = 0
    <3>1. ThrottleTypeOK' /\ CountersHold'
      BY <1>1, <2>3, NoMoreGuesses DEF ThrottleTypeOK, CountersHold
    <3>2. /\ count'["login_fail"] = 0
          /\ Cardinality(Comparing') = Cardinality(Comparing) - 1 /\ Cardinality(Comparing) \in Nat
      BY <1>1, <2>3, NoMoreGuesses DEF ThrottleTypeOK
    <3>3. MaxRequests["login_fail"] \in Nat /\ guesses \in Nat
      BY ThrottleAssumption DEF ThrottleTypeOK
    <3>4. Cardinality(Comparing) <= Cardinality(Visit)
      BY VisitSets DEF Comparing
    <3>5. GuessesHold'
      BY <2>1, <2>3, <3>2, <3>3, <3>4, VisitSets DEF GuessesHold
    <3> QED BY <3>1, <3>5
  <2> QED BY <1>4, <2>2, <2>3 DEF clear_login_failures, RejectInactive, ledgerOf
<1> QED BY <1>2, <1>3, <1>4

LEMMA ComeAndGoKeeps ==
  ASSUME ThrottleInv, NEW c \in Visit, Serve(c) \/ \E r \in {"login", "forgot", "other"} : Knock(c, r)
  PROVE  ThrottleInv'
<1>1. /\ UNCHANGED <<count, ttl, admitted, guesses, forgotten>>
      /\ stage' = [stage EXCEPT ![c] = "idle"] \/ stage' = [stage EXCEPT ![c] = "knocking"]
  BY DEF Serve, Knock, Leave, ledgerOf
<1>2. "login_fail" \in Counter
  BY DEF Counter
<1> QED BY <1>1, <1>2, NoMoreGuesses, ThrottleAssumption, VisitSets
           DEF ThrottleInv, ThrottleTypeOK, CountersHold, GuessesHold

\* Where a request asks for is one of the three routes.
RoutesAreKnown == route \in [Visit -> {"none", "login", "forgot", "other"}]

\* utils/ephemeral.rs, middleware/rate_limit.rs, auth/rate_limit.rs: for any requests at
\* once, thresholds, windows and failed calls.
THEOREM LimitsHold == ThrottleSpec => []ThrottleHolds
<1>1. ThrottleInit => RoutesAreKnown
  BY DEF ThrottleInit, RoutesAreKnown
<1>2. ASSUME RoutesAreKnown, [ThrottleNext]_throttleVars
      PROVE  RoutesAreKnown'
  <2>1. \/ UNCHANGED route
        \/ \E c \in Visit, r \in {"none", "login", "forgot", "other"} : route' = [route EXCEPT ![c] = r]
    BY <1>2 DEF ThrottleNext, throttleVars, WindowElapses, Knock, rate_limit_middleware, strict_rate_limit,
                Gate, To, Leave, Serve, forgot_allowed, login_locked_out, record_login_failure,
                clear_login_failures, RejectInactive
  <2> QED BY <1>2, <2>1 DEF RoutesAreKnown
<1>3. ASSUME ThrottleInv, RoutesAreKnown, [ThrottleNext]_throttleVars PROVE ThrottleInv'
  <2>1. CASE WindowElapses
    BY <1>3, <2>1, WindowKeeps
  <2>2. ASSUME NEW c \in Visit, rate_limit_middleware(c) \/ strict_rate_limit(c) PROVE ThrottleInv'
    <3>1. "global" \in Counter /\ "auth" \in Counter /\ route[c] # "compare"
      BY <1>3 DEF Counter, RoutesAreKnown
    <3> QED BY <1>3, <2>2, <3>1, GateKeeps DEF rate_limit_middleware, strict_rate_limit
  <2>3. ASSUME NEW c \in Visit, forgot_allowed(c) \/ login_locked_out(c) PROVE ThrottleInv'
    BY <1>3, <2>3, ForgotKeeps, LoginKeeps
  <2>4. ASSUME NEW c \in Visit, record_login_failure(c) \/ clear_login_failures(c) \/ RejectInactive(c)
        PROVE  ThrottleInv'
    BY <1>3, <2>4, ComparedKeeps
  <2>5. ASSUME NEW c \in Visit, Serve(c) \/ \E r \in {"login", "forgot", "other"} : Knock(c, r)
        PROVE  ThrottleInv'
    BY <1>3, <2>5, ComeAndGoKeeps
  <2>6. CASE UNCHANGED throttleVars
    BY <1>3, <2>6 DEF throttleVars, ThrottleInv, ThrottleTypeOK, CountersHold, GuessesHold, Comparing
  <2> QED BY <1>3, <2>1, <2>2, <2>3, <2>4, <2>5, <2>6 DEF ThrottleNext
<1>4. ThrottleInv => ThrottleHolds
  <2> SUFFICES ASSUME ThrottleInv PROVE ThrottleHolds
    OBVIOUS
  <2>1. Comparing \subseteq Visit
    BY DEF Comparing
  <2>2. Cardinality(Comparing) \in Nat /\ Cardinality(Visit) \in Nat /\ guesses \in Nat
    BY <2>1, VisitSets DEF ThrottleInv, ThrottleTypeOK
  <2>3. "login_fail" \in Counter
    BY DEF Counter
  <2>4. MaxRequests["login_fail"] \in Nat
    BY <2>3, ThrottleAssumption
  <2>5. ~forgotten => guesses < MaxRequests["login_fail"] + Cardinality(Visit)
    BY <2>2, <2>4 DEF ThrottleInv, GuessesHold
  <2>6. \A k \in Counter : (count[k] > 0) = (ttl[k] > 0)
    <3> TAKE k \in Counter
    <3>1. count[k] \in Nat /\ ttl[k] \in Nat /\ (count[k] > 0 <=> ttl[k] > 0)
      BY DEF ThrottleInv, ThrottleTypeOK, CountersHold
    <3> QED BY <3>1
  <2>7. \A k \in Counter \ {"login_fail"} : admitted[k] <= MaxRequests[k] /\ admitted[k] <= count[k]
    BY DEF ThrottleInv, CountersHold
  <2> QED BY <2>5, <2>6, <2>7 DEF ThrottleHolds
<1> QED BY <1>1, <1>2, <1>3, <1>4, ThrottleStarts, PTL DEF ThrottleSpec

-----------------------------------------------------------------------------
(* Accounts: however first sign-ins interleave, each is whole and its own. *)

\* A sign-in under way saw its identity bound, or not yet; and what it plans still fits:
\* an identity stays where it is bound, and an address found unbound is still there, or
\* was bound meanwhile to the identity that has the address, which is this one.
LoginHolds(l) ==
  /\ DOMAIN l = {"at", "sub", "email", "plan", "user", "seen"}
  /\ l.at \in {"idle", "google", "email", "write"}
  /\ l.at # "idle" => l.sub \in Sub /\ l.email \in Mails[l.sub]
  /\ l.at = "google" => l.seen \subseteq ByGoogle(l.sub)
  /\ l.at = "email" => l.seen = {}
  /\ l.at = "write" =>
       /\ l.plan \in {"refresh", "link", "create"}
       /\ l.plan # "refresh" => l.seen = {}
       /\ l.plan = "refresh" => ByGoogle(l.sub) # {}
       /\ l.plan = "link" =>
            /\ l.user \in Inserted
            /\ \/ google_id[l.user] = NoOne /\ email[l.user] = l.email
               \/ google_id[l.user] = l.sub

RegTypeOK ==
  /\ email \in [Account -> Address \cup {NoOne}] /\ google_id \in [Account -> Sub \cup {NoOne}]
  /\ events \in [Account -> Nat] /\ welcomes \in [Account -> Nat]
  /\ IsFiniteSet(toWelcome) /\ \A w \in toWelcome : w[1] \in Account
  /\ login = [g \in Login |-> login[g]]

LoginsHold == \A g \in Login : LoginHolds(login[g])

RowsHold ==
  /\ \A u \in Account \ Inserted : google_id[u] = NoOne /\ events[u] = 0
  /\ \A u, v \in Inserted : u # v =>
       email[u] # email[v] /\ (google_id[u] # NoOne => google_id[u] # google_id[v])
  /\ \A u \in Inserted : events[u] >= 1 /\ (u \in password \/ google_id[u] # NoOne)
  /\ \A u \in Inserted : google_id[u] # NoOne => email[u] \in Mails[google_id[u]]

\* A welcome that was given or is owed was announced.
Owed(u) == {w \in toWelcome : w[1] = u}
WelcomesHold == \A u \in Account : welcomes[u] + Cardinality(Owed(u)) <= events[u]

RegInv == RegTypeOK /\ LoginsHold /\ RowsHold /\ WelcomesHold /\ ~regranted

\* What any step does to the rows: none goes, a bound identity stays, and a row that is
\* bound bears an address of the identity it is bound to.
RowsGrow == \A u \in Inserted :
  /\ u \in Inserted'
  /\ google_id[u] # NoOne => google_id'[u] = google_id[u]
  /\ google_id[u] = NoOne => \/ google_id'[u] = NoOne /\ email'[u] = email[u]
                             \/ google_id'[u] \in Sub /\ email[u] \in Mails[google_id'[u]]

LEMMA NoLoginHolds == LoginHolds(NoLogin) /\ LoginHolds(NoLogin)'
BY DEF LoginHolds, NoLogin

LEMMA PlansStillFit ==
  ASSUME RegInv, RowsGrow, NEW l, LoginHolds(l)
  PROVE  /\ DOMAIN l = {"at", "sub", "email", "plan", "user", "seen"}
         /\ l.at \in {"idle", "google", "email", "write"}
         /\ l.at # "idle" => l.sub \in Sub /\ l.email \in Mails[l.sub]
         /\ l.at = "google" => l.seen \subseteq ByGoogle(l.sub)'
         /\ l.at = "email" => l.seen = {}
         /\ l.at = "write" =>
              /\ l.plan \in {"refresh", "link", "create"}
              /\ l.plan # "refresh" => l.seen = {}
              /\ l.plan = "refresh" => ByGoogle(l.sub)' # {}
              /\ l.plan = "link" =>
                   /\ l.user \in Inserted'
                   /\ \/ google_id'[l.user] = NoOne /\ email'[l.user] = l.email
                      \/ google_id'[l.user] = l.sub
<1>1. l.at # "idle" => l.sub \in Sub /\ l.email \in Mails[l.sub]
  BY DEF LoginHolds
<1>2. \A s \in Sub : ByGoogle(s) \subseteq ByGoogle(s)'
  BY RegAssumption DEF RowsGrow, ByGoogle
<1>3. ASSUME l.at = "write", l.plan = "link"
      PROVE  /\ l.user \in Inserted'
             /\ \/ google_id'[l.user] = NoOne /\ email'[l.user] = l.email
                \/ google_id'[l.user] = l.sub
  <2>1. /\ l.user \in Inserted
        /\ \/ google_id[l.user] = NoOne /\ email[l.user] = l.email
           \/ google_id[l.user] = l.sub
    BY <1>3 DEF LoginHolds
  <2>2. \A s, t \in Sub : \A e : e \in Mails[s] /\ e \in Mails[t] => s = t
    BY RegAssumption
  <2>3. l.sub \in Sub /\ l.email \in Mails[l.sub] /\ l.sub # NoOne
    BY <1>1, <1>3, RegAssumption
  <2> QED BY <2>1, <2>2, <2>3 DEF RowsGrow
<1> QED BY <1>1, <1>2, <1>3 DEF LoginHolds

LEMMA LoginsKeep ==
  ASSUME RegInv, RowsGrow, login' = login PROVE LoginsHold'
BY PlansStillFit DEF RegInv, LoginsHold, LoginHolds

LEMMA OtherLoginsKeep ==
  ASSUME RegInv, RowsGrow, NEW g \in Login, NEW l, login' = [login EXCEPT ![g] = l], LoginHolds(l)'
  PROVE  LoginsHold' /\ login' = [h \in Login |-> login'[h]]
<1>1. /\ login' = [h \in Login |-> login'[h]] /\ login'[g] = l
      /\ \A h \in Login \ {g} : login'[h] = login[h]
  BY DEF RegInv, RegTypeOK
<1> QED BY <1>1, PlansStillFit, SMTT(30) DEF RegInv, LoginsHold, LoginHolds

LEMMA Untouched ==
  ASSUME RegInv, UNCHANGED <<email, google_id>>
  PROVE  /\ RowsGrow /\ Inserted' = Inserted
         /\ \A s : ByGoogle(s)' = ByGoogle(s)
         /\ \A e : ByEmail(e)' = ByEmail(e)
<1>1. Inserted' = Inserted
  BY DEF Inserted
<1> QED BY <1>1 DEF RowsGrow, ByGoogle, ByEmail

\* The welcomes owed to an account, as they come and go.
LEMMA OwedSets ==
  ASSUME RegTypeOK, NEW u \in Account
  PROVE  IsFiniteSet(Owed(u)) /\ Cardinality(Owed(u)) \in Nat
BY FS_Subset, FS_CardinalityType DEF RegTypeOK, Owed

LEMMA RegStarts == RegInit => RegInv
<1> SUFFICES ASSUME RegInit PROVE RegInv
  OBVIOUS
<1>1. Inserted = {}
  BY DEF RegInit, Inserted
<1>2. RegTypeOK
  BY FS_EmptySet DEF RegInit, RegTypeOK
<1>3. LoginsHold
  BY NoLoginHolds DEF RegInit, LoginsHold
<1>4. RowsHold
  BY <1>1 DEF RegInit, RowsHold
<1>5. \A u \in Account : Owed(u) = {}
  BY DEF RegInit, Owed
<1>6. WelcomesHold
  BY <1>5, FS_EmptySet DEF RegInit, WelcomesHold
<1> QED BY <1>2, <1>3, <1>4, <1>6 DEF RegInv, RegInit

LEMMA CreateKeeps ==
  ASSUME RegInv, NEW u \in Account, NEW e \in Address, NEW b \in BOOLEAN, create_account(u, e, b)
  PROVE  RegInv'
<1> USE DEF RegInv
<1>1. /\ u \notin Inserted /\ \A v \in Inserted : email[v] # e
      /\ email' = [email EXCEPT ![u] = e] /\ password' = password \cup {u}
      /\ events' = [events EXCEPT ![u] = 1]
      /\ toWelcome' = toWelcome \/ toWelcome' = toWelcome \cup {<<u, NoOne>>}
      /\ UNCHANGED <<google_id, welcomes, login, regranted>>
  BY DEF create_account, ByEmail
<1>2. RegTypeOK'
  <2>0. IsFiniteSet(toWelcome) /\ IsFiniteSet(toWelcome \cup {<<u, NoOne>>})
    BY FS_AddElement DEF RegTypeOK
  <2>1. IsFiniteSet(toWelcome')
    BY <1>1, <2>0
  <2> QED BY <1>1, <2>1 DEF RegTypeOK
<1>3. /\ e # NoOne /\ email'[u] = e /\ \A v \in Account \ {u} : email'[v] = email[v]
      /\ Inserted' = Inserted \cup {u}
      /\ events'[u] = 1 /\ \A v \in Account \ {u} : events'[v] = events[v]
  BY <1>1, RegAssumption DEF RegTypeOK, Inserted
<1>4. RowsGrow
  BY <1>1, <1>3 DEF RowsGrow, Inserted
<1>5. LoginsHold'
  BY <1>1, <1>4, LoginsKeep
<1>6. RowsHold'
  BY <1>1, <1>3 DEF RowsHold
<1>7. WelcomesHold'
  <2> SUFFICES ASSUME NEW v \in Account PROVE welcomes'[v] + Cardinality(Owed(v)') <= events'[v]
    BY DEF WelcomesHold
  <2>1. CASE v # u
    <3>1. Owed(v)' = Owed(v)
      BY <1>1, <2>1 DEF Owed
    <3> QED BY <1>1, <1>3, <2>1, <3>1 DEF WelcomesHold
  <2>2. CASE v = u
    <3>1. welcomes[u] \in Nat /\ events[u] = 0 /\ IsFiniteSet(Owed(u)) /\ Cardinality(Owed(u)) \in Nat
      BY <1>1, OwedSets DEF RegTypeOK, RowsHold
    <3>2. welcomes[u] = 0 /\ Cardinality(Owed(u)) = 0
      BY <3>1 DEF WelcomesHold
    <3>3. Owed(u) = {}
      BY <3>1, <3>2, FS_EmptySet
    <3>4. Owed(u)' \subseteq {<<u, NoOne>>}
      BY <1>1, <3>3 DEF Owed
    <3>5. Cardinality(Owed(u)') \in {0, 1}
      <4>1. Owed(u)' = {} \/ Owed(u)' = {<<u, NoOne>>}
        BY <3>4
      <4>2. Cardinality({<<u, NoOne>>}) = 1
        BY FS_Singleton
      <4>3. Cardinality({}) = 0
        BY FS_EmptySet
      <4> QED BY <4>1, <4>2, <4>3
    <3> QED BY <1>1, <1>3, <2>2, <3>2, <3>5
  <2> QED BY <2>1, <2>2
<1> QED BY <1>1, <1>2, <1>5, <1>6, <1>7

LEMMA WelcomeKeeps ==
  ASSUME RegInv, NEW w \in toWelcome, Welcome(w) PROVE RegInv'
<1> USE DEF RegInv
<1> DEFINE u == w[1]
<1>1. /\ u \in Account /\ toWelcome' = toWelcome \ {w}
      /\ welcomes' = welcomes \/ welcomes' = [welcomes EXCEPT ![u] = @ + 1]
      /\ UNCHANGED <<email, google_id, password, login, events, regranted>>
  BY DEF Welcome, RegTypeOK, accounts
<1> HIDE DEF u
<1>2. RegTypeOK'
  BY <1>1, FS_RemoveElement DEF RegTypeOK
<1>3. LoginsHold' /\ RowsHold'
  BY <1>1, Untouched, LoginsKeep DEF RowsHold
<1>4. WelcomesHold'
  <2> SUFFICES ASSUME NEW v \in Account PROVE welcomes'[v] + Cardinality(Owed(v)') <= events'[v]
    BY DEF WelcomesHold
  <2>1. CASE v # u
    <3>1. Owed(v)' = Owed(v)
      BY <1>1, <2>1 DEF Owed, u
    <3> QED BY <1>1, <2>1, <3>1 DEF WelcomesHold, RegTypeOK
  <2>2. CASE v = u
    <3>1. w \in Owed(v) /\ Owed(v)' = Owed(v) \ {w}
      BY <1>1, <2>2 DEF Owed, u
    <3>2. IsFiniteSet(Owed(v)) /\ Cardinality(Owed(v)) \in Nat
      BY OwedSets
    <3>3. Cardinality(Owed(v)') = Cardinality(Owed(v)) - 1
      BY <3>1, <3>2, FS_RemoveElement
    <3>4. welcomes[v] \in Nat /\ events[v] \in Nat /\ welcomes'[v] \in {welcomes[v], welcomes[v] + 1}
      BY <1>1, <2>2 DEF RegTypeOK
    <3> QED BY <1>1, <3>2, <3>3, <3>4 DEF WelcomesHold
  <2> QED BY <2>1, <2>2
<1> QED BY <1>1, <1>2, <1>3, <1>4

\* A sign-in looks, and plans.
LEMMA LooksKeep ==
  ASSUME RegInv, NEW g \in Login,
         \/ FindByGoogle(g) \/ FindByEmail(g) \/ FailGoogle(g)
         \/ \E s \in Sub, e \in Address : AskGoogle(g, s, e)
  PROVE  RegInv'
<1> USE DEF RegInv
<1>1. UNCHANGED <<email, google_id, password, events, welcomes, toWelcome, regranted>>
  BY DEF FindByGoogle, FindByEmail, FailGoogle, AskGoogle, LookedUp, accounts
<1>2. RowsGrow /\ RowsHold' /\ WelcomesHold'
  BY <1>1, Untouched DEF RowsHold, WelcomesHold, Owed
<1>3. ASSUME NEW l, login' = [login EXCEPT ![g] = l], LoginHolds(l)' PROVE RegInv'
  BY <1>1, <1>2, <1>3, OtherLoginsKeep DEF RegTypeOK
<1>4. LoginHolds(login[g])
  BY DEF LoginsHold
<1>5. CASE FailGoogle(g)
  BY <1>3, <1>5, NoLoginHolds DEF FailGoogle, GiveUp
<1>6. ASSUME NEW s \in Sub, NEW e \in Address, AskGoogle(g, s, e) PROVE RegInv'
  <2> SUFFICES ASSUME NEW l, l = [NoLogin EXCEPT !.at = "google", !.sub = s, !.email = e, !.seen = ByGoogle(s)] PROVE RegInv'
    OBVIOUS
  <2>1. login' = [login EXCEPT ![g] = l] /\ e \in Mails[s]
    BY <1>6 DEF AskGoogle
  <2>2. /\ DOMAIN l = {"at", "sub", "email", "plan", "user", "seen"}
        /\ l.at = "google" /\ l.sub = s /\ l.email = e /\ l.seen = ByGoogle(s)
    BY DEF NoLogin
  <2>3. LoginHolds(l)'
    BY <1>1, <2>1, <2>2, Untouched DEF LoginHolds
  <2> QED BY <1>3, <2>1, <2>3
<1>7. CASE FindByGoogle(g)
  <2>1. CASE ByGoogle(login[g].sub) = {} /\ login' = [login EXCEPT ![g].at = "email"]
    <3> SUFFICES ASSUME NEW l, l = [login[g] EXCEPT !.at = "email"] PROVE RegInv'
      OBVIOUS
    <3>1. login' = [login EXCEPT ![g] = l]
      BY <2>1
    <3>2. /\ DOMAIN l = {"at", "sub", "email", "plan", "user", "seen"}
          /\ l.at = "email" /\ l.sub = login[g].sub /\ l.email = login[g].email /\ l.seen = login[g].seen
      BY <1>4 DEF LoginHolds
    <3>3. LoginHolds(l)'
      BY <1>1, <1>4, <1>7, <2>1, <3>2, Untouched DEF LoginHolds, FindByGoogle
    <3> QED BY <1>3, <3>1, <3>3
  <2>2. ASSUME NEW u \in ByGoogle(login[g].sub), Plan(g, "refresh", u) PROVE RegInv'
    <3> SUFFICES ASSUME NEW l, l = [login[g] EXCEPT !.at = "write", !.plan = "refresh", !.user = u] PROVE RegInv'
      OBVIOUS
    <3>1. login' = [login EXCEPT ![g] = l]
      BY <2>2 DEF Plan
    <3>2. /\ DOMAIN l = {"at", "sub", "email", "plan", "user", "seen"}
          /\ l.at = "write" /\ l.sub = login[g].sub /\ l.email = login[g].email /\ l.plan = "refresh"
      BY <1>4 DEF LoginHolds
    <3>3. LoginHolds(l)'
      BY <1>1, <1>4, <1>7, <2>2, <3>2, Untouched DEF LoginHolds, FindByGoogle
    <3> QED BY <1>3, <3>1, <3>3
  <2> QED BY <1>7, <2>1, <2>2 DEF FindByGoogle
<1>8. CASE FindByEmail(g)
  <2>0. login[g].at = "email" /\ login[g].seen = {} /\ login[g].sub \in Sub /\ login[g].email \in Mails[login[g].sub]
    BY <1>4, <1>8 DEF LoginHolds, FindByEmail
  <2>1. ASSUME NEW action \in {"link", "create"}, NEW u, Plan(g, action, u),
               action = "link" => u \in ByEmail(login[g].email) /\ google_id[u] = NoOne
        PROVE  RegInv'
    <3> SUFFICES ASSUME NEW l, l = [login[g] EXCEPT !.at = "write", !.plan = action, !.user = u] PROVE RegInv'
      OBVIOUS
    <3>1. login' = [login EXCEPT ![g] = l]
      BY <2>1 DEF Plan
    <3>2. /\ DOMAIN l = {"at", "sub", "email", "plan", "user", "seen"}
          /\ l.at = "write" /\ l.sub = login[g].sub /\ l.email = login[g].email /\ l.plan = action
          /\ l.seen = {} /\ l.user = u
      BY <1>4, <2>0 DEF LoginHolds
    <3>3. LoginHolds(l)'
      BY <1>1, <2>0, <2>1, <3>2, Untouched DEF LoginHolds, ByEmail
    <3> QED BY <1>3, <3>1, <3>3
  <2>2. CASE GiveUp(g)
    BY <1>3, <2>2, NoLoginHolds DEF GiveUp
  <2> QED BY <1>8, <2>1, <2>2 DEF FindByEmail
<1> QED BY <1>5, <1>6, <1>7, <1>8

\* Whatever it planned, a sign-in writes its address and its identity to one row: a new
\* one, the one its identity has, or one that was bound to nobody and has that address.
LEMMA WrittenRow ==
  ASSUME RegInv, NEW g \in Login, NEW u \in Account, CommitGoogle(g, u)
  PROVE  LET l == login[g] IN
         /\ l.sub \in Sub /\ l.email \in Mails[l.sub]
         /\ email' = [email EXCEPT ![u] = l.email] /\ google_id' = [google_id EXCEPT ![u] = l.sub]
         /\ \A v \in Inserted \ {u} : email[v] # l.email /\ google_id[v] # l.sub
         /\ \/ u \notin Inserted /\ l.plan = "create"
            \/ u \in Inserted /\ google_id[u] = l.sub
            \/ u \in Inserted /\ google_id[u] = NoOne /\ email[u] = l.email
<1> DEFINE l == login[g]
<1>1. LoginHolds(l) /\ l.at = "write"
  BY DEF RegInv, LoginsHold, CommitGoogle
<1>2. l.sub \in Sub /\ l.sub # NoOne /\ l.email \in Mails[l.sub] /\ l.plan \in {"refresh", "link", "create"}
  BY <1>1, RegAssumption DEF LoginHolds
<1>3. /\ l.plan = "link" => l.user \in Inserted /\ (\/ google_id[l.user] = NoOne /\ email[l.user] = l.email
                                                   \/ google_id[l.user] = l.sub)
      /\ l.plan = "refresh" => ByGoogle(l.sub) # {}
  BY <1>1 DEF LoginHolds
<1>4. CASE l.plan = "link"
  <2>1. /\ u = l.user /\ ByGoogle(l.sub) = {}
        /\ google_id' = [google_id EXCEPT ![u] = l.sub] /\ email' = email
    BY <1>4 DEF CommitGoogle, link_google_account_tx
  <2> HIDE DEF l
  <2>2. \A v \in Inserted : google_id[v] # l.sub
    BY <2>1 DEF ByGoogle
  <2>3. u \in Inserted /\ google_id[u] = NoOne /\ email[u] = l.email
    BY <1>3, <1>4, <2>1, <2>2
  <2>4. email' = [email EXCEPT ![u] = l.email]
    BY <2>1, <2>3 DEF RegInv, RegTypeOK
  <2>5. \A v \in Inserted \ {u} : email[v] # l.email
    BY <2>3 DEF RegInv, RowsHold
  <2> QED BY <1>2, <2>1, <2>2, <2>3, <2>4, <2>5 DEF l
<1>5. CASE l.plan # "link"
  <2>1. /\ u \in (IF ByGoogle(l.sub) # {} THEN ByGoogle(l.sub) ELSE Account \ Inserted)
        /\ ByEmail(l.email) \subseteq {u}
        /\ email' = [email EXCEPT ![u] = l.email] /\ google_id' = [google_id EXCEPT ![u] = l.sub]
    BY <1>5 DEF CommitGoogle, Upsert
  <2> HIDE DEF l
  <2>2. \A v \in Inserted \ {u} : email[v] # l.email
    BY <2>1 DEF ByEmail
  <2>3. CASE ByGoogle(l.sub) # {}
    <3>1. u \in Inserted /\ google_id[u] = l.sub
      BY <2>1, <2>3 DEF ByGoogle
    <3>2. \A v \in Inserted \ {u} : google_id[v] # l.sub
      BY <1>2, <3>1 DEF RegInv, RowsHold
    <3> QED BY <1>2, <2>1, <2>2, <3>1, <3>2 DEF l
  <2>4. CASE ByGoogle(l.sub) = {}
    <3>1. \A v \in Inserted \ {u} : google_id[v] # l.sub
      BY <2>4 DEF ByGoogle
    <3>2. u \notin Inserted /\ l.plan = "create"
      BY <1>2, <1>3, <1>5, <2>1, <2>4
    <3> QED BY <1>2, <2>1, <2>2, <3>1, <3>2 DEF l
  <2> QED BY <2>3, <2>4
<1> QED BY <1>4, <1>5

LEMMA CommitKeeps ==
  ASSUME RegInv, NEW g \in Login, NEW u \in Account, CommitGoogle(g, u) PROVE RegInv'
<1> USE DEF RegInv
<1> SUFFICES ASSUME NEW l, l = login[g] PROVE RegInv'
  OBVIOUS
<1>1. /\ l.sub \in Sub /\ l.email \in Mails[l.sub]
      /\ email' = [email EXCEPT ![u] = l.email] /\ google_id' = [google_id EXCEPT ![u] = l.sub]
      /\ \A v \in Inserted \ {u} : email[v] # l.email /\ google_id[v] # l.sub
      /\ \/ u \notin Inserted /\ l.plan = "create"
         \/ u \in Inserted /\ google_id[u] = l.sub
         \/ u \in Inserted /\ google_id[u] = NoOne /\ email[u] = l.email
  BY WrittenRow
<1>2. /\ login' = [login EXCEPT ![g] = NoLogin] /\ UNCHANGED <<password, welcomes>>
      /\ events' = [events EXCEPT ![u] = IF l.plan \in {"create", "link"} THEN @ + 1 ELSE @]
      /\ toWelcome' = IF l.plan = "create" THEN toWelcome \cup {<<u, g>>} ELSE toWelcome
  BY DEF CommitGoogle, GiveUp
<1>3. ~regranted'
  <2>1. LoginHolds(l) /\ l.at = "write" /\ regranted' = (regranted \/ (l.plan = "create" /\ u \notin members /\ u \in l.seen))
    BY DEF LoginsHold, CommitGoogle
  <2> QED BY <2>1 DEF LoginHolds
<1>4. l.email # NoOne /\ l.sub # NoOne /\ l.email \in Address
  BY <1>1, RegAssumption
<1>5. /\ email'[u] = l.email /\ google_id'[u] = l.sub
      /\ \A v \in Account \ {u} : email'[v] = email[v] /\ google_id'[v] = google_id[v] /\ events'[v] = events[v]
      /\ Inserted' = Inserted \cup {u}
      /\ events'[u] = IF l.plan \in {"create", "link"} THEN events[u] + 1 ELSE events[u]
  BY <1>1, <1>2, <1>4 DEF RegTypeOK, Inserted
<1>6. RowsGrow
  BY <1>1, <1>4, <1>5, RegAssumption DEF RowsGrow, Inserted
<1>7. LoginsHold' /\ login' = [h \in Login |-> login'[h]]
  BY <1>2, <1>6, OtherLoginsKeep, NoLoginHolds
<1>8. RegTypeOK'
  <2>0. IsFiniteSet(toWelcome) /\ IsFiniteSet(toWelcome \cup {<<u, g>>})
    BY FS_AddElement DEF RegTypeOK
  <2>1. IsFiniteSet(toWelcome') /\ \A w \in toWelcome' : w[1] \in Account
    BY <1>2, <2>0 DEF RegTypeOK
  <2> QED BY <1>1, <1>2, <1>4, <1>7, <2>1 DEF RegTypeOK
<1>9. RowsHold'
  <2>1. events[u] \in Nat /\ (u \in Inserted => events[u] >= 1) /\ (u \notin Inserted => events[u] = 0)
    BY DEF RegTypeOK, RowsHold
  <2>2. events'[u] >= 1
    BY <1>1, <1>5, <2>1
  <2> QED BY <1>1, <1>2, <1>4, <1>5, <2>2 DEF RowsHold
<1>10. WelcomesHold'
  <2> SUFFICES ASSUME NEW v \in Account PROVE welcomes'[v] + Cardinality(Owed(v)') <= events'[v]
    BY DEF WelcomesHold
  <2>0. /\ welcomes[v] \in Nat /\ events[v] \in Nat /\ welcomes[v] + Cardinality(Owed(v)) <= events[v]
        /\ IsFiniteSet(Owed(v)) /\ Cardinality(Owed(v)) \in Nat
    BY OwedSets DEF RegTypeOK, WelcomesHold
  <2>1. CASE v # u \/ l.plan # "create"
    <3>1. Owed(v)' = Owed(v)
      BY <1>2, <2>1 DEF Owed
    <3>2. events'[v] \in {events[v], events[v] + 1}
      BY <1>5
    <3> QED BY <1>2, <2>0, <3>1, <3>2
  <2>2. CASE v = u /\ l.plan = "create"
    <3>1. Owed(v)' = Owed(v) \cup {<<u, g>>}
      BY <1>2, <2>2 DEF Owed
    <3>2. Cardinality(Owed(v)') \in {Cardinality(Owed(v)), Cardinality(Owed(v)) + 1}
      BY <2>0, <3>1, FS_AddElement
    <3> QED BY <1>2, <1>5, <2>0, <2>2, <3>2
  <2> QED BY <2>1, <2>2
<1> QED BY <1>3, <1>7, <1>8, <1>9, <1>10

\* auth/linking.rs, auth/provisioning.rs: for any accounts, identities, addresses and
\* sign-ins at once.
THEOREM AccountsStayWhole == RegSpec => []AccountsAreWhole
<1>1. ASSUME RegInv, [RegNext]_regVars PROVE RegInv'
  <2>1. ASSUME NEW u \in Account, RemoveMember(u) PROVE RegInv'
    <3>1. UNCHANGED <<email, google_id, password, events, welcomes, login, toWelcome, regranted>>
      BY <2>1 DEF RemoveMember, accounts
    <3> QED BY <1>1, <3>1, Untouched, LoginsKeep DEF RegInv, RegTypeOK, RowsHold, WelcomesHold, Owed
  <2>2. CASE UNCHANGED regVars
    <3>1. UNCHANGED <<email, google_id, password, events, welcomes, login, toWelcome, regranted>>
      BY <2>2 DEF regVars, accounts
    <3> QED BY <1>1, <3>1, Untouched, LoginsKeep DEF RegInv, RegTypeOK, RowsHold, WelcomesHold, Owed
  <2> QED BY <1>1, <2>1, <2>2, CreateKeeps, WelcomeKeeps, LooksKeep, CommitKeeps DEF RegNext
<1>2. RegInv => AccountsAreWhole
  <2> SUFFICES ASSUME RegInv PROVE AccountsAreWhole
    OBVIOUS
  <2>1. \A u \in Account : welcomes[u] <= events[u]
    BY OwedSets DEF RegInv, RegTypeOK, WelcomesHold
  <2> QED BY <2>1 DEF RegInv, RowsHold, AccountsAreWhole, Inserted
<1> QED BY <1>1, <1>2, RegStarts, PTL DEF RegSpec

-----------------------------------------------------------------------------
(* Conversations: two people have one, whoever opens it.                   *)

Rows2 == {c \in Talker \X Talker : c[1] # c[2]}
TalkTypeOK ==
  /\ conversations \subseteq Rows2 /\ IsFiniteSet(conversations) /\ IsFiniteSet(messages)
  /\ last_message_at = [p \in Pair |-> last_message_at[p]]
  /\ opening = [r \in Opening |-> opening[r]] /\ sending = [s \in Sending |-> sending[s]]

\* An opening names two people until it is told of their conversation.
OpeningHolds(o) ==
  /\ DOMAIN o = {"at", "caller", "target", "coach", "member", "row"}
  /\ o.at = "roles" => o.caller \in Talker /\ o.target \in Talker /\ o.caller # o.target
  /\ o.at \in {"find", "insert", "again"} => o.row \in Rows2
  /\ o.at = "again" => existing(o.row) # {}
  /\ o.at = "told" => o.row \in conversations
OpeningsHold == \A r \in Opening : OpeningHolds(opening[r])

\* What is sent, and what was, is between the two of a conversation.
Between(m, of) == \E c \in conversations : of = both(c) /\ m \in of
SendingsHold == \A s \in Sending :
  /\ DOMAIN sending[s] = {"at", "from", "pair", "now"}
  /\ sending[s].at # "idle" => Between(sending[s].from, sending[s].pair)
MessagesHold == \A m \in messages :
  /\ DOMAIN m = {"of", "from", "at", "n", "read_by"}
  /\ Between(m.from, m.of)
  /\ m.read_by # NoTalker => {m.from, m.read_by} = m.of
OneEach == \A c, d \in conversations : both(c) = both(d) => c = d
LastHolds == \A p \in Pair :
  IF \E m \in messages : m.of = p
  THEN \E m \in messages : m.of = p /\ m.at = last_message_at[p]
  ELSE last_message_at[p] = Unsent

TalkInv == TalkTypeOK /\ OpeningsHold /\ SendingsHold /\ MessagesHold /\ OneEach /\ LastHolds

-----------------------------------------------------------------------------
LEMMA TalkStarts == ConversationInit => TalkInv
BY FS_EmptySet
   DEF ConversationInit, TalkInv, TalkTypeOK, OpeningsHold, OpeningHolds, SendingsHold, MessagesHold, OneEach,
       LastHolds, Shut, Silent

\* A request to open that moves on.
LEMMA OpeningKeeps ==
  ASSUME TalkInv, NEW r \in Opening, NEW o, opening' = [opening EXCEPT ![r] = o],
         UNCHANGED <<conversations, last_message_at, messages, sending>>, OpeningHolds(o)
  PROVE  TalkInv'
<1>1. /\ opening' = [q \in Opening |-> opening'[q]] /\ opening'[r] = o
      /\ \A q \in Opening \ {r} : opening'[q] = opening[q]
  BY DEF TalkInv, TalkTypeOK
<1>2. TalkTypeOK' /\ OpeningsHold'
  BY <1>1 DEF TalkInv, TalkTypeOK, OpeningsHold, OpeningHolds, existing
<1> QED BY <1>2 DEF TalkInv, SendingsHold, MessagesHold, Between, OneEach, LastHolds

LEMMA AskTalkKeeps ==
  ASSUME TalkInv, NEW r \in Opening, NEW a \in Talker, NEW b \in Talker, AskConversation(r, a, b)
  PROVE  TalkInv'
<1> SUFFICES ASSUME NEW o, o = [Shut EXCEPT !.at = "roles", !.caller = a, !.target = b,
                                  !.coach = a \in isCoach, !.member = a \in isMember]
             PROVE TalkInv'
  OBVIOUS
<1>1. OpeningHolds(o)
  BY DEF OpeningHolds, Shut, AskConversation
<1> QED BY <1>1, OpeningKeeps DEF AskConversation, talk

LEMMA OpenKeeps ==
  ASSUME TalkInv, NEW r \in Opening, resolve_member_coach(r) \/ find_by_user_pair(r) \/ Hear(r)
  PROVE  TalkInv'
<1>1. UNCHANGED <<conversations, last_message_at, messages, sending>>
  BY DEF resolve_member_coach, find_by_user_pair, Hear, talk
<1>2. OpeningHolds(opening[r]) /\ OpeningHolds(Shut)
  BY DEF TalkInv, OpeningsHold, OpeningHolds, Shut
<1>3. CASE Hear(r)
  BY <1>1, <1>2, <1>3, OpeningKeeps DEF Hear
<1>4. CASE resolve_member_coach(r)
  <2> DEFINE row == resolve_pair(opening[r].caller, opening[r].coach, opening[r].member, opening[r].target)
  <2>1. opening[r].at = "roles" /\ opening' = [opening EXCEPT ![r] = IF row[1] = NoTalker THEN Shut
                                       ELSE [opening[r] EXCEPT !.at = "find", !.row = row]]
    BY <1>4 DEF resolve_member_coach
  <2>2. row[1] # NoTalker => row \in Rows2
    BY <1>2, <2>1, TalkAssumption DEF OpeningHolds, resolve_pair, Rows2
  <2> HIDE DEF row
  <2>3. CASE row[1] = NoTalker
    BY <1>1, <1>2, <2>1, <2>3, OpeningKeeps
  <2>4. CASE row[1] # NoTalker
    <3> SUFFICES ASSUME NEW o, o = [opening[r] EXCEPT !.at = "find", !.row = row] PROVE TalkInv'
      OBVIOUS
    <3>1. OpeningHolds(o)
      BY <1>2, <2>2, <2>4 DEF OpeningHolds
    <3> QED BY <1>1, <2>1, <2>4, <3>1, OpeningKeeps
  <2> QED BY <2>3, <2>4
<1>5. CASE find_by_user_pair(r)
  <2>1. ASSUME NEW c \in existing(opening[r].row), Tell(r, c) PROVE TalkInv'
    <3> SUFFICES ASSUME NEW o, o = [opening[r] EXCEPT !.at = "told", !.row = c] PROVE TalkInv'
      OBVIOUS
    <3>1. OpeningHolds(o) /\ opening' = [opening EXCEPT ![r] = o]
      BY <1>2, <2>1 DEF OpeningHolds, Tell, existing
    <3> QED BY <1>1, <3>1, OpeningKeeps
  <2>2. CASE opening[r].at = "find" /\ opening' = [opening EXCEPT ![r].at = "insert"]
    <3> SUFFICES ASSUME NEW o, o = [opening[r] EXCEPT !.at = "insert"] PROVE TalkInv'
      OBVIOUS
    <3>1. OpeningHolds(o) /\ opening' = [opening EXCEPT ![r] = o]
      BY <1>2, <2>2 DEF OpeningHolds
    <3> QED BY <1>1, <3>1, OpeningKeeps
  <2> QED BY <1>5, <2>1, <2>2 DEF find_by_user_pair
<1> QED BY <1>3, <1>4, <1>5

LEMMA InsertKeeps == ASSUME TalkInv, NEW r \in Opening, insert(r) PROVE TalkInv'
<1> DEFINE row == opening[r].row
<1>0. OpeningHolds(opening[r]) /\ opening[r].at = "insert" /\ row \in Rows2
      /\ UNCHANGED <<last_message_at, messages, sending>>
  BY DEF TalkInv, OpeningsHold, OpeningHolds, insert
<1>1. CASE existing(row) # {} /\ opening' = [opening EXCEPT ![r].at = "again"] /\ UNCHANGED conversations
  <2> SUFFICES ASSUME NEW o, o = [opening[r] EXCEPT !.at = "again"] PROVE TalkInv'
    OBVIOUS
  <2>1. OpeningHolds(o) /\ opening' = [opening EXCEPT ![r] = o]
    BY <1>0, <1>1 DEF OpeningHolds
  <2> QED BY <1>0, <1>1, <2>1, OpeningKeeps
<1>2. CASE existing(row) = {} /\ conversations' = conversations \cup {row} /\ Tell(r, row)
  <2> SUFFICES ASSUME NEW o, o = [opening[r] EXCEPT !.at = "told", !.row = row] PROVE TalkInv'
    OBVIOUS
  <2>1. /\ opening' = [opening EXCEPT ![r] = o]
        /\ DOMAIN o = {"at", "caller", "target", "coach", "member", "row"} /\ o.at = "told" /\ o.row = row
    BY <1>0, <1>2 DEF OpeningHolds, Tell
  <2> HIDE DEF row
  <2>2. /\ opening' = [q \in Opening |-> opening'[q]] /\ opening'[r] = o
        /\ \A q \in Opening \ {r} : opening'[q] = opening[q]
    BY <2>1 DEF TalkInv, TalkTypeOK
  <2>3. \A c : existing(c) \subseteq existing(c)'
    BY <1>2 DEF existing
  <2>4. OpeningsHold'
    BY <1>2, <2>1, <2>2, <2>3 DEF TalkInv, OpeningsHold, OpeningHolds
  <2>5. TalkTypeOK'
    <3>1. IsFiniteSet(conversations \cup {row})
      BY FS_AddElement DEF TalkInv, TalkTypeOK
    <3> QED BY <1>0, <1>2, <2>2, <3>1 DEF TalkInv, TalkTypeOK
  <2>6. OneEach'
    <3>1. \A c \in conversations : both(c) # both(row)
      BY <1>2 DEF existing
    <3> QED BY <1>2, <3>1 DEF TalkInv, OneEach
  <2>7. SendingsHold' /\ MessagesHold' /\ LastHolds'
    BY <1>0, <1>2 DEF TalkInv, SendingsHold, MessagesHold, Between, LastHolds
  <2> QED BY <2>4, <2>5, <2>6, <2>7 DEF TalkInv
<1> QED BY <1>1, <1>2 DEF insert

LEMMA SendKeeps ==
  ASSUME TalkInv, NEW s \in Sending,
         \/ touch_last_message_at_tx(s)
         \/ \E a \in Talker, c \in conversations : BeginSend(s, a, c)
  PROVE  TalkInv'
<1>1. UNCHANGED <<conversations, last_message_at, messages, opening>>
  BY DEF touch_last_message_at_tx, BeginSend, talk
<1>2. PICK w : /\ sending' = [sending EXCEPT ![s] = w] /\ DOMAIN w = {"at", "from", "pair", "now"}
               /\ Between(w.from, w.pair)
  <2>1. CASE touch_last_message_at_tx(s)
    <3> PICK w : w = [sending[s] EXCEPT !.at = "touched"]
      OBVIOUS
    <3>1. /\ DOMAIN sending[s] = {"at", "from", "pair", "now"} /\ Between(sending[s].from, sending[s].pair)
          /\ sending' = [sending EXCEPT ![s] = w]
      BY <2>1 DEF touch_last_message_at_tx, TalkInv, SendingsHold
    <3>2. DOMAIN w = {"at", "from", "pair", "now"} /\ w.from = sending[s].from /\ w.pair = sending[s].pair
      BY <3>1
    <3> QED BY <3>1, <3>2
  <2>2. ASSUME NEW a \in Talker, NEW c \in conversations, BeginSend(s, a, c)
        PROVE  \E w : /\ sending' = [sending EXCEPT ![s] = w] /\ DOMAIN w = {"at", "from", "pair", "now"}
                      /\ Between(w.from, w.pair)
    <3> PICK w : w = [at |-> "insert", from |-> a, pair |-> both(c), now |-> time]
      OBVIOUS
    <3>1. sending' = [sending EXCEPT ![s] = w] /\ a \in both(c)
      BY <2>2 DEF BeginSend
    <3>2. DOMAIN w = {"at", "from", "pair", "now"} /\ Between(w.from, w.pair)
      BY <3>1 DEF Between
    <3> QED BY <3>1, <3>2
  <2> QED BY <2>1, <2>2
<1>3. /\ sending' = [t \in Sending |-> sending'[t]] /\ sending'[s] = w
      /\ \A t \in Sending \ {s} : sending'[t] = sending[t]
  BY <1>2 DEF TalkInv, TalkTypeOK
<1> QED BY <1>1, <1>2, <1>3
        DEF TalkInv, TalkTypeOK, OpeningsHold, OpeningHolds, existing, SendingsHold, MessagesHold, Between, OneEach,
            LastHolds

LEMMA PairsOfRows == ASSUME NEW c \in Rows2 PROVE both(c) \in Pair
<1>1. Cardinality({c[1], c[2]}) = 2
  <2>1. c[1] # c[2] /\ {c[1], c[2]} = {c[1]} \cup {c[2]}
    BY DEF Rows2
  <2>2. IsFiniteSet({c[1]}) /\ Cardinality({c[1]}) = 1
    BY FS_Singleton
  <2> QED BY <2>1, <2>2, FS_AddElement
<1> QED BY <1>1 DEF Rows2, Pair, both

LEMMA SentKeeps == ASSUME TalkInv, NEW s \in Sending, CommitSend(s) PROVE TalkInv'
<1> SUFFICES ASSUME NEW m, m = [of |-> sending[s].pair, from |-> sending[s].from, at |-> sending[s].now,
                                n |-> Cardinality(messages), read_by |-> NoTalker]
             PROVE  TalkInv'
  OBVIOUS
<1>1. /\ messages' = messages \cup {m} /\ UNCHANGED <<conversations, opening>>
      /\ last_message_at' = [last_message_at EXCEPT ![m.of] = m.at]
      /\ sending' = [sending EXCEPT ![s] = Silent]
      /\ DOMAIN m = {"of", "from", "at", "n", "read_by"} /\ m.read_by = NoTalker
  BY DEF CommitSend
<1>2. Between(m.from, m.of)
  BY DEF CommitSend, TalkInv, SendingsHold
<1>3. m.of \in Pair
  BY <1>2, PairsOfRows DEF Between, TalkInv, TalkTypeOK
<1>4. TalkTypeOK'
  <2>1. IsFiniteSet(messages \cup {m})
    BY FS_AddElement DEF TalkInv, TalkTypeOK
  <2> QED BY <1>1, <2>1 DEF TalkInv, TalkTypeOK
<1>5. SendingsHold'
  <2>1. /\ sending'[s] = Silent /\ \A t \in Sending \ {s} : sending'[t] = sending[t]
    BY <1>1 DEF TalkInv, TalkTypeOK
  <2> QED BY <1>1, <2>1 DEF TalkInv, SendingsHold, Between, Silent
<1>6. MessagesHold'
  BY <1>1, <1>2 DEF TalkInv, MessagesHold, Between
<1>7. LastHolds'
  <2>1. /\ last_message_at'[m.of] = m.at
        /\ \A p \in Pair \ {m.of} : last_message_at'[p] = last_message_at[p]
    BY <1>1, <1>3 DEF TalkInv, TalkTypeOK
  <2> QED BY <1>1, <1>3, <2>1 DEF TalkInv, LastHolds
<1> QED BY <1>1, <1>4, <1>5, <1>6, <1>7 DEF TalkInv, OpeningsHold, OpeningHolds, existing, OneEach

LEMMA ReadKeeps == ASSUME TalkInv, NEW p \in Pair, NEW by \in Talker, mark_read(p, by) PROVE TalkInv'
<1> DEFINE readsOf(m) == m.of = p /\ m.from # by /\ m.read_by = NoTalker
           mark == [m \in messages |-> IF readsOf(m) THEN [m EXCEPT !.read_by = by] ELSE m]
<1>1. /\ by \in p /\ messages' = {mark[m] : m \in messages}
      /\ UNCHANGED <<conversations, last_message_at, opening, sending>>
  BY DEF mark_read
<1>2. IsFiniteSet(messages')
  <2> HIDE DEF mark
  <2>1. IsFiniteSet(messages)
    BY DEF TalkInv, TalkTypeOK
  <2> QED BY <1>1, <2>1, FiniteImage
<1>3. \A m \in messages : /\ DOMAIN mark[m] = {"of", "from", "at", "n", "read_by"}
                          /\ mark[m].of = m.of /\ mark[m].from = m.from /\ mark[m].at = m.at
                          /\ mark[m].read_by = IF readsOf(m) THEN by ELSE m.read_by
  BY DEF TalkInv, MessagesHold
<1>4. \A m \in messages : readsOf(m) => {m.from, by} = m.of
  <2> TAKE m \in messages
  <2> HAVE readsOf(m)
  <2>1. PICK c \in conversations : m.of = both(c) /\ m.from \in m.of
    BY DEF TalkInv, MessagesHold, Between
  <2> QED BY <1>1, <2>1 DEF both
<1> HIDE DEF mark
<1>5. MessagesHold'
  <2>1. \A m \in messages : /\ \E c \in conversations : m.of = both(c) /\ m.from \in m.of
                            /\ (m.read_by # NoTalker => {m.from, m.read_by} = m.of)
    BY <1>1 DEF TalkInv, MessagesHold, Between
  <2>2. \A m \in messages : /\ DOMAIN mark[m] = {"of", "from", "at", "n", "read_by"}
                            /\ \E c \in conversations : mark[m].of = both(c) /\ mark[m].from \in mark[m].of
                            /\ mark[m].read_by # NoTalker => {mark[m].from, mark[m].read_by} = mark[m].of
    <3> TAKE m \in messages
    <3>1. CASE readsOf(m)
      BY <1>3, <1>4, <2>1, <3>1
    <3>2. CASE ~readsOf(m)
      BY <1>3, <2>1, <3>2
    <3> QED BY <3>1, <3>2
  <2> QED BY <1>1, <2>2 DEF MessagesHold, Between
<1>6. LastHolds'
  <2> SUFFICES ASSUME NEW q \in Pair
               PROVE  IF \E m \in messages' : m.of = q
                      THEN \E m \in messages' : m.of = q /\ m.at = last_message_at[q]
                      ELSE last_message_at[q] = Unsent
    BY <1>1 DEF LastHolds
  <2>1. \A m \in messages : mark[m] \in messages' /\ mark[m].of = m.of /\ mark[m].at = m.at
    BY <1>1, <1>3
  <2>2. \A k \in messages' : \E m \in messages : k = mark[m]
    BY <1>1
  <2>3. (\E m \in messages' : m.of = q) => \E m \in messages : m.of = q
    BY <2>1, <2>2
  <2> QED BY <2>1, <2>3 DEF TalkInv, LastHolds
<1> QED BY <1>1, <1>2, <1>5, <1>6
        DEF TalkInv, TalkTypeOK, OpeningsHold, OpeningHolds, existing, SendingsHold, Between, OneEach

-----------------------------------------------------------------------------
\* The unread messages of a user, conversation by conversation, are all of them.
LEMMA InboxAddsUp ==
  ASSUME TalkInv, NEW u \in Talker
  PROVE  /\ \A c, d \in find_my_conversations(u) : c.peer = d.peer => c = d
         /\ SumFunctionOnSet([c \in find_my_conversations(u) |-> c.unread], find_my_conversations(u))
              = count_unread_for_user(u)
<1> DEFINE mine == {d \in conversations : u \in both(d)}
           peer(c) == CHOOSE p \in both(c) : p # u
           new(c) == {m \in messages : m.of = both(c) /\ m.from # u /\ m.read_by = NoTalker}
           entry == [c \in mine |-> [peer |-> peer(c), row |-> c, unread |-> Cardinality(new(c))]]
           E == find_my_conversations(u)
           P == [e \in E |-> new(e.row)]
           size == [e \in E |-> Cardinality(P[e])]
           all == {m \in messages : u \in m.of /\ m.from # u /\ m.read_by = NoTalker}
<1>1. E = {entry[c] : c \in mine}
  BY DEF find_my_conversations
<1>2. IsFiniteSet(E)
  <2>1. IsFiniteSet(mine)
    BY FS_Subset DEF TalkInv, TalkTypeOK
  <2> HIDE DEF mine, entry, E
  <2> QED BY <1>1, <2>1, FiniteImage
<1>3. \A e \in E : /\ e.row \in mine /\ e = entry[e.row] /\ e.peer = peer(e.row)
                   /\ e.unread = Cardinality(new(e.row))
  <2> TAKE e \in E
  <2>1. PICK c \in mine : e = entry[c]
    BY <1>1
  <2>2. e = [peer |-> peer(c), row |-> c, unread |-> Cardinality(new(c))]
    BY <2>1
  <2> HIDE DEF peer, new, E, mine
  <2>3. e.peer = peer(c) /\ e.row = c /\ e.unread = Cardinality(new(c))
    BY <2>2
  <2> HIDE DEF entry
  <2> QED BY <2>1, <2>3
<1>4. \A c \in mine : both(c) = {u, peer(c)}
  <2> TAKE c \in mine
  <2>1. \E p \in both(c) : p # u
    BY DEF TalkInv, TalkTypeOK, Rows2, both
  <2>2. peer(c) \in both(c) /\ peer(c) # u
    BY <2>1
  <2> HIDE DEF peer
  <2> QED BY <2>2 DEF both
<1>5. \A c, d \in mine : both(c) = both(d) => c = d
  BY DEF TalkInv, OneEach
<1>6. \A m \in all : \E c \in mine : m.of = both(c)
  BY DEF TalkInv, MessagesHold, Between
<1>7. \A c \in mine : entry[c] \in E /\ entry[c].row = c
  BY <1>1
<1> HIDE DEF peer, entry, mine
<1>8. \A c, d \in E : c.peer = d.peer => c = d
  <2> HIDE DEF E, new
  <2> TAKE c, d \in E
  <2> HAVE c.peer = d.peer
  <2>1. both(c.row) = both(d.row)
    BY <1>3, <1>4
  <2> QED BY <1>3, <1>5, <2>1
<1>9. \A e \in E : IsFiniteSet(P[e]) /\ P[e] = new(e.row)
  BY FS_Subset DEF TalkInv, TalkTypeOK
<1>10. \A c, d \in E : c # d => P[c] \cap P[d] = {}
  <2> HIDE DEF E, P
  <2> SUFFICES ASSUME NEW c \in E, NEW d \in E, NEW m \in P[c] \cap P[d] PROVE c = d
    OBVIOUS
  <2>1. m \in new(c.row) /\ m \in new(d.row)
    BY <1>9
  <2>2. both(c.row) = both(d.row)
    BY <2>1
  <2> HIDE DEF new
  <2> QED BY <1>3, <1>5, <2>2
<1>11. UNION {P[e] : e \in E} = all
  <2>1. \A e \in E : P[e] \subseteq all
    <3> HIDE DEF E, P
    <3> SUFFICES ASSUME NEW e \in E, NEW m \in P[e] PROVE m \in all
      OBVIOUS
    <3>1. m \in new(e.row) /\ u \in both(e.row)
      BY <1>3, <1>4, <1>9
    <3> QED BY <3>1
  <2>2. \A m \in all : \E e \in E : m \in P[e]
    BY <1>6, <1>7, <1>9
  <2> QED BY <2>1, <2>2
<1>12. [e \in E |-> e.unread] = size
  BY <1>3, <1>9
<1> HIDE DEF E, P
<1>13. SumFunctionOnSet(size, E) = Cardinality(UNION {P[e] : e \in E})
  BY <1>2, <1>9, <1>10, SumOfParts
<1> QED BY <1>8, <1>11, <1>12, <1>13 DEF E, count_unread_for_user

\* messages/service.rs, messages/repository.rs: for any people, roles, requests to open
\* and transactions at once.
THEOREM ConversationsAreOne == ConversationSpec => []OneConversation
<1>1. ASSUME TalkInv, [ConversationNext]_talkVars PROVE TalkInv'
  <2>1. CASE TimeTicks \/ (\E p \in Talker : ChangeRole(p)) \/ UNCHANGED talkVars
    <3>1. UNCHANGED <<conversations, last_message_at, messages, opening, sending>>
      BY <2>1 DEF TimeTicks, ChangeRole, talkVars, talk
    <3> QED BY <1>1, <3>1 DEF TalkInv, TalkTypeOK, OpeningsHold, OpeningHolds, existing, SendingsHold, MessagesHold,
                              Between, OneEach, LastHolds
  <2> QED BY <1>1, <2>1, AskTalkKeeps, OpenKeeps, InsertKeeps, SendKeeps, SentKeeps, ReadKeeps DEF ConversationNext
<1>2. TalkInv => OneConversation
  <2> SUFFICES ASSUME TalkInv PROVE OneConversation
    OBVIOUS
  <2>1. \A r \in Opening : /\ opening[r].at = "told" => opening[r].row \in conversations
                           /\ opening[r].at = "again" => existing(opening[r].row) # {}
    BY DEF TalkInv, OpeningsHold, OpeningHolds
  <2>2. \A m \in messages : m.read_by # NoTalker => {m.from, m.read_by} = m.of
    BY DEF TalkInv, MessagesHold
  <2>3. \A u \in Talker :
          /\ \A c, d \in find_my_conversations(u) : c.peer = d.peer => c = d
          /\ SumFunctionOnSet([c \in find_my_conversations(u) |-> c.unread], find_my_conversations(u))
               = count_unread_for_user(u)
    BY InboxAddsUp
  <2> QED BY <2>1, <2>2, <2>3 DEF TalkInv, OneEach, LastHolds, OneConversation
<1> QED BY <1>1, <1>2, TalkStarts, PTL DEF ConversationSpec

-----------------------------------------------------------------------------
(* Coaches: the hours are whole replacements, and never overlap.           *)

DeskFields == {"at", "of", "slug", "active", "week", "todo", "gone", "added", "beside"}
CoachTypeOK ==
  /\ profiles \in [Person -> [slug : Slug \cup {NoSlug}, active : BOOLEAN, is : BOOLEAN]]
  /\ week = [u \in Person |-> week[u]] /\ latest = [u \in Person |-> latest[u]]
  /\ wanted \in Seq(SUBSET Entry)
  /\ desk = [d \in Desk |-> desk[d]]
  /\ \A d \in Desk : /\ DOMAIN desk[d] = DeskFields
                     /\ desk[d].at \in {"idle", "granting", "deleting", "inserting"}
                     /\ desk[d].at \in {"idle", "granting"} => desk[d].week = 0

Busy(d) == desk[d].at \in {"deleting", "inserting"}

\* A replacement r under way, over the rows of all coaches and what was asked for so far: it
\* took away all it saw, or what is left of it, and no part of another; what it leaves was
\* committed beside it; and what it added clashes with nothing.
ReplacementHolds(r, rows, asked) ==
  /\ r.of \in Person /\ r.week \in 1..Len(asked)
  /\ \A u \in Person : \A x \in rows[u] : x.by # r.week
  /\ {a.entry : a \in r.added} \cup r.todo = asked[r.week]
  /\ \A a \in r.added : a.by = r.week
  /\ r.at = "deleting" => r.added = {}
  /\ r.at = "inserting" => r.gone \subseteq rows[r.of]
  /\ r.beside \subseteq 1..Len(asked) /\ \A x \in rows[r.of] \ r.gone : x.by \in r.beside
  /\ \A x \in r.gone : x.by \in 1..Len(asked) \ {r.week}
  /\ \A x \in r.gone, y \in rows[r.of] : x.by = y.by => y \in r.gone
  /\ \A x \in rows[r.of] \ r.gone, a \in r.added : ~Clash(x.entry, a.entry)
  /\ \A a, b \in r.added : a # b => ~Clash(a.entry, b.entry)

\* Two of them: what one takes away or adds is not the other's.
ApartHolds(r, q) ==
  /\ r.week # q.week /\ \A x \in r.gone : x.by # q.week
  /\ r.of = q.of => /\ r.at = "inserting" /\ q.at = "inserting" => r.gone \cap q.gone = {}
                    /\ \A a \in r.added, b \in q.added : ~Clash(a.entry, b.entry)

ReplacementsHold ==
  /\ \A d \in Desk : Busy(d) => ReplacementHolds(desk[d], week, wanted)
  /\ \A d, e \in Desk : d # e /\ Busy(d) /\ Busy(e) => ApartHolds(desk[d], desk[e])

\* The rows of one coach, and the last replacement of them.
By(rows, k) == {r.entry : r \in {q \in rows : q.by = k}}
WeekHolds(rows, last, asked) ==
  /\ \A r, s \in rows : r # s => ~Clash(r.entry, s.entry)
  /\ \A r \in rows : r.by \in 1..Len(asked) /\ (r.by = last.by \/ r.by \in last.beside)
  /\ last.by \in 0..Len(asked) /\ last.beside \subseteq 1..Len(asked)
  /\ last.by # 0 => By(rows, last.by) = asked[last.by]
  /\ \A k \in 1..Len(asked) : By(rows, k) \in {{}, asked[k]}
WeeksHold == \A u \in Person : WeekHolds(week[u], latest[u], wanted)

\* A coach has the role or lost it; slugs are distinct, and so are those about to be.
FreeIn(rows, u, s) == s = NoSlug \/ \A v \in Person \ {u} : ~rows[v].is \/ rows[v].slug # s
ProfilesHold ==
  /\ \A u \in Person : profiles[u].is => (u \in roleHolders \/ u \in revoked) /\ FreeIn(profiles, u, profiles[u].slug)
  /\ \A d \in Desk : desk[d].at = "granting" =>
       /\ desk[d].of \in Person /\ ~profiles[desk[d].of].is
       /\ desk[d].slug \in Slug \cup {NoSlug} /\ desk[d].active \in BOOLEAN
       /\ FreeIn(profiles, desk[d].of, desk[d].slug)
  /\ \A d, e \in Desk : d # e /\ desk[d].at = "granting" /\ desk[e].at = "granting" =>
       desk[d].of # desk[e].of /\ (desk[d].slug # desk[e].slug \/ desk[d].slug = NoSlug)

CoachInv == CoachTypeOK /\ ReplacementsHold /\ WeeksHold /\ ProfilesHold

-----------------------------------------------------------------------------
LEMMA CoachStarts == CoachesInit => CoachInv
<1> SUFFICES ASSUME CoachesInit PROVE CoachInv
  OBVIOUS
<1>1. CoachTypeOK
  BY DEF CoachesInit, CoachTypeOK, NoProfile, Quiet, DeskFields
<1>2. WeeksHold
  BY DEF CoachesInit, WeeksHold, WeekHolds, By
<1>3. ReplacementsHold /\ ProfilesHold
  BY DEF CoachesInit, ReplacementsHold, Busy, ProfilesHold, Quiet, NoProfile
<1> QED BY <1>1, <1>2, <1>3 DEF CoachInv

LEMMA QuietDesk ==
  /\ DOMAIN Quiet = DeskFields /\ Quiet.at = "idle" /\ Quiet.slug = NoSlug /\ Quiet.active = FALSE /\ Quiet.week = 0
  /\ Quiet.todo = {} /\ Quiet.gone = {} /\ Quiet.added = {} /\ Quiet.beside = {}
BY DEF Quiet, DeskFields

\* One request changes at a time, and where it does not touch the hours, they hold.
LEMMA OneDesk ==
  ASSUME CoachTypeOK, NEW d \in Desk, NEW r, GoOn(d, r)
  PROVE  /\ desk' = [e \in Desk |-> desk'[e]] /\ desk'[d] = r
         /\ \A e \in Desk \ {d} : desk'[e] = desk[e]
BY DEF CoachTypeOK, GoOn

LEMMA SameHours ==
  ASSUME CoachInv, UNCHANGED weekRows, NEW d \in Desk, NEW r, desk'[d] = r,
         \A e \in Desk \ {d} : desk'[e] = desk[e], r.at \in {"idle", "granting"} \/ desk' = desk
  PROVE  ReplacementsHold' /\ WeeksHold'
<1>1. UNCHANGED <<week, wanted, latest>>
  BY DEF weekRows
<1>2. WeeksHold'
  BY <1>1 DEF CoachInv, WeeksHold
<1>3. \A e \in Desk : Busy(e)' => Busy(e) /\ desk'[e] = desk[e]
  BY DEF Busy
<1> QED BY <1>1, <1>2, <1>3 DEF CoachInv, ReplacementsHold

\* The types, when one desk changes to r.
LEMMA SameTypes ==
  ASSUME CoachInv, UNCHANGED <<week, wanted, latest>>,
         profiles' \in [Person -> [slug : Slug \cup {NoSlug}, active : BOOLEAN, is : BOOLEAN]],
         NEW d \in Desk, NEW r, DOMAIN r = DeskFields,
         r.at = "inserting" \/ (r.at \in {"idle", "granting"} /\ r.week = 0),
         desk' = [e \in Desk |-> desk'[e]], desk'[d] = r, \A e \in Desk \ {d} : desk'[e] = desk[e]
  PROVE  CoachTypeOK'
<1>1. \A e \in Desk : /\ DOMAIN desk'[e] = DeskFields
                       /\ desk'[e].at \in {"idle", "granting", "deleting", "inserting"}
                       /\ desk'[e].at \in {"idle", "granting"} => desk'[e].week = 0
  BY DEF CoachInv, CoachTypeOK
<1> QED BY <1>1 DEF CoachInv, CoachTypeOK

\* The rows of coaches, and the creation of one.
LEMMA ProfileSteps ==
  ASSUME CoachInv, NEW u \in Person, NEW s \in Slug \cup {NoSlug}, NEW shown \in BOOLEAN,
         \/ update_coach(u, s, shown) \/ RevokeCoachRole(u) \/ clock_in(u) \/ clock_out(u)
  PROVE  CoachInv'
<1>1. UNCHANGED <<desk, weekRows>>
  BY DEF update_coach, RevokeCoachRole, clock_in, clock_out
<1>2. ReplacementsHold' /\ WeeksHold'
  <2>1. CASE Desk = {}
    BY <1>1, <2>1 DEF weekRows, CoachInv, ReplacementsHold, WeeksHold
  <2>2. ASSUME NEW d \in Desk PROVE ReplacementsHold' /\ WeeksHold'
    BY <1>1, SameHours
  <2> QED BY <2>1, <2>2
<1>3. CASE update_coach(u, s, shown)
  <2> DEFINE row == [slug |-> s, active |-> shown, is |-> TRUE]
  <2>1. /\ profiles[u].is /\ FreeIn(profiles, u, s) /\ profiles' = [profiles EXCEPT ![u] = row]
        /\ \A e \in Desk : desk[e].at = "granting" => desk[e].slug # s \/ s = NoSlug
        /\ UNCHANGED <<roleHolders, revoked>>
    BY <1>3 DEF update_coach, SlugFree, FreeIn
  <2>2. row \in [slug : Slug \cup {NoSlug}, active : BOOLEAN, is : BOOLEAN] /\ row.slug = s /\ row.is
    OBVIOUS
  <2> HIDE DEF row
  <2>3. profiles'[u] = row /\ \A v \in Person \ {u} : profiles'[v] = profiles[v]
    BY <2>1 DEF CoachInv, CoachTypeOK
  <2>4. CoachTypeOK'
    BY <1>1, <2>1, <2>2 DEF weekRows, CoachInv, CoachTypeOK
  <2>5. ProfilesHold'
    <3>1. \A v \in Person : profiles'[v].is => (v \in roleHolders \/ v \in revoked)
      BY <2>1, <2>2, <2>3 DEF CoachInv, ProfilesHold
    <3>2. \A v \in Person : profiles'[v].is => FreeIn(profiles', v, profiles'[v].slug)
      BY <2>1, <2>2, <2>3 DEF CoachInv, ProfilesHold, FreeIn
    <3>3. \A d \in Desk : desk[d].at = "granting" => FreeIn(profiles', desk[d].of, desk[d].slug) /\ desk[d].of # u
      BY <1>1, <2>1, <2>2, <2>3 DEF CoachInv, ProfilesHold, FreeIn
    <3>4. \A d \in Desk : desk[d].at = "granting" =>
            /\ desk[d].of \in Person /\ ~profiles'[desk[d].of].is
            /\ desk[d].slug \in Slug \cup {NoSlug} /\ desk[d].active \in BOOLEAN
      BY <2>3, <3>3 DEF CoachInv, ProfilesHold
    <3>5. \A d, e \in Desk : d # e /\ desk[d].at = "granting" /\ desk[e].at = "granting" =>
            desk[d].of # desk[e].of /\ (desk[d].slug # desk[e].slug \/ desk[d].slug = NoSlug)
      BY DEF CoachInv, ProfilesHold
    <3> QED BY <1>1, <2>1, <3>1, <3>2, <3>3, <3>4, <3>5 DEF ProfilesHold
  <2> QED BY <1>2, <2>4, <2>5 DEF CoachInv
<1>4. CASE RevokeCoachRole(u) \/ clock_in(u) \/ clock_out(u)
  <2>1. profiles' = profiles /\ roleHolders' \cup revoked' = roleHolders \cup revoked
    BY <1>4 DEF RevokeCoachRole, clock_in, clock_out, coachRows
  <2> QED BY <1>1, <1>2, <2>1 DEF weekRows, CoachInv, CoachTypeOK, ProfilesHold, FreeIn
<1> QED BY <1>3, <1>4

LEMMA FailDeskKeeps == ASSUME CoachInv, NEW d \in Desk, GoOn(d, Quiet), UNCHANGED <<coachRows, weekRows>> PROVE CoachInv'
<1>1. /\ desk' = [e \in Desk |-> desk'[e]] /\ desk'[d] = Quiet
      /\ \A e \in Desk \ {d} : desk'[e] = desk[e]
  BY OneDesk DEF CoachInv
<1>2. ReplacementsHold' /\ WeeksHold'
  BY <1>1, QuietDesk, SameHours
<1>3. CoachTypeOK'
  <2>1. UNCHANGED <<profiles, week, wanted, latest>>
    BY DEF coachRows, weekRows
  <2>2. profiles' \in [Person -> [slug : Slug \cup {NoSlug}, active : BOOLEAN, is : BOOLEAN]]
    BY <2>1 DEF CoachInv, CoachTypeOK
  <2> QED BY <1>1, <2>1, <2>2, QuietDesk, SameTypes
<1>4. ProfilesHold'
  BY <1>1, QuietDesk DEF CoachInv, ProfilesHold, coachRows, FreeIn
<1> QED BY <1>2, <1>3, <1>4 DEF CoachInv

LEMMA InsertCoachKeeps ==
  ASSUME CoachInv, NEW d \in Desk, NEW u \in Person, NEW s \in Slug \cup {NoSlug}, NEW shown \in BOOLEAN,
         InsertCoach(d, u, s, shown)
  PROVE  CoachInv'
<1> PICK r : r = [Quiet EXCEPT !.at = "granting", !.of = u, !.slug = s, !.active = shown]
  OBVIOUS
<1>1. /\ DOMAIN r = DeskFields /\ r.at = "granting" /\ r.of = u /\ r.slug = s /\ r.active = shown /\ r.week = 0
  BY DEF Quiet, DeskFields
<1>2. /\ ~profiles[u].is /\ FreeIn(profiles, u, s) /\ GoOn(d, r)
      /\ \A e \in Desk : desk[e].at = "granting" => desk[e].of # u /\ (desk[e].slug # s \/ s = NoSlug)
      /\ UNCHANGED <<coachRows, weekRows>>
  BY DEF InsertCoach, SlugFree, FreeIn
<1>3. /\ desk' = [e \in Desk |-> desk'[e]] /\ desk'[d] = r
      /\ \A e \in Desk \ {d} : desk'[e] = desk[e]
  BY <1>2, OneDesk DEF CoachInv
<1>4. ReplacementsHold' /\ WeeksHold'
  BY <1>1, <1>2, <1>3, SameHours
<1>5. CoachTypeOK'
  <2>1. UNCHANGED <<profiles, week, wanted, latest>>
    BY <1>2 DEF coachRows, weekRows
  <2>2. profiles' \in [Person -> [slug : Slug \cup {NoSlug}, active : BOOLEAN, is : BOOLEAN]]
    BY <2>1 DEF CoachInv, CoachTypeOK
  <2> QED BY <1>1, <1>3, <2>1, <2>2, SameTypes
<1>6. UNCHANGED <<profiles, roleHolders, revoked>>
  BY <1>2 DEF coachRows
<1>7. ProfilesHold'
  <2>1. \A v \in Person : profiles'[v].is =>
          (v \in roleHolders' \/ v \in revoked') /\ FreeIn(profiles', v, profiles'[v].slug)
    BY <1>6 DEF CoachInv, ProfilesHold
  <2>2. \A e \in Desk : desk'[e].at = "granting" =>
          /\ desk'[e].of \in Person /\ ~profiles'[desk'[e].of].is
          /\ desk'[e].slug \in Slug \cup {NoSlug} /\ desk'[e].active \in BOOLEAN
          /\ FreeIn(profiles', desk'[e].of, desk'[e].slug)
    <3>1. /\ r.of \in Person /\ ~profiles[r.of].is /\ r.slug \in Slug \cup {NoSlug}
          /\ r.active \in BOOLEAN /\ FreeIn(profiles, r.of, r.slug)
      BY <1>1, <1>2
    <3>2. \A e \in Desk : desk[e].at = "granting" =>
            /\ desk[e].of \in Person /\ ~profiles[desk[e].of].is
            /\ desk[e].slug \in Slug \cup {NoSlug} /\ desk[e].active \in BOOLEAN
            /\ FreeIn(profiles, desk[e].of, desk[e].slug)
      BY DEF CoachInv, ProfilesHold
    <3> QED BY <1>3, <1>6, <3>1, <3>2
  <2>3. \A e, f \in Desk : e # f /\ desk'[e].at = "granting" /\ desk'[f].at = "granting" =>
          desk'[e].of # desk'[f].of /\ (desk'[e].slug # desk'[f].slug \/ desk'[e].slug = NoSlug)
    <3>1. \A e \in Desk \ {d} : desk[e].at = "granting" => desk[e].of # r.of /\ (desk[e].slug # r.slug \/ r.slug = NoSlug)
      BY <1>1, <1>2
    <3>2. \A e, f \in Desk \ {d} : e # f /\ desk[e].at = "granting" /\ desk[f].at = "granting" =>
            desk[e].of # desk[f].of /\ (desk[e].slug # desk[f].slug \/ desk[e].slug = NoSlug)
      BY DEF CoachInv, ProfilesHold
    <3> SUFFICES ASSUME NEW e \in Desk, NEW f \in Desk, e # f, desk'[e].at = "granting", desk'[f].at = "granting"
                 PROVE  desk'[e].of # desk'[f].of /\ (desk'[e].slug # desk'[f].slug \/ desk'[e].slug = NoSlug)
      OBVIOUS
    <3>3. CASE e = d
      <4>1. desk'[e] = r /\ desk'[f] = desk[f] /\ f \in Desk \ {d}
        BY <1>3, <3>3
      <4> QED BY <3>1, <4>1
    <3>4. CASE f = d
      <4>1. desk'[f] = r /\ desk'[e] = desk[e] /\ e \in Desk \ {d}
        BY <1>3, <3>4
      <4> QED BY <3>1, <4>1
    <3>5. CASE e # d /\ f # d
      <4>1. desk'[f] = desk[f] /\ desk'[e] = desk[e]
        BY <1>3, <3>5
      <4> QED BY <3>2, <3>5, <4>1
    <3> QED BY <3>3, <3>4, <3>5
  <2> QED BY <2>1, <2>2, <2>3 DEF ProfilesHold
<1> QED BY <1>4, <1>5, <1>7 DEF CoachInv

LEMMA CommitCoachKeeps == ASSUME CoachInv, NEW d \in Desk, CommitCoach(d) PROVE CoachInv'
<1> DEFINE u == desk[d].of
           row == [slug |-> desk[d].slug, active |-> desk[d].active, is |-> TRUE]
<1>1. /\ desk[d].at = "granting" /\ profiles' = [profiles EXCEPT ![u] = row]
      /\ roleHolders' = roleHolders \cup {u} /\ revoked' = revoked \ {u}
      /\ GoOn(d, Quiet) /\ UNCHANGED weekRows
  BY DEF CommitCoach
<1>2. /\ u \in Person /\ ~profiles[u].is /\ desk[d].slug \in Slug \cup {NoSlug}
      /\ desk[d].active \in BOOLEAN /\ FreeIn(profiles, u, desk[d].slug)
      /\ \A e \in Desk \ {d} : desk[e].at = "granting" =>
           desk[e].of # u /\ (desk[e].slug # desk[d].slug \/ desk[e].slug = NoSlug)
  BY <1>1 DEF CoachInv, ProfilesHold
<1>3. row \in [slug : Slug \cup {NoSlug}, active : BOOLEAN, is : BOOLEAN] /\ row.slug = desk[d].slug /\ row.is
  BY <1>2
<1> HIDE DEF u, row
<1>4. /\ desk' = [e \in Desk |-> desk'[e]] /\ desk'[d] = Quiet
      /\ \A e \in Desk \ {d} : desk'[e] = desk[e]
  BY <1>1, OneDesk DEF CoachInv
<1>5. ReplacementsHold' /\ WeeksHold'
  BY <1>1, <1>4, QuietDesk, SameHours
<1>6. CoachTypeOK'
  <2>1. profiles' \in [Person -> [slug : Slug \cup {NoSlug}, active : BOOLEAN, is : BOOLEAN]]
    BY <1>1, <1>3 DEF CoachInv, CoachTypeOK
  <2> QED BY <1>1, <1>4, <2>1, QuietDesk, SameTypes DEF weekRows
<1>7. profiles'[u] = row /\ \A v \in Person \ {u} : profiles'[v] = profiles[v]
  BY <1>1, <1>2 DEF CoachInv, CoachTypeOK
<1>8. ProfilesHold'
  <2>1. \A v \in Person : profiles'[v].is => (v \in roleHolders' \/ v \in revoked')
    BY <1>1, <1>7 DEF CoachInv, ProfilesHold
  <2>2. \A v \in Person : profiles'[v].is => FreeIn(profiles', v, profiles'[v].slug)
    BY <1>2, <1>3, <1>7 DEF CoachInv, ProfilesHold, FreeIn
  <2>3. \A e \in Desk \ {d} : desk[e].at = "granting" =>
          FreeIn(profiles', desk[e].of, desk[e].slug) /\ ~profiles'[desk[e].of].is
    <3>1. \A e \in Desk \ {d} : desk[e].at = "granting" =>
            /\ desk[e].of \in Person \ {u} /\ ~profiles[desk[e].of].is /\ FreeIn(profiles, desk[e].of, desk[e].slug)
      BY <1>2 DEF CoachInv, ProfilesHold
    <3>2. \A e \in Desk \ {d} : desk[e].at = "granting" =>
            \/ desk[e].slug = NoSlug
            \/ \A v \in Person \ {desk[e].of} : ~profiles'[v].is \/ profiles'[v].slug # desk[e].slug
      BY <1>2, <1>3, <1>7, <3>1 DEF FreeIn
    <3> QED BY <1>4, <1>7, <3>1, <3>2 DEF FreeIn
  <2>4. \A e \in Desk : desk'[e].at = "granting" => e # d /\ desk'[e] = desk[e]
    BY <1>4, QuietDesk
  <2>5. \A e \in Desk : desk'[e].at = "granting" =>
          /\ desk'[e].of \in Person /\ ~profiles'[desk'[e].of].is
          /\ desk'[e].slug \in Slug \cup {NoSlug} /\ desk'[e].active \in BOOLEAN
          /\ FreeIn(profiles', desk[e].of, desk[e].slug)
    BY <2>3, <2>4 DEF CoachInv, ProfilesHold
  <2> QED BY <2>1, <2>2, <2>4, <2>5 DEF CoachInv, ProfilesHold
<1> QED BY <1>5, <1>6, <1>8 DEF CoachInv

-----------------------------------------------------------------------------
\* Nothing is created or granted by a replacement.
LEMMA SameProfiles ==
  ASSUME CoachInv, UNCHANGED coachRows, \A e \in Desk : desk'[e].at = "granting" => desk'[e] = desk[e]
  PROVE  ProfilesHold'
<1>1. UNCHANGED <<profiles, roleHolders, revoked>>
  BY DEF coachRows
<1> QED BY <1>1 DEF CoachInv, ProfilesHold

\* What holds of the others when one desk is busy with r.
LEMMA OneReplacement ==
  ASSUME CoachInv, NEW d \in Desk, NEW r, desk'[d] = r, \A e \in Desk \ {d} : desk'[e] = desk[e],
         ReplacementHolds(r, week', wanted'),
         \A e \in Desk \ {d} : Busy(e) => /\ ReplacementHolds(desk[e], week', wanted')
                                          /\ ApartHolds(r, desk[e]) /\ ApartHolds(desk[e], r)
  PROVE  ReplacementsHold'
<1>1. \A e \in Desk \ {d} : Busy(e)' => Busy(e) /\ desk'[e] = desk[e]
  BY DEF Busy
<1>2. \A e \in Desk : Busy(e)' => ReplacementHolds(desk'[e], week', wanted')
  BY <1>1
<1>3. \A e, f \in Desk : e # f /\ Busy(e)' /\ Busy(f)' => ApartHolds(desk'[e], desk'[f])
  <2>1. \A e, f \in Desk \ {d} : e # f /\ Busy(e) /\ Busy(f) => ApartHolds(desk[e], desk[f])
    BY DEF CoachInv, ReplacementsHold
  <2> QED BY <1>1, <2>1
<1> QED BY <1>2, <1>3 DEF ReplacementsHold

LEMMA ClashBothWays == \A e, f : Clash(e, f) <=> Clash(f, e)
BY DEF Clash

LEMMA BeginWeekKeeps ==
  ASSUME CoachInv, NEW d \in Desk, NEW u \in Person, NEW want \in SUBSET Entry, BeginWeek(d, u, want)
  PROVE  CoachInv'
<1> DEFINE k == Len(wanted) + 1
<1> PICK r : r = [Quiet EXCEPT !.at = "deleting", !.of = u, !.week = k, !.todo = want, !.gone = week[u]]
  OBVIOUS
<1>1. /\ DOMAIN r = DeskFields /\ r.at = "deleting" /\ r.of = u /\ r.week = k
      /\ r.todo = want /\ r.gone = week[u] /\ r.added = {} /\ r.beside = {}
  BY DEF Quiet, DeskFields
<1>2. /\ GoOn(d, r) /\ wanted' = Append(wanted, want)
      /\ UNCHANGED <<coachRows, week, latest, onShift, shifts>>
  BY DEF BeginWeek
<1>3. /\ desk' = [e \in Desk |-> desk'[e]] /\ desk'[d] = r
      /\ \A e \in Desk \ {d} : desk'[e] = desk[e]
  BY <1>2, OneDesk DEF CoachInv
<1>4. /\ Len(wanted') = k /\ wanted'[k] = want /\ k \notin 1..Len(wanted) /\ k \in 1..k
      /\ 1..k = 1..Len(wanted) \cup {k} /\ 0..Len(wanted) \subseteq 0..k
      /\ \A j \in 1..Len(wanted) : wanted'[j] = wanted[j]
      /\ wanted' \in Seq(SUBSET Entry)
  BY <1>2 DEF CoachInv, CoachTypeOK
<1> HIDE DEF k
<1>5. CoachTypeOK'
  BY <1>1, <1>2, <1>3, <1>4 DEF CoachInv, CoachTypeOK, coachRows
<1>6. \A v \in Person : \A x \in week[v] : x.by \in 1..Len(wanted)
  BY DEF CoachInv, WeeksHold, WeekHolds
<1>7. WeeksHold'
  <2> SUFFICES ASSUME NEW v \in Person PROVE WeekHolds(week[v], latest[v], wanted')
    BY <1>2 DEF WeeksHold
  <2>1. WeekHolds(week[v], latest[v], wanted)
    BY DEF CoachInv, WeeksHold
  <2>2. By(week[v], k) = {}
    BY <1>4, <1>6 DEF By
  <2>3. latest[v].by # 0 => latest[v].by \in 1..Len(wanted)
    BY <2>1 DEF WeekHolds, CoachInv, CoachTypeOK
  <2> QED BY <1>4, <2>1, <2>2, <2>3 DEF WeekHolds
<1>8. \A e \in Desk : Busy(e) => ReplacementHolds(desk[e], week', wanted')
  <2> SUFFICES ASSUME NEW e \in Desk, NEW q, q = desk[e], Busy(e) PROVE ReplacementHolds(q, week, wanted')
    BY <1>2
  <2>1. ReplacementHolds(q, week, wanted)
    BY DEF CoachInv, ReplacementsHold
  <2> QED BY <1>4, <2>1 DEF ReplacementHolds
<1>9. ReplacementHolds(r, week', wanted')
  <2>1. ReplacementHolds(r, week, wanted')
    BY <1>1, <1>4, <1>6 DEF ReplacementHolds
  <2> QED BY <1>2, <2>1
<1>10. \A e \in Desk \ {d} : Busy(e) => ApartHolds(r, desk[e]) /\ ApartHolds(desk[e], r)
  <2> SUFFICES ASSUME NEW e \in Desk \ {d}, NEW q, q = desk[e], Busy(e) PROVE ApartHolds(r, q) /\ ApartHolds(q, r)
    OBVIOUS
  <2>1. ReplacementHolds(q, week, wanted)
    BY DEF CoachInv, ReplacementsHold
  <2> QED BY <1>1, <1>4, <2>1 DEF ReplacementHolds, ApartHolds
<1>11. ReplacementsHold'
  BY <1>3, <1>8, <1>9, <1>10, OneReplacement
<1>12. ProfilesHold'
  BY <1>1, <1>2, <1>3, SameProfiles
<1> QED BY <1>5, <1>7, <1>11, <1>12 DEF CoachInv

LEMMA DeleteWeekKeeps == ASSUME CoachInv, NEW d \in Desk, DeleteWeek(d) PROVE CoachInv'
<1> PICK p : p = desk[d]
  OBVIOUS
<1> PICK r : r = [p EXCEPT !.at = "inserting", !.gone = @ \cap week[p.of]]
  OBVIOUS
<1>1. /\ p.at = "deleting" /\ GoOn(d, r) /\ UNCHANGED <<coachRows, weekRows>>
      /\ \A e \in Desk \ {d} : desk[e].at = "inserting" /\ desk[e].of = p.of => desk[e].gone \cap p.gone = {}
  BY DEF DeleteWeek, Deleting, Others
<1>2. /\ DOMAIN r = DeskFields /\ r.at = "inserting" /\ r.of = p.of /\ r.week = p.week
      /\ r.todo = p.todo /\ r.gone = p.gone \cap week[p.of] /\ r.added = p.added /\ r.beside = p.beside
  BY DEF CoachInv, CoachTypeOK, DeskFields
<1>3. /\ desk' = [e \in Desk |-> desk'[e]] /\ desk'[d] = r
      /\ \A e \in Desk \ {d} : desk'[e] = desk[e]
  BY <1>1, OneDesk DEF CoachInv
<1>4. UNCHANGED <<week, wanted, latest>>
  BY <1>1 DEF weekRows
<1>5. CoachTypeOK'
  <2>1. profiles' \in [Person -> [slug : Slug \cup {NoSlug}, active : BOOLEAN, is : BOOLEAN]]
    BY <1>1 DEF coachRows, CoachInv, CoachTypeOK
  <2> QED BY <1>2, <1>3, <1>4, <2>1, SameTypes
<1>6. WeeksHold'
  BY <1>4 DEF CoachInv, WeeksHold
<1>7. ReplacementHolds(p, week, wanted) /\ p.added = {}
  BY <1>1 DEF CoachInv, ReplacementsHold, Busy, ReplacementHolds
<1>8. ReplacementHolds(r, week, wanted)
  BY <1>2, <1>7 DEF ReplacementHolds
<1>9. \A e \in Desk \ {d} : Busy(e) => /\ ReplacementHolds(desk[e], week, wanted)
                                       /\ ApartHolds(r, desk[e]) /\ ApartHolds(desk[e], r)
  <2> SUFFICES ASSUME NEW e \in Desk \ {d}, NEW q, q = desk[e], Busy(e)
               PROVE  ReplacementHolds(q, week, wanted) /\ ApartHolds(r, q) /\ ApartHolds(q, r)
    OBVIOUS
  <2>1. ReplacementHolds(q, week, wanted) /\ ApartHolds(p, q) /\ ApartHolds(q, p)
    BY <1>1 DEF CoachInv, ReplacementsHold, Busy
  <2>2. q.at = "inserting" /\ q.of = p.of => q.gone \cap p.gone = {}
    BY <1>1
  <2> QED BY <1>2, <1>7, <2>1, <2>2 DEF ApartHolds
<1>10. ReplacementsHold'
  BY <1>3, <1>4, <1>8, <1>9, OneReplacement
<1>11. ProfilesHold'
  BY <1>1, <1>2, <1>3, SameProfiles
<1> QED BY <1>5, <1>6, <1>10, <1>11 DEF CoachInv

LEMMA InsertEntryKeeps == ASSUME CoachInv, NEW d \in Desk, NEW e \in Entry, InsertEntry(d, e) PROVE CoachInv'
<1> PICK p : p = desk[d]
  OBVIOUS
<1> PICK a : a = [by |-> p.week, entry |-> e]
  OBVIOUS
<1> PICK r : r = [p EXCEPT !.todo = @ \ {e}, !.added = @ \cup {a}]
  OBVIOUS
<1>1. p.at = "inserting" /\ e \in p.todo /\ UNCHANGED <<coachRows, weekRows>> /\ ~Blocks(d, e, UnderWay(d))
  BY DEF InsertEntry
<1>2. CASE GoOn(d, Quiet)
  BY <1>1, <1>2, FailDeskKeeps
<1>3. CASE GoOn(d, r) /\ ~Blocks(d, e, (week[p.of] \ p.gone) \cup p.added)
  <2>1. /\ DOMAIN r = DeskFields /\ r.at = "inserting" /\ r.of = p.of /\ r.week = p.week
        /\ r.todo = p.todo \ {e} /\ r.gone = p.gone /\ r.added = p.added \cup {a} /\ r.beside = p.beside
    BY <1>1 DEF CoachInv, CoachTypeOK, DeskFields
  <2>2. /\ desk' = [f \in Desk |-> desk'[f]] /\ desk'[d] = r
        /\ \A f \in Desk \ {d} : desk'[f] = desk[f]
    BY <1>3, OneDesk DEF CoachInv
  <2>3. UNCHANGED <<week, wanted, latest>>
    BY <1>1 DEF weekRows
  <2>4. CoachTypeOK'
    <3>1. profiles' \in [Person -> [slug : Slug \cup {NoSlug}, active : BOOLEAN, is : BOOLEAN]]
      BY <1>1 DEF coachRows, CoachInv, CoachTypeOK
    <3> QED BY <2>1, <2>2, <2>3, <3>1, SameTypes
  <2>5. WeeksHold'
    BY <2>3 DEF CoachInv, WeeksHold
  <2>6. ReplacementHolds(p, week, wanted)
    BY <1>1 DEF CoachInv, ReplacementsHold, Busy
  <2>7. \A x \in (week[p.of] \ p.gone) \cup p.added : ~Clash(x.entry, e) /\ ~Clash(e, x.entry)
    BY <1>3, ClashBothWays DEF Blocks
  <2>8. a.by = p.week /\ a.entry = e
    OBVIOUS
  <2>9. ReplacementHolds(r, week, wanted)
    <3>1. {b.entry : b \in r.added} \cup r.todo = wanted[r.week]
      BY <1>1, <2>1, <2>6, <2>8 DEF ReplacementHolds
    <3>2. \A b \in r.added : b.by = r.week
      BY <2>1, <2>6, <2>8 DEF ReplacementHolds
    <3>3. \A x \in week[r.of] \ r.gone, b \in r.added : ~Clash(x.entry, b.entry)
      BY <2>1, <2>6, <2>7, <2>8 DEF ReplacementHolds
    <3>4. \A b, c \in r.added : b # c => ~Clash(b.entry, c.entry)
      BY <2>1, <2>6, <2>7, <2>8 DEF ReplacementHolds
    <3> QED BY <2>1, <2>6, <3>1, <3>2, <3>3, <3>4 DEF ReplacementHolds
  <2>10. \A f \in Desk \ {d} : Busy(f) => /\ ReplacementHolds(desk[f], week, wanted)
                                          /\ ApartHolds(r, desk[f]) /\ ApartHolds(desk[f], r)
    <3> SUFFICES ASSUME NEW f \in Desk \ {d}, NEW q, q = desk[f], Busy(f)
                 PROVE  ReplacementHolds(q, week, wanted) /\ ApartHolds(r, q) /\ ApartHolds(q, r)
      OBVIOUS
    <3>1. ReplacementHolds(q, week, wanted) /\ ApartHolds(p, q) /\ ApartHolds(q, p)
      BY <1>1 DEF CoachInv, ReplacementsHold, Busy
    <3>2. p.of = q.of => \A b \in q.added : ~Clash(b.entry, e) /\ ~Clash(e, b.entry)
      <4>1. p.of = q.of => f \in Others(d)
        BY DEF Others, Busy
      <4>2. f \in Others(d) => q.added \subseteq UnderWay(d)
        BY DEF UnderWay
      <4> QED BY <1>1, <4>1, <4>2, ClashBothWays DEF Blocks
    <3> QED BY <1>1, <2>1, <2>8, <3>1, <3>2 DEF ApartHolds
  <2>11. ReplacementsHold'
    BY <2>2, <2>3, <2>9, <2>10, OneReplacement
  <2>12. ProfilesHold'
    BY <1>1, <2>1, <2>2, SameProfiles
  <2> QED BY <2>4, <2>5, <2>11, <2>12 DEF CoachInv
<1>4. GoOn(d, Quiet) \/ (GoOn(d, r) /\ ~Blocks(d, e, (week[p.of] \ p.gone) \cup p.added))
  <2>1. r = [desk[d] EXCEPT !.todo = @ \ {e}, !.added = @ \cup {[by |-> desk[d].week, entry |-> e]}]
    OBVIOUS
  <2>2. IF Blocks(d, e, (week[p.of] \ p.gone) \cup p.added) THEN GoOn(d, Quiet) ELSE GoOn(d, r)
    BY <2>1, Zenon DEF InsertEntry
  <2> QED BY <2>2 DEF Blocks
<1> QED BY <1>2, <1>3, <1>4

\* A commit: the rows it leaves were committed beside it, and its own come whole.
LEMMA CommitWeekKeeps == ASSUME CoachInv, NEW d \in Desk, CommitWeek(d) PROVE CoachInv'
<1> PICK p : p = desk[d]
  OBVIOUS
<1> PICK u : u = p.of
  OBVIOUS
<1> PICK k : k = p.week
  OBVIOUS
<1> PICK rows : rows = (week[u] \ p.gone) \cup p.added
  OBVIOUS
<1> PICK last : last = [by |-> k, beside |-> p.beside]
  OBVIOUS
<1>1. /\ p.at = "inserting" /\ p.todo = {}
      /\ week' = [week EXCEPT ![u] = rows] /\ latest' = [latest EXCEPT ![u] = last]
      /\ UNCHANGED <<coachRows, wanted>>
  BY DEF CommitWeek
<1>2. /\ desk' = [e \in Desk |-> desk'[e]] /\ desk'[d] = Quiet
      /\ \A e \in Desk \ {d} :
           \/ desk'[e] = desk[e]
           \/ e \in Others(d) /\ desk[e].week # 0 /\ desk'[e] = [desk[e] EXCEPT !.beside = @ \cup {k}]
      /\ \A e \in Desk \ {d} :
           e \in Others(d) /\ desk[e].week # 0 => desk'[e] = [desk[e] EXCEPT !.beside = @ \cup {k}]
  BY DEF CommitWeek
<1>3. ReplacementHolds(p, week, wanted)
  BY <1>1 DEF CoachInv, ReplacementsHold, Busy
<1>4. /\ u \in Person /\ k \in 1..Len(wanted) /\ p.beside \subseteq 1..Len(wanted)
      /\ By(p.added, k) = wanted[k] /\ \A a \in p.added : a.by = k
  BY <1>1, <1>3 DEF ReplacementHolds, By
<1>5. /\ week'[u] = rows /\ latest'[u] = last
      /\ \A v \in Person \ {u} : week'[v] = week[v] /\ latest'[v] = latest[v]
  BY <1>1, <1>4 DEF CoachInv, CoachTypeOK
\* The other requests keep all but what was committed beside them.
<1>6. \A e \in Desk \ {d} :
        /\ DOMAIN desk'[e] = DeskFields /\ desk'[e].at = desk[e].at /\ desk'[e].of = desk[e].of
        /\ desk'[e].slug = desk[e].slug /\ desk'[e].active = desk[e].active
        /\ desk'[e].week = desk[e].week /\ desk'[e].todo = desk[e].todo
        /\ desk'[e].gone = desk[e].gone /\ desk'[e].added = desk[e].added
        /\ Busy(e) /\ desk[e].of # u => desk'[e].beside = desk[e].beside
        /\ Busy(e) /\ desk[e].of = u => desk'[e].beside = desk[e].beside \cup {k}
  <2> SUFFICES ASSUME NEW e \in Desk \ {d}, NEW q, q = desk[e], NEW r, r = desk'[e]
               PROVE  /\ DOMAIN r = DeskFields /\ r.at = q.at /\ r.of = q.of /\ r.slug = q.slug /\ r.active = q.active
                      /\ r.week = q.week /\ r.todo = q.todo /\ r.gone = q.gone /\ r.added = q.added
                      /\ Busy(e) /\ q.of # u => r.beside = q.beside
                      /\ Busy(e) /\ q.of = u => r.beside = q.beside \cup {k}
    OBVIOUS
  <2>1. DOMAIN q = DeskFields
    BY DEF CoachInv, CoachTypeOK
  <2>2. CASE r = q /\ ~(e \in Others(d) /\ q.week # 0)
    <3>1. Busy(e) => q.of # u
      <4>1. Busy(e) => q.week \in 1..Len(wanted)
        BY DEF CoachInv, ReplacementsHold, ReplacementHolds
      <4>2. Busy(e) => q.week # 0
        BY <4>1
      <4> QED BY <2>2, <4>2 DEF Others, Busy
    <3> QED BY <2>1, <2>2, <3>1
  <2>3. CASE e \in Others(d) /\ q.week # 0 /\ r = [q EXCEPT !.beside = @ \cup {k}]
    <3>1. q.of = u
      BY <2>3 DEF Others
    <3> QED BY <2>1, <2>3, <3>1 DEF DeskFields
  <2> QED BY <1>2, <2>2, <2>3
<1>7. CoachTypeOK'
  <2>1. \A e \in Desk : /\ DOMAIN desk'[e] = DeskFields
                        /\ desk'[e].at \in {"idle", "granting", "deleting", "inserting"}
                        /\ desk'[e].at \in {"idle", "granting"} => desk'[e].week = 0
    BY <1>2, <1>6, QuietDesk DEF CoachInv, CoachTypeOK
  <2>2. week' = [v \in Person |-> week'[v]] /\ latest' = [v \in Person |-> latest'[v]]
    BY <1>1 DEF CoachInv, CoachTypeOK
  <2>3. UNCHANGED profiles
    BY <1>1 DEF coachRows
  <2> QED BY <1>1, <1>2, <2>1, <2>2, <2>3 DEF CoachInv, CoachTypeOK
<1>8. WeekHolds(rows, last, wanted)
  <2>1. WeekHolds(week[u], latest[u], wanted)
    BY <1>4 DEF CoachInv, WeeksHold
  <2>2. \A r, s \in rows : r # s => ~Clash(r.entry, s.entry)
    BY <1>3, <2>1, ClashBothWays DEF WeekHolds, ReplacementHolds
  <2>3. \A r \in rows : r.by \in 1..Len(wanted) /\ (r.by = last.by \/ r.by \in last.beside)
    BY <1>3, <1>4, <2>1 DEF WeekHolds, ReplacementHolds
  <2>4. By(rows, k) = wanted[k]
    <3>1. \A x \in week[u] : x.by # k
      BY <1>3, <1>4 DEF ReplacementHolds
    <3>2. {q \in rows : q.by = k} = {q \in p.added : q.by = k}
      BY <3>1
    <3> QED BY <1>4, <3>2 DEF By
  <2>5. ASSUME NEW j \in 1..Len(wanted), j # k PROVE By(rows, j) \in {{}, wanted[j]}
    <3>1. \A x \in p.gone, y \in week[u] : x.by = y.by => y \in p.gone
      BY <1>3 DEF ReplacementHolds
    <3>2. p.gone \subseteq week[u]
      BY <1>1, <1>3 DEF ReplacementHolds
    <3>3. CASE \E x \in p.gone : x.by = j
      <4>1. {q \in rows : q.by = j} = {}
        BY <1>4, <2>5, <3>1, <3>3
      <4> QED BY <4>1 DEF By
    <3>4. CASE ~\E x \in p.gone : x.by = j
      <4>1. {q \in rows : q.by = j} = {q \in week[u] : q.by = j}
        BY <1>4, <2>5, <3>4
      <4>2. By(week[u], j) \in {{}, wanted[j]}
        BY <2>1 DEF WeekHolds
      <4> QED BY <4>1, <4>2 DEF By
    <3> QED BY <3>3, <3>4
  <2>6. last.by = k /\ last.beside = p.beside
    OBVIOUS
  <2>7. \A j \in 1..Len(wanted) : By(rows, j) \in {{}, wanted[j]}
    BY <2>4, <2>5
  <2>8. k \in 0..Len(wanted) /\ last.beside \subseteq 1..Len(wanted)
    BY <1>4, <2>6
  <2> QED BY <2>2, <2>3, <2>4, <2>6, <2>7, <2>8 DEF WeekHolds
<1>9. WeeksHold'
  <2> SUFFICES ASSUME NEW v \in Person PROVE WeekHolds(week'[v], latest'[v], wanted)
    BY <1>1 DEF WeeksHold
  <2>1. CASE v = u
    BY <1>5, <1>8, <2>1
  <2>2. CASE v # u
    BY <1>5, <2>2 DEF CoachInv, WeeksHold
  <2> QED BY <2>1, <2>2
<1>10. ASSUME NEW e \in Desk \ {d}, Busy(e) PROVE ReplacementHolds(desk'[e], week', wanted)
  <2> PICK q : q = desk[e]
    OBVIOUS
  <2> PICK r : r = desk'[e]
    OBVIOUS
  <2>1. ReplacementHolds(q, week, wanted) /\ ApartHolds(p, q) /\ ApartHolds(q, p)
    BY <1>1, <1>10 DEF CoachInv, ReplacementsHold, Busy
  <2>2. /\ r.at = q.at /\ r.of = q.of /\ r.week = q.week /\ r.todo = q.todo /\ r.gone = q.gone /\ r.added = q.added
        /\ q.of # u => r.beside = q.beside
        /\ q.of = u => r.beside = q.beside \cup {k}
    BY <1>6, <1>10
  <2>3. \A v \in Person : \A x \in week'[v] : x.by # q.week
    BY <1>4, <1>5, <2>1 DEF ReplacementHolds, ApartHolds
  <2>4. CASE q.of # u
    <3>1. week'[q.of] = week[q.of]
      BY <1>5, <2>1, <2>4 DEF ReplacementHolds
    <3>2. ReplacementHolds(r, week', wanted)
      BY <2>1, <2>2, <2>3, <2>4, <3>1 DEF ReplacementHolds
    <3> QED BY <3>2
  <2>5. CASE q.of = u
    <3>1. q.at = "inserting" => q.gone \subseteq rows
      <4>1. q.at = "inserting" => q.gone \subseteq week[u] /\ q.gone \cap p.gone = {}
        BY <1>1, <2>1, <2>5 DEF ReplacementHolds, ApartHolds
      <4> QED BY <4>1
    <3>2. \A x \in rows \ q.gone : x.by \in q.beside \cup {k}
      BY <1>4, <2>1, <2>5 DEF ReplacementHolds
    <3>3. \A x \in q.gone, y \in rows : x.by = y.by => y \in q.gone
      <4>1. \A x \in q.gone, y \in week[u] : x.by = y.by => y \in q.gone
        BY <2>1, <2>5 DEF ReplacementHolds
      <4>2. \A x \in q.gone : x.by # k
        BY <2>1 DEF ApartHolds
      <4> QED BY <1>4, <4>1, <4>2
    <3>4. \A x \in rows \ q.gone, a \in q.added : ~Clash(x.entry, a.entry)
      <4>1. \A x \in week[u] \ q.gone, a \in q.added : ~Clash(x.entry, a.entry)
        BY <2>1, <2>5 DEF ReplacementHolds
      <4>2. \A x \in p.added, a \in q.added : ~Clash(x.entry, a.entry)
        BY <2>1, <2>5 DEF ApartHolds
      <4> QED BY <4>1, <4>2
    <3>5. week'[q.of] = rows
      BY <1>5, <2>5
    <3>6. q.beside \cup {k} \subseteq 1..Len(wanted)
      BY <1>4, <2>1 DEF ReplacementHolds
    <3>7. ReplacementHolds(r, week', wanted)
      BY <2>1, <2>2, <2>3, <2>5, <3>1, <3>2, <3>3, <3>4, <3>5, <3>6 DEF ReplacementHolds
    <3> QED BY <3>7
  <2> QED BY <2>4, <2>5
<1>11. ReplacementsHold'
  <2>1. ~Busy(d)' /\ \A e \in Desk \ {d} : Busy(e)' => Busy(e)
    BY <1>2, <1>6, QuietDesk DEF Busy
  <2>2. \A e \in Desk : Busy(e)' => ReplacementHolds(desk'[e], week', wanted')
    BY <1>1, <1>10, <2>1
  <2>3. \A e, f \in Desk \ {d} : e # f /\ Busy(e) /\ Busy(f) => ApartHolds(desk'[e], desk'[f])
    <3> SUFFICES ASSUME NEW e \in Desk \ {d}, NEW f \in Desk \ {d}, e # f, Busy(e), Busy(f)
                 PROVE  ApartHolds(desk'[e], desk'[f])
      OBVIOUS
    <3>1. ApartHolds(desk[e], desk[f])
      BY DEF CoachInv, ReplacementsHold
    <3> QED BY <1>6, <3>1 DEF ApartHolds
  <2>4. \A e, f \in Desk : e # f /\ Busy(e)' /\ Busy(f)' => ApartHolds(desk'[e], desk'[f])
    BY <2>1, <2>3
  <2> QED BY <2>2, <2>4 DEF ReplacementsHold
<1>12. ProfilesHold'
  <2>1. UNCHANGED <<profiles, roleHolders, revoked>>
    BY <1>1 DEF coachRows
  <2>2. \A e \in Desk : desk'[e].at = "granting" =>
          /\ e # d /\ desk[e].at = "granting" /\ desk'[e].of = desk[e].of
          /\ desk'[e].slug = desk[e].slug /\ desk'[e].active = desk[e].active
    BY <1>2, <1>6, QuietDesk
  <2> QED BY <2>1, <2>2 DEF CoachInv, ProfilesHold
<1> QED BY <1>7, <1>9, <1>11, <1>12 DEF CoachInv

\* coaches/repository.rs, replace_schedules and insert_tx, and coaches/service.rs,
\* create_coach: whatever the hours and however many coaches, replacements and requests,
\* the hours of a coach never overlap and are whole replacements, and coaches keep their
\* role and a slug of their own.
THEOREM WeeksStayWhole == CoachesSpec => []WeeksAreWhole
<1>1. CoachInv /\ [CoachesNext]_coachVars => CoachInv'
  <2> SUFFICES ASSUME CoachInv, [CoachesNext]_coachVars PROVE CoachInv'
    OBVIOUS
  <2>1. CASE UNCHANGED coachVars
    <3>1. UNCHANGED <<profiles, roleHolders, revoked, week, wanted, latest, desk>>
      BY <2>1 DEF coachVars, coachRows, weekRows
    <3>2. CoachTypeOK'
      BY <3>1 DEF CoachInv, CoachTypeOK
    <3>3. ReplacementsHold'
      BY <3>1 DEF CoachInv, ReplacementsHold, Busy
    <3>4. WeeksHold' /\ ProfilesHold'
      BY <3>1 DEF CoachInv, WeeksHold, ProfilesHold
    <3> QED BY <3>2, <3>3, <3>4 DEF CoachInv
  <2>2. CASE \E u \in Person : RevokeCoachRole(u) \/ clock_in(u) \/ clock_out(u)
    <3>1. PICK u \in Person : RevokeCoachRole(u) \/ clock_in(u) \/ clock_out(u)
      BY <2>2
    <3>2. NoSlug \in Slug \cup {NoSlug} /\ FALSE \in BOOLEAN
      OBVIOUS
    <3> QED BY <3>1, <3>2, ProfileSteps
  <2>3. ASSUME NEW u \in Person, NEW s \in Slug \cup {NoSlug}, NEW shown \in BOOLEAN,
               update_coach(u, s, shown) \/ \E d \in Desk : InsertCoach(d, u, s, shown)
        PROVE  CoachInv'
    BY <2>3, ProfileSteps, InsertCoachKeeps
  <2>4. ASSUME NEW d \in Desk,
               \/ FailDesk(d) \/ CommitCoach(d) \/ DeleteWeek(d) \/ CommitWeek(d)
               \/ \E e \in Entry : InsertEntry(d, e)
               \/ \E u \in Person, want \in SUBSET Entry : BeginWeek(d, u, want)
        PROVE  CoachInv'
    <3>1. CASE FailDesk(d)
      <4>1. GoOn(d, Quiet) /\ UNCHANGED <<coachRows, weekRows>>
        BY <3>1 DEF FailDesk
      <4> QED BY <4>1, FailDeskKeeps
    <3> QED BY <2>4, <3>1, CommitCoachKeeps, DeleteWeekKeeps, CommitWeekKeeps, InsertEntryKeeps, BeginWeekKeeps
  <2> QED BY <2>1, <2>2, <2>3, <2>4 DEF CoachesNext
<1>2. CoachInv => WeeksAreWhole
  <2> SUFFICES ASSUME CoachInv, NEW u \in Person
               PROVE  /\ \A r, s \in week[u] : r # s => ~Clash(r.entry, s.entry)
                      /\ \A r \in week[u] : r.by = latest[u].by \/ r.by \in latest[u].beside
                      /\ \A k \in {latest[u].by} \ {0} : {r.entry : r \in {q \in week[u] : q.by = k}} = wanted[k]
                      /\ \A k \in latest[u].beside : {r.entry : r \in {q \in week[u] : q.by = k}} \in {{}, wanted[k]}
                      /\ profiles[u].is => (u \in roleHolders \/ u \in revoked) /\ SlugFree(u, profiles[u].slug)
    BY DEF WeeksAreWhole
  <2>1. WeekHolds(week[u], latest[u], wanted)
    BY DEF CoachInv, WeeksHold
  <2>2. profiles[u].is => (u \in roleHolders \/ u \in revoked) /\ SlugFree(u, profiles[u].slug)
    BY DEF CoachInv, ProfilesHold, FreeIn, SlugFree
  <2> QED BY <2>1, <2>2 DEF WeekHolds, By
<1> QED BY CoachStarts, <1>1, <1>2, PTL DEF CoachesSpec

-----------------------------------------------------------------------------
(* The cache of what a user may do: stale only in the ways the code        *)
(* admits, for any users, roles, lifetimes and requests in flight.         *)

USE AccessAssumption DEF database, cache, reads, requests

\* What a request is about to put into the cache is what the database says, unless
\* the database has changed since it was read.
ReadsAreFresh == \A r \in Request : ~old[r] =>
  /\ pc[r] = "fill_active" => readActive[r] = active[user[r]]
  /\ pc[r] = "fill_roles" => readRoles[r] = roles[user[r]]

Inv == TypeOK /\ ReadsAreFresh /\ OnlyKnownStaleness

LEMMA Lifetimes ==
  /\ 0 \in 0..ACTIVE_CACHE_TTL /\ ACTIVE_CACHE_TTL \in 0..ACTIVE_CACHE_TTL
  /\ 0 \in 0..ROLE_CACHE_TTL /\ ROLE_CACHE_TTL \in 0..ROLE_CACHE_TTL
  /\ 0 \in 0..MaxUnflushed
OBVIOUS

LEMMA InitInv == Init => Inv
<1> SUFFICES ASSUME Init PROVE Inv
  OBVIOUS
<1>1. (CHOOSE u \in User : TRUE) \in User
  OBVIOUS
<1>2. TypeOK
  <2>1. activeTtl \in [User -> 0..ACTIVE_CACHE_TTL] /\ rolesTtl \in [User -> 0..ROLE_CACHE_TTL]
    BY Lifetimes DEF Init
  <2> QED BY <1>1, <2>1, Lifetimes DEF Init, TypeOK
<1>3. ReadsAreFresh /\ OnlyKnownStaleness
  BY DEF Init, ReadsAreFresh, OnlyKnownStaleness, Stale
<1> QED BY <1>2, <1>3 DEF Inv

\* Steps of a request that write nothing to the cache.
LEMMA ResolveKeeps ==
  ASSUME Inv, NEW r \in Request,
         GetActive(r) \/ ReadActive(r) \/ GetRoles(r) \/ ReadRoles(r) \/ Return(r)
  PROVE  Inv'
<1>1. TypeOK'
  <2>1. /\ pc' \in [Request -> {"idle", "get_active", "read_active", "fill_active",
                                "get_roles", "read_roles", "fill_roles", "done"}]
        /\ granted' \in [Request -> BOOLEAN] /\ old' \in [Request -> BOOLEAN]
        /\ readActive' \in [Request -> BOOLEAN] /\ readRoles' \in [Request -> SUBSET Role]
        /\ UNCHANGED <<database, cache, unflushed, user, excused>>
    <3>1. CASE GetActive(r)
      BY <3>1 DEF Inv, TypeOK, GetActive, Goto, Answer
    <3>2. CASE ReadActive(r)
      BY <3>2 DEF Inv, TypeOK, ReadActive, Goto
    <3>3. CASE GetRoles(r)
      BY <3>3 DEF Inv, TypeOK, GetRoles, Goto, Answer
    <3>4. CASE ReadRoles(r)
      BY <3>4 DEF Inv, TypeOK, ReadRoles, Goto
    <3>5. CASE Return(r)
      BY <3>5 DEF Inv, TypeOK, Return, Goto
    <3> QED BY <3>1, <3>2, <3>3, <3>4, <3>5
  <2> QED BY <2>1 DEF Inv, TypeOK
<1>2. ReadsAreFresh'
  BY DEF Inv, TypeOK, ReadsAreFresh, GetActive, ReadActive, GetRoles, ReadRoles, Return, Goto, Answer
<1>3. OnlyKnownStaleness'
  BY DEF Inv, OnlyKnownStaleness, Stale, GetActive, ReadActive, GetRoles, ReadRoles, Return
<1> QED BY <1>1, <1>2, <1>3 DEF Inv

\* A fill of what is fresh leaves the entry right; a fill of what is old is excused.
LEMMA FillKeeps ==
  ASSUME Inv, NEW r \in Request, FillActive(r) \/ FillRoles(r) PROVE Inv'
<1>1. TypeOK'
  <2>1. activeEntry' \in [User -> BOOLEAN] /\ rolesEntry' \in [User -> SUBSET Role]
    <3>1. CASE FillActive(r)
      BY <3>1 DEF Inv, TypeOK, FillActive
    <3>2. CASE FillRoles(r)
      BY <3>2 DEF Inv, TypeOK, FillRoles
    <3> QED BY <3>1, <3>2
  <2>2. activeTtl' \in [User -> 0..ACTIVE_CACHE_TTL] /\ rolesTtl' \in [User -> 0..ROLE_CACHE_TTL]
    <3>1. CASE FillActive(r)
      BY <3>1, Lifetimes DEF Inv, TypeOK, FillActive
    <3>2. CASE FillRoles(r)
      BY <3>2, Lifetimes DEF Inv, TypeOK, FillRoles
    <3> QED BY <3>1, <3>2
  <2>3. /\ excused' \in [User -> BOOLEAN] /\ old' \in [Request -> BOOLEAN]
        /\ readActive' \in [Request -> BOOLEAN] /\ readRoles' \in [Request -> SUBSET Role]
    BY DEF Inv, TypeOK, FillActive, FillRoles, Filled
  <2>4. UNCHANGED <<database, unflushed, user>>
    BY DEF FillActive, FillRoles
  <2>5. CASE FillActive(r)
    BY <2>1, <2>2, <2>3, <2>4, <2>5 DEF Inv, TypeOK, FillActive, Goto, Answer
  <2>6. CASE FillRoles(r)
    BY <2>1, <2>2, <2>3, <2>4, <2>6 DEF Inv, TypeOK, FillRoles, Goto, Answer
  <2> QED BY <2>5, <2>6
<1>2. ReadsAreFresh'
  BY DEF Inv, TypeOK, ReadsAreFresh, FillActive, FillRoles, Filled, Goto, Answer
<1>3. OnlyKnownStaleness'
  <2> SUFFICES ASSUME NEW u \in User, Stale(u)'
               PROVE  unflushed'[u] > 0 \/ excused'[u]
    BY DEF OnlyKnownStaleness
  <2>1. unflushed' = unflushed /\ (excused[u] => excused'[u]) /\ (u = user[r] /\ old[r] => excused'[u])
    BY DEF Inv, TypeOK, FillActive, FillRoles, Filled
  <2>2. Stale(u) \/ (u = user[r] /\ old[r])
    BY DEF Inv, TypeOK, ReadsAreFresh, FillActive, FillRoles, Stale
  <2> QED BY <2>1, <2>2 DEF Inv, OnlyKnownStaleness
<1> QED BY <1>1, <1>2, <1>3 DEF Inv

\* A write owes a flush, and makes old what was read before it.
LEMMA WriteKeeps ==
  ASSUME Inv, NEW u \in User,
         \/ \E b \in BOOLEAN : set_active(u, b)
         \/ \E role \in Role : assign_role(u, role)
  PROVE  Inv'
<1>1. /\ unflushed' = [unflushed EXCEPT ![u] = @ + 1] /\ unflushed[u] < MaxUnflushed
      /\ old' = [r \in Request |-> old[r] \/ (user[r] = u /\ pc[r] \in {"fill_active", "fill_roles"})]
      /\ UNCHANGED <<cache, pc, user, reads, granted, excused>>
      /\ active' \in [User -> BOOLEAN] /\ roles' \in [User -> SUBSET Role]
      /\ \A v \in User \ {u} : active'[v] = active[v] /\ roles'[v] = roles[v]
  BY DEF Inv, TypeOK, set_active, assign_role, Dirty
<1>2. unflushed' \in [User -> 0..MaxUnflushed] /\ unflushed'[u] > 0
  BY <1>1 DEF Inv, TypeOK
<1>3. old' \in [Request -> BOOLEAN]
  BY <1>1 DEF Inv, TypeOK
<1>4. TypeOK'
  BY <1>1, <1>2, <1>3 DEF Inv, TypeOK
<1>5. ReadsAreFresh'
  BY <1>1 DEF Inv, TypeOK, ReadsAreFresh
<1>6. OnlyKnownStaleness'
  <2> SUFFICES ASSUME NEW v \in User, Stale(v)' PROVE unflushed'[v] > 0 \/ excused'[v]
    BY DEF OnlyKnownStaleness
  <2>1. CASE v = u
    BY <1>2, <2>1
  <2>2. CASE v # u
    <3>1. Stale(v) /\ unflushed'[v] = unflushed[v] /\ excused'[v] = excused[v]
      BY <1>1, <2>2 DEF Inv, TypeOK, Stale
    <3> QED BY <3>1 DEF Inv, OnlyKnownStaleness
  <2> QED BY <2>1, <2>2
<1> QED BY <1>4, <1>5, <1>6 DEF Inv

LEMMA FlushKeeps ==
  ASSUME Inv, NEW u \in User, flush(u) \/ LoseFlush(u) PROVE Inv'
<1>1. TypeOK'
  <2>1. unflushed' \in [User -> 0..MaxUnflushed]
    BY DEF Inv, TypeOK, flush, LoseFlush
  <2>2. /\ activeEntry' \in [User -> BOOLEAN] /\ rolesEntry' \in [User -> SUBSET Role]
        /\ excused' \in [User -> BOOLEAN]
    BY DEF Inv, TypeOK, flush, LoseFlush
  <2>3. activeTtl' \in [User -> 0..ACTIVE_CACHE_TTL] /\ rolesTtl' \in [User -> 0..ROLE_CACHE_TTL]
    BY DEF Inv, TypeOK, flush, LoseFlush
  <2> QED BY <2>1, <2>2, <2>3 DEF Inv, TypeOK, flush, LoseFlush
<1>2. ReadsAreFresh'
  BY DEF Inv, ReadsAreFresh, flush, LoseFlush
<1>3. OnlyKnownStaleness'
  BY DEF Inv, TypeOK, OnlyKnownStaleness, Stale, flush, LoseFlush
<1> QED BY <1>1, <1>2, <1>3 DEF Inv

\* Time only takes entries away.
LEMMA TickKeeps == ASSUME Inv, Tick PROVE Inv'
<1>1. TypeOK'
  BY DEF Inv, TypeOK, Tick, Left
<1>2. ReadsAreFresh'
  BY DEF Inv, ReadsAreFresh, Tick
<1>3. \A u \in User : Stale(u)' => Stale(u)
  BY DEF Inv, TypeOK, Stale, Tick, Left
<1>4. OnlyKnownStaleness'
  BY <1>3 DEF Inv, OnlyKnownStaleness, Tick
<1> QED BY <1>1, <1>2, <1>4 DEF Inv

LEMMA NextKeeps == Inv /\ [Next]_accessVars => Inv'
<1> SUFFICES ASSUME Inv, [Next]_accessVars PROVE Inv'
  OBVIOUS
<1>1. CASE UNCHANGED accessVars
  BY <1>1 DEF accessVars, Inv, TypeOK, ReadsAreFresh, OnlyKnownStaleness, Stale
<1>2. ASSUME NEW r \in Request, Resolve(r) PROVE Inv'
  BY <1>2, ResolveKeeps, FillKeeps DEF Resolve
<1>3. ASSUME NEW r \in Request, NEW u \in User, Begin(r, u) PROVE Inv'
  BY <1>3 DEF Inv, TypeOK, ReadsAreFresh, OnlyKnownStaleness, Stale, Begin, Goto
<1> QED BY <1>1, <1>2, <1>3, WriteKeeps, FlushKeeps, TickKeeps DEF Next

\* access.rs on AccessDirty: an entry says something else than the database only
\* while a flush is owed, after one was lost, or in the known residual race.
THEOREM StalenessIsKnown == Spec => []OnlyKnownStaleness
<1>1. Inv => OnlyKnownStaleness
  BY DEF Inv
<1> QED BY <1>1, InitInv, NextKeeps, PTL DEF Spec

-----------------------------------------------------------------------------
(* The seed: whatever a run is at when it dies, the next one takes up.     *)

Buying  == {"replay", "clear", "add", "walk"}
Bought  == {"settle", "mark", "rental", "inquiry", "done"}
Settled == Bought \ {"settle"}
Marked  == Settled \ {"mark"}
Stage   == {"accounts", "catalog", "slots", "pending"} \cup Buying \cup Bought
Known   == {"none", "paid", "processing", "completed", "refunded", "cancelled"}
Writing == {"none", "seed", "app", "bare", "filled"}

SeedTypeOK ==
  /\ date \in Dates /\ runAt \in 0..date /\ script \in Stage \cup {"idle"} /\ nth \in Nat
  /\ (script # "idle" => runAt # 0)
  /\ todo \in SUBSET Row /\ seen \in Known /\ walked \in SUBSET Purchase
  /\ balances \in [Holder -> Nat] /\ rowsSum = balances /\ opened \in [Holder -> {-1, 0, 1}]
  /\ carts \in [Holder -> SUBSET Item]
  /\ orderState \in [Purchase -> Known]
  /\ orderLines \in [Purchase -> SUBSET Item] /\ orderCount \in [Purchase -> {0, 1}]
  /\ paidAt \in [Purchase -> Int] /\ steppedAt \in [Purchase -> Int]
  /\ marks \in [Purchase \X Dates -> {"none", "seed", "coach"}]
  /\ rentals \in [Dates -> SUBSET [by : {"seed", "app"}, live : BOOLEAN]]
  /\ content \in [Row -> Writing] /\ wrote \in [Row -> {"none", "app", "bare"}]
  /\ legacy \in BOOLEAN /\ undisturbed \in BOOLEAN

\* An account is granted its opening points with its row.
AccountsOpen ==
  \A a \in Holder : opened[a] = 1 <=> opened[a] >= 0 /\ OpeningPoints[a] > 0

\* A purchase has an order exactly when its key was taken; a step of it is dated,
\* and the payment not after the day of the last run.
OrderHolds(p) ==
  /\ orderCount[p] = 1 <=> orderState[p] # "none"
  /\ orderCount[p] = 1 => /\ orderLines[p] = Buys[p].lines
                          /\ paidAt[p] <= steppedAt[p] /\ steppedAt[p] <= date
                          /\ paidAt[p] <= runAt
OrdersHold == \A p \in Purchase : OrderHolds(p)

\* Where the script is, the purchase it is at has been bought or has not, and the
\* cart holds nothing else.
ScriptHolds ==
  /\ script = "replay" => nth \in 1..(Len(Purchases) + 1)
  /\ script \in {"clear", "add", "walk"} => nth \in DOMAIN Purchases
  /\ script \in {"clear", "add"} => orderCount[Key] = 0
  /\ script = "add" => carts[Buys[Key].buyer] \subseteq Buys[Key].lines
  /\ script = "walk" => orderCount[Key] = 1
  /\ script \in {"slots", "settle", "rental"} => nth # 0

\* One booking of a slot is live, and one the seed made is of the past and the only one.
SlotHolds(d) ==
  \A b, c \in rentals[d] : /\ b.live /\ c.live => b = c
                           /\ b.by = "seed" => c = b /\ d < date
SlotsHold == \A d \in Dates : SlotHolds(d)

\* A row is what the app wrote last, but for a venue and for what it deleted.
RowHolds(r) ==
  \/ content[r] = wrote[r]
  \/ wrote[r] = "none" /\ content[r] = "seed"
  \/ wrote[r] = "bare" /\ content[r] = "filled"
KeysHold ==
  /\ \A r \in Row : RowHolds(r)
  /\ legacy => script = "idle" /\ \A p \in Purchase : orderCount[p] = 0

\* What a run that nobody disturbs has done so far: to the rows,
Kept(rows) == \A r \in rows : content[r] # "none"
SlotsKept(i) == Kept(SlotsOf(i)) /\ \A r \in Courses[i] : content[r] # "bare"
RowsDone ==
  undisturbed =>
    /\ script = "catalog" => Kept((Catalog \ Slots) \ todo)
    /\ script \notin {"idle", "accounts", "catalog"} => Kept(Catalog \ Slots)
    /\ script = "slots" => Kept(SlotsOf(nth) \ todo) /\ \A i \in DOMAIN Courses : i < nth => SlotsKept(i)
    /\ script \in {"pending"} \cup Buying \cup Bought => \A i \in DOMAIN Courses : SlotsKept(i)
    /\ script = "pending" => Kept(Pending[runAt] \ todo)
    /\ script \in Buying \cup Bought => Kept(Pending[runAt])
    /\ script = "inquiry" => Kept(Inquiry[runAt] \ todo)
    /\ script = "done" => Kept(Inquiry[runAt])

\* to the orders,
Finished(p) == /\ orderCount[p] = 1 /\ Following(p, orderState[p])[1] = "none"
               /\ Enrols(p, orderState[p]) => p \in walked
OrdersDone ==
  undisturbed =>
    /\ script \in Buying => \A i \in DOMAIN Purchases : i < nth => Finished(Purchases[i].of)
    /\ script \in Bought => \A i \in DOMAIN Purchases : Finished(Purchases[i].of)
    /\ script = "walk" => seen = orderState[Key]

\* and to the members, the marks and the slots.
AtTarget(i) == balances[Members[i]] = Target[Members[i]]
Marks(d) == d < runAt => \A i \in DOMAIN Purchases : LET p == Purchases[i].of IN
                           Enrols(p, orderState[p]) => marks[<<p, d>>] # "none"
Booked(d) == d < runAt /\ d >= FirstSlot[runAt] /\ d \in BookedByRule => rentals[d] # {}
RestDone ==
  undisturbed =>
    /\ script = "settle" => \A i \in DOMAIN Members : i < nth => AtTarget(i)
    /\ script \in Settled => \A i \in DOMAIN Members : AtTarget(i)
    /\ script \in Marked => \A d \in Dates : Marks(d)
    /\ script = "rental" => \A d \in Dates : d < nth => Booked(d)
    /\ script \in {"inquiry", "done"} => \A d \in Dates : Booked(d)

SeedInv == /\ SeedTypeOK /\ AccountsOpen /\ OrdersHold /\ ScriptHolds /\ SlotsHold /\ KeysHold
           /\ RowsDone /\ OrdersDone /\ RestDone

-----------------------------------------------------------------------------
\* A purchase has a buyer, lines and points it earns; a timeline holds purchases, none of
\* them of a later day.
LEMMA PurchaseFacts ==
  /\ \A p \in Purchase : /\ Buys[p].buyer \in Holder /\ Buys[p].lines \in SUBSET Item
                         /\ Buys[p].earns \in Nat
  /\ \A d \in Dates : /\ Len(Timeline[d]) \in Nat /\ DOMAIN Timeline[d] = 1..Len(Timeline[d])
                      /\ \A i \in DOMAIN Timeline[d] :
                           /\ Timeline[d][i].of \in Purchase
                           /\ Timeline[d][i].ts \in Int /\ Timeline[d][i].ts <= d
<1>1. \A p \in Purchase : /\ Buys[p].buyer \in Holder /\ Buys[p].lines \in SUBSET Item
                          /\ Buys[p].earns \in Nat
  BY SeedAssumption
<1>2. ASSUME NEW d \in Dates
      PROVE  /\ Len(Timeline[d]) \in Nat /\ DOMAIN Timeline[d] = 1..Len(Timeline[d])
             /\ \A i \in DOMAIN Timeline[d] :
                  /\ Timeline[d][i].of \in Purchase
                  /\ Timeline[d][i].ts \in Int /\ Timeline[d][i].ts <= d
  <2> DEFINE R == [of : Purchase, ts : Int]
             t == Timeline[d]
  <2>1. t \in Seq(R) /\ \A i \in DOMAIN t : t[i].ts <= d
    BY SeedAssumption
  <2> HIDE DEF R, t
  <2>2. Len(t) \in Nat /\ DOMAIN t = 1..Len(t) /\ \A i \in DOMAIN t : t[i] \in R
    BY <2>1
  <2> QED BY <2>1, <2>2 DEF R, t
<1> QED BY <1>1, <1>2

LEMMA MemberFacts ==
  /\ Len(Members) \in Nat /\ DOMAIN Members = 1..Len(Members)
  /\ \A i \in DOMAIN Members : Members[i] \in Holder /\ Target[Members[i]] \in Nat
  BY SeedAssumption

LEMMA RowFacts ==
  /\ Catalog \subseteq Row /\ (\A i \in DOMAIN Courses : Courses[i] \subseteq Row)
  /\ \A d \in Dates : Pending[d] \subseteq Row /\ Inquiry[d] \subseteq Row
  /\ \A i : SlotsOf(i) \subseteq Row
<1>1. /\ Catalog \subseteq Row /\ (\A i \in DOMAIN Courses : Courses[i] \subseteq Row)
      /\ \A d \in Dates : Pending[d] \subseteq Row /\ Inquiry[d] \subseteq Row
  BY DEF Row, Slots
<1> QED BY <1>1 DEF SlotsOf

\* The day of a run, and the timeline of it.
LEMMA RunFacts ==
  ASSUME SeedInv, script # "idle"
  PROVE  /\ runAt \in Dates /\ runAt <= date /\ runAt \in Nat \ {0} /\ date \in Nat \ {0}
         /\ Len(Purchases) \in Nat /\ DOMAIN Purchases = 1..Len(Purchases)
         /\ FirstSlot[runAt] \in Nat \ {0}
         /\ \A i \in DOMAIN Purchases : /\ Purchases[i].of \in Purchase
                                        /\ Purchases[i].ts \in Int /\ Purchases[i].ts <= runAt
<1>1. runAt \in Dates /\ runAt <= date /\ runAt \in Nat \ {0} /\ date \in Nat \ {0}
  <2>1. LastDay \in Nat \ {0}
    BY SeedAssumption
  <2>2. SeedTypeOK
    BY DEF SeedInv
  <2>3. date \in Dates /\ runAt \in 0..date /\ runAt # 0
    BY <2>2 DEF SeedTypeOK
  <2> QED BY <2>1, <2>3 DEF Dates
<1>2. FirstSlot[runAt] \in Nat \ {0}
  <2>1. FirstSlot \in [Dates -> Dates]
    BY SeedAssumption
  <2>2. FirstSlot[runAt] \in Dates
    BY <1>1, <2>1
  <2>3. LastDay \in Nat
    BY SeedAssumption
  <2> QED BY <2>2, <2>3 DEF Dates
<1>3. /\ Len(Timeline[runAt]) \in Nat /\ DOMAIN Timeline[runAt] = 1..Len(Timeline[runAt])
      /\ \A i \in DOMAIN Timeline[runAt] : /\ Timeline[runAt][i].of \in Purchase
                                           /\ Timeline[runAt][i].ts \in Int
                                           /\ Timeline[runAt][i].ts <= runAt
  BY <1>1, PurchaseFacts
<1> QED BY <1>1, <1>2, <1>3 DEF Purchases

\* The purchase the script is at.
LEMMA KeyFacts ==
  ASSUME SeedInv, script \in {"clear", "add", "walk"}
  PROVE  /\ Key \in Purchase /\ nth \in 1..Len(Purchases) /\ Len(Purchases) \in Nat
         /\ Buys[Key].buyer \in Holder /\ Buys[Key].lines \in SUBSET Item /\ Buys[Key].earns \in Nat
         /\ Purchases[nth].ts \in Int /\ Purchases[nth].ts <= runAt
<1>1. nth \in DOMAIN Purchases /\ script # "idle"
  BY DEF SeedInv, ScriptHolds
<1> QED BY <1>1, RunFacts, PurchaseFacts DEF Key

LEMMA SeedStarts == SeedInit => SeedInv
<1> SUFFICES ASSUME SeedInit PROVE SeedInv
  OBVIOUS
<1>1. PICK unvenued \in SUBSET Slots : wrote = [r \in Row |-> IF r \in unvenued THEN "bare" ELSE "none"]
  BY DEF SeedInit
<1>2. SeedTypeOK
  <2>1. date \in Dates /\ runAt \in 0..date /\ script = "idle" /\ nth \in Nat
    BY SeedAssumption DEF SeedInit, Dates
  <2>2. balances \in [Holder -> Nat] /\ rowsSum = balances /\ opened \in [Holder -> {-1, 0, 1}]
        /\ carts \in [Holder -> SUBSET Item]
    BY DEF SeedInit
  <2>3. /\ orderState \in [Purchase -> Known]
        /\ orderLines \in [Purchase -> SUBSET Item] /\ orderCount \in [Purchase -> {0, 1}]
        /\ paidAt \in [Purchase -> Int] /\ steppedAt \in [Purchase -> Int]
    BY DEF SeedInit, Known
  <2>4. /\ marks \in [Purchase \X Dates -> {"none", "seed", "coach"}]
        /\ rentals \in [Dates -> SUBSET [by : {"seed", "app"}, live : BOOLEAN]]
    BY DEF SeedInit
  <2>5. content \in [Row -> Writing] /\ wrote \in [Row -> {"none", "app", "bare"}]
    BY <1>1 DEF SeedInit, Writing
  <2>6. todo \in SUBSET Row /\ seen \in Known /\ walked \in SUBSET Purchase
        /\ legacy \in BOOLEAN /\ undisturbed \in BOOLEAN
    BY DEF SeedInit, Known
  <2> QED BY <2>1, <2>2, <2>3, <2>4, <2>5, <2>6 DEF SeedTypeOK
<1>3. AccountsOpen /\ OrdersHold /\ ScriptHolds /\ SlotsHold /\ RowsDone /\ OrdersDone /\ RestDone
  BY SeedAssumption DEF SeedInit, AccountsOpen, OrdersHold, OrderHolds, ScriptHolds, SlotsHold, SlotHolds,
    RowsDone, OrdersDone, RestDone
<1>4. KeysHold
  BY DEF SeedInit, KeysHold, RowHolds
<1> QED BY <1>2, <1>3, <1>4 DEF SeedInv

-----------------------------------------------------------------------------
\* What a run has done stays done while nobody undoes it.
Midway(s) == s \in (Buying \cup Bought) \ {"inquiry", "done"}
LEMMA RowsStay ==
  ASSUME RowsDone, UNCHANGED <<content, runAt, undisturbed>>,
         UNCHANGED <<script, nth, todo>> \/ (Midway(script) /\ Midway(script')) \/ script' = "idle"
  PROVE  RowsDone'
<1>1. CASE UNCHANGED <<script, nth, todo>>
  BY <1>1 DEF RowsDone, Kept, SlotsKept, SlotsOf
<1>2. CASE Midway(script) /\ Midway(script')
  BY <1>2 DEF RowsDone, Kept, SlotsKept, SlotsOf, Midway, Buying, Bought
<1>3. CASE script' = "idle"
  BY <1>3 DEF RowsDone, Buying, Bought
<1> QED BY <1>1, <1>2, <1>3

LEMMA OrdersStay ==
  ASSUME OrdersDone, UNCHANGED <<orderState, orderCount, runAt, undisturbed>>,
         \/ UNCHANGED <<script, nth, seen, walked>>
         \/ script \in Bought /\ script' \in Bought /\ walked' = walked
         \/ script' \notin Buying \cup Bought
  PROVE  OrdersDone'
<1>1. CASE UNCHANGED <<script, nth, seen, walked>>
  BY <1>1 DEF OrdersDone, Finished, Following, Enrols, Purchases, Key
<1>2. CASE script \in Bought /\ script' \in Bought /\ walked' = walked
  BY <1>2 DEF OrdersDone, Finished, Following, Enrols, Purchases, Key, Buying, Bought
<1>3. CASE script' \notin Buying \cup Bought
  BY <1>3 DEF OrdersDone, Buying, Bought
<1> QED BY <1>1, <1>2, <1>3

LEMMA RestStays ==
  ASSUME RestDone, UNCHANGED <<runAt, undisturbed>>,
         \/ UNCHANGED <<script, nth, balances, marks, rentals, orderState>>
         \/ script' \notin Bought
  PROVE  RestDone'
<1>1. CASE UNCHANGED <<script, nth, balances, marks, rentals, orderState>>
  BY <1>1 DEF RestDone, AtTarget, Marks, Booked, Enrols, Purchases
<1>2. CASE script' \notin Bought
  BY <1>2 DEF RestDone, Bought, Settled, Marked
<1> QED BY <1>1, <1>2

\* Where the script goes on and writes nothing.
ScriptStep ==
  \/ StartRun \/ DieRun \/ AccountsReady \/ CatalogReady \/ SlotsReady \/ PendingReady
  \/ ReplayPurchase \/ AllBought \/ StepWasTaken \/ StepRefused \/ WalkEnds \/ MembersSettled
  \/ RentalsReady \/ FinishRun \/ ReportRun

LEMMA StepStays ==
  ASSUME ScriptStep
  PROVE  /\ UNCHANGED <<date, touches, balances, rowsSum, opened, carts, orderState, orderLines, orderCount,
                        paidAt, steppedAt, marks, rentals, content, wrote, legacy>>
         /\ StartRun \/ UNCHANGED <<runAt, undisturbed>>
  BY DEF ScriptStep, StartRun, DieRun, AccountsReady, CatalogReady, SlotsReady, PendingReady, ReplayPurchase,
    AllBought, StepWasTaken, StepRefused, WalkEnds, MembersSettled, RentalsReady, FinishRun, ReportRun,
    GoTo, GoOnTo, Stays, seedPoints, seedOrders, seedRows, seedRun

LEMMA StepTypes == ASSUME SeedInv, ScriptStep PROVE SeedTypeOK'
<1>1. /\ script' \in Stage \cup {"idle"} /\ nth' \in Nat /\ runAt' \in 0..date /\ undisturbed' \in BOOLEAN
      /\ (script' # "idle" => runAt' # 0)
  <2>1. /\ script \in Stage \cup {"idle"} /\ nth \in Nat /\ runAt \in 0..date /\ undisturbed \in BOOLEAN
        /\ (script # "idle" => runAt # 0) /\ date \in Nat \ {0}
    BY SeedAssumption DEF SeedInv, SeedTypeOK, Dates
  <2>2. CASE StartRun
    BY <2>1, <2>2 DEF StartRun, Stage
  <2>3. CASE RentalsReady \/ WalkEnds \/ StepWasTaken
    BY <2>1, <2>3 DEF RentalsReady, WalkEnds, StepWasTaken, GoTo, GoOnTo, Stage, Buying, Bought, seedRun
  <2>4. CASE ReplayPurchase
    BY <2>1, <2>4 DEF ReplayPurchase, GoTo, Stage, Buying
  <2>5. CASE \/ DieRun \/ AccountsReady \/ CatalogReady \/ SlotsReady \/ PendingReady \/ AllBought
             \/ StepRefused \/ MembersSettled \/ FinishRun \/ ReportRun
    BY <2>1, <2>5 DEF DieRun, AccountsReady, CatalogReady, SlotsReady, PendingReady, AllBought, StepRefused,
      MembersSettled, FinishRun, ReportRun, GoTo, GoOnTo, Stage, Buying, Bought
  <2> QED BY <2>2, <2>3, <2>4, <2>5 DEF ScriptStep
<1>2. todo' \in SUBSET Row /\ walked' \in SUBSET Purchase
  <2>1. todo \in SUBSET Row /\ walked \in SUBSET Purchase
    BY DEF SeedInv, SeedTypeOK
  <2>2. CASE StartRun \/ ReplayPurchase \/ AllBought \/ StepWasTaken \/ MembersSettled
    BY <2>1, <2>2 DEF StartRun, ReplayPurchase, AllBought, StepWasTaken, MembersSettled, seedMemory
  <2>3. CASE DieRun \/ StepRefused \/ ReportRun
    BY <2>1, <2>3 DEF DieRun, StepRefused, ReportRun, ForgetRun
  <2>4. CASE AccountsReady \/ CatalogReady \/ SlotsReady \/ PendingReady \/ RentalsReady \/ FinishRun
    <3>1. script # "idle"
      BY <2>4 DEF AccountsReady, CatalogReady, SlotsReady, PendingReady, RentalsReady, FinishRun
    <3> QED BY <2>1, <2>4, <3>1, RunFacts, RowFacts DEF AccountsReady, CatalogReady, SlotsReady, PendingReady,
      RentalsReady, FinishRun, GoOnTo
  <2>5. CASE WalkEnds
    BY <2>1, <2>5, KeyFacts DEF WalkEnds
  <2> QED BY <2>2, <2>3, <2>4, <2>5 DEF ScriptStep
<1>3. seen' \in Known
  <2>1. seen \in Known
    BY DEF SeedInv, SeedTypeOK
  <2>2. CASE ReplayPurchase
    <3>1. Key \in Purchase
      <4>1. script = "replay" /\ nth <= Len(Purchases) /\ nth \in 1..(Len(Purchases) + 1)
        BY <2>2 DEF ReplayPurchase, SeedInv, ScriptHolds
      <4> QED BY <4>1, RunFacts DEF Key
    <3> QED BY <2>2, <3>1 DEF ReplayPurchase, SeedInv, SeedTypeOK
  <2>3. CASE StepWasTaken
    BY <2>3 DEF StepWasTaken, NextStatus, Following, Known
  <2>4. CASE DieRun \/ StepRefused \/ ReportRun
    BY <2>4 DEF DieRun, StepRefused, ReportRun, ForgetRun, Known
  <2>5. CASE \/ StartRun \/ AccountsReady \/ CatalogReady \/ SlotsReady \/ PendingReady \/ AllBought
             \/ WalkEnds \/ MembersSettled \/ RentalsReady \/ FinishRun
    BY <2>1, <2>5 DEF StartRun, AccountsReady, CatalogReady, SlotsReady, PendingReady, AllBought, WalkEnds,
      MembersSettled, RentalsReady, FinishRun, GoOnTo, seedMemory
  <2> QED BY <2>2, <2>3, <2>4, <2>5 DEF ScriptStep
<1> QED BY <1>1, <1>2, <1>3, StepStays DEF SeedInv, SeedTypeOK

LEMMA StepScript == ASSUME SeedInv, ScriptStep PROVE ScriptHolds'
<1>1. UNCHANGED orderCount /\ (StartRun \/ UNCHANGED runAt)
  BY StepStays
<1>2. CASE ReplayPurchase
  <2>1. /\ script = "replay" /\ nth \in 1..Len(Purchases) /\ nth' = nth /\ UNCHANGED runAt
        /\ script' = IF HasOrder(Key) THEN "walk" ELSE "clear"
    <3>1. script = "replay" /\ nth <= Len(Purchases) /\ nth \in 1..(Len(Purchases) + 1)
      BY <1>2 DEF ReplayPurchase, SeedInv, ScriptHolds
    <3> QED BY <1>2, <3>1, RunFacts DEF ReplayPurchase, GoTo
  <2>2. DOMAIN Purchases = 1..Len(Purchases) /\ Key \in Purchase
    BY <2>1, RunFacts DEF Key
  <2>3. orderCount[Key] \in {0, 1}
    BY <2>2 DEF SeedInv, SeedTypeOK
  <2> QED BY <1>1, <2>1, <2>2, <2>3 DEF ScriptHolds, HasOrder, Purchases, Key
<1>3. CASE WalkEnds
  <2>1. script = "walk" /\ script' = "replay" /\ nth' = nth + 1 /\ UNCHANGED runAt
    BY <1>3 DEF WalkEnds, GoTo
  <2>2. nth + 1 \in 1..(Len(Purchases) + 1)
    BY <2>1, KeyFacts
  <2> QED BY <2>1, <2>2 DEF ScriptHolds, Purchases
<1>4. CASE StepWasTaken
  BY <1>1, <1>4 DEF SeedInv, ScriptHolds, StepWasTaken, seedRun, Purchases, Key
<1>5. CASE PendingReady
  <2>1. script' = "replay" /\ nth' = 1 /\ UNCHANGED runAt /\ script = "pending"
    BY <1>5 DEF PendingReady, GoOnTo, GoTo
  <2> QED BY <2>1, RunFacts DEF ScriptHolds, Purchases
<1>6. CASE RentalsReady
  BY <1>6 DEF RentalsReady, GoOnTo, GoTo, ScriptHolds
<1>7. CASE \/ StartRun \/ DieRun \/ AccountsReady \/ CatalogReady \/ SlotsReady \/ AllBought
           \/ StepRefused \/ MembersSettled \/ FinishRun \/ ReportRun
  BY <1>7 DEF StartRun, DieRun, AccountsReady, CatalogReady, SlotsReady, AllBought, StepRefused,
    MembersSettled, FinishRun, ReportRun, GoOnTo, GoTo, ScriptHolds
<1> QED BY <1>2, <1>3, <1>4, <1>5, <1>6, <1>7 DEF ScriptStep

LEMMA StepKeys == ASSUME SeedInv, ScriptStep PROVE KeysHold'
<1>1. (\A r \in Row : RowHolds(r)') /\ UNCHANGED <<legacy, orderCount>>
  BY StepStays DEF SeedInv, KeysHold, RowHolds
<1>2. legacy => script' = "idle"
  <2>1. legacy => script = "idle" /\ ~StartRun
    BY DEF SeedInv, KeysHold, StartRun
  <2>2. script = "idle" /\ ScriptStep => StartRun
    BY DEF ScriptStep, DieRun, AccountsReady, CatalogReady, SlotsReady, PendingReady, ReplayPurchase,
      AllBought, StepWasTaken, StepRefused, WalkEnds, MembersSettled, RentalsReady, FinishRun, ReportRun
  <2> QED BY <2>1, <2>2
<1> QED BY <1>1, <1>2 DEF SeedInv, KeysHold

LEMMA StepRows == ASSUME SeedInv, ScriptStep PROVE RowsDone'
<1>1. UNCHANGED content /\ (StartRun \/ UNCHANGED <<runAt, undisturbed>>)
  BY StepStays
<1>2. RowsDone
  BY DEF SeedInv
<1>3. CASE StartRun \/ DieRun \/ StepRefused \/ ReportRun
  <2>1. script' \in {"accounts", "idle"}
    BY <1>3 DEF StartRun, DieRun, StepRefused, ReportRun, GoTo
  <2> QED BY <2>1 DEF RowsDone, Buying, Bought
<1>4. CASE ReplayPurchase \/ AllBought \/ WalkEnds \/ MembersSettled
  <2>1. Midway(script) /\ Midway(script') /\ ~StartRun
    BY <1>4 DEF ReplayPurchase, AllBought, WalkEnds, MembersSettled, StartRun, GoTo, Midway, Buying, Bought
  <2> QED BY <1>1, <1>2, <2>1, RowsStay
<1>5. CASE StepWasTaken
  BY <1>1, <1>2, <1>5, RowsStay DEF StepWasTaken, seedRun
<1>6. CASE AccountsReady
  <2>1. script' = "catalog" /\ todo' = Catalog \ Slots
    BY <1>6 DEF AccountsReady, GoOnTo, GoTo
  <2> QED BY <2>1 DEF RowsDone, Kept, Buying, Bought
<1>7. CASE CatalogReady
  <2>1. /\ script = "catalog" /\ todo = {} /\ script' = "slots" /\ nth' = 1 /\ todo' = SlotsOf(1)
        /\ UNCHANGED <<runAt, undisturbed, content>>
    BY <1>1, <1>7 DEF CatalogReady, GoOnTo, GoTo
  <2>2. \A i \in DOMAIN Courses : ~(i < 1)
    BY SeedAssumption
  <2>3. undisturbed => Kept(Catalog \ Slots)
    BY <1>2, <2>1 DEF RowsDone, Kept
  <2> QED BY <2>1, <2>2, <2>3 DEF RowsDone, Kept, SlotsOf, Buying, Bought
<1>8. CASE SlotsReady
  <2>1. /\ script = "slots" /\ nth > Len(Courses) /\ script' = "pending" /\ todo' = Pending[runAt]
        /\ UNCHANGED <<runAt, undisturbed, content>>
    BY <1>1, <1>8 DEF SlotsReady, GoOnTo, GoTo
  <2>2. \A i \in DOMAIN Courses : i < nth
    BY <2>1, SeedAssumption DEF SeedInv, SeedTypeOK
  <2>3. undisturbed => Kept(Catalog \ Slots) /\ \A i \in DOMAIN Courses : SlotsKept(i)
    BY <1>2, <2>1, <2>2 DEF RowsDone
  <2> QED BY <2>1, <2>3 DEF RowsDone, Kept, SlotsKept, SlotsOf, Buying, Bought
<1>9. CASE PendingReady
  <2>1. script = "pending" /\ todo = {} /\ script' = "replay" /\ UNCHANGED <<runAt, undisturbed, content>>
    BY <1>1, <1>9 DEF PendingReady, GoOnTo, GoTo
  <2>2. undisturbed => /\ Kept(Catalog \ Slots) /\ (\A i \in DOMAIN Courses : SlotsKept(i))
                       /\ Kept(Pending[runAt])
    BY <1>2, <2>1 DEF RowsDone, Kept
  <2> QED BY <2>1, <2>2 DEF RowsDone, Kept, SlotsKept, SlotsOf, Buying, Bought
<1>10. CASE RentalsReady
  <2>1. /\ script = "rental" /\ script' = "inquiry" /\ todo' = Inquiry[runAt]
        /\ UNCHANGED <<runAt, undisturbed, content>>
    BY <1>1, <1>10 DEF RentalsReady, GoOnTo, GoTo
  <2>2. undisturbed => /\ Kept(Catalog \ Slots) /\ (\A i \in DOMAIN Courses : SlotsKept(i))
                       /\ Kept(Pending[runAt])
    BY <1>2, <2>1 DEF RowsDone, Bought
  <2> QED BY <2>1, <2>2 DEF RowsDone, Kept, SlotsKept, SlotsOf, Buying, Bought
<1>11. CASE FinishRun
  <2>1. script = "inquiry" /\ todo = {} /\ script' = "done" /\ UNCHANGED <<runAt, undisturbed, content>>
    BY <1>1, <1>11 DEF FinishRun, GoOnTo, GoTo
  <2>2. undisturbed => /\ Kept(Catalog \ Slots) /\ (\A i \in DOMAIN Courses : SlotsKept(i))
                       /\ Kept(Pending[runAt]) /\ Kept(Inquiry[runAt])
    BY <1>2, <2>1 DEF RowsDone, Kept, Bought
  <2> QED BY <2>1, <2>2 DEF RowsDone, Kept, SlotsKept, SlotsOf, Buying, Bought
<1> QED BY <1>3, <1>4, <1>5, <1>6, <1>7, <1>8, <1>9, <1>10, <1>11 DEF ScriptStep

LEMMA StepOrders == ASSUME SeedInv, ScriptStep PROVE OrdersDone'
<1>1. UNCHANGED <<orderState, orderCount>> /\ (StartRun \/ UNCHANGED <<runAt, undisturbed>>)
  BY StepStays
<1>2. OrdersDone
  BY DEF SeedInv
<1>3. CASE \/ StartRun \/ DieRun \/ AccountsReady \/ CatalogReady \/ SlotsReady \/ StepRefused \/ ReportRun
  <2>1. script' \notin Buying \cup Bought
    BY <1>3 DEF StartRun, DieRun, AccountsReady, CatalogReady, SlotsReady, StepRefused, ReportRun, GoTo, GoOnTo,
      Buying, Bought
  <2> QED BY <2>1 DEF OrdersDone, Buying, Bought
<1>4. CASE PendingReady
  <2>1. script' = "replay" /\ nth' = 1 /\ script = "pending" /\ UNCHANGED runAt
    BY <1>4 DEF PendingReady, GoOnTo, GoTo
  <2>2. \A i \in DOMAIN Purchases : ~(i < 1)
    BY <2>1, RunFacts
  <2> QED BY <2>1, <2>2 DEF OrdersDone, Purchases, Bought
<1>5. CASE ReplayPurchase
  <2>1. /\ script = "replay" /\ script' \in {"walk", "clear"} /\ nth' = nth /\ seen' = orderState[Key]
        /\ UNCHANGED <<walked, runAt, undisturbed>>
    BY <1>5 DEF ReplayPurchase, GoTo
  <2> QED BY <1>1, <1>2, <2>1 DEF OrdersDone, Finished, Following, Enrols, Purchases, Key, Buying, Bought
<1>6. CASE AllBought
  <2>1. /\ script = "replay" /\ script' = "settle" /\ nth > Len(Purchases)
        /\ UNCHANGED <<walked, runAt, undisturbed>>
    BY <1>6 DEF AllBought, GoTo, seedMemory
  <2>2. \A i \in DOMAIN Purchases : i < nth
    BY <2>1, RunFacts DEF SeedInv, SeedTypeOK
  <2>3. undisturbed => \A i \in DOMAIN Purchases : Finished(Purchases[i].of)
    BY <1>2, <2>1, <2>2 DEF OrdersDone, Buying
  <2> QED BY <1>1, <2>1, <2>3 DEF OrdersDone, Finished, Following, Enrols, Purchases, Buying, Bought
<1>7. CASE StepWasTaken
  <2>1. /\ script = "walk" /\ NextStatus # "none" /\ orderState[Key] = NextStatus
        /\ UNCHANGED <<script, undisturbed>>
    BY <1>7 DEF StepWasTaken, seedRun
  <2>2. undisturbed => seen = orderState[Key]
    BY <1>2, <2>1 DEF OrdersDone
  <2>3. ~undisturbed
    BY <2>1, <2>2 DEF NextStatus, Following
  <2> QED BY <2>1, <2>3 DEF OrdersDone
<1>8. CASE WalkEnds
  <2>1. /\ script = "walk" /\ NextStatus = "none" /\ script' = "replay" /\ nth' = nth + 1
        /\ walked' = IF Enrols(Key, seen) THEN walked \cup {Key} ELSE walked
        /\ UNCHANGED <<runAt, undisturbed>>
    BY <1>8 DEF WalkEnds, GoTo
  <2> SUFFICES ASSUME undisturbed, NEW i \in DOMAIN Purchases, i < nth + 1
               PROVE  Finished(Purchases[i].of)'
    BY <2>1 DEF OrdersDone, Purchases, Bought
  <2>2. seen = orderState[Key] /\ orderCount[Key] = 1
    BY <1>2, <2>1 DEF OrdersDone, SeedInv, ScriptHolds
  <2>3. i < nth \/ i = nth
    BY <2>1, RunFacts, KeyFacts
  <2>4. CASE i < nth
    <3>1. Finished(Purchases[i].of)
      BY <1>2, <2>1, <2>4 DEF OrdersDone, Buying
    <3> QED BY <1>1, <2>1, <3>1 DEF Finished, Following, Enrols, Purchases
  <2>5. CASE i = nth
    <3>1. Purchases[i].of = Key /\ Following(Key, orderState[Key])[1] = "none"
      BY <2>1, <2>2, <2>5 DEF Key, NextStatus
    <3>2. Purchases' = Purchases
      BY <2>1 DEF Purchases
    <3> HIDE DEF Key
    <3> QED BY <1>1, <2>1, <2>2, <3>1, <3>2 DEF Finished, Following, Enrols
  <2> QED BY <2>3, <2>4, <2>5
<1>9. CASE MembersSettled \/ RentalsReady \/ FinishRun
  <2>1. script \in Bought /\ script' \in Bought /\ walked' = walked /\ UNCHANGED <<runAt, undisturbed>>
    BY <1>9 DEF MembersSettled, RentalsReady, FinishRun, GoTo, GoOnTo, seedMemory, Bought
  <2> QED BY <1>1, <1>2, <2>1, OrdersStay
<1> QED BY <1>3, <1>4, <1>5, <1>6, <1>7, <1>8, <1>9 DEF ScriptStep

LEMMA StepRest == ASSUME SeedInv, ScriptStep PROVE RestDone'
<1>1. UNCHANGED <<balances, marks, rentals, orderState>> /\ (StartRun \/ UNCHANGED <<runAt, undisturbed>>)
  BY StepStays
<1>2. RestDone
  BY DEF SeedInv
<1>3. CASE \/ StartRun \/ DieRun \/ AccountsReady \/ CatalogReady \/ SlotsReady \/ PendingReady
           \/ ReplayPurchase \/ StepRefused \/ WalkEnds \/ ReportRun
  <2>1. script' \notin Bought
    BY <1>3 DEF StartRun, DieRun, AccountsReady, CatalogReady, SlotsReady, PendingReady, ReplayPurchase,
      StepRefused, WalkEnds, ReportRun, GoTo, GoOnTo, Bought
  <2> QED BY <2>1 DEF RestDone, Bought, Settled, Marked
<1>4. CASE StepWasTaken
  BY <1>1, <1>2, <1>4, RestStays DEF StepWasTaken, seedRun
<1>5. CASE AllBought
  <2>1. script' = "settle" /\ nth' = 1
    BY <1>5 DEF AllBought, GoTo
  <2>2. \A i \in DOMAIN Members : ~(i < 1)
    BY MemberFacts
  <2> QED BY <2>1, <2>2 DEF RestDone, Settled, Marked, Bought
<1>6. CASE MembersSettled
  <2>1. /\ script = "settle" /\ nth > Len(Members) /\ script' = "mark" /\ UNCHANGED <<runAt, undisturbed>>
    BY <1>6 DEF MembersSettled, GoTo
  <2>2. \A i \in DOMAIN Members : i < nth
    BY <2>1, MemberFacts DEF SeedInv, SeedTypeOK
  <2> QED BY <1>1, <1>2, <2>1, <2>2 DEF RestDone, AtTarget, Settled, Marked, Bought
<1>7. CASE RentalsReady
  <2>1. script = "rental" /\ nth >= runAt /\ script' = "inquiry" /\ UNCHANGED <<runAt, undisturbed>>
    BY <1>7 DEF RentalsReady, GoOnTo, GoTo
  <2>2. undisturbed => \A d \in Dates : Booked(d)
    <3>1. \A d \in Dates : d < runAt => d < nth
      BY <2>1, RunFacts, SeedAssumption DEF SeedInv, SeedTypeOK, Dates
    <3> QED BY <1>2, <2>1, <3>1 DEF RestDone, Booked
  <2>3. undisturbed => (\A i \in DOMAIN Members : AtTarget(i)) /\ \A d \in Dates : Marks(d)
    BY <1>2, <2>1 DEF RestDone, Settled, Marked, Bought
  <2> QED BY <1>1, <2>1, <2>2, <2>3 DEF RestDone, AtTarget, Marks, Booked, Enrols, Purchases
<1>8. CASE FinishRun
  <2>1. script = "inquiry" /\ script' = "done" /\ UNCHANGED <<runAt, undisturbed>>
    BY <1>8 DEF FinishRun, GoOnTo, GoTo
  <2>2. undisturbed => /\ (\A i \in DOMAIN Members : AtTarget(i))
                       /\ \A d \in Dates : Marks(d) /\ Booked(d)
    BY <1>2, <2>1 DEF RestDone, Settled, Marked, Bought
  <2> QED BY <1>1, <2>1, <2>2 DEF RestDone, AtTarget, Marks, Booked, Enrols, Purchases
<1> QED BY <1>3, <1>4, <1>5, <1>6, <1>7, <1>8 DEF ScriptStep

LEMMA ScriptKeeps == ASSUME SeedInv, ScriptStep PROVE SeedInv'
<1>1. AccountsOpen' /\ SlotsHold'
  BY StepStays DEF SeedInv, AccountsOpen, SlotsHold, SlotHolds
<1>2. OrdersHold'
  <2>1. runAt <= runAt' /\ runAt \in Int /\ runAt' \in Int /\ date \in Int
    <3>1. runAt \in 0..date /\ date \in Nat
      BY SeedAssumption DEF SeedInv, SeedTypeOK, Dates
    <3>2. CASE StartRun
      BY <3>1, <3>2 DEF StartRun
    <3>3. CASE UNCHANGED runAt
      BY <3>1, <3>3
    <3> QED BY <3>2, <3>3, StepStays
  <2> SUFFICES ASSUME NEW p \in Purchase PROVE OrderHolds(p)'
    BY DEF OrdersHold
  <2>2. OrderHolds(p) /\ paidAt[p] \in Int
    BY DEF SeedInv, SeedTypeOK, OrdersHold
  <2> QED BY <2>1, <2>2, StepStays DEF OrderHolds
<1> QED BY <1>1, <1>2, StepTypes, StepScript, StepKeys, StepRows, StepOrders, StepRest DEF SeedInv

\* The next day: what was done stays done, and what is past stays past.
LEMMA NightKeeps == ASSUME SeedInv, NightFalls PROVE SeedInv'
<1>1. /\ UNCHANGED <<runAt, script, nth, runs, undisturbed, todo, seen, walked, touches, balances, rowsSum,
                     opened, carts, orderState, orderLines, orderCount, paidAt, steppedAt, marks, rentals,
                     content, wrote, legacy>>
      /\ date' = date + 1 /\ date' \in Dates /\ date \in Nat \ {0}
  BY SeedAssumption DEF SeedInv, SeedTypeOK, Dates, NightFalls, seedRun, seedMemory, seedPoints, seedOrders,
    seedRows
<1>2. SeedTypeOK'
  BY <1>1 DEF SeedInv, SeedTypeOK
<1>3. AccountsOpen' /\ ScriptHolds' /\ KeysHold'
  BY <1>1 DEF SeedInv, AccountsOpen, ScriptHolds, KeysHold, RowHolds, Purchases, Key
<1>4. OrdersHold'
  BY <1>1 DEF SeedInv, SeedTypeOK, OrdersHold, OrderHolds
<1>5. SlotsHold'
  BY <1>1 DEF SeedInv, SlotsHold, SlotHolds, Dates
<1>6. RowsDone' /\ OrdersDone' /\ RestDone'
  BY <1>1, RowsStay, OrdersStay, RestStays DEF SeedInv
<1> QED BY <1>2, <1>3, <1>4, <1>5, <1>6 DEF SeedInv

\* An account is born.
LEMMA AccountKeeps == ASSUME SeedInv, NEW a \in Holder, upsert_account(a) PROVE SeedInv'
<1>1. /\ script = "accounts" /\ ~(opened[a] >= 0) /\ OpeningPoints[a] \in Nat
      /\ UNCHANGED <<date, runAt, script, nth, undisturbed, todo, seen, walked, carts, orderState, orderLines,
                     orderCount, paidAt, steppedAt, marks, rentals, content, wrote, legacy>>
      /\ opened' = [opened EXCEPT ![a] = IF OpeningPoints[a] > 0 THEN 1 ELSE 0]
      /\ balances' = [balances EXCEPT ![a] = @ + OpeningPoints[a]]
      /\ rowsSum' = [rowsSum EXCEPT ![a] = @ + OpeningPoints[a]]
  BY SeedAssumption DEF upsert_account, Born, Grant, seedRun, seedMemory, seedOrders, seedRows
<1>2. SeedTypeOK'
  <2>1. balances' \in [Holder -> Nat] /\ rowsSum' = balances'
    BY <1>1 DEF SeedInv, SeedTypeOK
  <2>2. opened' \in [Holder -> {-1, 0, 1}]
    BY <1>1 DEF SeedInv, SeedTypeOK
  <2> QED BY <1>1, <2>1, <2>2 DEF SeedInv, SeedTypeOK
<1>3. AccountsOpen'
  BY <1>1 DEF SeedInv, SeedTypeOK, AccountsOpen
<1>4. OrdersHold' /\ ScriptHolds' /\ SlotsHold' /\ KeysHold'
  BY <1>1 DEF SeedInv, OrdersHold, OrderHolds, ScriptHolds, SlotsHold, SlotHolds, KeysHold, RowHolds,
    Purchases, Key
<1>5. RowsDone' /\ OrdersDone' /\ RestDone'
  BY <1>1, RowsStay, OrdersStay, RestStays DEF SeedInv, Bought
<1> QED BY <1>2, <1>3, <1>4, <1>5 DEF SeedInv

\* What a write of rows by the seed leaves alone.
LEMMA RowsWritten ==
  ASSUME SeedInv, content' \in [Row -> Writing], todo' \in SUBSET Row, nth' \in Nat, nth' # 0 \/ nth' = nth,
         script \in {"catalog", "slots", "pending", "inquiry"},
         UNCHANGED <<date, runAt, script, undisturbed, seen, walked, balances, rowsSum, opened, carts,
                     orderState, orderLines, orderCount, paidAt, steppedAt, marks, rentals, wrote, legacy>>,
         nth' = nth \/ script = "slots"
  PROVE  /\ SeedTypeOK' /\ AccountsOpen' /\ OrdersHold' /\ ScriptHolds' /\ SlotsHold'
         /\ OrdersDone' /\ RestDone'
<1>1. SeedTypeOK'
  BY DEF SeedInv, SeedTypeOK
<1>2. AccountsOpen' /\ OrdersHold' /\ SlotsHold'
  BY DEF SeedInv, AccountsOpen, OrdersHold, OrderHolds, SlotsHold, SlotHolds
<1>3. ScriptHolds'
  BY DEF SeedInv, ScriptHolds
<1>4. OrdersDone'
  <2>1. CASE script = "slots"
    BY <2>1, OrdersStay DEF SeedInv, Buying, Bought
  <2>2. CASE nth' = nth
    BY <2>2, OrdersStay DEF SeedInv
  <2> QED BY <2>1, <2>2
<1>5. RestDone'
  <2>1. CASE script = "slots"
    BY <2>1, RestStays DEF SeedInv, Bought
  <2>2. CASE nth' = nth
    BY <2>2, RestStays DEF SeedInv
  <2> QED BY <2>1, <2>2
<1> QED BY <1>1, <1>2, <1>3, <1>4, <1>5

\* A row of the stage is there afterwards, and no other is gone.
LEMMA RowKeeps == ASSUME SeedInv, insert_if_absent PROVE SeedInv'
<1>1. PICK r \in todo : /\ todo' = todo \ {r}
                        /\ content' = [content EXCEPT ![r] = IF @ = "none" THEN "seed" ELSE @]
  BY DEF insert_if_absent
<1>2. /\ script \in {"catalog", "slots", "pending", "inquiry"}
      /\ UNCHANGED <<date, runAt, script, nth, undisturbed, seen, walked, balances, rowsSum, opened, carts,
                     orderState, orderLines, orderCount, paidAt, steppedAt, marks, rentals, wrote, legacy>>
  BY DEF insert_if_absent, seedRun, seedPoints, seedOrders
<1>3. r \in Row /\ todo \in SUBSET Row /\ content \in [Row -> Writing] /\ nth \in Nat
  BY <1>1 DEF SeedInv, SeedTypeOK
<1>4. /\ content' \in [Row -> Writing] /\ content'[r] # "none"
      /\ \A s \in Row : s # r => content'[s] = content[s]
      /\ content'[r] = content[r] \/ (content[r] = "none" /\ content'[r] = "seed")
  BY <1>1, <1>3 DEF Writing
<1>5. SeedTypeOK' /\ AccountsOpen' /\ OrdersHold' /\ ScriptHolds' /\ SlotsHold' /\ OrdersDone' /\ RestDone'
  BY <1>1, <1>2, <1>3, <1>4, RowsWritten
<1>6. KeysHold'
  BY <1>2, <1>4 DEF SeedInv, SeedTypeOK, KeysHold, RowHolds
<1>7. RowsDone'
  <2>1. \A S \in SUBSET Row : Kept(S) => Kept(S)'
    BY <1>3, <1>4 DEF Kept
  <2>2. \A S \in SUBSET Row : Kept(S \ todo) => Kept(S \ todo)'
    BY <1>1, <1>3, <1>4 DEF Kept
  <2>3. \A i \in DOMAIN Courses : SlotsKept(i) => SlotsKept(i)'
    <3> SUFFICES ASSUME NEW i \in DOMAIN Courses, SlotsKept(i) PROVE SlotsKept(i)'
      OBVIOUS
    <3>1. Kept(SlotsOf(i))'
      BY <2>1, RowFacts DEF SlotsKept, SlotsOf
    <3>2. \A s \in Courses[i] : content'[s] # "bare"
      BY <1>3, <1>4, RowFacts DEF SlotsKept
    <3> QED BY <3>1, <3>2 DEF SlotsKept
  <2>4. /\ Catalog \ Slots \in SUBSET Row /\ SlotsOf(nth) \in SUBSET Row
        /\ Pending[runAt] \in SUBSET Row /\ Inquiry[runAt] \in SUBSET Row
    BY <1>2, RunFacts, RowFacts
  <2> DEFINE sold == Catalog \ Slots
             slots == SlotsOf(nth)
             unpaid == Pending[runAt]
             asked == Inquiry[runAt]
  <2>5. UNCHANGED <<sold, slots, unpaid, asked>>
    BY <1>2 DEF SlotsOf
  <2>6. /\ Kept(sold \ todo) => Kept(sold \ todo)'
        /\ Kept(slots \ todo) => Kept(slots \ todo)'
        /\ Kept(unpaid \ todo) => Kept(unpaid \ todo)'
        /\ Kept(asked \ todo) => Kept(asked \ todo)'
    BY <2>2, <2>4, <2>5 DEF Kept
  <2>7. /\ Kept(sold) => Kept(sold)'
        /\ Kept(unpaid) => Kept(unpaid)'
        /\ Kept(asked) => Kept(asked)'
    BY <2>1, <2>4, <2>5 DEF Kept
  <2>8. RowsDone
    BY DEF SeedInv
  <2> QED BY <1>2, <2>3, <2>6, <2>7, <2>8 DEF RowsDone
<1> QED BY <1>5, <1>6, <1>7 DEF SeedInv

\* The venues of a course's slots are filled in, and nothing else of them.
LEMMA VenuesKeep == ASSUME SeedInv, BackfillVenues PROVE SeedInv'
<1>1. /\ script = "slots" /\ nth \in DOMAIN Courses /\ todo = {} /\ nth' = nth + 1 /\ nth \in Nat
      /\ todo' = SlotsOf(nth + 1) /\ todo' \in SUBSET Row
      /\ UNCHANGED <<date, runAt, script, undisturbed, seen, walked, balances, rowsSum, opened, carts,
                     orderState, orderLines, orderCount, paidAt, steppedAt, marks, rentals, wrote, legacy>>
  <2>1. nth <= Len(Courses) /\ nth \in Nat /\ nth # 0
    BY DEF SeedInv, SeedTypeOK, ScriptHolds, BackfillVenues
  <2> QED BY <2>1, RowFacts, SeedAssumption DEF BackfillVenues, GoOnTo, GoTo, seedPoints, seedOrders
<1>2. /\ content' = [r \in Row |-> IF r \in Courses[nth] /\ content[r] = "bare" THEN "filled" ELSE content[r]]
      /\ content \in [Row -> Writing]
  BY DEF BackfillVenues, SeedInv, SeedTypeOK
<1>3. /\ content' \in [Row -> Writing]
      /\ \A r \in Row : /\ content'[r] = content[r] \/ (content[r] = "bare" /\ content'[r] = "filled")
                        /\ r \in Courses[nth] => content'[r] # "bare"
  BY <1>2 DEF Writing
<1>4. SeedTypeOK' /\ AccountsOpen' /\ OrdersHold' /\ ScriptHolds' /\ SlotsHold' /\ OrdersDone' /\ RestDone'
  BY <1>1, <1>3, RowsWritten
<1>5. KeysHold'
  BY <1>1, <1>3 DEF SeedInv, SeedTypeOK, KeysHold, RowHolds
<1>6. RowsDone'
  <2> SUFFICES ASSUME undisturbed
               PROVE  /\ Kept(Catalog \ Slots)' /\ Kept(SlotsOf(nth) \ todo)'
                      /\ \A i \in DOMAIN Courses : i < nth + 1 => SlotsKept(i)'
    BY <1>1 DEF RowsDone, Kept, SlotsOf, Buying, Bought
  <2>1. \A S \in SUBSET Row : Kept(S) => Kept(S)'
    BY <1>3 DEF Kept
  <2>2. Kept(Catalog \ Slots)'
    BY <1>1, <2>1, RowFacts DEF SeedInv, RowsDone, Kept
  <2>3. Kept(SlotsOf(nth) \ todo)'
    BY <1>1 DEF Kept, SlotsOf
  <2>4. ASSUME NEW i \in DOMAIN Courses, i < nth + 1 PROVE SlotsKept(i)'
    <3>1. i < nth \/ i = nth
      BY <1>1, <2>4, SeedAssumption
    <3>2. SlotsOf(i) \in SUBSET Row /\ Courses[i] \in SUBSET Row
      BY RowFacts
    <3>3. Kept(SlotsOf(i))
      <4>1. CASE i < nth
        BY <1>1, <4>1 DEF SeedInv, RowsDone, SlotsKept
      <4>2. CASE i = nth
        BY <1>1, <4>2 DEF SeedInv, RowsDone, Kept
      <4> QED BY <3>1, <4>1, <4>2
    <3>4. Kept(SlotsOf(i))'
      BY <1>3, <3>2, <3>3 DEF Kept, SlotsOf
    <3>5. \A r \in Courses[i] : content'[r] # "bare"
      <4>1. CASE i < nth
        <5>1. \A r \in Courses[i] : content[r] # "bare"
          BY <1>1, <4>1 DEF SeedInv, RowsDone, SlotsKept
        <5> QED BY <1>3, <3>2, <5>1
      <4>2. CASE i = nth
        BY <1>3, <3>2, <4>2
      <4> QED BY <3>1, <4>1, <4>2
    <3> QED BY <3>4, <3>5 DEF SlotsKept
  <2> QED BY <2>2, <2>3, <2>4
<1> QED BY <1>4, <1>5, <1>6 DEF SeedInv

\* The cart of the purchase the script is at is emptied and filled.
LEMMA CartKeeps ==
  ASSUME SeedInv, ClearCart \/ \E x \in Item : add_item(x)
  PROVE  SeedInv'
<1>1. /\ UNCHANGED <<date, runAt, nth, undisturbed, todo, seen, walked, balances, rowsSum, opened, orderState,
                     orderLines, orderCount, paidAt, steppedAt, marks, rentals, content, wrote, legacy>>
      /\ script \in {"clear", "add"} /\ script' = "add"
  BY DEF ClearCart, add_item, GoTo, seedRun, seedMemory, seedPoints, seedOrders, seedRows
<1>2. /\ nth \in DOMAIN Purchases /\ orderCount[Key] = 0 /\ carts \in [Holder -> SUBSET Item]
      /\ Buys[Key].buyer \in Holder
  BY <1>1, KeyFacts DEF SeedInv, SeedTypeOK, ScriptHolds
<1>3. /\ carts' \in [Holder -> SUBSET Item]
      /\ carts'[Buys[Key].buyer] \subseteq Buys[Key].lines
  <2> DEFINE b == Buys[Key].buyer
             lines == Buys[Key].lines
  <2>1. b \in Holder
    BY <1>2
  <2>2. CASE ClearCart
    <3>1. carts' = [carts EXCEPT ![b] = {}]
      BY <2>2 DEF ClearCart
    <3> HIDE DEF b, lines
    <3>2. carts' \in [Holder -> SUBSET Item] /\ carts'[b] \subseteq lines
      BY <1>2, <2>1, <3>1
    <3> QED BY <3>2 DEF b, lines
  <2>3. CASE \E x \in Item : add_item(x)
    <3>1. PICK x \in Item : add_item(x)
      BY <2>3
    <3>2. carts' = [carts EXCEPT ![b] = @ \cup {x}] /\ x \in lines /\ carts[b] \subseteq lines
      BY <3>1 DEF SeedInv, ScriptHolds, add_item
    <3> HIDE DEF b, lines
    <3>3. carts' \in [Holder -> SUBSET Item] /\ carts'[b] \subseteq lines
      BY <1>2, <2>1, <3>2
    <3> QED BY <3>3 DEF b, lines
  <2> QED BY <1>1, <2>2, <2>3
<1>4. SeedTypeOK'
  BY <1>1, <1>3 DEF SeedInv, SeedTypeOK, Stage, Buying
<1>5. ScriptHolds'
  BY <1>1, <1>2, <1>3 DEF ScriptHolds, Purchases, Key
<1>6. AccountsOpen' /\ OrdersHold' /\ SlotsHold' /\ KeysHold'
  BY <1>1 DEF SeedInv, AccountsOpen, OrdersHold, OrderHolds, SlotsHold, SlotHolds, KeysHold, RowHolds
<1>7. RowsDone'
  BY <1>1, RowsStay DEF SeedInv, Midway, Buying
<1>8. OrdersDone'
  BY <1>1 DEF SeedInv, OrdersDone, Finished, Following, Enrols, Purchases, Key, Buying, Bought
<1>9. RestDone'
  BY <1>1, RestStays DEF SeedInv, Bought
<1> QED BY <1>4, <1>5, <1>6, <1>7, <1>8, <1>9 DEF SeedInv

LEMMA BuyKeeps == ASSUME SeedInv, BuyCart PROVE SeedInv'
<1> DEFINE k == Key
           b == Buys[k].buyer
           e == Buys[k].earns
           ts == Purchases[nth].ts
<1>1. /\ script = "add" /\ script' = "walk" /\ nth' = nth /\ seen' = "paid"
      /\ nth \in DOMAIN Purchases /\ k \in Purchase /\ orderCount[k] = 0
      /\ UNCHANGED <<date, runAt, undisturbed, todo, walked, opened, marks, rentals, content, wrote, legacy>>
      /\ b \in Holder /\ e \in Nat /\ ts \in Int /\ ts <= date /\ ts <= runAt
  <2>1. script = "add"
    BY DEF BuyCart
  <2>2. runAt <= date /\ runAt \in Int /\ date \in Int
    BY <2>1, RunFacts
  <2> QED BY <2>1, <2>2, KeyFacts DEF SeedInv, ScriptHolds, BuyCart, GoTo, seedRows
<1>2. /\ orderState' = [orderState EXCEPT ![k] = "paid"]
      /\ orderLines' = [orderLines EXCEPT ![k] = Buys[k].lines]
      /\ orderCount' = [orderCount EXCEPT ![k] = @ + 1]
      /\ paidAt' = [paidAt EXCEPT ![k] = ts] /\ steppedAt' = [steppedAt EXCEPT ![k] = ts]
      /\ carts' = [carts EXCEPT ![b] = {}]
      /\ balances' = [balances EXCEPT ![b] = @ + e]
      /\ rowsSum' = [rowsSum EXCEPT ![b] = @ + e]
  <2>1. carts[b] = Buys[k].lines
    BY DEF SeedInv, ScriptHolds, BuyCart
  <2> QED BY <2>1 DEF BuyCart, Grant
<1>3. Buys[k].lines \in SUBSET Item /\ Purchases' = Purchases /\ Key' = k
  BY <1>1, KeyFacts DEF Purchases, Key
<1> HIDE DEF k, b, e, ts
<1>4. SeedTypeOK'
  <2>1. balances' \in [Holder -> Nat] /\ rowsSum' = balances'
    BY <1>1, <1>2 DEF SeedInv, SeedTypeOK
  <2>2. carts' \in [Holder -> SUBSET Item]
    BY <1>2 DEF SeedInv, SeedTypeOK
  <2>3. orderState' \in [Purchase -> Known] /\ seen' \in Known
    BY <1>1, <1>2 DEF SeedInv, SeedTypeOK, Known
  <2>4. orderLines' \in [Purchase -> SUBSET Item]
    BY <1>2, <1>3 DEF SeedInv, SeedTypeOK
  <2>5. orderCount' \in [Purchase -> {0, 1}]
    BY <1>1, <1>2 DEF SeedInv, SeedTypeOK
  <2>6. paidAt' \in [Purchase -> Int] /\ steppedAt' \in [Purchase -> Int]
    BY <1>1, <1>2 DEF SeedInv, SeedTypeOK
  <2> QED BY <1>1, <2>1, <2>2, <2>3, <2>4, <2>5, <2>6 DEF SeedInv, SeedTypeOK, Stage, Buying
<1>5. AccountsOpen' /\ SlotsHold' /\ KeysHold'
  <2>1. ~legacy
    BY <1>1 DEF SeedInv, KeysHold
  <2> QED BY <1>1, <2>1 DEF SeedInv, AccountsOpen, SlotsHold, SlotHolds, KeysHold, RowHolds
<1>6. OrdersHold'
  <2> SUFFICES ASSUME NEW p \in Purchase PROVE OrderHolds(p)'
    BY DEF OrdersHold
  <2>1. CASE p = k
    <3>1. orderState'[p] = "paid" /\ orderCount'[p] = 1 /\ orderLines'[p] = Buys[p].lines
          /\ paidAt'[p] = ts /\ steppedAt'[p] = ts
      BY <1>1, <1>2, <2>1 DEF SeedInv, SeedTypeOK
    <3> QED BY <1>1, <3>1 DEF OrderHolds
  <2>2. CASE p # k
    BY <1>1, <1>2, <2>2 DEF SeedInv, OrdersHold, OrderHolds, SeedTypeOK
  <2> QED BY <2>1, <2>2
<1>7. ScriptHolds'
  BY <1>1, <1>2, <1>3 DEF SeedInv, SeedTypeOK, ScriptHolds
<1>8. RowsDone' /\ RestDone'
  BY <1>1, RowsStay, RestStays DEF SeedInv, Midway, Buying, Bought
<1>9. OrdersDone'
  <2> SUFFICES ASSUME undisturbed
               PROVE  /\ \A i \in DOMAIN Purchases : i < nth => Finished(Purchases[i].of)'
                      /\ seen' = orderState'[k]
    BY <1>1, <1>3 DEF OrdersDone, Finished, Buying, Bought
  <2>1. seen' = orderState'[k]
    BY <1>1, <1>2 DEF SeedInv, SeedTypeOK
  <2>2. ASSUME NEW i \in DOMAIN Purchases, i < nth PROVE Finished(Purchases[i].of)'
    <3>1. PICK p \in Purchase : p = Purchases[i].of
      BY <1>1, RunFacts
    <3>2. Finished(p)
      BY <1>1, <2>2, <3>1 DEF SeedInv, OrdersDone, Buying
    <3>3. p # k
      BY <1>1, <3>2 DEF Finished
    <3>4. orderCount'[p] = orderCount[p] /\ orderState'[p] = orderState[p]
      BY <1>2, <3>3 DEF SeedInv, SeedTypeOK
    <3>5. Finished(p)'
      BY <1>1, <3>2, <3>4 DEF Finished, Following, Enrols
    <3>6. p = Purchases'[i].of
      BY <1>3, <3>1
    <3> QED BY <3>5, <3>6
  <2> QED BY <2>1, <2>2
<1> QED BY <1>4, <1>5, <1>6, <1>7, <1>8, <1>9 DEF SeedInv

\* A step of an order: the balance stays above zero, the date between payment and clock.
LEMMA MoveKeeps ==
  ASSUME SeedInv, NEW p \in Purchase, NEW to, NEW day \in Int, Move(p, to, day), day <= date,
         paidAt[p] <= day, orderCount' = orderCount, UNCHANGED <<orderLines, paidAt, date, runAt>>
  PROVE  /\ balances' \in [Holder -> Nat] /\ rowsSum' = balances'
         /\ orderState' = [orderState EXCEPT ![p] = to] /\ orderState' \in [Purchase -> Known]
         /\ steppedAt' \in [Purchase -> Int] /\ OrdersHold'
         /\ orderCount[p] = 1
<1> DEFINE b == Buys[p].buyer
           back == IF compensation_required(orderState[p], to) THEN Buys[p].earns ELSE 0
<1>1. b \in Holder /\ back \in Nat
  BY PurchaseFacts
<1>2. /\ balances[b] >= back /\ Grant(b, -back)
      /\ orderState' = [orderState EXCEPT ![p] = to] /\ steppedAt' = [steppedAt EXCEPT ![p] = day]
      /\ can_transition_to(orderState[p], to)
  BY DEF Move
<1> HIDE DEF b, back
<1>3. balances' \in [Holder -> Nat] /\ rowsSum' = balances'
  <2>1. balances \in [Holder -> Nat] /\ rowsSum = balances
    BY DEF SeedInv, SeedTypeOK
  <2>2. balances[b] + (-back) \in Nat
    BY <1>1, <1>2, <2>1
  <2>3. balances' = [balances EXCEPT ![b] = balances[b] + (-back)] /\ rowsSum' = balances'
    BY <1>2, <2>1 DEF Grant
  <2> QED BY <1>1, <2>1, <2>2, <2>3
<1>4. to \in Known \ {"none"} /\ orderState[p] # "none"
  BY <1>2 DEF can_transition_to, Transitions, Known
<1>5. orderCount[p] = 1
  BY <1>4 DEF SeedInv, OrdersHold, OrderHolds
<1>6. orderState' \in [Purchase -> Known] /\ steppedAt' \in [Purchase -> Int]
  BY <1>2, <1>4 DEF SeedInv, SeedTypeOK
<1>7. OrdersHold'
  <2> SUFFICES ASSUME NEW q \in Purchase PROVE OrderHolds(q)'
    BY DEF OrdersHold
  <2>1. CASE q = p
    <3>1. orderState'[p] = to /\ steppedAt'[p] = day
      BY <1>2 DEF SeedInv, SeedTypeOK
    <3> QED BY <1>4, <1>5, <2>1, <3>1 DEF SeedInv, OrdersHold, OrderHolds
  <2>2. CASE q # p
    <3>1. orderState'[q] = orderState[q] /\ steppedAt'[q] = steppedAt[q]
      BY <1>2, <2>2 DEF SeedInv, SeedTypeOK
    <3> QED BY <3>1 DEF SeedInv, OrdersHold, OrderHolds
  <2> QED BY <2>1, <2>2
<1> QED BY <1>2, <1>3, <1>5, <1>6, <1>7

\* The walk takes a step of the order under way.
LEMMA AdvanceKeeps == ASSUME SeedInv, advance_status PROVE SeedInv'
<1> DEFINE k == Key
           to == NextStatus
           day == EarlierDay(paidAt[k] + Following(k, seen)[2], runAt)
<1>1. /\ script = "walk" /\ k \in Purchase /\ orderCount[k] = 1 /\ to # "none" /\ seen' = to
      /\ UNCHANGED <<date, runAt, script, nth, undisturbed, todo, walked, opened, carts, orderLines, orderCount,
                     paidAt, marks, rentals, content, wrote, legacy>>
      /\ Move(k, to, day) /\ Key' = k /\ Purchases' = Purchases
  BY KeyFacts DEF SeedInv, ScriptHolds, advance_status, seedRun, seedRows, Key, Purchases
<1>2. to = Following(k, seen)[1] /\ to \in Known
  BY DEF NextStatus, Following, Known
<1>3. day \in Int /\ paidAt[k] <= day /\ day <= date
  <2>1. Following(k, seen)[2] \in Nat
    BY DEF Following
  <2>2. runAt \in Int /\ runAt <= date /\ date \in Int /\ paidAt[k] \in Int
    BY <1>1, RunFacts DEF SeedInv, SeedTypeOK
  <2>3. paidAt[k] <= runAt
    BY <1>1 DEF SeedInv, OrdersHold, OrderHolds
  <2> HIDE DEF k
  <2> QED BY <2>1, <2>2, <2>3 DEF EarlierDay
<1> HIDE DEF k, to, day
<1>4. /\ balances' \in [Holder -> Nat] /\ rowsSum' = balances'
      /\ orderState' = [orderState EXCEPT ![k] = to] /\ orderState' \in [Purchase -> Known]
      /\ steppedAt' \in [Purchase -> Int] /\ OrdersHold'
  BY <1>1, <1>3, MoveKeeps
<1>5. SeedTypeOK'
  BY <1>1, <1>2, <1>4 DEF SeedInv, SeedTypeOK
<1>6. AccountsOpen' /\ SlotsHold' /\ KeysHold' /\ ScriptHolds'
  BY <1>1 DEF SeedInv, AccountsOpen, SlotsHold, SlotHolds, KeysHold, RowHolds, ScriptHolds
<1>7. RowsDone' /\ RestDone'
  BY <1>1, RowsStay, RestStays DEF SeedInv, Bought
<1>8. OrdersDone'
  <2> SUFFICES ASSUME undisturbed
               PROVE  /\ \A i \in DOMAIN Purchases : i < nth => Finished(Purchases[i].of)'
                      /\ seen' = orderState'[k]
    BY <1>1 DEF OrdersDone, Finished, Bought
  <2>1. seen = orderState[k]
    BY <1>1 DEF SeedInv, OrdersDone, k
  <2>2. seen' = orderState'[k]
    BY <1>1, <1>4 DEF SeedInv, SeedTypeOK
  <2>3. ASSUME NEW i \in DOMAIN Purchases, i < nth PROVE Finished(Purchases[i].of)'
    <3>1. PICK p \in Purchase : p = Purchases[i].of
      BY <1>1, RunFacts
    <3>2. Finished(p)
      BY <1>1, <2>3, <3>1 DEF SeedInv, OrdersDone, Buying
    <3>3. p # k
      BY <1>1, <1>2, <2>1, <3>2 DEF Finished
    <3>4. orderState'[p] = orderState[p]
      BY <1>4, <3>3 DEF SeedInv, SeedTypeOK
    <3>5. Finished(p)'
      BY <1>1, <3>2, <3>4 DEF Finished, Following, Enrols
    <3>6. p = Purchases'[i].of
      BY <1>1, <3>1
    <3> QED BY <3>5, <3>6
  <2> QED BY <2>2, <2>3
<1> QED BY <1>4, <1>5, <1>6, <1>7, <1>8 DEF SeedInv

LEMMA SettleKeeps == ASSUME SeedInv, SettleMember PROVE SeedInv'
<1> DEFINE m == Members[nth]
           delta == Target[m] - balances[m]
<1>1. /\ script = "settle" /\ script' = "settle" /\ nth \in DOMAIN Members /\ nth' = nth + 1
      /\ m \in Holder /\ Target[m] \in Nat /\ balances[m] \in Nat /\ nth \in Nat
      /\ UNCHANGED <<date, runAt, undisturbed, todo, seen, walked, opened, carts, orderState, orderLines,
                     orderCount, paidAt, steppedAt, marks, rentals, content, wrote, legacy>>
  <2>1. nth <= Len(Members) /\ nth \in Nat /\ nth # 0 /\ balances \in [Holder -> Nat]
    BY DEF SeedInv, SeedTypeOK, ScriptHolds, SettleMember
  <2>2. nth \in DOMAIN Members
    BY <2>1, MemberFacts
  <2> QED BY <2>1, <2>2, MemberFacts DEF SettleMember, GoTo, seedMemory, seedOrders, seedRows
<1>2. /\ balances' = [balances EXCEPT ![m] = Target[m]]
      /\ rowsSum' = [rowsSum EXCEPT ![m] = Target[m]]
  <2>1. balances[m] + delta = Target[m] /\ rowsSum = balances
    BY <1>1 DEF SeedInv, SeedTypeOK
  <2>2. Grant(m, delta)
    BY DEF SettleMember
  <2> HIDE DEF m, delta
  <2> QED BY <2>1, <2>2 DEF Grant
<1> HIDE DEF m
<1>3. SeedTypeOK'
  <2>1. balances' \in [Holder -> Nat] /\ rowsSum' = balances'
    BY <1>1, <1>2 DEF SeedInv, SeedTypeOK
  <2> QED BY <1>1, <2>1 DEF SeedInv, SeedTypeOK, Stage, Bought
<1>4. AccountsOpen' /\ OrdersHold' /\ SlotsHold' /\ KeysHold' /\ ScriptHolds'
  BY <1>1 DEF SeedInv, AccountsOpen, OrdersHold, OrderHolds, SlotsHold, SlotHolds, KeysHold, RowHolds, ScriptHolds
<1>5. RowsDone' /\ OrdersDone'
  BY <1>1, RowsStay, OrdersStay DEF SeedInv, Midway, Bought
<1>6. RestDone'
  <2> SUFFICES ASSUME undisturbed PROVE \A i \in DOMAIN Members : i < nth + 1 => AtTarget(i)'
    BY <1>1 DEF RestDone, Bought, Settled, Marked
  <2> SUFFICES ASSUME NEW i \in DOMAIN Members, i < nth + 1 PROVE AtTarget(i)'
    OBVIOUS
  <2>1. i < nth \/ i = nth
    BY <1>1, MemberFacts
  <2>2. Members[i] \in Holder /\ balances \in [Holder -> Nat] /\ (i < nth => AtTarget(i))
    BY <1>1, MemberFacts DEF SeedInv, SeedTypeOK, RestDone
  <2> QED BY <1>2, <2>1, <2>2 DEF AtTarget, m
<1> QED BY <1>3, <1>4, <1>5, <1>6 DEF SeedInv

LEMMA MarkKeeps == ASSUME SeedInv, mark_past_sessions PROVE SeedInv'
<1>1. /\ script = "mark" /\ script' = "rental" /\ nth' = FirstSlot[runAt]
      /\ UNCHANGED <<date, runAt, undisturbed, todo, seen, walked, balances, rowsSum, opened, carts, orderState,
                     orderLines, orderCount, paidAt, steppedAt, rentals, content, wrote, legacy>>
      /\ marks' = [pd \in Purchase \X Dates |->
                     IF pd[1] \in walked /\ pd[2] < runAt /\ marks[pd] = "none" THEN "seed" ELSE marks[pd]]
  BY DEF mark_past_sessions, GoTo, seedMemory, seedPoints, seedOrders, seedRows
<1>2. nth' \in Nat \ {0}
  BY <1>1, RunFacts
<1>3. SeedTypeOK'
  <2>1. marks' \in [Purchase \X Dates -> {"none", "seed", "coach"}]
    BY <1>1 DEF SeedInv, SeedTypeOK
  <2> QED BY <1>1, <1>2, <2>1 DEF SeedInv, SeedTypeOK, Stage, Bought
<1>4. AccountsOpen' /\ OrdersHold' /\ SlotsHold' /\ KeysHold' /\ ScriptHolds'
  BY <1>1, <1>2 DEF SeedInv, AccountsOpen, OrdersHold, OrderHolds, SlotsHold, SlotHolds, KeysHold, RowHolds,
    ScriptHolds
<1>5. RowsDone' /\ OrdersDone'
  BY <1>1, RowsStay, OrdersStay DEF SeedInv, Midway, Bought
<1>6. RestDone'
  <2> SUFFICES ASSUME undisturbed PROVE /\ \A i \in DOMAIN Members : AtTarget(i)'
                                        /\ \A d \in Dates : Marks(d)'
                                        /\ \A d \in Dates : d < FirstSlot[runAt] => Booked(d)'
    BY <1>1 DEF RestDone, Bought, Settled, Marked
  <2>1. \A i \in DOMAIN Members : AtTarget(i)'
    BY <1>1 DEF SeedInv, RestDone, Bought, Settled, AtTarget
  <2>2. \A d \in Dates : Marks(d)'
    <3> SUFFICES ASSUME NEW d \in Dates, d < runAt, NEW i \in DOMAIN Purchases,
                        Enrols(Purchases[i].of, orderState[Purchases[i].of])
                 PROVE  marks'[<<Purchases[i].of, d>>] # "none"
      BY <1>1 DEF Marks, Enrols, Purchases
    <3> DEFINE p == Purchases[i].of
    <3>1. p \in Purchase
      BY <1>1, RunFacts
    <3>2. p \in walked
      BY <1>1 DEF SeedInv, OrdersDone, Bought, Finished
    <3> HIDE DEF p
    <3>3. marks'[<<p, d>>] # "none"
      BY <1>1, <3>1, <3>2
    <3> QED BY <3>3 DEF p
  <2>3. \A d \in Dates : d < FirstSlot[runAt] => Booked(d)'
    BY <1>1, RunFacts, SeedAssumption DEF Booked, Dates
  <2> QED BY <2>1, <2>2, <2>3
<1> QED BY <1>3, <1>4, <1>5, <1>6 DEF SeedInv

LEMMA RentKeeps == ASSUME SeedInv, insert_booking_if_absent PROVE SeedInv'
<1> DEFINE row == [by |-> "seed", live |-> TRUE]
<1>1. /\ script = "rental" /\ script' = "rental" /\ nth < runAt /\ nth' = nth + 1 /\ nth \in Nat \ {0}
      /\ UNCHANGED <<date, runAt, undisturbed, todo, seen, walked, balances, rowsSum, opened, carts, orderState,
                     orderLines, orderCount, paidAt, steppedAt, marks, content, wrote, legacy>>
      /\ rentals' = IF nth \in BookedByRule /\ rentals[nth] = {}
                    THEN [rentals EXCEPT ![nth] = {row}] ELSE rentals
  BY DEF SeedInv, SeedTypeOK, ScriptHolds, insert_booking_if_absent, GoTo, seedMemory, seedPoints, seedOrders,
    seedRows
<1>2. nth \in Dates /\ nth < date
  BY <1>1, SeedAssumption DEF SeedInv, SeedTypeOK, Dates
<1>3. \A d \in Dates : rentals'[d] = rentals[d] \/ (d = nth /\ rentals'[d] = {row})
  BY <1>1 DEF SeedInv, SeedTypeOK
<1>4. SeedTypeOK'
  <2>1. rentals' \in [Dates -> SUBSET [by : {"seed", "app"}, live : BOOLEAN]]
    <3>1. {row} \in SUBSET [by : {"seed", "app"}, live : BOOLEAN]
      OBVIOUS
    <3> HIDE DEF row
    <3> QED BY <1>1, <3>1 DEF SeedInv, SeedTypeOK
  <2> QED BY <1>1, <2>1 DEF SeedInv, SeedTypeOK
<1>5. AccountsOpen' /\ OrdersHold' /\ KeysHold' /\ ScriptHolds'
  BY <1>1 DEF SeedInv, AccountsOpen, OrdersHold, OrderHolds, KeysHold, RowHolds, ScriptHolds
<1>6. SlotsHold'
  <2> SUFFICES ASSUME NEW d \in Dates PROVE SlotHolds(d)'
    BY DEF SlotsHold
  <2>1. CASE rentals'[d] = rentals[d]
    BY <1>1, <2>1 DEF SeedInv, SlotsHold, SlotHolds
  <2>2. CASE d = nth /\ rentals'[d] = {row}
    BY <1>1, <1>2, <2>2 DEF SlotHolds
  <2> QED BY <1>3, <2>1, <2>2
<1>7. RowsDone' /\ OrdersDone'
  BY <1>1, RowsStay, OrdersStay DEF SeedInv, Midway, Bought
<1>8. RestDone'
  <2> SUFFICES ASSUME undisturbed PROVE /\ \A i \in DOMAIN Members : AtTarget(i)'
                                        /\ \A d \in Dates : Marks(d)'
                                        /\ \A d \in Dates : d < nth + 1 => Booked(d)'
    BY <1>1 DEF RestDone, Bought, Settled, Marked
  <2>1. (\A i \in DOMAIN Members : AtTarget(i)') /\ \A d \in Dates : Marks(d)'
    BY <1>1 DEF SeedInv, RestDone, Bought, Settled, Marked, AtTarget, Marks, Enrols, Purchases
  <2>2. ASSUME NEW d \in Dates, d < nth + 1 PROVE Booked(d)'
    <3>1. CASE d = nth
      BY <1>1, <1>2, <1>3, <3>1 DEF SeedInv, SeedTypeOK, Booked
    <3>2. CASE d # nth
      <4>1. d < nth
        BY <1>1, <2>2, <3>2, SeedAssumption DEF Dates
      <4> QED BY <1>1, <1>3, <3>2, <4>1 DEF SeedInv, RestDone, Booked
    <3> QED BY <3>1, <3>2
  <2> QED BY <2>1, <2>2
<1> QED BY <1>4, <1>5, <1>6, <1>7, <1>8 DEF SeedInv

\* What the app and the developers write disturbs a run, and nothing else.
LEMMA EditKeepsScript ==
  ASSUME SeedInv, Edit
  PROVE  /\ AccountsOpen' /\ RowsDone' /\ OrdersDone' /\ RestDone' /\ undisturbed' = FALSE
         /\ UNCHANGED <<date, runAt, script, nth, todo, seen, walked, opened, orderLines, orderCount, paidAt>>
  BY DEF SeedInv, Edit, AccountsOpen, RowsDone, OrdersDone, RestDone, seedMemory

LEMMA MoveOrderKeeps ==
  ASSUME SeedInv, NEW p \in Purchase, NEW to \in OrderStatus, MoveOrder(p, to) PROVE SeedInv'
<1>1. /\ AccountsOpen' /\ RowsDone' /\ OrdersDone' /\ RestDone' /\ undisturbed' = FALSE
      /\ UNCHANGED <<date, runAt, script, nth, todo, seen, walked, opened, orderLines, orderCount, paidAt,
                     carts, marks, rentals, content, wrote, legacy>>
      /\ Move(p, to, date)
  BY EditKeepsScript DEF MoveOrder, seedRows
<1>2. date \in Int /\ date <= date
  BY SeedAssumption DEF SeedInv, SeedTypeOK, Dates
<1>3. paidAt[p] <= date
  <2>1. orderState[p] # "none"
    BY <1>1 DEF Move, can_transition_to, Transitions
  <2>2. paidAt[p] <= steppedAt[p] /\ steppedAt[p] <= date /\ paidAt[p] \in Int /\ steppedAt[p] \in Int
    BY <2>1 DEF SeedInv, SeedTypeOK, OrdersHold, OrderHolds
  <2> QED BY <1>2, <2>2
<1>4. /\ balances' \in [Holder -> Nat] /\ rowsSum' = balances' /\ orderState' \in [Purchase -> Known]
      /\ steppedAt' \in [Purchase -> Int] /\ OrdersHold'
  BY <1>1, <1>2, <1>3, MoveKeeps
<1>5. SeedTypeOK'
  BY <1>1, <1>4 DEF SeedInv, SeedTypeOK
<1>6. ScriptHolds' /\ SlotsHold' /\ KeysHold'
  BY <1>1 DEF SeedInv, ScriptHolds, SlotsHold, SlotHolds, KeysHold, RowHolds, Purchases, Key
<1> QED BY <1>1, <1>4, <1>5, <1>6 DEF SeedInv

LEMMA EditsKeep ==
  ASSUME SeedInv,
         \/ \E a \in Holder : \E delta \in {-1, 1} : AdjustPoints(a, delta)
         \/ \E p \in Purchase, d \in Dates : Remark(p, d)
         \/ \E a \in Holder : \E x \in Item : LeaveInCart(a, x)
         \/ \E r \in Row, as \in {"app", "bare", "none"} : EditRow(r, as)
  PROVE  SeedInv'
<1>1. /\ AccountsOpen' /\ RowsDone' /\ OrdersDone' /\ RestDone' /\ undisturbed' = FALSE
      /\ UNCHANGED <<date, runAt, script, nth, todo, seen, walked, opened, orderState, orderLines, orderCount,
                     paidAt, steppedAt, rentals, legacy>>
  BY EditKeepsScript DEF AdjustPoints, Remark, LeaveInCart, EditRow, Edit, seedRows
<1>2. SlotsHold' /\ OrdersHold'
  BY <1>1 DEF SeedInv, SlotsHold, SlotHolds, OrdersHold, OrderHolds
<1>3. CASE \E a \in Holder : \E delta \in {-1, 1} : AdjustPoints(a, delta)
  <2>1. PICK a \in Holder, delta \in {-1, 1} : AdjustPoints(a, delta)
    BY <1>3
  <2>2. /\ UNCHANGED <<carts, marks, content, wrote>> /\ balances[a] + delta >= 0
        /\ balances' = [balances EXCEPT ![a] = @ + delta] /\ rowsSum' = [rowsSum EXCEPT ![a] = @ + delta]
    BY <2>1 DEF AdjustPoints, Grant, seedRows
  <2>3. SeedTypeOK'
    <3>1. balances' \in [Holder -> Nat] /\ rowsSum' = balances'
      BY <2>2 DEF SeedInv, SeedTypeOK
    <3> QED BY <1>1, <2>2, <3>1 DEF SeedInv, SeedTypeOK
  <2>4. ScriptHolds' /\ KeysHold'
    BY <1>1, <2>2 DEF SeedInv, ScriptHolds, KeysHold, RowHolds, Purchases, Key
  <2> QED BY <1>1, <1>2, <2>3, <2>4 DEF SeedInv
<1>4. CASE \E p \in Purchase, d \in Dates : Remark(p, d)
  <2>1. PICK p \in Purchase, d \in Dates : Remark(p, d)
    BY <1>4
  <2>2. /\ UNCHANGED <<balances, rowsSum, carts, content, wrote>>
        /\ marks' = [marks EXCEPT ![<<p, d>>] = "coach"]
    BY <2>1 DEF Remark, seedRows
  <2>3. SeedTypeOK'
    <3>1. marks' \in [Purchase \X Dates -> {"none", "seed", "coach"}]
      BY <2>2 DEF SeedInv, SeedTypeOK
    <3> QED BY <1>1, <2>2, <3>1 DEF SeedInv, SeedTypeOK
  <2>4. ScriptHolds' /\ KeysHold'
    BY <1>1, <2>2 DEF SeedInv, ScriptHolds, KeysHold, RowHolds, Purchases, Key
  <2> QED BY <1>1, <1>2, <2>3, <2>4 DEF SeedInv
<1>5. CASE \E a \in Holder : \E x \in Item : LeaveInCart(a, x)
  <2>1. PICK a \in Holder, x \in Item : LeaveInCart(a, x)
    BY <1>5
  <2>2. /\ UNCHANGED <<balances, rowsSum, marks, content, wrote>>
        /\ script \in {"clear", "add"} => a # Buys[Key].buyer
        /\ carts' = [carts EXCEPT ![a] = @ \cup {x}]
    BY <2>1 DEF LeaveInCart, seedRows
  <2>3. carts' \in [Holder -> SUBSET Item]
    BY <2>2 DEF SeedInv, SeedTypeOK
  <2>4. SeedTypeOK'
    BY <1>1, <2>2, <2>3 DEF SeedInv, SeedTypeOK
  <2>5. ScriptHolds'
    <3>1. script = "add" => carts'[Buys[Key].buyer] = carts[Buys[Key].buyer]
      BY <2>2, KeyFacts DEF SeedInv, SeedTypeOK
    <3> QED BY <1>1, <3>1 DEF SeedInv, ScriptHolds, Purchases, Key
  <2>6. KeysHold'
    BY <1>1, <2>2 DEF SeedInv, KeysHold, RowHolds
  <2> QED BY <1>1, <1>2, <2>4, <2>5, <2>6 DEF SeedInv
<1>6. CASE \E r \in Row, as \in {"app", "bare", "none"} : EditRow(r, as)
  <2>1. PICK r \in Row, as \in {"app", "bare", "none"} : EditRow(r, as)
    BY <1>6
  <2>2. /\ UNCHANGED <<balances, rowsSum, carts, marks>>
        /\ content' = [content EXCEPT ![r] = as] /\ wrote' = [wrote EXCEPT ![r] = as]
    BY <2>1 DEF EditRow
  <2>3. SeedTypeOK'
    <3>1. content' \in [Row -> Writing] /\ wrote' \in [Row -> {"none", "app", "bare"}]
      BY <2>2 DEF SeedInv, SeedTypeOK, Writing
    <3> QED BY <1>1, <2>2, <3>1 DEF SeedInv, SeedTypeOK
  <2>4. ScriptHolds'
    BY <1>1, <2>2 DEF SeedInv, ScriptHolds, Purchases, Key
  <2>5. KeysHold'
    <3>1. \A s \in Row : RowHolds(s)'
      BY <2>2 DEF SeedInv, SeedTypeOK, KeysHold, RowHolds
    <3> QED BY <1>1, <3>1 DEF SeedInv, KeysHold
  <2> QED BY <1>1, <1>2, <2>3, <2>4, <2>5 DEF SeedInv
<1> QED BY <1>3, <1>4, <1>5, <1>6

LEMMA SlotKeeps == ASSUME SeedInv, NEW d \in Dates, BookOrCancel(d) PROVE SeedInv'
<1>1. /\ AccountsOpen' /\ RowsDone' /\ OrdersDone' /\ RestDone' /\ undisturbed' = FALSE
      /\ UNCHANGED <<date, runAt, script, nth, todo, seen, walked, opened, orderLines, orderCount, paidAt, balances,
                     rowsSum, steppedAt, orderState, carts, marks, content, wrote, legacy>>
  BY EditKeepsScript DEF BookOrCancel, Edit, seedRows
<1>2. rentals \in [Dates -> SUBSET [by : {"seed", "app"}, live : BOOLEAN]]
  BY DEF SeedInv, SeedTypeOK
<1>3. rentals' \in [Dates -> SUBSET [by : {"seed", "app"}, live : BOOLEAN]] /\ SlotsHold'
  <2>1. CASE /\ d >= date /\ \A b \in rentals[d] : ~b.live
             /\ rentals' = [rentals EXCEPT ![d] = @ \cup {[by |-> "app", live |-> TRUE]}]
    <3>1. [by |-> "app", live |-> TRUE] \in [by : {"seed", "app"}, live : BOOLEAN]
      OBVIOUS
    <3>2. ~(d < date)
      BY <2>1, SeedAssumption DEF SeedInv, SeedTypeOK, Dates
    <3> DEFINE row == [by |-> "app", live |-> TRUE]
    <3>3. row.by = "app"
      OBVIOUS
    <3> HIDE DEF row
    <3>4. rentals' \in [Dates -> SUBSET [by : {"seed", "app"}, live : BOOLEAN]]
      BY <1>2, <2>1, <3>1 DEF row
    <3>5. rentals' = [rentals EXCEPT ![d] = @ \cup {row}]
      BY <2>1 DEF row
    <3>6. \A e \in Dates : rentals'[e] = IF e = d THEN rentals[d] \cup {row} ELSE rentals[e]
      BY <1>2, <3>5
    <3>7. \A e \in Dates : SlotHolds(e)'
      BY <1>1, <2>1, <3>2, <3>3, <3>6 DEF SeedInv, SlotsHold, SlotHolds
    <3> QED BY <3>4, <3>7 DEF SlotsHold
  <2>2. CASE \E b \in rentals[d] :
               b.live /\ rentals' = [rentals EXCEPT ![d] = (@ \ {b}) \cup {[b EXCEPT !.live = FALSE]}]
    <3>1. PICK b \in rentals[d] :
               b.live /\ rentals' = [rentals EXCEPT ![d] = (@ \ {b}) \cup {[b EXCEPT !.live = FALSE]}]
      BY <2>2
    <3> DEFINE row == [b EXCEPT !.live = FALSE]
    <3>2. row.by = b.by /\ row.live = FALSE /\ row \in [by : {"seed", "app"}, live : BOOLEAN]
      <4>1. b \in [by : {"seed", "app"}, live : BOOLEAN]
        BY <1>2, <3>1
      <4> QED BY <4>1
    <3> HIDE DEF row
    <3>3. rentals' = [rentals EXCEPT ![d] = (@ \ {b}) \cup {row}]
      BY <3>1 DEF row
    <3>4. rentals' \in [Dates -> SUBSET [by : {"seed", "app"}, live : BOOLEAN]]
      BY <1>2, <3>2, <3>3
    <3>5. \A e \in Dates : rentals'[e] = IF e = d THEN (rentals[d] \ {b}) \cup {row} ELSE rentals[e]
      BY <1>2, <3>3
    <3>6. \A e \in Dates : SlotHolds(e)'
      <4> SUFFICES ASSUME NEW e \in Dates PROVE SlotHolds(e)'
        OBVIOUS
      <4>1. CASE e # d
        BY <1>1, <3>5, <4>1 DEF SeedInv, SlotsHold, SlotHolds
      <4>2. CASE e = d
        <5>1. SlotHolds(d)
          BY DEF SeedInv, SlotsHold
        <5> QED BY <1>1, <3>1, <3>2, <3>5, <4>2, <5>1 DEF SlotHolds
      <4> QED BY <4>1, <4>2
    <3> QED BY <3>4, <3>6 DEF SlotsHold
  <2> QED BY <2>1, <2>2 DEF BookOrCancel
<1>4. SeedTypeOK'
  BY <1>1, <1>3 DEF SeedInv, SeedTypeOK
<1>5. OrdersHold' /\ ScriptHolds' /\ KeysHold'
  BY <1>1 DEF SeedInv, OrdersHold, OrderHolds, ScriptHolds, KeysHold, RowHolds, Purchases, Key
<1> QED BY <1>1, <1>3, <1>4, <1>5 DEF SeedInv

LEMMA SeedNextKeeps == SeedInv /\ [SeedNext]_seedVars => SeedInv'
<1> SUFFICES ASSUME SeedInv, [SeedNext]_seedVars PROVE SeedInv'
  OBVIOUS
<1>1. CASE NightFalls
  BY <1>1, NightKeeps
<1>2. CASE ScriptStep
  BY <1>2, ScriptKeeps
<1>3. CASE (\E a \in Holder : upsert_account(a)) \/ insert_if_absent \/ BackfillVenues
  BY <1>3, AccountKeeps, RowKeeps, VenuesKeep
<1>4. CASE ClearCart \/ \E x \in Item : add_item(x)
  BY <1>4, CartKeeps
<1>5. CASE BuyCart \/ advance_status \/ SettleMember \/ mark_past_sessions \/ insert_booking_if_absent
  BY <1>5, BuyKeeps, AdvanceKeeps, SettleKeeps, MarkKeeps, RentKeeps
<1>6. CASE \E p \in Purchase, to \in OrderStatus : MoveOrder(p, to)
  BY <1>6, MoveOrderKeeps
<1>7. CASE \/ \E a \in Holder : \E delta \in {-1, 1} : AdjustPoints(a, delta)
           \/ \E p \in Purchase, d \in Dates : Remark(p, d)
           \/ \E a \in Holder : \E x \in Item : LeaveInCart(a, x)
           \/ \E r \in Row, as \in {"app", "bare", "none"} : EditRow(r, as)
  BY <1>7, EditsKeep
<1>8. CASE \E d \in Dates : BookOrCancel(d)
  BY <1>8, SlotKeeps
<1>9. CASE UNCHANGED seedVars
  <2>1. UNCHANGED <<date, runAt, script, nth, undisturbed, todo, seen, walked, balances, rowsSum, opened, carts,
                    orderState, orderLines, orderCount, paidAt, steppedAt, marks, rentals, content, wrote, legacy>>
    BY <1>9 DEF seedVars, seedRun, seedMemory, seedPoints, seedOrders, seedRows
  <2>2. /\ SeedTypeOK' /\ AccountsOpen' /\ OrdersHold' /\ ScriptHolds' /\ SlotsHold' /\ KeysHold'
    BY <2>1 DEF SeedInv, SeedTypeOK, AccountsOpen, OrdersHold, OrderHolds, ScriptHolds, SlotsHold, SlotHolds,
      KeysHold, RowHolds, Purchases, Key
  <2>3. RowsDone' /\ OrdersDone' /\ RestDone'
    BY <2>1, RowsStay, OrdersStay, RestStays DEF SeedInv
  <2> QED BY <2>2, <2>3 DEF SeedInv
<1> QED BY <1>1, <1>2, <1>3, <1>4, <1>5, <1>6, <1>7, <1>8, <1>9 DEF SeedNext, ScriptStep

\* Whatever the dataset and however it slides with the day, and however often a run dies
\* and is run again, the seed converges (bin/seed/dataset.rs `run`): each stage leaves
\* behind what the next run needs to see to leave it alone, what the app wrote stays but
\* for a venue it left out, and a run that nobody disturbs ends with all of it.
THEOREM SeedsConverge == SeedSpec => []SeedConverges
<1>1. SeedInv => SeedConverges
  <2> SUFFICES ASSUME SeedInv PROVE SeedConverges
    OBVIOUS
  <2>1. ASSUME NEW p \in Purchase
        PROVE  /\ orderCount[p] <= 1
               /\ orderCount[p] = 1 => /\ orderLines[p] = Buys[p].lines
                                       /\ steppedAt[p] \in paidAt[p]..date
    <3>1. orderCount[p] \in {0, 1} /\ steppedAt[p] \in Int /\ paidAt[p] \in Int /\ date \in Int
      BY SeedAssumption DEF SeedInv, SeedTypeOK, Dates
    <3> QED BY <3>1 DEF SeedInv, OrdersHold, OrderHolds
  <2>2. \A a \in Holder : /\ balances[a] = rowsSum[a] /\ balances[a] >= 0
                          /\ opened[a] <= 1 /\ (opened[a] = 1 <=> opened[a] >= 0 /\ OpeningPoints[a] > 0)
    BY DEF SeedInv, SeedTypeOK, AccountsOpen
  <2>3. ASSUME NEW d \in Dates
        PROVE  /\ Cardinality({b \in rentals[d] : b.live}) <= 1
               /\ \A b, c \in rentals[d] : b.by = "seed" => c = b
    <3> DEFINE held == {b \in rentals[d] : b.live}
    <3>1. \A b, c \in held : b = c
      BY DEF SeedInv, SlotsHold, SlotHolds
    <3>2. \A b, c \in rentals[d] : b.by = "seed" => c = b
      BY DEF SeedInv, SlotsHold, SlotHolds
    <3> HIDE DEF held
    <3>3. Cardinality(held) <= 1
      <4>1. CASE held = {}
        BY <4>1, FS_EmptySet
      <4>2. CASE held # {}
        <5>1. PICK b : held = {b}
          BY <3>1, <4>2
        <5>2. Cardinality({b}) = 1
          BY FS_Singleton
        <5> QED BY <5>1, <5>2
      <4> QED BY <4>1, <4>2
    <3> QED BY <3>2, <3>3 DEF held
  <2>4. /\ \A r \in Row : \/ content[r] = wrote[r]
                          \/ wrote[r] = "none" /\ content[r] = "seed"
                          \/ wrote[r] = "bare" /\ content[r] = "filled"
        /\ legacy => \A p \in Purchase : orderCount[p] = 0
    BY DEF SeedInv, KeysHold, RowHolds
  <2>5. ASSUME script = "done", undisturbed
        PROVE  /\ \A r \in Catalog \cup Pending[runAt] \cup Inquiry[runAt] : content[r] # "none"
               /\ \A r \in Slots : content[r] # "bare"
               /\ \A i \in DOMAIN Purchases : LET p == Purchases[i].of IN
                    orderCount[p] = 1 /\ Following(p, orderState[p])[1] = "none"
               /\ \A i \in DOMAIN Members : balances[Members[i]] = Target[Members[i]]
               /\ \A d \in Dates : d < runAt =>
                    /\ d \in BookedByRule /\ d >= FirstSlot[runAt] => rentals[d] # {}
                    /\ \A i \in DOMAIN Purchases : LET p == Purchases[i].of IN
                         Enrols(p, orderState[p]) => marks[<<p, d>>] # "none"
    <3>1. /\ Kept(Catalog \ Slots) /\ Kept(Pending[runAt]) /\ Kept(Inquiry[runAt])
          /\ \A i \in DOMAIN Courses : SlotsKept(i)
      BY <2>5 DEF SeedInv, RowsDone, Bought
    <3>2. \A r \in Catalog : content[r] # "none"
      BY <3>1 DEF Kept, SlotsKept, SlotsOf, Slots
    <3>3. \A r \in Slots : content[r] # "bare"
      BY <3>1 DEF SlotsKept, Slots
    <3>4. \A i \in DOMAIN Purchases : LET p == Purchases[i].of IN
            orderCount[p] = 1 /\ Following(p, orderState[p])[1] = "none"
      BY <2>5 DEF SeedInv, OrdersDone, Bought, Finished
    <3>5. \A i \in DOMAIN Members : balances[Members[i]] = Target[Members[i]]
      BY <2>5 DEF SeedInv, RestDone, Bought, Settled, AtTarget
    <3>6. \A d \in Dates : Marks(d) /\ Booked(d)
      BY <2>5 DEF SeedInv, RestDone, Bought, Settled, Marked
    <3> QED BY <3>1, <3>2, <3>3, <3>4, <3>5, <3>6 DEF Marks, Booked, Kept
  <2> QED BY <2>1, <2>2, <2>3, <2>4, <2>5 DEF SeedConverges
<1> QED BY <1>1, SeedStarts, SeedNextKeeps, PTL DEF SeedSpec
=============================================================================
