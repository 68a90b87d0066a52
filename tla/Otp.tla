-------------------------------- MODULE Otp --------------------------------
(***************************************************************************)
(* Verifying a phone by a code sent to it.  The code, the attempts at it   *)
(* and the requests for it are three keys of a store outside the process,  *)
(* written one call at a time; the verified phone is a column of users,    *)
(* which profile edits write too.  Any call may fail and end its request.  *)
(*                                                                         *)
(* A definition named Mut_X is a plausible wrong X, kept beside it to show *)
(* that the properties tell the two apart; nothing else uses it.           *)
(***************************************************************************)
EXTENDS Integers, FiniteSets

CONSTANTS
  Owner, Phone, Act, NoPhone,
  OTP_REQUESTS_PER_HOUR, OTP_MAX_ATTEMPTS,
  OTP_TTL, OTP_RATE_TTL,       \* in ticks
  MaxSent,                     \* bound on the codes ever sent
  MaxTries                     \* bound on the verifications

ASSUME OtpAssumption ==
  /\ OTP_TTL \in Nat \ {0} /\ OTP_RATE_TTL \in Nat \ {0}     \* INCR and EXPIRE: a key with no time left is gone
  /\ OTP_REQUESTS_PER_HOUR \in Nat /\ OTP_MAX_ATTEMPTS \in Nat /\ MaxSent \in Nat

VARIABLES
  rate, rateTtl,               \* otp_rate: per user
  otp, otpTtl,                 \* otp: per user, <<phone, code>>
  attempts, attemptsTtl,       \* otp_attempts: per user
  phone, phone_verified,       \* users
  act,                         \* each request: where it is, whose, and what it names
  sent,                        \* history: the messages the gateway took, <<user, phone, code>>
  sentInWindow,                \* history: per user, the codes stored in this hour
  minted, tries

otpStore == <<rate, rateTtl, otp, otpTtl, attempts, attemptsTtl>>
otpUsers == <<phone, phone_verified>>
otpVars == <<otpStore, otpUsers, act, sent, sentInWindow, minted, tries>>

NoOtp == <<NoPhone, 0>>
NoAct == [at |-> "idle", of |-> "nobody", phone |-> NoPhone, code |-> 0]

OtpInit ==
  /\ rate = [u \in Owner |-> 0] /\ rateTtl = [u \in Owner |-> 0]
  /\ otp = [u \in Owner |-> NoOtp] /\ otpTtl = [u \in Owner |-> 0]
  /\ attempts = [u \in Owner |-> 0] /\ attemptsTtl = [u \in Owner |-> 0]
  /\ phone \in [Owner -> Phone \cup {NoPhone}]     \* some verified theirs before, by code 0
  /\ \A u, v \in Owner : phone[u] = phone[v] /\ u # v => phone[u] = NoPhone
  /\ phone_verified = [u \in Owner |-> phone[u] # NoPhone]
  /\ sent = {<<u, phone[u], 0>> : u \in {v \in Owner : phone_verified[v]}}
  /\ act = [a \in Act |-> NoAct] /\ sentInWindow = [u \in Owner |-> 0]
  /\ minted = 0 /\ tries = 0

Forget(ttl, u) == ttl[u] = 1
Down(ttl) == [u \in Owner |-> IF ttl[u] = 0 THEN 0 ELSE ttl[u] - 1]
TtlElapses ==
  /\ \E u \in Owner : rateTtl[u] + otpTtl[u] + attemptsTtl[u] > 0
  /\ rateTtl' = Down(rateTtl) /\ otpTtl' = Down(otpTtl) /\ attemptsTtl' = Down(attemptsTtl)
  /\ rate' = [u \in Owner |-> IF Forget(rateTtl, u) THEN 0 ELSE rate[u]]
  /\ sentInWindow' = [u \in Owner |-> IF Forget(rateTtl, u) THEN 0 ELSE sentInWindow[u]]
  /\ otp' = [u \in Owner |-> IF Forget(otpTtl, u) THEN NoOtp ELSE otp[u]]
  /\ attempts' = [u \in Owner |-> IF Forget(attemptsTtl, u) THEN 0 ELSE attempts[u]]
  /\ UNCHANGED <<otpUsers, act, sent, minted, tries>>

Goes(a, label) == act' = [act EXCEPT ![a].at = label]
Ends(a) == act' = [act EXCEPT ![a] = NoAct]
\* A failed call, to the store, the gateway or the database, ends the request there.
CallFails(a) ==
  act[a].at # "idle" /\ Ends(a)
  /\ UNCHANGED <<otpStore, otpUsers, sent, sentInWindow, minted, tries>>

-----------------------------------------------------------------------------
AskCode(a, u, p) ==
  /\ act[a].at = "idle" /\ rate[u] <= OTP_REQUESTS_PER_HOUR    \* a bound: one refusal an hour
  /\ minted + Cardinality({b \in Act : act[b].at \in {"rate", "store"}}) < MaxSent
  /\ act' = [act EXCEPT ![a] = [at |-> "rate", of |-> u, phone |-> p, code |-> 0]]
  /\ UNCHANGED <<otpStore, otpUsers, sent, sentInWindow, minted, tries>>

\* send_otp, one call at a time: the hourly count, the code, the attempts, the message.
CountRequest(a) ==
  LET u == act[a].of IN
  /\ act[a].at = "rate"
  /\ rate' = [rate EXCEPT ![u] = @ + 1]
  /\ rateTtl' = [rateTtl EXCEPT ![u] = IF rate[u] = 0 THEN OTP_RATE_TTL ELSE @]
  /\ IF rate[u] + 1 > OTP_REQUESTS_PER_HOUR THEN Ends(a) /\ UNCHANGED sentInWindow
     ELSE Goes(a, "store") /\ sentInWindow' = [sentInWindow EXCEPT ![u] = @ + 1]
  /\ UNCHANGED <<otp, otpTtl, attempts, attemptsTtl, otpUsers, sent, minted, tries>>
StoreCode(a) ==
  LET u == act[a].of IN
  /\ act[a].at = "store" /\ minted' = minted + 1
  /\ otp' = [otp EXCEPT ![u] = <<act[a].phone, minted'>>]
  /\ otpTtl' = [otpTtl EXCEPT ![u] = OTP_TTL]
  /\ act' = [act EXCEPT ![a].at = "reset", ![a].code = minted']
  /\ UNCHANGED <<rate, rateTtl, attempts, attemptsTtl, otpUsers, sent, sentInWindow, tries>>
ResetAttempts(a) ==
  LET u == act[a].of IN
  /\ act[a].at = "reset" /\ Goes(a, "sms")
  /\ attempts' = [attempts EXCEPT ![u] = 0] /\ attemptsTtl' = [attemptsTtl EXCEPT ![u] = 0]
  /\ UNCHANGED <<rate, rateTtl, otp, otpTtl, otpUsers, sent, sentInWindow, minted, tries>>
SendSms(a) ==
  /\ act[a].at = "sms" /\ Ends(a)
  /\ sent' = sent \cup {<<act[a].of, act[a].phone, act[a].code>>}
  /\ UNCHANGED <<otpStore, otpUsers, sentInWindow, minted, tries>>

-----------------------------------------------------------------------------
\* verify_otp, for any phone, with a code that some phone received or a wrong one.
AskVerify(a, u, p, c) ==
  /\ act[a].at = "idle" /\ tries < MaxTries /\ tries' = tries + 1
  /\ c = 0 \/ \E s \in sent : s[3] = c
  /\ act' = [act EXCEPT ![a] = [at |-> "attempt", of |-> u, phone |-> p, code |-> c]]
  /\ UNCHANGED <<otpStore, otpUsers, sent, sentInWindow, minted>>

\* check: the attempt is counted before the code is read.
CountAttempt(a) ==
  LET u == act[a].of IN
  /\ act[a].at = "attempt"
  /\ attempts' = [attempts EXCEPT ![u] = @ + 1]
  /\ attemptsTtl' = [attemptsTtl EXCEPT ![u] = IF attempts[u] = 0 THEN OTP_TTL ELSE @]
  /\ Goes(a, IF attempts[u] + 1 > OTP_MAX_ATTEMPTS THEN "burn" ELSE "compare")
  /\ UNCHANGED <<rate, rateTtl, otp, otpTtl, otpUsers, sent, sentInWindow, minted, tries>>
BurnCode(a) ==
  LET u == act[a].of IN
  /\ act[a].at = "burn" /\ Ends(a)
  /\ otp' = [otp EXCEPT ![u] = NoOtp] /\ otpTtl' = [otpTtl EXCEPT ![u] = 0]
  /\ UNCHANGED <<rate, rateTtl, attempts, attemptsTtl, otpUsers, sent, sentInWindow, minted,
                 tries>>
Mut_CompareCode(a) ==
  /\ act[a].at = "compare"
  /\ IF otp[act[a].of][2] = act[a].code /\ act[a].code # 0 THEN Goes(a, "update") ELSE Ends(a)
  /\ UNCHANGED <<otpStore, otpUsers, sent, sentInWindow, minted, tries>>
CompareCode(a) ==
  /\ act[a].at = "compare"
  /\ IF otp[act[a].of] = <<act[a].phone, act[a].code>> /\ act[a].code # 0
     THEN Goes(a, "update") ELSE Ends(a)
  /\ UNCHANGED <<otpStore, otpUsers, sent, sentInWindow, minted, tries>>

\* uq_users_phone_verified refuses a phone another user has verified; the code stays.
update_phone_verified(a) ==
  LET u == act[a].of  p == act[a].phone IN
  /\ act[a].at = "update"
  /\ IF \E v \in Owner \ {u} : phone[v] = p /\ phone_verified[v]
     THEN Ends(a) /\ UNCHANGED otpUsers
     ELSE /\ phone' = [phone EXCEPT ![u] = p]
          /\ phone_verified' = [phone_verified EXCEPT ![u] = TRUE]
          /\ Goes(a, "consume")
  /\ UNCHANGED <<otpStore, sent, sentInWindow, minted, tries>>

\* consume: two deletions by key, whatever the keys hold by now.
ConsumeCode(a) ==
  LET u == act[a].of IN
  /\ act[a].at = "consume" /\ Goes(a, "forget")
  /\ otp' = [otp EXCEPT ![u] = NoOtp] /\ otpTtl' = [otpTtl EXCEPT ![u] = 0]
  /\ UNCHANGED <<rate, rateTtl, attempts, attemptsTtl, otpUsers, sent, sentInWindow, minted,
                 tries>>
ConsumeAttempts(a) ==
  LET u == act[a].of IN
  /\ act[a].at = "forget" /\ Ends(a)
  /\ attempts' = [attempts EXCEPT ![u] = 0] /\ attemptsTtl' = [attemptsTtl EXCEPT ![u] = 0]
  /\ UNCHANGED <<rate, rateTtl, otp, otpTtl, otpUsers, sent, sentInWindow, minted, tries>>

\* users: update_profile and admin_update set a phone and keep `verified' only if it is
\* the one that was there.
SetPhone(u, p) ==
  /\ phone[u] # p
  /\ phone' = [phone EXCEPT ![u] = p] /\ phone_verified' = [phone_verified EXCEPT ![u] = FALSE]
  /\ UNCHANGED <<otpStore, act, sent, sentInWindow, minted, tries>>

OtpNext ==
  \/ TtlElapses
  \/ \E a \in Act : \/ CallFails(a) \/ CountRequest(a) \/ StoreCode(a) \/ ResetAttempts(a)
                    \/ SendSms(a) \/ CountAttempt(a) \/ BurnCode(a) \/ CompareCode(a)
                    \/ update_phone_verified(a) \/ ConsumeCode(a) \/ ConsumeAttempts(a)
  \/ \E a \in Act, u \in Owner, p \in Phone :
       AskCode(a, u, p) \/ \E c \in 0..MaxSent : AskVerify(a, u, p, c)
  \/ \E u \in Owner, p \in Phone : SetPhone(u, p)

OtpSpec == OtpInit /\ [][OtpNext]_otpVars

-----------------------------------------------------------------------------
\* auth/otp.rs: however codes are sent again, checked, burnt and consumed at the same
\* time, and whatever calls fail, a verified phone received a code that was sent for its
\* user; two users never hold one verified phone; an hour stores no more codes than it
\* may; and no counter outlives its window.
PhoneIsProven ==
  /\ \A u \in Owner : phone_verified[u] => \E s \in sent : s[1] = u /\ s[2] = phone[u]
  /\ \A u, v \in Owner : phone_verified[u] /\ phone_verified[v] /\ phone[u] = phone[v] => u = v
  /\ \A u \in Owner : /\ sentInWindow[u] <= OTP_REQUESTS_PER_HOUR
                      /\ (rate[u] > 0) = (rateTtl[u] > 0)
                      /\ (attempts[u] > 0) = (attemptsTtl[u] > 0)
=============================================================================
