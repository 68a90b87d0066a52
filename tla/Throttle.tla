------------------------------ MODULE Throttle ------------------------------
(***************************************************************************)
(* The counters that expire: how many requests an address may make, how    *)
(* many of them to the sign-in routes, how often an address of mail may    *)
(* fail to sign in, and how often it may ask for a new password.  Each     *)
(* lives in a store outside the process that may fail at any call.         *)
(*                                                                         *)
(* A definition named Mut_X is a plausible wrong X, kept beside it to show *)
(* that the properties tell the two apart; nothing else uses it.           *)
(***************************************************************************)
EXTENDS Integers, FiniteSets

CONSTANTS
  Visit,                        \* the requests in flight, all of one client and one user
  MaxRequests,                 \* per counter: the threshold
  WindowTicks,                 \* per counter: its lifetime
  MaxOutages,                  \* bound on the failed calls to the store
  MaxKnocks                    \* bound on the requests of one global window

Counter == {"global", "auth", "login_fail", "forgot"}

ASSUME ThrottleAssumption ==
  /\ IsFiniteSet(Visit) /\ Visit # {}
  /\ MaxRequests \in [Counter -> Nat] /\ WindowTicks \in [Counter -> Nat \ {0}]

VARIABLES
  count, ttl,                  \* what the store holds; no entry where count is 0
  stage, route,                \* where each request is, and what it asks for
  admitted,                    \* history: per counter, those let through in this window
  guesses,                     \* history: wrong passwords compared since the failures began
  outages, forgotten           \* failed calls so far; history: one of them lost a failure

throttleVars == <<count, ttl, stage, route, admitted, guesses, outages, forgotten>>
ledgerOf == <<admitted, guesses>>

ThrottleInit ==
  /\ count = [k \in Counter |-> 0] /\ ttl = [k \in Counter |-> 0]
  /\ stage = [c \in Visit |-> "idle"] /\ route = [c \in Visit |-> "none"]
  /\ admitted = [k \in Counter |-> 0] /\ guesses = 0
  /\ outages = 0 /\ forgotten = FALSE

\* incr_with_ttl: one script adds one and starts the lifetime with the first.
incr_with_ttl(k) ==
  /\ count' = [count EXCEPT ![k] = @ + 1]
  /\ ttl' = [ttl EXCEPT ![k] = IF count[k] = 0 THEN WindowTicks[k] ELSE @]

\* A window ends: the store forgets the counter.
WindowElapses ==
  /\ \E k \in Counter : ttl[k] > 0
  /\ ttl' = [k \in Counter |-> IF ttl[k] = 0 THEN 0 ELSE ttl[k] - 1]
  /\ count' = [k \in Counter |-> IF ttl'[k] = 0 THEN 0 ELSE count[k]]
  /\ admitted' = [k \in Counter |-> IF ttl'[k] = 0 THEN 0 ELSE admitted[k]]
  /\ guesses' = IF count'["login_fail"] = 0 THEN 0 ELSE guesses
  /\ UNCHANGED <<stage, route, outages, forgotten>>

Outage == outages < MaxOutages /\ outages' = outages + 1
To(c, label) == stage' = [stage EXCEPT ![c] = label] /\ UNCHANGED route
Leave(c) == stage' = [stage EXCEPT ![c] = "idle"] /\ route' = [route EXCEPT ![c] = "none"]

-----------------------------------------------------------------------------
\* A gate that counts: over the threshold is a 429; a failed call to the store, a 500.
Gate(c, k, here, there) ==
  /\ stage[c] = here
  /\ \/ /\ incr_with_ttl(k)
        /\ IF count[k] + 1 > MaxRequests[k] THEN Leave(c) /\ UNCHANGED admitted
           ELSE To(c, there) /\ admitted' = [admitted EXCEPT ![k] = @ + 1]
        /\ UNCHANGED <<guesses, outages, forgotten>>
     \/ Outage /\ Leave(c) /\ UNCHANGED <<count, ttl, ledgerOf, forgotten>>

Knock(c, r) ==
  /\ stage[c] = "idle" /\ stage' = [stage EXCEPT ![c] = "knocking"]
  /\ count["global"] + Cardinality({d \in Visit : stage[d] = "knocking"}) < MaxKnocks
  /\ route' = [route EXCEPT ![c] = r]
  /\ UNCHANGED <<count, ttl, ledgerOf, outages, forgotten>>

\* Every route passes the first; the sign-in routes pass the second too.
rate_limit_middleware(c) == Gate(c, "global", "knocking", "admitted")
strict_rate_limit(c) == Gate(c, "auth", "admitted", route[c])

\* forgot_allowed: the same counter, but a failed call lets the request through.
forgot_allowed(c) ==
  /\ stage[c] = "forgot" /\ Leave(c)
  /\ \/ /\ incr_with_ttl("forgot")
        /\ admitted' = [admitted EXCEPT !["forgot"] =
             IF count["forgot"] + 1 <= MaxRequests["forgot"] THEN @ + 1 ELSE @]
        /\ UNCHANGED <<guesses, outages, forgotten>>
     \/ Outage /\ UNCHANGED <<count, ttl, ledgerOf, forgotten>>

\* login_locked_out only reads, before the password is compared; it fails open.
Mut_login_locked_out(c) ==
  /\ stage[c] = "login"
  /\ \/ /\ IF count["login_fail"] > MaxRequests["login_fail"] + Cardinality(Visit)
           THEN Leave(c) ELSE To(c, "compare")
        /\ UNCHANGED <<outages, forgotten>>
     \/ Outage /\ To(c, "compare") /\ forgotten' = TRUE
  /\ UNCHANGED <<count, ttl, ledgerOf>>
login_locked_out(c) ==
  /\ stage[c] = "login"
  /\ \/ /\ IF count["login_fail"] >= MaxRequests["login_fail"] THEN Leave(c) ELSE To(c, "compare")
        /\ UNCHANGED <<outages, forgotten>>
     \/ Outage /\ To(c, "compare") /\ forgotten' = TRUE
  /\ UNCHANGED <<count, ttl, ledgerOf>>

\* verify: a wrong password is recorded, if the store answers; the right one clears the
\* failures; the right one of an account that is not active does neither.
record_login_failure(c) ==
  /\ stage[c] = "compare" /\ Leave(c) /\ guesses' = guesses + 1
  /\ \/ incr_with_ttl("login_fail") /\ UNCHANGED <<outages, forgotten>>
     \/ Outage /\ forgotten' = TRUE /\ UNCHANGED <<count, ttl>>
  /\ UNCHANGED admitted
clear_login_failures(c) ==
  /\ stage[c] = "compare" /\ Leave(c)
  /\ \/ /\ count' = [count EXCEPT !["login_fail"] = 0] /\ ttl' = [ttl EXCEPT !["login_fail"] = 0]
        /\ guesses' = 0 /\ UNCHANGED <<outages, forgotten>>
     \/ Outage /\ UNCHANGED <<count, ttl, guesses, forgotten>>
  /\ UNCHANGED admitted
RejectInactive(c) ==
  stage[c] = "compare" /\ Leave(c) /\ UNCHANGED <<count, ttl, ledgerOf, outages, forgotten>>

\* Any other route is past the limits as soon as it is admitted.
Serve(c) ==
  /\ stage[c] = "admitted" /\ route[c] = "other" /\ Leave(c)
  /\ UNCHANGED <<count, ttl, ledgerOf, outages, forgotten>>

ThrottleNext ==
  \/ WindowElapses
  \/ \E c \in Visit :
       \/ \E r \in {"login", "forgot", "other"} : Knock(c, r)
       \/ rate_limit_middleware(c) \/ (route[c] # "other" /\ strict_rate_limit(c)) \/ Serve(c)
       \/ forgot_allowed(c) \/ login_locked_out(c)
       \/ record_login_failure(c) \/ clear_login_failures(c) \/ RejectInactive(c)

ThrottleSpec == ThrottleInit /\ [][ThrottleNext]_throttleVars

-----------------------------------------------------------------------------
\* utils/ephemeral.rs `incr_with_ttl', middleware/rate_limit.rs, auth/rate_limit.rs: a
\* counter never outlives its window (one that did would shut its client out for good);
\* no window lets more through than its threshold, however the requests interleave and
\* whatever calls fail; and as long as no failure was lost, no more wrong passwords are
\* compared than the threshold and the requests that were past the check already.
ThrottleHolds ==
  /\ \A k \in Counter : (count[k] > 0) = (ttl[k] > 0)
  /\ \A k \in Counter \ {"login_fail"} :
       admitted[k] <= MaxRequests[k] /\ admitted[k] <= count[k]
  /\ ~forgotten => guesses < MaxRequests["login_fail"] + Cardinality(Visit)
=============================================================================
