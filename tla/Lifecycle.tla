----------------------------- MODULE Lifecycle -----------------------------
(***************************************************************************)
(* The life of the server's process: what it is configured with and        *)
(* whether it starts, the background loops it runs beside its requests,    *)
(* and how it stops: the requests first, then the mails they left behind,  *)
(* then the loops one by one, then the connection pool, all of it within a *)
(* deadline.  Time is counted in the five seconds a mail is waited for.    *)
(*                                                                         *)
(* A definition named Mut_X is a plausible wrong X, kept beside it to show *)
(* that the properties tell the two apart; nothing else uses it.           *)
(***************************************************************************)
EXTENDS Integers, FiniteSets

CONSTANTS
  Call,            \* the requests of a run
  SHUTDOWN_DEADLINE, DRAIN_BUDGET

\* The deadline leaves time for more than the mails.
ASSUME LifeAssumption ==
  DRAIN_BUDGET \in Nat /\ SHUTDOWN_DEADLINE \in Nat /\ DRAIN_BUDGET < SHUTDOWN_DEADLINE

Loops == {"consumer", "dispatcher", "cleanup"}
Setting == [env : {"development", "staging", "production"},
            secret : {"empty", "short", "placeholder", "strong"},
            origins : BOOLEAN, local : BOOLEAN, smtp : BOOLEAN, kafka : BOOLEAN]

VARIABLES
  setting,         \* AppConfig and APP_ENV, as far as the start looks at them
  life,            \* where main is
  told,            \* the shutdown channel
  loops,           \* per loop: "none", "waiting", "working" or "over"
  inFlight, mails, \* per request: "none", "busy" or "done"; "none", "sending" or "over"
  spent,           \* since the teardown began
  drainLate, cut,  \* the mails', or the whole teardown's, time ran out
  pool             \* "none", "open" or "closed"

mainVars == <<setting, told, drainLate, cut>>
lifeVars == <<mainVars, life, loops, inFlight, mails, spent, pool>>

LifeInit ==
  /\ setting \in Setting /\ life = "loading" /\ told = FALSE
  /\ loops = [l \in Loops |-> "none"]
  /\ inFlight = [c \in Call |-> "none"] /\ mails = [c \in Call |-> "none"]
  /\ spent = 0 /\ drainLate = FALSE /\ cut = FALSE /\ pool = "none"

-----------------------------------------------------------------------------
\* AppConfig::load refuses more environments than validate_production_config does.
LongEnough(s) == s.secret \notin {"empty", "short"}
load(s) ==
  /\ s.secret # "empty"
  /\ s.env # "development" => LongEnough(s) /\ s.secret # "placeholder"
validate_production_config(s) ==
  s.env = "production" =>
    LongEnough(s) /\ s.secret # "placeholder" /\ s.origins /\ ~s.local /\ s.smtp

Load ==
  /\ life = "loading" /\ life' = IF load(setting) THEN "validating" ELSE "refused"
  /\ UNCHANGED <<mainVars, loops, inFlight, mails, spent, pool>>
Validate ==
  /\ life = "validating"
  /\ life' = IF validate_production_config(setting) THEN "connecting" ELSE "refused"
  /\ UNCHANGED <<mainVars, loops, inFlight, mails, spent, pool>>

\* A database or a Redis that cannot be reached, or a migration that fails, stops the
\* start; a broker that cannot only leaves its loops out, each on its own.
Connect ==
  /\ life = "connecting"
  /\ \/ life' = "refused" /\ pool' \in {"none", "open"} /\ UNCHANGED loops
     \/ /\ life' = "binding" /\ pool' = "open"
        /\ \E up \in SUBSET {"consumer", "dispatcher"} :
             /\ up # {} => setting.kafka
             /\ loops' = [l \in Loops |-> IF l \in up \cup {"cleanup"} THEN "waiting" ELSE "none"]
  /\ UNCHANGED <<mainVars, inFlight, mails, spent>>
Bind ==
  /\ life = "binding" /\ life' \in {"serving", "refused"}
  /\ UNCHANGED <<mainVars, loops, inFlight, mails, spent, pool>>

-----------------------------------------------------------------------------
\* A request may leave a mail behind: its task is on the tracker before the answer is.
AcceptCall(c) ==
  /\ life = "serving" /\ inFlight[c] = "none" /\ inFlight' = [inFlight EXCEPT ![c] = "busy"]
  /\ UNCHANGED <<mainVars, life, loops, mails, spent, pool>>
AnswerCall(c) ==
  /\ life \in {"serving", "stopping"} /\ inFlight[c] = "busy"
  /\ inFlight' = [inFlight EXCEPT ![c] = "done"]
  /\ \E m \in {"none", "sending"} : mails' = [mails EXCEPT ![c] = m]
  /\ UNCHANGED <<mainVars, life, loops, spent, pool>>
MailOver(c) ==
  /\ mails[c] = "sending" /\ life # "exited" /\ mails' = [mails EXCEPT ![c] = "over"]
  /\ UNCHANGED <<mainVars, life, loops, inFlight, spent, pool>>

\* A loop looks at the channel before its timer (biased), and not while it works.
StartPass(l) ==
  /\ loops[l] = "waiting" /\ ~told /\ life \notin {"exited", "refused"}
  /\ loops' = [loops EXCEPT ![l] = "working"]
  /\ UNCHANGED <<mainVars, life, inFlight, mails, spent, pool>>
EndPass(l) ==
  /\ loops[l] = "working" /\ life \notin {"exited", "refused"}
  /\ loops' = [loops EXCEPT ![l] = "waiting"]
  /\ UNCHANGED <<mainVars, life, inFlight, mails, spent, pool>>
LoopOver(l) ==
  /\ loops[l] = "waiting" /\ told /\ life \notin {"exited", "refused"}
  /\ loops' = [loops EXCEPT ![l] = "over"]
  /\ UNCHANGED <<mainVars, life, inFlight, mails, spent, pool>>

-----------------------------------------------------------------------------
\* The signal closes the listener; the server returns when its requests have.
Signal ==
  /\ life = "serving" /\ life' = "stopping"
  /\ UNCHANGED <<mainVars, loops, inFlight, mails, spent, pool>>
HttpStopped ==
  /\ life = "stopping" /\ \A c \in Call : inFlight[c] # "busy"
  /\ life' = "draining" /\ told' = TRUE
  /\ UNCHANGED <<setting, drainLate, cut, loops, inFlight, mails, spent, pool>>

\* The tracker that is waited for is the one the mails are on.
Mut_Drain ==
  /\ life = "draining" /\ life' = "consumer" /\ UNCHANGED drainLate
  /\ UNCHANGED <<setting, told, cut, loops, inFlight, mails, spent, pool>>
Drain ==
  /\ life = "draining" /\ life' = "consumer"
  /\ \/ (\A c \in Call : mails[c] # "sending") /\ UNCHANGED drainLate
     \/ spent >= DRAIN_BUDGET /\ drainLate' = TRUE
  /\ UNCHANGED <<setting, told, cut, loops, inFlight, mails, spent, pool>>

AfterJoin(l) == CASE l = "consumer" -> "dispatcher" [] l = "dispatcher" -> "cleanup" [] OTHER -> "closing"
Join(l) ==
  /\ life = l /\ loops[l] \in {"none", "over"} /\ life' = AfterJoin(l)
  /\ UNCHANGED <<mainVars, loops, inFlight, mails, spent, pool>>
ClosePool ==
  /\ life = "closing" /\ life' = "exited" /\ pool' = "closed"
  /\ UNCHANGED <<mainVars, loops, inFlight, mails, spent>>

\* The deadline drops the teardown wherever it is.
TearingDown == life \in {"draining", "closing"} \cup Loops
CutShort ==
  /\ TearingDown /\ spent = SHUTDOWN_DEADLINE /\ life' = "exited" /\ cut' = TRUE
  /\ UNCHANGED <<setting, told, drainLate, loops, inFlight, mails, spent, pool>>
TimeGoes ==
  /\ TearingDown /\ spent < SHUTDOWN_DEADLINE
  /\ life = "draining" => spent < DRAIN_BUDGET
  /\ spent' = spent + 1 /\ UNCHANGED <<mainVars, life, loops, inFlight, mails, pool>>

LifeNext ==
  \/ Load \/ Validate \/ Connect \/ Bind \/ Signal \/ HttpStopped \/ Drain \/ ClosePool
  \/ CutShort \/ TimeGoes
  \/ \E c \in Call : AcceptCall(c) \/ AnswerCall(c) \/ MailOver(c)
  \/ \E l \in Loops : StartPass(l) \/ EndPass(l) \/ LoopOver(l) \/ Join(l)

LifeSpec == LifeInit /\ [][LifeNext]_lifeVars

-----------------------------------------------------------------------------
\* main.rs and config/mod.rs: a server that comes up has a secret of its own outside
\* development and in production no default left over, and what load lets through
\* validate does not refuse for its secret; the pool is closed only when no request and
\* no loop can come to it any more; and a process that is not cut short by its deadline
\* has let every request finish and every mail it took on be sent, unless the mails alone
\* had their five seconds.
ShutdownIsOrderly ==
  /\ life \notin {"loading", "validating", "refused"} =>
       /\ setting.secret # "empty"
       /\ setting.env # "development" => setting.secret = "strong"
       /\ setting.env = "production" => setting.origins /\ ~setting.local /\ setting.smtp
  /\ life = "validating" => LongEnough(setting) \/ setting.env = "development"
  /\ pool = "closed" => /\ \A l \in Loops : loops[l] \in {"none", "over"}
                        /\ \A c \in Call : inFlight[c] # "busy"
  /\ life = "exited" =>
       /\ pool = "closed" \/ (cut /\ spent = SHUTDOWN_DEADLINE)
       /\ \A c \in Call : inFlight[c] # "busy" /\ (mails[c] = "sending" => drainLate /\ spent >= DRAIN_BUDGET)
=============================================================================
