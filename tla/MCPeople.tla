----------------------------- MODULE MCPeople ------------------------------
(***************************************************************************)
(* Access, accounts, people and the process they are served by, side by    *)
(* side for TLC: a behaviour is one part's, chosen at the start, and the   *)
(* others stay at one of their initial states.  Nothing passes between the *)
(* parts.                                                                  *)
(***************************************************************************)
EXTENDS AccessCache, Throttle, Otp, Registration, Conversations, Coaches, Seed,
        Lifecycle

CONSTANTS
  SettledOwner,       \* who verified a phone before the part "otp" begins
  FirstTalker,        \* who is a coach when the part "conversations" begins
  FirstCoach          \* whose hours the part "coaches" replaces

VARIABLE part

Part == {"access", "throttle", "otp", "registration", "conversations", "coaches",
         "seed", "life"}

\* What the parts are instantiated with, where a .cfg cannot say it.
Thresholds == [k \in Counter |-> IF k = "global" THEN 2 ELSE 1]
Windows    == [k \in Counter |-> IF k = "login_fail" THEN 2 ELSE 1]
Verified   == [s \in Sub |-> Address]
HoursOf    == [e \in {"am", "pm", "day"} |->
                 CASE e = "am" -> {1} [] e = "pm" -> {2} [] OTHER -> {1, 2}]
Buys3      == [p \in {"k1", "k2", "k3"} |->
                 CASE p = "k1" -> [buyer |-> "m", lines |-> {"x"}, earns |-> 0, enrols |-> TRUE, target |-> "paid"]
                   [] p = "k2" -> [buyer |-> "m", lines |-> {"x", "y"}, earns |-> 1, enrols |-> FALSE,
                                   target |-> "refunded"]
                   [] OTHER    -> [buyer |-> "m", lines |-> {"y"}, earns |-> 0, enrols |-> FALSE,
                                   target |-> "completed"]]
Sliding    == <<<<[of |-> "k1", ts |-> 0], [of |-> "k2", ts |-> 1]>>,
                <<[of |-> "k2", ts |-> 0], [of |-> "k1", ts |-> 1], [of |-> "k3", ts |-> 2]>>>>
Unpaid     == <<{}, {"q"}>>
Asked      == <<{"i"}, {"i"}>>
SlotsOf1   == <<{"s1", "s2"}>>
FromDay1   == <<1, 1>>
Given      == [a \in Holder |-> IF a = "t" THEN 1 ELSE 0]
Settled    == <<"m">>
Balances2  == [a \in {"m"} |-> 2]

-----------------------------------------------------------------------------
\* A part that is not the one chosen starts in one state.
PeopleInit ==
  /\ part \in Part
  /\ Init /\ ThrottleInit /\ RegInit /\ CoachesInit
  /\ OtpInit
  /\ \A u \in Owner : phone_verified[u] <=> u = SettledOwner
  /\ phone[SettledOwner] = CHOOSE p \in Phone : TRUE
  /\ ConversationInit
  /\ IF part = "conversations" THEN FirstTalker \in isCoach ELSE isCoach = {}
  /\ SeedInit
  /\ part # "seed" => legacy = FALSE /\ \A r \in Row : wrote[r] = "none"
  /\ LifeInit
  /\ part # "life" => setting = CHOOSE s \in Setting : TRUE

\* The owner who is settled only stands in the way of the other; the second code is
\* tried when the first has been counted and nothing else is under way.
OtpAlone ==
  /\ OtpNext /\ \A a \in Act : act'[a].of # SettledOwner
  /\ tries = 1 /\ tries' = 2 =>
       (\E u \in Owner : attempts[u] > 0) /\ \A a \in Act : act[a].at = "idle"

\* Conversations are opened before anything is sent, never at the same time; roles
\* change while one is being opened.
TalkAlone ==
  /\ ConversationNext
  /\ \/ messages = {} /\ \A s \in Sending : sending'[s] = Silent
     \/ \A r \in Opening : opening'[r].at = "idle"
  /\ people' # people => \E r \in Opening : opening[r].at # "idle"

\* The profiles change until the first week is replaced, which is FirstCoach's; it is
\* whole before the next replacements begin.  Of the weeks that overlap themselves one
\* is asked for.
CoachesAlone ==
  /\ CoachesNext
  /\ wanted # <<>> => UNCHANGED <<coachRows, onShift, shifts>>
  /\ wanted = <<>> /\ wanted' # <<>> =>
       /\ profiles = [p \in Person |-> IF p = FirstCoach THEN [slug |-> NoSlug, active |-> TRUE, is |-> TRUE]
                                       ELSE NoProfile]
       /\ revoked = {} /\ onShift = {} /\ \A p \in Person : shifts[p] = 0
       /\ \A d \in Desk : desk'[d].of = FirstCoach
  /\ wanted' # wanted => ~({"pm", "day"} \subseteq wanted'[Len(wanted')])
  /\ Len(wanted) = 1 /\ wanted' # wanted => \A d \in Desk : desk[d].at = "idle"

\* Every setting is loaded, validated and connected with; one of them goes on to serve.
LifeAlone ==
  /\ LifeNext
  /\ life' = "serving" => setting = [env |-> "production", secret |-> "strong", origins |-> TRUE,
                                     local |-> FALSE, smtp |-> TRUE, kafka |-> TRUE]

PeopleNext ==
  /\ UNCHANGED part
  /\ IF part = "access"        THEN Next         ELSE UNCHANGED accessVars
  /\ IF part = "throttle"      THEN ThrottleNext ELSE UNCHANGED throttleVars
  /\ IF part = "otp"           THEN OtpAlone     ELSE UNCHANGED otpVars
  /\ IF part = "registration"  THEN RegNext      ELSE UNCHANGED regVars
  /\ IF part = "conversations" THEN TalkAlone    ELSE UNCHANGED talkVars
  /\ IF part = "coaches"       THEN CoachesAlone ELSE UNCHANGED coachVars
  /\ IF part = "seed"          THEN SeedNext     ELSE UNCHANGED seedVars
  /\ IF part = "life"          THEN LifeAlone    ELSE UNCHANGED lifeVars

peopleVars == <<part, accessVars, throttleVars, otpVars, regVars, talkVars, coachVars,
                seedVars, lifeVars>>

\* The fairness of AccessCache, for its own part.
InAccess(step) == part = "access" /\ step
PeopleSpec == /\ PeopleInit /\ [][PeopleNext]_peopleVars
              /\ WF_accessVars(InAccess(Tick))
              /\ \A r \in Request : WF_accessVars(InAccess(Resolve(r)))

=============================================================================
