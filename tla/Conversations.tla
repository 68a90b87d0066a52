--------------------------- MODULE Conversations ---------------------------
(***************************************************************************)
(* Conversations between a coach and a member: opening one, sending, the   *)
(* inbox, and marking as read.  Who is the coach of a pair is decided from *)
(* roles that may change, so two people who are both may open the same     *)
(* conversation from both sides.  A message and the time its conversation  *)
(* was last written to carry the start of their transaction.               *)
(*                                                                         *)
(* A definition named Mut_X is a plausible wrong X, kept beside it to show *)
(* that the properties tell the two apart; nothing else uses it.           *)
(***************************************************************************)
EXTENDS Integers, FiniteSets, Functions

CONSTANTS
  Talker, Opening, Sending, NoTalker,
  MaxTime, MaxMessages, MaxRoleChanges   \* bounds

ASSUME TalkAssumption == NoTalker \notin Talker

Unsent == -1                    \* last_message_at IS NULL

VARIABLES
  time,
  isCoach, isMember,            \* who holds either role
  roleChanges,
  conversations,                \* the rows: <<member, coach>>
  last_message_at,              \* per pair of people
  messages,                     \* records: of, from, at, n, read_by
  opening,                      \* per request to open: where it is, whose, the pair, the answer
  sending                       \* per transaction that sends: where it is, what it writes

talkVars == <<time, isCoach, isMember, roleChanges, conversations, last_message_at,
              messages, opening, sending>>

Pair == {p \in SUBSET Talker : Cardinality(p) = 2}
both(c) == {c[1], c[2]}
Shut == [at |-> "idle", caller |-> NoTalker, target |-> NoTalker, coach |-> FALSE, member |-> FALSE,
         row |-> <<NoTalker, NoTalker>>]
Silent == [at |-> "idle", from |-> NoTalker, pair |-> {}, now |-> 0]

ConversationInit ==
  /\ time = 0 /\ isCoach \in SUBSET Talker /\ isMember = Talker /\ roleChanges = 0
  /\ conversations = {} /\ last_message_at = [p \in Pair |-> Unsent] /\ messages = {}
  /\ opening = [r \in Opening |-> Shut] /\ sending = [s \in Sending |-> Silent]

people == <<isCoach, isMember, roleChanges>>
talk   == <<conversations, last_message_at, messages>>

\* An administrator grants or takes away a role; time passes.
ChangeRole(p) ==
  /\ roleChanges < MaxRoleChanges /\ roleChanges' = roleChanges + 1
  /\ \/ isCoach' = (isCoach \cup {p}) \ (isCoach \cap {p}) /\ UNCHANGED isMember
     \/ isMember' = (isMember \cup {p}) \ (isMember \cap {p}) /\ UNCHANGED isCoach
  /\ UNCHANGED <<time, talk, opening, sending>>
TimeTicks ==
  time < MaxTime /\ time' = time + 1 /\ UNCHANGED <<people, talk, opening, sending>>

-----------------------------------------------------------------------------
\* The caller on the coach side, if the caller can be; otherwise on the member side.
resolve_pair(caller, coach, member, target) ==
  IF coach /\ target \in isMember THEN <<target, caller>>
  ELSE IF member /\ target \in isCoach THEN <<caller, target>>
  ELSE <<NoTalker, NoTalker>>

\* The caller's roles are those the request was authenticated with.
AskConversation(r, caller, target) ==
  /\ opening[r].at = "idle" /\ caller # target
  /\ opening' = [opening EXCEPT ![r] =
       [Shut EXCEPT !.at = "roles", !.caller = caller, !.target = target,
                    !.coach = caller \in isCoach, !.member = caller \in isMember]]
  /\ UNCHANGED <<time, people, talk, sending>>

resolve_member_coach(r) ==
  LET o == opening[r]
      row == resolve_pair(o.caller, o.coach, o.member, o.target) IN
  /\ o.at = "roles"
  /\ opening' = [opening EXCEPT ![r] = IF row[1] = NoTalker THEN Shut
                                       ELSE [o EXCEPT !.at = "find", !.row = row]]
  /\ UNCHANGED <<time, people, talk, sending>>

\* find_by_user_pair looks on both sides, before the insertion and after it failed.
existing(row) == {c \in conversations : both(c) = both(row)}
Tell(r, c) == opening' = [opening EXCEPT ![r].at = "told", ![r].row = c]

find_by_user_pair(r) ==
  LET found == existing(opening[r].row) IN
  /\ opening[r].at \in {"find", "again"}
  /\ \/ \E c \in found : Tell(r, c)
     \/ /\ found = {} /\ opening[r].at = "find"
        /\ opening' = [opening EXCEPT ![r].at = "insert"]
  /\ UNCHANGED <<time, people, talk, sending>>

\* conversations_unique_user_pair is on the unordered pair.
Mut_insert(r) ==
  LET row == opening[r].row IN
  /\ opening[r].at = "insert"
  /\ \/ /\ row \in conversations /\ opening' = [opening EXCEPT ![r].at = "again"]
        /\ UNCHANGED conversations
     \/ /\ row \notin conversations /\ conversations' = conversations \cup {row} /\ Tell(r, row)
  /\ UNCHANGED <<time, people, last_message_at, messages, sending>>
insert(r) ==
  LET row == opening[r].row IN
  /\ opening[r].at = "insert"
  /\ \/ /\ existing(row) # {} /\ opening' = [opening EXCEPT ![r].at = "again"]
        /\ UNCHANGED conversations
     \/ /\ existing(row) = {} /\ conversations' = conversations \cup {row} /\ Tell(r, row)
  /\ UNCHANGED <<time, people, last_message_at, messages, sending>>

Hear(r) ==
  /\ opening[r].at = "told" /\ opening' = [opening EXCEPT ![r] = Shut]
  /\ UNCHANGED <<time, people, talk, sending>>

-----------------------------------------------------------------------------
\* send_message: authorize_participant, then a transaction whose NOW() is its start.
BeginSend(s, from, c) ==
  /\ sending[s].at = "idle" /\ c \in conversations /\ from \in both(c)
  /\ Cardinality(messages) + Cardinality({u \in Sending : sending[u].at # "idle"}) < MaxMessages
  /\ sending' = [sending EXCEPT ![s] =
                   [at |-> "insert", from |-> from, pair |-> both(c), now |-> time]]
  /\ UNCHANGED <<time, people, talk, opening>>

\* Both transactions insert freely; the second to update the conversation waits.
touch_last_message_at_tx(s) ==
  /\ sending[s].at = "insert"
  /\ \A u \in Sending \ {s} : sending[u].at = "touched" => sending[u].pair # sending[s].pair
  /\ sending' = [sending EXCEPT ![s].at = "touched"]
  /\ UNCHANGED <<time, people, talk, opening>>

CommitSend(s) ==
  LET w == sending[s] IN
  /\ w.at = "touched"
  /\ messages' = messages \cup {[of |-> w.pair, from |-> w.from, at |-> w.now,
                                 n |-> Cardinality(messages), read_by |-> NoTalker]}
  /\ last_message_at' = [last_message_at EXCEPT ![w.pair] = w.now]
  /\ sending' = [sending EXCEPT ![s] = Silent]
  /\ UNCHANGED <<time, people, conversations, opening>>

\* mark_read: one statement over what is committed when it runs.
mark_read(p, by) ==
  /\ by \in p /\ \E m \in messages : m.of = p /\ m.from # by /\ m.read_by = NoTalker
  /\ messages' = {IF m.of = p /\ m.from # by /\ m.read_by = NoTalker
                  THEN [m EXCEPT !.read_by = by] ELSE m : m \in messages}
  /\ UNCHANGED <<time, people, conversations, last_message_at, opening, sending>>

ConversationNext ==
  \/ TimeTicks \/ \E p \in Talker : ChangeRole(p)
  \/ \E r \in Opening : resolve_member_coach(r) \/ find_by_user_pair(r) \/ insert(r) \/ Hear(r)
  \/ \E r \in Opening, a, b \in Talker : AskConversation(r, a, b)
  \/ \E s \in Sending : touch_last_message_at_tx(s) \/ CommitSend(s)
  \/ \E s \in Sending, a \in Talker, c \in conversations : BeginSend(s, a, c)
  \/ \E p \in Pair, a \in Talker : mark_read(p, a)

ConversationSpec == ConversationInit /\ [][ConversationNext]_talkVars

-----------------------------------------------------------------------------
\* find_my_conversations, one record per conversation of the user; and the badge.
find_my_conversations(u) ==
  {[peer   |-> CHOOSE p \in both(c) : p # u,
    row    |-> c,
    unread |-> Cardinality({m \in messages : /\ m.of = both(c) /\ m.from # u
                                              /\ m.read_by = NoTalker})]
     : c \in {d \in conversations : u \in both(d)}}
count_unread_for_user(u) ==
  Cardinality({m \in messages : u \in m.of /\ m.from # u /\ m.read_by = NoTalker})

\* messages/service.rs `create_conversation': whoever opens it, from whichever side and at
\* the same time, two people have one conversation and both are told of that one; their
\* inboxes list each other once and add up to the badge; nobody marks their own words as
\* read; and a conversation bears the time of one of its messages as soon as it has any.
OneConversation ==
  /\ \A c, d \in conversations : both(c) = both(d) => c = d
  /\ \A r \in Opening : opening[r].at = "told" => opening[r].row \in conversations
  /\ \A r \in Opening : opening[r].at = "again" => existing(opening[r].row) # {}
  /\ \A u \in Talker :
       /\ \A c, d \in find_my_conversations(u) : c.peer = d.peer => c = d
       /\ SumFunctionOnSet([c \in find_my_conversations(u) |-> c.unread], find_my_conversations(u))
            = count_unread_for_user(u)
  /\ \A m \in messages : m.read_by # NoTalker => {m.from, m.read_by} = m.of
  /\ \A p \in Pair : IF \E m \in messages : m.of = p
                     THEN \E m \in messages : m.of = p /\ m.at = last_message_at[p]
                     ELSE last_message_at[p] = Unsent
=============================================================================
