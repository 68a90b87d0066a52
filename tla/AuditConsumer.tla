--------------------------- MODULE AuditConsumer ---------------------------
(***************************************************************************)
(* The Kafka consumer that writes the audit log: one message at a time,    *)
(* retried in place, its offset committed once it is resolved.  The        *)
(* committed offset names the next record to read; a restart reads from    *)
(* there.                                                                  *)
(***************************************************************************)
EXTENDS Topics

CONSTANTS
  Malformed,      \* events the handler can never record
  MAX_ATTEMPTS    \* handler calls per message

ASSUME ConsumerAssumption ==
  /\ Malformed \subseteq Event
  /\ MAX_ATTEMPTS \in Nat \ {0}

VARIABLES
  committed,   \* per partition, the committed offset: how many are done with
  position,    \* per partition, the next record to read is position + 1
  at,          \* "off", "next", "handle", "backoff" or "commit"
  part,        \* the partition of the message at hand
  attempt,     \* the handler call it is at
  stopping,    \* the shutdown signal
  audit,       \* the event ids in audit_log
  givenUp      \* the events dropped with an error in the log

message      == <<part, attempt>>
consumerVars == <<committed, position, at, message, stopping, audit, givenUp>>

ConsumerTypeOK ==
  /\ committed \in [Partition -> Nat]
  /\ position \in [Partition -> Nat]
  /\ at \in {"off", "next", "handle", "backoff", "commit"}
  /\ part \in Partition
  /\ attempt \in 1..MAX_ATTEMPTS
  /\ stopping \in BOOLEAN
  /\ audit \subseteq Event
  /\ givenUp \subseteq Event

ConsumerInit ==
  /\ committed = [p \in Partition |-> 0]
  /\ position = [p \in Partition |-> 0]
  /\ at = "off"
  /\ part \in Partition
  /\ attempt = 1
  /\ stopping = FALSE
  /\ audit = {}
  /\ givenUp = {}

\* The message at hand.
Current == log[part][position[part]]

Mut_Start ==
  /\ at = "off"
  /\ at' = "next" /\ stopping' = FALSE /\ position' = [p \in Partition |-> 0]
  /\ UNCHANGED <<committed, message, audit, givenUp>>
\* The process starts; the group resumes from the committed offsets.
Start ==
  /\ at = "off"
  /\ at' = "next" /\ stopping' = FALSE /\ position' = committed
  /\ UNCHANGED <<committed, message, audit, givenUp>>

Shutdown ==
  /\ at # "off" /\ ~stopping /\ stopping' = TRUE
  /\ UNCHANGED <<committed, position, at, message, audit, givenUp>>

\* The select is biased: a shutdown wins over a message.
Pull ==
  /\ at = "next" /\ ~stopping
  /\ \E p \in Partition :
       /\ position[p] < Len(log[p])
       /\ part' = p
       /\ position' = [position EXCEPT ![p] = @ + 1]
  /\ at' = "handle" /\ attempt' = 1
  /\ UNCHANGED <<committed, stopping, audit, givenUp>>

Mut_Exit ==
  /\ at = "next" /\ stopping /\ \E p \in Partition : position[p] < Len(log[p])
  /\ at' = "off"
  /\ UNCHANGED <<committed, position, message, stopping, audit, givenUp>>
Exit ==
  /\ at = "next" /\ stopping
  /\ at' = "off"
  /\ UNCHANGED <<committed, position, message, stopping, audit, givenUp>>

\* INSERT ... ON CONFLICT (id) DO NOTHING.
HandleOk ==
  /\ at = "handle" /\ Current \notin Malformed
  /\ audit' = audit \cup {Current}
  /\ at' = "commit"
  /\ UNCHANGED <<committed, position, message, stopping, givenUp>>

HandlePoison ==
  /\ at = "handle" /\ Current \in Malformed
  /\ givenUp' = givenUp \cup {Current}
  /\ at' = "commit"
  /\ UNCHANGED <<committed, position, message, stopping, audit>>

LastAttempt == attempt >= MAX_ATTEMPTS

Mut_HandleTransient ==
  /\ at = "handle" /\ Current \notin Malformed
  /\ at' = "next"
  /\ UNCHANGED <<committed, position, message, stopping, audit, givenUp>>
\* The database fails the insert, or fails to say that it succeeded.
HandleTransient ==
  /\ at = "handle" /\ Current \notin Malformed
  /\ \/ UNCHANGED audit
     \/ audit' = audit \cup {Current}
  /\ \/ ~LastAttempt /\ at' = "backoff" /\ UNCHANGED givenUp
     \/ LastAttempt /\ at' = "commit" /\ givenUp' = givenUp \cup {Current}
  /\ UNCHANGED <<committed, position, message, stopping>>

\* After the backoff the handler is called again, unless the shutdown came.
Backoff ==
  /\ at = "backoff"
  /\ \/ at' = "handle" /\ attempt' = attempt + 1
     \/ stopping /\ at' = "off" /\ UNCHANGED attempt
  /\ UNCHANGED <<committed, position, part, stopping, audit, givenUp>>

\* The asynchronous commit of offset + 1 reaches the broker or fails; a failure
\* is logged and the loop goes on.
Commit ==
  /\ at = "commit"
  /\ \/ committed' = [committed EXCEPT ![part] = position[part]]
     \/ UNCHANGED committed
  /\ at' = "next"
  /\ UNCHANGED <<position, message, stopping, audit, givenUp>>

\* The process dies, or the group takes the partitions away.
Crash ==
  /\ at # "off" /\ at' = "off"
  /\ UNCHANGED <<committed, position, message, stopping, audit, givenUp>>

ConsumerNext == Start \/ Shutdown \/ Pull \/ Exit \/ HandleOk \/ HandlePoison
                  \/ HandleTransient \/ Backoff \/ Commit \/ Crash

\* A running consumer takes its steps, and a stopped one is started again.
ConsumerFairness ==
  WF_consumerVars(Start \/ Pull \/ Exit \/ HandleOk \/ HandlePoison \/ HandleTransient
                    \/ Backoff \/ Commit)

-----------------------------------------------------------------------------
\* consumer.rs `run`: "no later offset is ever committed past a message that
\* hasn't resolved yet".  Every record below a committed offset is in the audit
\* log or was given up, across failed commits, crashes and redeliveries.
NothingSkipped == \A p \in Partition : \A i \in 1..committed[p] :
  log[p][i] \in audit \cup givenUp

\* A committed offset is never taken back: redelivery after a crash or a failed
\* commit does not rewind the group.
CommitsForward == [][\A p \in Partition : committed[p] <= committed'[p]]_consumerVars

\* main.rs teardown joins the consumer task: a shutdown signal ends the loop,
\* between messages or in a backoff, however little traffic there is.
ShutdownCompletes == stopping ~> at = "off"
=============================================================================
