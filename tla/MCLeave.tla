------------------------------ MODULE MCLeave ------------------------------
(***************************************************************************)
(* Members, sessions, requests and rows are interchangeable.  What makes a *)
(* session full and what is marked in it meet in no property, so one run   *)
(* explores two parts side by side: three sessions before any has begun,   *)
(* and marking in one session, of members enrolled from the start, with no *)
(* makeups, where whoever marks a member `leave' marks nobody else and     *)
(* meets no other marking.                                                 *)
(***************************************************************************)
EXTENDS Leave, TLC

VARIABLE part

MCSymmetry == Permutations(Enrolment) \cup Permutations(Session)
                \cup Permutations(Leave) \cup Permutations(Tx)

OneSession == \E s \in Session :
  /\ started \subseteq {s}
  /\ \A l \in Leave : session[l] \in {s, None}
  /\ \A t \in Tx : req[t].session \in {s, None} /\ req[t].kind # "makeup"

AllEnrolled == \A e \in Enrolment : enrolled[e] # "none"

Marking(t) == req[t].kind = "mark"

LeaveMarkedAlone ==
  \A t \in Tx : Marking(t) =>
    \A m \in todo[t] : m[2] = "leave" => \A u \in Tx : Marking(u) => todo[u] \subseteq {m}

OneMarking == OneSession /\ AllEnrolled /\ LeaveMarkedAlone

MCInit == Init /\ part \in {"seats", "marks"} /\ (part = "marks" => AllEnrolled)
MCNext == /\ Next /\ UNCHANGED part
          /\ (IF part = "seats" THEN started = {} ELSE OneMarking)'
MCSpec == MCInit /\ [][MCNext]_<<leaveVars, part>>
=============================================================================
