----------------------------- MODULE MCSessions -----------------------------
(***************************************************************************)
(* Sessions and reset links on small instances.  The two meet only where a *)
(* followed link ends the sessions of its user, which Sessions has as a    *)
(* request of its own: they are explored side by side, one per behaviour,  *)
(* as `part' says.  Requests in flight are interchangeable.                *)
(***************************************************************************)
EXTENDS Sessions, TLC

CONSTANTS LinkUser, LinkToken, LinkRequest

ASSUME LinkAssumption == LinkUser # {} /\ LinkToken \subseteq Nat \ {0}

VARIABLES part, of, live, index, made, mailed, used, raced, at, asker, link, previous

linkVars == <<of, live, index, made, mailed, used, raced, at, asker, link, previous>>

Links == INSTANCE ResetTokens WITH
  User <- LinkUser, Token <- LinkToken, Request <- LinkRequest, pc <- at, user <- asker, token <- link

BothInit == Init /\ Links!Init /\ part \in {"sessions", "links"}

BothNext ==
  \/ part = "sessions" /\ Next /\ UNCHANGED <<part, linkVars>>
  \/ part = "links" /\ Links!Next /\ UNCHANGED <<part, sessionsVars>>

BothSpec == BothInit /\ [][BothNext]_<<part, sessionsVars, linkVars>>

\* reset_tokens.rs: a link is followed with effect once, and only the newest
\* works, unless requests raced or the store failed between two writes.
LinksHold == Links!UsedOnce /\ Links!NewestUnlessRaced

Symmetry == Permutations(Tx) \cup Permutations(LinkRequest)
=============================================================================
