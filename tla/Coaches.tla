------------------------------ MODULE Coaches ------------------------------
(***************************************************************************)
(* Coaches: an admin makes a user a coach, a coach or an admin replaces    *)
(* the coach's weekly hours, and the coach clocks in and out.              *)
(*                                                                         *)
(* Hours are replaced by a DELETE and an INSERT per entry, in one          *)
(* transaction that locks nothing first.  The DELETE takes away what was   *)
(* committed when it began; an INSERT that overlaps a row of a transaction *)
(* under way waits for it.                                                 *)
(*                                                                         *)
(* A definition named Mut_X is a plausible wrong X, kept beside it to show *)
(* that the properties tell the two apart; nothing else uses it.           *)
(***************************************************************************)
EXTENDS Integers, Sequences, FiniteSets

CONSTANTS
  Person,          \* the users who may be made coaches
  Slug,            \* and their slugs; NoSlug is a coach without one
  Hours,           \* the hours each entry of a week takes: a function on the entries
  Desk,            \* requests in progress
  MaxWeeks, MaxShifts, MaxRevocations   \* bounds

Entry == DOMAIN Hours
NoSlug == "-"
NoProfile == [slug |-> NoSlug, active |-> FALSE, is |-> FALSE]
Quiet == [at |-> "idle", of |-> CHOOSE u \in Person : TRUE, slug |-> NoSlug, active |-> FALSE,
          week |-> 0, todo |-> {}, gone |-> {}, added |-> {}, beside |-> {}]

VARIABLES
  profiles,        \* coaches, per user
  roleHolders,     \* the users with the role "coach"
  revoked,         \* history: the users an admin took that role from
  week,            \* coach_schedules, per coach: a set of [by, entry]
  wanted,          \* history: what each replacement asked for
  latest,          \* history, per coach: the last replacement, and those committed while it ran
  onShift, shifts, \* the open clock record, and the closed ones, per coach
  desk             \* the requests in progress

coachRows == <<profiles, roleHolders, revoked>>
weekRows  == <<week, wanted, latest>>
coachVars == <<coachRows, weekRows, onShift, shifts, desk>>

CoachesInit ==
  /\ profiles = [u \in Person |-> NoProfile] /\ roleHolders = {} /\ revoked = {}
  /\ week = [u \in Person |-> {}] /\ wanted = <<>>
  /\ latest = [u \in Person |-> [by |-> 0, beside |-> {}]]
  /\ onShift = {} /\ shifts = [u \in Person |-> 0] /\ desk = [d \in Desk |-> Quiet]

GoOn(d, r) == desk' = [desk EXCEPT ![d] = r]
Clash(e, f) == Hours[e] \cap Hours[f] # {}
Others(d) == {e \in Desk \ {d} : desk[e].at # "idle" /\ desk[e].of = desk[d].of}

\* A request that fails, or a process that stops, rolls its transaction back.  So does
\* the one PostgreSQL picks of two that wait for one another.
FailDesk(d) ==
  /\ desk[d].at # "idle" /\ GoOn(d, Quiet) /\ UNCHANGED <<coachRows, weekRows, onShift, shifts>>

-----------------------------------------------------------------------------
\* create_coach.  The row and the role are one transaction; the unique indexes make a
\* second creation wait for the first.
SlugFree(u, s) == s = NoSlug \/ \A v \in Person \ {u} : ~profiles[v].is \/ profiles[v].slug # s
InsertCoach(d, u, s, active) ==
  /\ desk[d].at = "idle" /\ ~profiles[u].is /\ SlugFree(u, s)
  /\ \A e \in Desk : desk[e].at = "granting" => desk[e].of # u /\ (desk[e].slug # s \/ s = NoSlug)
  /\ GoOn(d, [Quiet EXCEPT !.at = "granting", !.of = u, !.slug = s, !.active = active])
  /\ UNCHANGED <<coachRows, weekRows, onShift, shifts>>
CommitCoach(d) ==
  LET u == desk[d].of IN
  /\ desk[d].at = "granting"
  /\ profiles' = [profiles EXCEPT ![u] = [slug |-> desk[d].slug, active |-> desk[d].active, is |-> TRUE]]
  /\ roleHolders' = roleHolders \cup {u} /\ revoked' = revoked \ {u}
  /\ GoOn(d, Quiet) /\ UNCHANGED <<weekRows, onShift, shifts>>

\* One statement; the new slug waits for a creation that has it, and may be taken.
update_coach(u, s, active) ==
  /\ profiles[u].is /\ SlugFree(u, s)
  /\ \A e \in Desk : desk[e].at = "granting" => desk[e].slug # s \/ s = NoSlug
  /\ profiles' = [profiles EXCEPT ![u] = [slug |-> s, active |-> active, is |-> TRUE]]
  /\ profiles' # profiles /\ UNCHANGED <<roleHolders, revoked, weekRows, onShift, shifts, desk>>
RevokeCoachRole(u) ==
  /\ u \in roleHolders /\ Cardinality(revoked) < MaxRevocations
  /\ roleHolders' = roleHolders \ {u} /\ revoked' = revoked \cup {u}
  /\ UNCHANGED <<profiles, weekRows, onShift, shifts, desk>>

-----------------------------------------------------------------------------
\* update_schedules: replace_schedules after the caller was found to own the coach.  The
\* DELETE begins, and sees what is committed then.
BeginWeek(d, u, want) ==
  /\ desk[d].at = "idle" /\ profiles[u].is /\ Len(wanted) < MaxWeeks
  /\ wanted' = Append(wanted, want)
  /\ GoOn(d, [Quiet EXCEPT !.at = "deleting", !.of = u, !.week = Len(wanted) + 1,
                           !.todo = want, !.gone = week[u]])
  /\ UNCHANGED <<coachRows, week, latest, onShift, shifts>>

\* It waits for whoever is deleting the same rows, and takes those that are left.
Deleting(d) == \A e \in Others(d) : desk[e].at = "inserting" => desk[e].gone \cap desk[d].gone = {}
Mut_DeleteWeek(d) ==
  /\ desk[d].at = "deleting" /\ Deleting(d)
  /\ week' = [week EXCEPT ![desk[d].of] = @ \ desk[d].gone]
  /\ GoOn(d, [desk[d] EXCEPT !.at = "inserting", !.gone = {}])
  /\ UNCHANGED <<coachRows, wanted, latest, onShift, shifts>>
DeleteWeek(d) ==
  /\ desk[d].at = "deleting" /\ Deleting(d)
  /\ GoOn(d, [desk[d] EXCEPT !.at = "inserting", !.gone = @ \cap week[desk[d].of]])
  /\ UNCHANGED <<coachRows, weekRows, onShift, shifts>>

\* An entry waits for a row under way that it overlaps, be it inserted or deleted; one that
\* stays, or an entry of its own week, refuses it: 409, and the week is as it was.
UnderWay(d) == UNION {desk[e].added \cup (IF desk[e].at = "inserting" THEN desk[e].gone ELSE {}) : e \in Others(d)}
Blocks(d, e, rows) == \E r \in rows : Clash(r.entry, e)
InsertEntry(d, e) ==
  /\ desk[d].at = "inserting" /\ e \in desk[d].todo /\ ~Blocks(d, e, UnderWay(d))
  /\ IF Blocks(d, e, (week[desk[d].of] \ desk[d].gone) \cup desk[d].added) THEN GoOn(d, Quiet)
     ELSE GoOn(d, [desk[d] EXCEPT !.todo = @ \ {e}, !.added = @ \cup {[by |-> desk[d].week, entry |-> e]}])
  /\ UNCHANGED <<coachRows, weekRows, onShift, shifts>>
CommitWeek(d) ==
  LET u == desk[d].of IN
  /\ desk[d].at = "inserting" /\ desk[d].todo = {}
  /\ week' = [week EXCEPT ![u] = (@ \ desk[d].gone) \cup desk[d].added]
  /\ latest' = [latest EXCEPT ![u] = [by |-> desk[d].week, beside |-> desk[d].beside]]
  /\ desk' = [e \in Desk |->
                IF e = d THEN Quiet
                ELSE IF e \in Others(d) /\ desk[e].week # 0 THEN [desk[e] EXCEPT !.beside = @ \cup {desk[d].week}]
                ELSE desk[e]]
  /\ UNCHANGED <<coachRows, wanted, onShift, shifts>>

-----------------------------------------------------------------------------
\* One record at most is open: the partial unique index refuses another.
clock_in(u) ==
  /\ profiles[u].is /\ u \notin onShift /\ shifts[u] < MaxShifts /\ onShift' = onShift \cup {u}
  /\ UNCHANGED <<coachRows, weekRows, shifts, desk>>
clock_out(u) ==
  /\ u \in onShift /\ onShift' = onShift \ {u} /\ shifts' = [shifts EXCEPT ![u] = @ + 1]
  /\ UNCHANGED <<coachRows, weekRows, desk>>

CoachesNext ==
  \/ \E u \in Person : RevokeCoachRole(u) \/ clock_in(u) \/ clock_out(u)
  \/ \E u \in Person, s \in Slug \cup {NoSlug}, active \in BOOLEAN :
       update_coach(u, s, active) \/ \E d \in Desk : InsertCoach(d, u, s, active)
  \/ \E d \in Desk : FailDesk(d) \/ CommitCoach(d) \/ DeleteWeek(d) \/ CommitWeek(d)
                     \/ \E e \in Entry : InsertEntry(d, e)
                     \/ \E u \in Person, want \in SUBSET Entry : BeginWeek(d, u, want)

CoachesSpec == CoachesInit /\ [][CoachesNext]_coachVars

-----------------------------------------------------------------------------
\* coaches/repository.rs, replace_schedules and insert_tx: however replacements of one
\* coach's hours interleave, wait, fail or deadlock, the hours never overlap; they are
\* the whole of what the last replacement asked for, and besides it only the whole of
\* others that were committed while it ran; and a coach has the role, unless an admin
\* took it away since, and a slug of its own.
WeeksAreWhole ==
  \A u \in Person :
    /\ \A r, s \in week[u] : r # s => ~Clash(r.entry, s.entry)
    /\ \A r \in week[u] : r.by = latest[u].by \/ r.by \in latest[u].beside
    /\ \A k \in {latest[u].by} \ {0} : {r.entry : r \in {q \in week[u] : q.by = k}} = wanted[k]
    /\ \A k \in latest[u].beside : {r.entry : r \in {q \in week[u] : q.by = k}} \in {{}, wanted[k]}
    /\ profiles[u].is => (u \in roleHolders \/ u \in revoked) /\ SlugFree(u, profiles[u].slug)
=============================================================================
