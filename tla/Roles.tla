------------------------------- MODULE Roles --------------------------------
(***************************************************************************)
(* Who may read whom: the roles that `hr sync-roles` derives from the      *)
(* organisation chart and those that `hr grant-role` and `hr grant-admin`  *)
(* give by hand, with the walk up the reporting lines that every row       *)
(* policy makes (app.reports_to, app.can_access).                          *)
(*                                                                         *)
(* A sync is one transaction of four statements at READ COMMITTED: for     *)
(* each derived role a grant and a revocation, each with a snapshot of its *)
(* own, and the revocation may wait for rows another command has touched.  *)
(* CURRENT_DATE is the day the transaction began.  Meanwhile people are    *)
(* hired, moved and separated, and midnight passes.                        *)
(***************************************************************************)
EXTENDS Integers, FiniteSets

CONSTANTS
    People,
    Nobody,    \* no supervisor
    MaxDepth,  \* app.reports_to looks no further up: 64
    Hands,     \* operators at a terminal, and their commands
    LastDay,   \* bound: the days are 1..LastDay
    MaxMoves   \* bound: changes of staff, and grants by hand

ASSUME PeopleAssumption == IsFiniteSet(People) /\ Nobody \notin People
ASSUME DepthAssumption == MaxDepth \in Nat \ {0}
ASSUME BoundsAssumption == LastDay \in Nat \ {0} /\ MaxMoves \in Nat

Days    == 1..LastDay
Forever == LastDay + 3    \* an effective_to that is NULL
Derived == {"employee", "manager"}
Given   == Derived \cup {"hr_admin"}

\* A row of role_assignment.  No two rows that one command writes are alike, so
\* its hand stands for the id.
Assignment == [who : People, role : Given, from : Days, to : Days \cup {Forever}, by : Hands]

\* A command: the role and the day it works with, the rows it will revoke, and
\* what it has written and replaced so far.
Command == [at : {"idle", "grant", "revoke", "wait", "done"}, role : Derived, day : Days,
            doomed : SUBSET Assignment, put : SUBSET Assignment, gone : SUBSET Assignment]

Idle == [at |-> "idle", role |-> "employee", day |-> 1,
         doomed |-> {}, put |-> {}, gone |-> {}]

VARIABLES
    day,
    end,    \* end[p]: effective_to of the last employment; 0 before the first
    line,   \* line[p]: the open reporting line, its first day, and the one before
    held,   \* the committed rows of role_assignment
    cmd,    \* cmd[h]: what h is running
    \* For the properties.
    moves,      \* staff changes and grants by hand, so far
    overtaken,  \* commands during which the staff or the roles changed
    fresh       \* neither changed since a sync that was not overtaken

staff  == <<end, line>>
ghosts == <<moves, overtaken, fresh>>
vars   == <<day, staff, held, cmd, ghosts>>

Line == [was : People \cup {Nobody}, who : People \cup {Nobody}, from : Days]

\* Every variable holds values of its kind.
TypeOK ==
    /\ day \in Days
    /\ end \in [People -> 0..Forever] /\ line \in [People -> Line]
    /\ held \subseteq Assignment
    /\ cmd \in [Hands -> Command]
    /\ moves \in 0..MaxMoves /\ overtaken \subseteq Hands /\ fresh \in BOOLEAN

-----------------------------------------------------------------------------
(***************************************************************************)
(* app.reports_to and app.can_access, as of today.                         *)
(***************************************************************************)
InForce(a, d) == a.from <= d /\ d < a.to

Boss(p) == IF line[p].from <= day THEN line[p].who ELSE line[p].was

\* The chain of supervisors from p on; `seen' are those whose line was taken, as
\* many as the depth.  It ends where it meets itself, and at the cap.
Chain(p) ==
    LET up[seen \in SUBSET People] ==
            [b \in People \cup {Nobody} |->
                IF b = Nobody THEN {}
                ELSE {b} \cup (IF b \in seen \/ Cardinality(seen) >= MaxDepth THEN {}
                               ELSE up[seen \cup {b}][Boss(b)])]
    IN  up[{p}][Boss(p)]

\* Mutant: the walk goes one step.
ReportsDirectly(subject, ancestor) == ancestor = Boss(subject)

ReportsTo(subject, ancestor) == ancestor \in Chain(subject)

Holds(p, role) == \E a \in held : a.who = p /\ a.role = role /\ InForce(a, day)

\* The baseline grants on `employee`, read: self, subtree and org.
CanRead(u, t) ==
    /\ end[t] # 0
    /\ \/ u = t /\ \E role \in Given : Holds(u, role)
       \/ Holds(u, "manager") /\ ReportsTo(t, u)
       \/ Holds(u, "hr_admin")

-----------------------------------------------------------------------------
(***************************************************************************)
(* The staff: hired, moved and separated by HR and the importer.           *)
(***************************************************************************)
Running == {h \in Hands : cmd[h].at # "idle"}

StaffMoves ==
    /\ moves < MaxMoves
    /\ moves' = moves + 1
    /\ overtaken' = Running
    /\ fresh' = FALSE
    /\ UNCHANGED <<day, held, cmd>>

\* A line that is there stays open when its employee leaves, and when they are
\* imported again.
Hire(p, b) ==
    /\ end[p] <= day
    /\ end' = [end EXCEPT ![p] = Forever]
    /\ line' = IF line[p].who # Nobody THEN line
               ELSE [line EXCEPT ![p] = [was |-> Nobody, who |-> b, from |-> day]]
    /\ StaffMoves

\* Recorded today, from today or from a later day on.
Move(p, b, d) ==
    /\ end[p] = Forever
    /\ b \notin {p, line[p].who}
    /\ d >= day
    /\ line[p].who = Nobody \/ line[p].from < d
    /\ line' = [line EXCEPT ![p] = [was |-> Boss(p), who |-> b, from |-> d]]
    /\ UNCHANGED end
    /\ StaffMoves

\* Today or tomorrow is the last day.
Leave(p, last) ==
    /\ end[p] = Forever
    /\ last \in day..day + 1
    /\ end' = [end EXCEPT ![p] = last + 1]
    /\ UNCHANGED line
    /\ StaffMoves

NewDay ==
    /\ day < LastDay
    /\ day' = day + 1
    /\ UNCHANGED <<staff, held, cmd, ghosts>>

-----------------------------------------------------------------------------
(***************************************************************************)
(* sync-roles.                                                             *)
(***************************************************************************)
Goes(h, c) ==
    /\ cmd' = [cmd EXCEPT ![h] = c]
    /\ UNCHANGED <<day, staff, held, fresh>>

\* What a statement of h sees.
View(h) == (held \ cmd[h].gone) \cup cmd[h].put

\* effective_to IS NULL OR effective_to > CURRENT_DATE
Standing(rows, role, d) == {a \in rows : a.role = role /\ a.to > d}

Active   == {p \in People : end[p] = Forever}
Managers == {b \in Active : \E p \in People : line[p].who = b}

Target(role) == IF role = "employee" THEN Active ELSE Managers

\* One row for each of them who has none.
Inserted(h, whom, role, d) ==
    {[who |-> p, role |-> role, from |-> d, to |-> Forever, by |-> h] :
        p \in whom \ {a.who : a \in Standing(View(h), role, d)}}

Start(h, c) ==
    /\ cmd[h].at = "idle"
    /\ Goes(h, c)
    /\ overtaken' = overtaken \ {h}

StartSync(h) ==
    /\ Start(h, [Idle EXCEPT !.at = "grant", !.day = day])
    /\ UNCHANGED moves

Grant(h) ==
    LET c == cmd[h]
    IN  /\ c.at = "grant"
        /\ Goes(h, [c EXCEPT !.at = "revoke",
                             !.put = @ \cup Inserted(h, Target(c.role), c.role, c.day)])
        /\ UNCHANGED <<moves, overtaken>>

\* The snapshot of the revocation.
Revoke(h) ==
    LET c == cmd[h]
    IN  /\ c.at = "revoke"
        /\ Goes(h, [c EXCEPT !.at = "wait",
                             !.doomed = {a \in Standing(View(h), c.role, c.day) :
                                            a.who \notin Target(c.role)}])
        /\ UNCHANGED <<moves, overtaken>>

\* Mutant: every revoked row is deleted.
ClosedNever(rows, d) == {}

\* A role held on an earlier day is closed as of today; the others are deleted.
Closed(rows, d) == {[a EXCEPT !.to = d] : a \in {r \in rows : r.from < d}}

\* Its writes, once nobody else has a lock on the rows: those that still stand.
Strike(h) ==
    LET c   == cmd[h]
        hit == c.doomed \cap View(h)
    IN  /\ c.at = "wait"
        /\ \A o \in Hands \ {h} : c.doomed \cap cmd[o].gone = {}
        /\ Goes(h, [c EXCEPT !.at     = IF c.role = "employee" THEN "grant" ELSE "done",
                             !.role   = "manager",
                             !.doomed = {},
                             !.put    = (@ \ hit) \cup Closed(hit, c.day),
                             !.gone   = @ \cup (hit \cap held)])
        /\ UNCHANGED <<moves, overtaken>>

-----------------------------------------------------------------------------
(***************************************************************************)
(* grant-role and grant-admin: one INSERT.                                 *)
(***************************************************************************)
GrantRole(h, p, role) ==
    /\ end[p] # 0
    /\ moves < MaxMoves
    /\ moves' = moves + 1
    /\ Start(h, [Idle EXCEPT !.at = "done", !.day = day,
                             !.put = Inserted(h, {p}, role, day)])

\* A sync has gone through both roles; a grant by hand never gets past the first.
IsSync(c) == c.role = "manager"

Commit(h) ==
    LET c == cmd[h]
    IN  /\ c.at = "done"
        /\ held' = (held \ c.gone) \cup c.put
        /\ cmd' = [cmd EXCEPT ![h] = Idle]
        /\ overtaken' = IF held' = held THEN overtaken ELSE overtaken \cup (Running \ {h})
        /\ fresh' = IF IsSync(c) THEN h \notin overtaken ELSE fresh /\ held' = held
        /\ UNCHANGED <<day, staff, moves>>

\* A dry run, an error, or a connection that is lost.
Rollback(h) ==
    /\ cmd[h].at # "idle"
    /\ Goes(h, Idle)
    /\ UNCHANGED <<moves, overtaken>>

-----------------------------------------------------------------------------
\* An import has hired some of them, under supervisors who form no circle.
Init ==
    /\ day = 1
    /\ end \in [People -> {0, Forever}]
    /\ line \in [People -> [was : {Nobody}, who : People \cup {Nobody}, from : {1}]]
    /\ \A T \in (SUBSET People) \ {{}} : \E p \in T : line[p].who \notin T
    /\ \A p \in People : line[p].who # Nobody => end[p] # 0 /\ end[line[p].who] # 0
    /\ held = {}
    /\ cmd = [h \in Hands |-> Idle]
    /\ moves = 0 /\ overtaken = {} /\ fresh = FALSE

SyncStep(h) == StartSync(h) \/ Grant(h) \/ Revoke(h) \/ Strike(h)

Next == \/ \E p \in People, b \in People \cup {Nobody} : Hire(p, b)
        \/ \E p, b \in People, d \in Days : Move(p, b, d)
        \/ \E p \in People, last \in 1..LastDay + 1 : Leave(p, last)
        \/ NewDay
        \/ \E h \in Hands : SyncStep(h) \/ Commit(h) \/ Rollback(h)
        \/ \E h \in Hands, p \in People, role \in Given : GrantRole(h, p, role)

Spec == Init /\ [][Next]_vars

-----------------------------------------------------------------------------
(***************************************************************************)
(* Properties.                                                             *)
(***************************************************************************)

HeldOn(d) == {<<a.who, a.role>> : a \in {r \in held : InForce(r, d)}}

\* "Any effective-dated history stays intact" (sync-roles.ts:20): no command,
\* not even one that runs past midnight, changes who held which role on a day
\* before it began.
HistoryKept ==
    [][\A h \in Hands, d \in Days :
         cmd[h].at # "idle" /\ cmd'[h].at = "idle" /\ d < cmd[h].day
           => HeldOn(d)' = HeldOn(d)]_vars

\* No change of staff is recorded for a later day.
NothingAhead ==
    \A p \in People : line[p].from <= day /\ (end[p] = Forever \/ end[p] <= day)

\* The ways that lead from p to u by k lines.
Ways(p, u, k) ==
    {w \in [0..k -> People] :
        w[0] = p /\ w[k] = u /\ \A j \in 1..k : w[j] = Boss(w[j - 1])}

\* Those at most n lines above p.
Above(p, n) == {u \in People : \E k \in 1..n : Ways(p, u, k) # {}}

\* After a sync that nothing overtook, and while nothing changes, those who are
\* employed see themselves and everybody at most MaxDepth lines below them in the
\* chart, circles included, those who left see nothing, and nobody sees anyone
\* else.
SeesOwnTree ==
    fresh /\ NothingAhead =>
        \A u, t \in People :
            end[t] # 0 /\ ~Holds(u, "hr_admin") =>
                (CanRead(u, t) <=> /\ day < end[u]
                                   /\ u = t \/ u \in Above(t, MaxDepth))

-----------------------------------------------------------------------------
(***************************************************************************)
(* What comments say, and the code does not do.                            *)
(***************************************************************************)

\* "employee - every active, non-deleted employee" (sync-roles.ts:12): after a
\* sync those who are employed today see themselves.  The code looks for an open
\* employment, and a last day that is still to come has closed it.
ActiveSeeThemselves ==
    fresh => \A u \in People : day < end[u] => CanRead(u, u)

\* "manager - every employee with at least one current direct report" (:13).
\* The code looks for an open line, and the one that was recorded for a later
\* day is open instead of the one in force.
CurrentManagersSeeTheirs ==
    fresh => \A u, t \in People :
                 end[u] = Forever /\ end[t] = Forever /\ Boss(t) = u => CanRead(u, t)

\* "True when `ancestor` was above `subject` in the primary reporting chain"
\* (0002_authorization.sql:145): not when it was further above than the cap.
TrueWhenAbove ==
    \A u, t \in People : u \in Above(t, Cardinality(People)) => ReportsTo(t, u)
=============================================================================
