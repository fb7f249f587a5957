----------------------------- MODULE Employment -----------------------------
(***************************************************************************)
(* The effective-dated history of one employee: the periods of their       *)
(* employment and of their primary reporting line, while HR records        *)
(* changes and separations at the same time.                               *)
(*                                                                         *)
(* The operations are record_employment_event() and separate_employee() of *)
(* db/migrations/0045, called by employee-lifecycle.service.ts, and the    *)
(* importer.  Each reads the period it is going to close and closes it by  *)
(* its id in a later statement, at READ COMMITTED and without a lock: a    *)
(* transaction is cut between the two.  From the UPDATE on the row is      *)
(* locked, and the writes are one step with the COMMIT.                    *)
(*                                                                         *)
(* A table of periods is a function: t[d] is the (exclusive) end of the    *)
(* period that starts on day d, Never if none does.  A row keeps its start *)
(* and no two rows share one, so the start stands for the id.              *)
(***************************************************************************)
EXTENDS Integers

CONSTANTS
    Last,      \* bound: the days are 0..Last
    Sessions,  \* concurrent requests
    Places,    \* position, department, type and status, taken together
    Bosses,    \* supervisors
    None       \* no place, no supervisor

ASSUME LastAssumption == Last \in Nat
ASSUME NoneAssumption == None \notin Places \cup Bosses

Days    == 0..Last
Never   == 0
Forever == Last + 2
Ends    == 0..Forever
Table   == [Days -> Ends]

Starts(t)       == {d \in Days : t[d] # Never}
Covers(t, c, d) == c <= d /\ d < t[c]
IsOpen(t)       == \E c \in Days : t[c] = Forever

\* The CHECK and the exclusion constraint of both tables.
Valid(t)    == \A c \in Starts(t) : c < t[c]
Disjoint(t) == \A c, d \in Starts(t) : c < d => t[c] <= d

\* A transaction: the period it has read (start and end), and the day, the
\* place and the supervisor it is going to write.
Tx == [at : {"idle", "recording", "separating"}, start : Days, far : Ends,
       day : Days, place : Places \cup {None}, boss : Bosses \cup {None}]

Idle == [at |-> "idle", start |-> 0, far |-> Forever, day |-> 0,
         place |-> None, boss |-> None]

VARIABLES
    until,   \* table employment
    place,   \* place[d]: where the employee is in the period from d
    line,    \* table reporting_line, the primary lines
    boss,    \* boss[d]: who supervises in the line from d
    status,  \* employee.status
    hired,   \* the days on which a period began that continues none
    tx       \* tx[s]: the transaction of session s

rows == <<until, place, line, boss>>
vars == <<rows, status, hired, tx>>

PeriodType == until \in Table /\ Valid(until) /\ place \in [Days -> Places \cup {None}]
LineType   == line \in Table /\ Valid(line) /\ boss \in [Days -> Bosses \cup {None}]
PersonType == status \in {"absent", "active", "separated"} /\ hired \subseteq Days
TxType     == tx \in [Sessions -> Tx]

\* Every variable holds values of its kind, and no period ends before it starts.
TypeOK == PeriodType /\ LineType /\ PersonType /\ TxType

-----------------------------------------------------------------------------
(***************************************************************************)
(* create(), and the importer.                                             *)
(***************************************************************************)

\* The importer's NOT EXISTS: nothing overlaps the days from d on.
FreeFrom(t, d) == \A c \in Starts(t) : t[c] <= d

Opened(t, d) == [t EXCEPT ![d] = Forever]

Hire(d, p, b) ==
    /\ status = "absent"
    /\ status' = "active"
    /\ until' = Opened(until, d)
    /\ place' = [place EXCEPT ![d] = p]
    /\ line' = IF b = None THEN line ELSE Opened(line, d)
    /\ boss' = [boss EXCEPT ![d] = b]
    /\ hired' = {d}
    /\ UNCHANGED tx

\* The employee is in the file again, with hired_on = d.  The import leaves
\* their status, and the periods that are there.
Reimport(d, p, b) ==
    /\ status # "absent"
    /\ IF FreeFrom(until, d)
       THEN /\ until' = Opened(until, d)
            /\ place' = [place EXCEPT ![d] = p]
            /\ hired' = hired \cup {d}
       ELSE UNCHANGED <<until, place, hired>>
    /\ IF b # None /\ FreeFrom(line, d)
       THEN line' = Opened(line, d) /\ boss' = [boss EXCEPT ![d] = b]
       ELSE UNCHANGED <<line, boss>>
    /\ UNCHANGED <<status, tx>>

-----------------------------------------------------------------------------
(***************************************************************************)
(* record_employment_event().                                              *)
(***************************************************************************)
Goes(s, t) ==
    /\ tx' = [tx EXCEPT ![s] = t]
    /\ UNCHANGED <<rows, status, hired>>

\* The period c covers the day and does not begin on it.  What the caller does
\* not restate is carried forward.
RecordRead(s, c, d, p, b) ==
    /\ tx[s].at = "idle"
    /\ Covers(until, c, d)
    /\ c # d
    /\ Goes(s, [at |-> "recording", start |-> c, far |-> until[c], day |-> d,
                place |-> IF p = None THEN place[c] ELSE p, boss |-> b])

\* The period from c ends on d, and one opens there.
Split(t, c, d, far) == [t EXCEPT ![c] = d, ![d] = far]

\* Mutant: effective_to is taken for the last day of the line.
MovedInclusive(d) ==
    [c \in Days |-> IF c = d THEN Forever
                    ELSE IF c < d - 1 /\ d < line[c] THEN d - 1
                    ELSE line[c]]

\* The line that covers d, and began before it, ends on d; the new one is open.
Moved(d) ==
    [c \in Days |-> IF c = d THEN Forever
                    ELSE IF c < d /\ d < line[c] THEN d
                    ELSE line[c]]

MoveLine(d, b) ==
    IF b = None THEN UNCHANGED <<line, boss>>
    ELSE /\ line[d] = Never
         /\ Disjoint(Moved(d))
         /\ line' = Moved(d)
         /\ boss' = [boss EXCEPT ![d] = b]

\* Mutant: the new place is written to the period that is closed.
RecordInPlace(s) ==
    LET c == tx[s].start
        d == tx[s].day
    IN  /\ tx[s].at = "recording"
        /\ until[d] = Never
        /\ Disjoint(Split(until, c, d, tx[s].far))
        /\ until' = Split(until, c, d, tx[s].far)
        /\ place' = [place EXCEPT ![c] = tx[s].place, ![d] = tx[s].place]
        /\ MoveLine(d, tx[s].boss)
        /\ tx' = [tx EXCEPT ![s] = Idle]
        /\ UNCHANGED <<status, hired>>

\* Mutant: the period is closed a day early.
RecordInclusive(s) ==
    LET c == tx[s].start
        d == tx[s].day
        t == [until EXCEPT ![c] = IF c < d - 1 THEN d - 1 ELSE d, ![d] = tx[s].far]
    IN  /\ tx[s].at = "recording"
        /\ until[d] = Never
        /\ Disjoint(t)
        /\ until' = t
        /\ place' = [place EXCEPT ![d] = tx[s].place]
        /\ MoveLine(d, tx[s].boss)
        /\ tx' = [tx EXCEPT ![s] = Idle]
        /\ UNCHANGED <<status, hired>>

\* Mutant: the new period is open, whatever the end of the one it splits.
RecordOpen(s) ==
    LET c == tx[s].start
        d == tx[s].day
    IN  /\ tx[s].at = "recording"
        /\ until[d] = Never
        /\ Disjoint(Split(until, c, d, Forever))
        /\ until' = Split(until, c, d, Forever)
        /\ place' = [place EXCEPT ![d] = tx[s].place]
        /\ MoveLine(d, tx[s].boss)
        /\ tx' = [tx EXCEPT ![s] = Idle]
        /\ UNCHANGED <<status, hired>>

\* The period is closed by its id, whatever its end has become; the new one
\* ends where the period ended when it was read.
RecordCommit(s) ==
    LET c == tx[s].start
        d == tx[s].day
    IN  /\ tx[s].at = "recording"
        /\ until[d] = Never
        /\ Disjoint(Split(until, c, d, tx[s].far))
        /\ until' = Split(until, c, d, tx[s].far)
        /\ place' = [place EXCEPT ![d] = tx[s].place]
        /\ MoveLine(d, tx[s].boss)
        /\ tx' = [tx EXCEPT ![s] = Idle]
        /\ UNCHANGED <<status, hired>>

-----------------------------------------------------------------------------
(***************************************************************************)
(* separate_employee().                                                    *)
(***************************************************************************)

\* The open period.  The blockers are reported, or acknowledged.
SeparateRead(s, c, d) ==
    /\ tx[s].at = "idle"
    /\ until[c] = Forever
    /\ Goes(s, [at |-> "separating", start |-> c, far |-> Forever, day |-> d,
                place |-> None, boss |-> None])

Closed(c, d) == [until EXCEPT ![c] = d + 1]

\* The last day is d; the reporting line stays.
SeparateCommit(s) ==
    LET t == Closed(tx[s].start, tx[s].day)
    IN  /\ tx[s].at = "separating"
        /\ Valid(t)
        /\ Disjoint(t)
        /\ until' = t
        /\ status' = "separated"
        /\ tx' = [tx EXCEPT ![s] = Idle]
        /\ UNCHANGED <<place, line, boss, hired>>

\* A constraint or a policy refuses, a blocker is not acknowledged, or the
\* connection is lost.
Abort(s) ==
    /\ tx[s].at # "idle"
    /\ Goes(s, Idle)

-----------------------------------------------------------------------------
Init ==
    /\ until = [d \in Days |-> Never]
    /\ place = [d \in Days |-> None]
    /\ line = [d \in Days |-> Never]
    /\ boss = [d \in Days |-> None]
    /\ status = "absent"
    /\ hired = {}
    /\ tx = [s \in Sessions |-> Idle]

HireStep ==
    \E d \in Days, p \in Places, b \in Bosses \cup {None} :
       Hire(d, p, b) \/ Reimport(d, p, b)

Read(s) ==
    \E c, d \in Days :
       \/ \E p \in Places \cup {None}, b \in Bosses \cup {None} : RecordRead(s, c, d, p, b)
       \/ SeparateRead(s, c, d)

Commit(s) == RecordCommit(s) \/ SeparateCommit(s)

Next == HireStep \/ \E s \in Sessions : Read(s) \/ Commit(s) \/ Abort(s)

Spec == Init /\ [][Next]_vars

-----------------------------------------------------------------------------
(***************************************************************************)
(* Properties that hold.                                                   *)
(***************************************************************************)

\* The day from which the transaction of s changes the history.
Effective(s) == tx[s].day + (IF tx[s].at = "separating" THEN 1 ELSE 0)

Ended(s) == tx[s].at # "idle" /\ tx'[s].at = "idle"

\* "Without losing what was true before it happened" (0045): whatever commits
\* in between, a change leaves every day before it where it was.
HistoryKept ==
    [][\A c, d \in Days :
         Covers(until, c, d)
           => \/ Covers(until', c, d) /\ place'[c] = place[c]
              \/ \E s \in Sessions : Ended(s) /\ Effective(s) <= d]_vars

\* A transaction is stale if the period it read has another end by now.
Stale(s) == until[tx[s].start] # tx[s].far

ByStale == \E s \in Sessions : Ended(s) /\ Stale(s)

\* Every period continues another, unless somebody was hired on its first day.
NoGap == \A d \in Starts(until) \ hired : \E c \in Starts(until) : until[c] = d

\* No change leaves a gap in a history that had none ("which leaves the person
\* with a GAP in their employment history", 0045), unless the period it closes
\* was changed after it read it.
GapsAreStale == [][NoGap /\ ~NoGap' => ByStale]_vars

\* A separated person has no open period, until they are imported with another
\* date of hire, or a change commits that had read the period still open.
SeparationStands ==
    [][status = "separated" /\ ~IsOpen(until) /\ IsOpen(until)'
         => hired' # hired \/ ByStale]_vars

\* Once somebody has a supervisor there is one on every later day: a line is
\* closed only where the next one begins, however many transfers overlap.
LineUnbroken == \A c \in Starts(line) : line[c] = Forever \/ line[c] \in Starts(line)

-----------------------------------------------------------------------------
(***************************************************************************)
(* What a test says and the code does not keep.                            *)
(***************************************************************************)

\* "closes the old period and opens a new one, with no gap and no overlap"
\* (employee-lifecycle.spec.ts): no change leaves a gap.
ChangesLeaveNoGap == NoGap
=============================================================================
