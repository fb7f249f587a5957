---------------------------- MODULE StaffProofs ----------------------------
(***************************************************************************)
(* The employees and where they belong: the properties of the employment   *)
(* history (Employment), for any number of days, concurrent requests,      *)
(* places and supervisors, and those of the organisation under imports     *)
(* (Import), for any staff files, units and updates.                       *)
(***************************************************************************)
EXTENDS Employment, Import, FiniteSetTheorems, SequenceTheorems, WellFoundedInduction, TLAPS

-----------------------------------------------------------------------------
(***************************************************************************)
(* Employment.                                                             *)
(***************************************************************************)


\* A transaction holds on to a row that stays, and a change falls strictly
\* inside the period it has read.
ReadsHold ==
    \A s \in Sessions :
       /\ tx[s].at # "idle" => until[tx[s].start] # Never
       /\ tx[s].at = "recording" => tx[s].start < tx[s].day /\ tx[s].day < tx[s].far
       /\ tx[s].at = "separating" => tx[s].far = Forever

\* Nobody has a history before they are created.
AbsentEmpty ==
    status = "absent" => \A d \in Days : until[d] = Never /\ line[d] = Never

HiredStarts == \A d \in hired : until[d] # Never

Apart == Disjoint(until) /\ Disjoint(line)

IInv == TypeOK /\ ReadsHold /\ AbsentEmpty /\ HiredStarts /\ Apart /\ LineUnbroken

-----------------------------------------------------------------------------
LEMMA DaysFacts ==
    /\ Days \subseteq Ends /\ Ends \subseteq Int /\ 0 \in Days
    /\ Never \in Ends /\ Forever \in Ends
    /\ \A d \in Days : d >= 0 /\ d <= Last /\ d < Forever /\ d + 1 \in Ends /\ d + 1 # Forever
    /\ \A d \in Days : d \in Int
    /\ \A e \in Ends : e \in Int /\ e >= 0
  BY LastAssumption DEF Days, Ends, Never, Forever

LEMMA IdleTx == Idle \in Tx /\ Idle.at = "idle"
  BY DaysFacts DEF Idle, Tx

LEMMA InitInv == Init => IInv
<1> SUFFICES ASSUME Init PROVE IInv
  OBVIOUS
<1>1. PeriodType
  BY DaysFacts DEF Init, PeriodType, Table, Valid, Starts
<1>2. LineType
  BY DaysFacts DEF Init, LineType, Table, Valid, Starts
<1>3. PersonType
  BY DEF Init, PersonType
<1>4. TxType
  BY IdleTx DEF Init, TxType
<1>5. ReadsHold
  BY IdleTx DEF Init, ReadsHold
<1>6. AbsentEmpty /\ HiredStarts
  BY DEF Init, AbsentEmpty, HiredStarts
<1>7. Apart /\ LineUnbroken
  BY DaysFacts DEF Init, Apart, Disjoint, LineUnbroken, Starts
<1> QED
  BY <1>1, <1>2, <1>3, <1>4, <1>5, <1>6, <1>7 DEF IInv, TypeOK

-----------------------------------------------------------------------------
(***************************************************************************)
(* What the operations on tables do.                                       *)
(***************************************************************************)

\* A period that opens after all others keeps a table valid, disjoint, and
\* leaves every other period alone.
LEMMA OpenedFacts ==
    ASSUME NEW t \in Table, Valid(t), NEW d \in Days, FreeFrom(t, d), Disjoint(t)
    PROVE  /\ Opened(t, d) \in Table /\ Valid(Opened(t, d)) /\ Disjoint(Opened(t, d))
           /\ Opened(t, d)[d] = Forever
           /\ t[d] = Never
           /\ \A c \in Days : c # d => Opened(t, d)[c] = t[c]
<1>1. /\ Opened(t, d) \in Table
      /\ Opened(t, d)[d] = Forever
      /\ \A c \in Days : c # d => Opened(t, d)[c] = t[c]
  BY DaysFacts DEF Opened, Table
<1>2. t[d] = Never
  <2>1. t[d] \in Int /\ d \in Int
    BY DaysFacts DEF Table
  <2> QED
    BY <2>1 DEF FreeFrom, Valid, Starts
<1>3. Valid(Opened(t, d))
  BY <1>1, DaysFacts DEF Valid, Starts, Table
<1>4. Disjoint(Opened(t, d))
  <2> SUFFICES ASSUME NEW a \in Days, NEW b \in Days, a < b,
                      Opened(t, d)[a] # Never, Opened(t, d)[b] # Never
               PROVE  Opened(t, d)[a] <= b
    BY DEF Disjoint, Starts
  <2>1. CASE b = d
    BY <2>1, <1>1, DaysFacts DEF FreeFrom, Starts
  <2>2. CASE a = d
    <3>1. t[b] # Never
      BY <2>2, <1>1, DaysFacts
    <3>2. t[b] <= d /\ b < t[b]
      BY <3>1 DEF FreeFrom, Valid, Starts
    <3> QED
      BY <3>1, <3>2, <2>2, LastAssumption DEF Table, Days, Ends
  <2>3. CASE a # d /\ b # d
    BY <2>3, <1>1 DEF Disjoint, Starts
  <2> QED
    BY <2>1, <2>2, <2>3
<1> QED
  BY <1>1, <1>2, <1>3, <1>4

\* An empty table is free from every day on.
LEMMA EmptyFree ==
    ASSUME NEW t \in Table, \A c \in Days : t[c] = Never, NEW d \in Days
    PROVE  Valid(t) /\ Disjoint(t) /\ FreeFrom(t, d)
  BY DEF Valid, Disjoint, FreeFrom, Starts

\* The line that is moved stays a valid table in which every row stays.
LEMMA MovedFacts ==
    ASSUME LineType, NEW d \in Days
    PROVE  /\ Moved(d) \in Table /\ Valid(Moved(d))
           /\ Moved(d)[d] = Forever
           /\ \A c \in Days : c # d => Moved(d)[c] = IF c < d /\ d < line[c] THEN d ELSE line[c]
  BY DaysFacts DEF LineType, Moved, Table, Valid, Starts

LEMMA SplitFacts ==
    ASSUME NEW t \in Table, NEW c \in Days, NEW d \in Days, NEW far \in Ends, c # d
    PROVE  /\ Split(t, c, d, far) \in Table
           /\ Split(t, c, d, far)[c] = d
           /\ Split(t, c, d, far)[d] = far
           /\ \A a \in Days : a # c /\ a # d => Split(t, c, d, far)[a] = t[a]
  BY DaysFacts DEF Split, Table

LEMMA ClosedFacts ==
    ASSUME PeriodType, NEW c \in Days, NEW d \in Days
    PROVE  /\ Closed(c, d) \in Table
           /\ Closed(c, d)[c] = d + 1
           /\ \A a \in Days : a # c => Closed(c, d)[a] = until[a]
  BY DaysFacts DEF Closed, Table, PeriodType

-----------------------------------------------------------------------------
(***************************************************************************)
(* What the steps do.  Three effects are told apart: a step that opens     *)
(* periods after all others, a split, and a closing.                       *)
(***************************************************************************)
HIDE DEF Opened, Moved, Split, Closed, Tx, Idle, Table

LEMMA TxAt ==
    ASSUME TypeOK, NEW s \in Sessions
    PROVE  /\ tx[s].at \in {"idle", "recording", "separating"}
           /\ tx[s].start \in Days /\ tx[s].day \in Days /\ tx[s].far \in Ends
           /\ tx[s].place \in Places \cup {None} /\ tx[s].boss \in Bosses \cup {None}
  BY DEF TypeOK, TxType, Tx

LEMMA TxEnds ==
    ASSUME TypeOK, NEW s \in Sessions, tx' = [tx EXCEPT ![s] = Idle]
    PROVE  /\ TxType'
           /\ \A r \in Sessions : r # s => tx'[r] = tx[r]
           /\ tx'[s].at = "idle"
           /\ \A r \in Sessions : tx'[r].at # "idle" => r # s /\ tx'[r] = tx[r]
  BY IdleTx DEF TypeOK, TxType

\* If no row goes away, the transactions that stay keep what they hold.
LEMMA ReadsKept ==
    ASSUME ReadsHold, TypeOK,
           \A r \in Sessions : tx'[r].at # "idle" => tx'[r] = tx[r],
           \A c \in Days : until[c] # Never => until'[c] # Never
    PROVE  ReadsHold'
<1> SUFFICES ASSUME NEW r \in Sessions, tx'[r].at # "idle"
             PROVE  /\ until'[tx'[r].start] # Never
                    /\ tx'[r].at = "recording" => tx'[r].start < tx'[r].day /\ tx'[r].day < tx'[r].far
                    /\ tx'[r].at = "separating" => tx'[r].far = Forever
  BY DEF ReadsHold
<1>1. tx'[r] = tx[r] /\ tx[r].start \in Days
  BY TxAt
<1> QED
  BY <1>1 DEF ReadsHold

\* A line in which rows only end where another begins.
LEMMA MoveLineFacts ==
    ASSUME IInv, NEW d \in Days, NEW b \in Bosses \cup {None}, MoveLine(d, b)
    PROVE  LineType' /\ Disjoint(line') /\ LineUnbroken'
<1>1. CASE b = None
  BY <1>1 DEF MoveLine, IInv, TypeOK, LineType, Apart, LineUnbroken, Disjoint, Valid, Starts
<1>2. CASE b # None
  <2>1. line' = Moved(d) /\ Disjoint(line') /\ line[d] = Never /\ boss' = [boss EXCEPT ![d] = b]
    BY <1>2 DEF MoveLine
  <2>2. LineType
    BY DEF IInv, TypeOK
  <2>3. LineType'
    BY <2>1, <2>2, MovedFacts DEF LineType
  <2>4. LineUnbroken'
    <3> SUFFICES ASSUME NEW c \in Days, line'[c] # Never, line'[c] # Forever
                 PROVE  line'[c] \in Days /\ line'[line'[c]] # Never
      BY DEF LineUnbroken, Starts
    <3>1. c # d /\ line'[c] = IF c < d /\ d < line[c] THEN d ELSE line[c]
      BY <2>1, <2>2, MovedFacts
    <3>2. line'[d] # Never
      BY <2>1, <2>2, MovedFacts, DaysFacts DEF Forever, Never
    <3>3. CASE line'[c] = d
      BY <3>2, <3>3
    <3>4. CASE line'[c] = line[c] /\ line[c] # d
      <4>1. line[c] \in Days /\ line[line[c]] # Never
        BY <3>4 DEF IInv, LineUnbroken, Starts
      <4>2. \A a \in Days : a # d /\ line[a] # Never => line'[a] # Never
        BY <2>1, <2>2, MovedFacts, DaysFacts DEF Never
      <4> QED
        BY <3>4, <4>1, <4>2
    <3> QED
      BY <3>1, <3>3, <3>4
  <2> QED
    BY <2>1, <2>3, <2>4
<1> QED
  BY <1>1, <1>2

\* A line that opens after all others, or none.
LEMMA LineOpens ==
    ASSUME IInv, NEW d \in Days, NEW b \in Bosses \cup {None}, FreeFrom(line, d),
           line' = Opened(line, d), boss' = [boss EXCEPT ![d] = b]
    PROVE  LineType' /\ Disjoint(line') /\ LineUnbroken'
<1>1. line \in Table /\ Valid(line) /\ Disjoint(line)
  BY DEF IInv, TypeOK, LineType, Apart
<1>2. LineType' /\ Disjoint(line')
  BY <1>1, OpenedFacts DEF LineType, IInv, TypeOK
<1>3. LineUnbroken'
  <2> SUFFICES ASSUME NEW c \in Days, line'[c] # Never, line'[c] # Forever
               PROVE  line'[c] \in Days /\ line'[line'[c]] # Never
    BY DEF LineUnbroken, Starts
  <2>1. line'[d] = Forever /\ \A a \in Days : a # d => line'[a] = line[a]
    BY <1>1, OpenedFacts
  <2>2. c # d /\ line[c] \in Days /\ line[line[c]] # Never
    BY <2>1 DEF IInv, LineUnbroken, Starts
  <2>3. line'[d] # Never
    BY <2>1, LastAssumption DEF Forever, Never
  <2> QED
    BY <2>1, <2>2, <2>3
<1> QED
  BY <1>2, <1>3

-----------------------------------------------------------------------------
\* What Hire and Reimport do to the periods.
LEMMA HireFacts ==
    ASSUME IInv, NEW d \in Days, NEW p \in Places, NEW b \in Bosses \cup {None},
           Hire(d, p, b) \/ Reimport(d, p, b)
    PROVE  /\ \/ UNCHANGED <<until, place, hired>>
              \/ /\ FreeFrom(until, d) /\ until' = Opened(until, d)
                 /\ place' = [place EXCEPT ![d] = p] /\ hired' = hired \cup {d}
           /\ \/ UNCHANGED <<line, boss>>
              \/ line' = line /\ boss' = [boss EXCEPT ![d] = b]
              \/ /\ FreeFrom(line, d) /\ line' = Opened(line, d) /\ boss' = [boss EXCEPT ![d] = b]
           /\ tx' = tx
           /\ status' \in {"active", "separated"}
           /\ status = "absent" \/ status' = status
<1>0. until \in Table /\ line \in Table /\ PersonType
  BY DEF IInv, TypeOK, PeriodType, LineType
<1>1. CASE Hire(d, p, b)
  <2>1. FreeFrom(until, d) /\ FreeFrom(line, d)
    BY <1>0, <1>1, EmptyFree DEF Hire, IInv, AbsentEmpty
  <2>2. hired = {}
    BY <1>0, <1>1 DEF Hire, IInv, AbsentEmpty, HiredStarts, PersonType
  <2> QED
    BY <1>1, <2>1, <2>2 DEF Hire
<1>2. CASE Reimport(d, p, b)
  BY <1>0, <1>2 DEF Reimport, PersonType
<1> QED
  BY <1>1, <1>2

LEMMA HireInv ==
    ASSUME IInv, NEW d \in Days, NEW p \in Places, NEW b \in Bosses \cup {None},
           Hire(d, p, b) \/ Reimport(d, p, b)
    PROVE  IInv'
<1>0. until \in Table /\ Valid(until) /\ Disjoint(until) /\ PersonType /\ PeriodType /\ LineType /\ TypeOK
  BY DEF IInv, TypeOK, PeriodType, LineType, Apart
<1>1. PeriodType' /\ Disjoint(until') /\ HiredStarts' /\ (\A c \in Days : until[c] # Never => until'[c] # Never)
  <2>1. CASE UNCHANGED <<until, place, hired>>
    BY <2>1, <1>0 DEF PeriodType, Disjoint, HiredStarts, IInv, Valid, Starts
  <2>2. CASE /\ FreeFrom(until, d) /\ until' = Opened(until, d)
             /\ place' = [place EXCEPT ![d] = p] /\ hired' = hired \cup {d}
    <3>1. PeriodType' /\ Disjoint(until')
      BY <2>2, <1>0, OpenedFacts DEF PeriodType
    <3>2. \A c \in Days : until[c] # Never => until'[c] # Never
      BY <2>2, <1>0, OpenedFacts
    <3>3. until'[d] # Never
      BY <2>2, <1>0, OpenedFacts, DaysFacts DEF Never
    <3> QED
      BY <3>1, <3>2, <3>3, <2>2, <1>0 DEF HiredStarts, PersonType, IInv
  <2> QED
    BY <2>1, <2>2, HireFacts
<1>2. LineType' /\ Disjoint(line') /\ LineUnbroken'
  <2>1. CASE UNCHANGED <<line, boss>>
    BY <2>1, <1>0 DEF LineType, Disjoint, Valid, Starts, IInv, Apart, LineUnbroken
  <2>2. CASE line' = line /\ boss' = [boss EXCEPT ![d] = b]
    BY <2>2, <1>0 DEF LineType, Disjoint, Valid, Starts, IInv, Apart, LineUnbroken
  <2>3. CASE FreeFrom(line, d) /\ line' = Opened(line, d) /\ boss' = [boss EXCEPT ![d] = b]
    BY <2>3, LineOpens
  <2> QED
    BY <2>1, <2>2, <2>3, HireFacts
<1>3. PersonType' /\ TxType' /\ AbsentEmpty'
  <2>1. tx' = tx /\ status' \in {"active", "separated"} /\ hired' \subseteq hired \cup {d}
    BY HireFacts
  <2> QED
    BY <2>1, <1>0 DEF PersonType, TypeOK, TxType, AbsentEmpty
<1>4. ReadsHold'
  <2>1. tx' = tx
    BY HireFacts
  <2> QED
    BY <2>1, <1>0, <1>1, ReadsKept DEF IInv
<1> QED
  BY <1>1, <1>2, <1>3, <1>4 DEF IInv, TypeOK, Apart

LEMMA ReadInv ==
    ASSUME IInv, NEW s \in Sessions, Read(s) PROVE IInv'
<1>0. TypeOK /\ PeriodType
  BY DEF IInv, TypeOK
<1>1. PICK t \in Tx : /\ Goes(s, t)
                      /\ until[t.start] # Never /\ t.start \in Days
                      /\ t.at = "recording" => t.start < t.day /\ t.day < t.far
                      /\ t.at = "separating" => t.far = Forever
  <2>1. ASSUME NEW c \in Days, NEW d \in Days, NEW p \in Places \cup {None},
               NEW b \in Bosses \cup {None}, RecordRead(s, c, d, p, b)
        PROVE  \E t \in Tx : /\ Goes(s, t)
                             /\ until[t.start] # Never /\ t.start \in Days
                             /\ t.at = "recording" => t.start < t.day /\ t.day < t.far
                             /\ t.at = "separating" => t.far = Forever
    <3> DEFINE t == [at |-> "recording", start |-> c, far |-> until[c], day |-> d,
                     place |-> IF p = None THEN place[c] ELSE p, boss |-> b]
    <3>1. until[c] \in Ends /\ place[c] \in Places \cup {None}
      BY <1>0 DEF PeriodType, Table
    <3>2. t \in Tx
      BY <3>1 DEF Tx
    <3>3. c < d /\ d < until[c] /\ until[c] # Never
      BY <2>1, <3>1, DaysFacts DEF RecordRead, Covers, Never
    <3>4. Goes(s, t)
      BY <2>1 DEF RecordRead
    <3> QED
      BY <3>2, <3>3, <3>4
  <2>2. ASSUME NEW c \in Days, NEW d \in Days, SeparateRead(s, c, d)
        PROVE  \E t \in Tx : /\ Goes(s, t)
                             /\ until[t.start] # Never /\ t.start \in Days
                             /\ t.at = "recording" => t.start < t.day /\ t.day < t.far
                             /\ t.at = "separating" => t.far = Forever
    <3> DEFINE t == [at |-> "separating", start |-> c, far |-> Forever, day |-> d,
                     place |-> None, boss |-> None]
    <3>1. t \in Tx
      BY DaysFacts DEF Tx
    <3>2. Goes(s, t) /\ until[c] # Never
      BY <2>2, DaysFacts DEF SeparateRead, Never
    <3> QED
      BY <3>1, <3>2
  <2> QED
    BY <2>1, <2>2 DEF Read
<1>2. UNCHANGED <<rows, status, hired>> /\ tx' = [tx EXCEPT ![s] = t]
  BY <1>1 DEF Goes
<1>3. TxType' /\ ReadsHold'
  <2>1. TxType' /\ tx'[s] = t /\ \A r \in Sessions : r # s => tx'[r] = tx[r]
    BY <1>2, <1>0 DEF TypeOK, TxType
  <2>2. until' = until
    BY <1>2 DEF rows
  <2> QED
    BY <2>1, <2>2, <1>1 DEF IInv, ReadsHold
<1>4. until' = until /\ place' = place /\ line' = line /\ boss' = boss /\ status' = status /\ hired' = hired
  BY <1>2 DEF rows
<1> QED
  BY <1>3, <1>4 DEF IInv, TypeOK, PeriodType, LineType, PersonType, AbsentEmpty, HiredStarts, Apart,
     LineUnbroken, Valid, Disjoint, Starts

LEMMA AbortInv ==
    ASSUME IInv, NEW s \in Sessions, Abort(s) PROVE IInv'
<1>1. until' = until /\ place' = place /\ line' = line /\ boss' = boss /\ status' = status /\ hired' = hired
      /\ tx' = [tx EXCEPT ![s] = Idle]
  BY DEF Abort, Goes, rows
<1>2. TxType' /\ ReadsHold'
  BY <1>1, TxEnds, ReadsKept DEF IInv
<1> QED
  BY <1>1, <1>2 DEF IInv, TypeOK, PeriodType, LineType, PersonType, AbsentEmpty, HiredStarts, Apart,
     LineUnbroken, Valid, Disjoint, Starts

\* What a committed change and a committed separation do to the periods.
LEMMA RecordFacts ==
    ASSUME IInv, NEW s \in Sessions, RecordCommit(s)
    PROVE  /\ tx[s].start \in Days /\ tx[s].day \in Days /\ tx[s].far \in Ends
           /\ tx[s].start < tx[s].day /\ tx[s].day < tx[s].far
           /\ until[tx[s].start] # Never /\ until[tx[s].day] = Never
           /\ until' \in Table
           /\ until'[tx[s].start] = tx[s].day
           /\ until'[tx[s].day] = tx[s].far
           /\ \A a \in Days : a # tx[s].start /\ a # tx[s].day => until'[a] = until[a]
           /\ \A a \in Days : a # tx[s].day => place'[a] = place[a]
           /\ status' = status /\ hired' = hired
<1>0. TypeOK /\ until \in Table /\ place \in [Days -> Places \cup {None}]
  BY DEF IInv, TypeOK, PeriodType
<1>1. /\ tx[s].start \in Days /\ tx[s].day \in Days /\ tx[s].far \in Ends
      /\ tx[s].start < tx[s].day /\ tx[s].day < tx[s].far
      /\ until[tx[s].start] # Never /\ until[tx[s].day] = Never
  BY <1>0, TxAt DEF RecordCommit, IInv, ReadsHold
<1>2. tx[s].start # tx[s].day
  BY <1>1, DaysFacts
<1>3. until' = Split(until, tx[s].start, tx[s].day, tx[s].far)
      /\ place' = [place EXCEPT ![tx[s].day] = tx[s].place]
      /\ status' = status /\ hired' = hired
  BY DEF RecordCommit
<1>4. /\ until' \in Table
      /\ until'[tx[s].start] = tx[s].day
      /\ until'[tx[s].day] = tx[s].far
      /\ \A a \in Days : a # tx[s].start /\ a # tx[s].day => until'[a] = until[a]
  BY <1>0, <1>1, <1>2, <1>3, SplitFacts
<1>5. \A a \in Days : a # tx[s].day => place'[a] = place[a]
  BY <1>0, <1>3
<1> QED
  BY <1>1, <1>3, <1>4, <1>5

LEMMA RecordInv ==
    ASSUME IInv, NEW s \in Sessions, RecordCommit(s) PROVE IInv'
<1>0. TypeOK /\ PeriodType
  BY DEF IInv, TypeOK
<1>1. PeriodType'
  <2>1. Valid(until')
    BY RecordFacts, <1>0 DEF PeriodType, Valid, Starts
  <2>2. place' \in [Days -> Places \cup {None}]
    BY <1>0, TxAt DEF RecordCommit, PeriodType
  <2> QED
    BY <2>1, <2>2, RecordFacts DEF PeriodType
<1>2. Disjoint(until')
  BY DEF RecordCommit
<1>3. LineType' /\ Disjoint(line') /\ LineUnbroken'
  BY <1>0, TxAt, MoveLineFacts DEF RecordCommit
<1>4. \A c \in Days : until[c] # Never => until'[c] # Never
  BY RecordFacts, DaysFacts DEF Never
<1>5. TxType' /\ ReadsHold'
  BY <1>0, <1>4, TxEnds, ReadsKept DEF RecordCommit, IInv
<1>6. PersonType' /\ HiredStarts'
  BY <1>0, <1>4, RecordFacts DEF TypeOK, PersonType, HiredStarts, IInv
<1>7. AbsentEmpty'
  BY RecordFacts DEF IInv, AbsentEmpty
<1> QED
  BY <1>1, <1>2, <1>3, <1>5, <1>6, <1>7 DEF IInv, TypeOK, Apart

LEMMA SeparateFacts ==
    ASSUME IInv, NEW s \in Sessions, SeparateCommit(s)
    PROVE  /\ tx[s].start \in Days /\ tx[s].day \in Days
           /\ until' \in Table
           /\ until'[tx[s].start] = tx[s].day + 1
           /\ \A a \in Days : a # tx[s].start => until'[a] = until[a]
           /\ place' = place /\ hired' = hired
<1>0. TypeOK /\ PeriodType
  BY DEF IInv, TypeOK
<1>1. until' = Closed(tx[s].start, tx[s].day) /\ place' = place /\ hired' = hired
  BY DEF SeparateCommit
<1> QED
  BY <1>0, <1>1, TxAt, ClosedFacts

LEMMA SeparateInv ==
    ASSUME IInv, NEW s \in Sessions, SeparateCommit(s) PROVE IInv'
<1>0. TypeOK /\ PeriodType /\ PersonType
  BY DEF IInv, TypeOK
<1>1. Valid(until') /\ Disjoint(until')
  BY DEF SeparateCommit
<1>2. PeriodType'
  BY <1>0, <1>1, SeparateFacts DEF PeriodType
<1>3. \A c \in Days : until[c] # Never => until'[c] # Never
  <2> SUFFICES ASSUME NEW c \in Days, until[c] # Never PROVE until'[c] # Never
    OBVIOUS
  <2>1. CASE c = tx[s].start
    <3>1. tx[s].day + 1 # Never
      <4>1. tx[s].day \in Days
        BY SeparateFacts
      <4>2. tx[s].day \in Int /\ tx[s].day >= 0
        BY <4>1, DaysFacts
      <4> QED
        BY <4>2 DEF Never
    <3> QED
      BY <2>1, <3>1, SeparateFacts
  <2>2. CASE c # tx[s].start
    BY <2>2, SeparateFacts
  <2> QED
    BY <2>1, <2>2
<1>4. line' = line /\ boss' = boss /\ status' = "separated"
  BY DEF SeparateCommit
<1>5. LineType' /\ Disjoint(line') /\ LineUnbroken'
  BY <1>4 DEF LineType, Disjoint, Valid, Starts, IInv, TypeOK, Apart, LineUnbroken
<1>6. TxType' /\ ReadsHold'
  BY <1>0, <1>3, TxEnds, ReadsKept DEF SeparateCommit, IInv
<1>7. PersonType' /\ HiredStarts' /\ AbsentEmpty'
  BY <1>0, <1>3, <1>4, SeparateFacts DEF PersonType, HiredStarts, IInv, AbsentEmpty
<1> QED
  BY <1>1, <1>2, <1>5, <1>6, <1>7 DEF IInv, TypeOK, Apart

LEMMA StutterInv == ASSUME IInv, UNCHANGED vars PROVE IInv'
<1>1. until' = until /\ place' = place /\ line' = line /\ boss' = boss /\ status' = status
      /\ hired' = hired /\ tx' = tx
  BY DEF vars, rows
<1> QED
  BY <1>1 DEF IInv, TypeOK, PeriodType, LineType, PersonType, TxType, ReadsHold, AbsentEmpty,
     HiredStarts, Apart, LineUnbroken, Valid, Disjoint, Starts

LEMMA NextInv == IInv /\ [Next]_vars => IInv'
<1> SUFFICES ASSUME IInv, [Next]_vars PROVE IInv'
  OBVIOUS
<1>1. CASE HireStep
  BY <1>1, HireInv DEF HireStep
<1>2. ASSUME NEW s \in Sessions, Read(s) PROVE IInv'
  BY <1>2, ReadInv
<1>3. ASSUME NEW s \in Sessions, Commit(s) PROVE IInv'
  BY <1>3, RecordInv, SeparateInv DEF Commit
<1>4. ASSUME NEW s \in Sessions, Abort(s) PROVE IInv'
  BY <1>4, AbortInv
<1>5. CASE UNCHANGED vars
  BY <1>5, StutterInv
<1> QED
  BY <1>1, <1>2, <1>3, <1>4, <1>5 DEF Next

-----------------------------------------------------------------------------
\* The periods are valid and every variable has its type, for any constants.
THEOREM TypeCorrect == Spec => []TypeOK
<1>1. IInv => TypeOK
  BY DEF IInv
<1> QED
  BY InitInv, NextInv, <1>1, PTL DEF Spec

\* However many transfers overlap, a supervisor's line ends only where the
\* next one begins (the UPDATE and the INSERT of recordEvent).
THEOREM LineCorrect == Spec => []LineUnbroken
<1>1. IInv => LineUnbroken
  BY DEF IInv
<1> QED
  BY InitInv, NextInv, <1>1, PTL DEF Spec

\* The steps that change no period.
LEMMA ReadsChangeNothing ==
    ASSUME NEW s \in Sessions, Read(s) \/ Abort(s)
    PROVE  until' = until /\ place' = place /\ status' = status /\ hired' = hired
  BY DEF Read, Abort, RecordRead, SeparateRead, Goes, rows

LEMMA CommitEnds ==
    ASSUME IInv, NEW s \in Sessions, Commit(s)
    PROVE  Ended(s)
  BY TxEnds DEF Commit, RecordCommit, SeparateCommit, Ended, IInv

\* A change or a separation leaves the days before it as they were, whatever
\* commits between its read and its write.
THEOREM HistoryCorrect == Spec => HistoryKept
<1> DEFINE Kept(c, d) == \/ Covers(until', c, d) /\ place'[c] = place[c]
                         \/ \E s \in Sessions : Ended(s) /\ Effective(s) <= d
<1>1. ASSUME IInv, Next, NEW c \in Days, NEW d \in Days, Covers(until, c, d)
      PROVE  Kept(c, d)
  <2>0. until \in Table /\ Valid(until) /\ Disjoint(until) /\ until[c] # Never
    BY <1>1, DaysFacts DEF IInv, TypeOK, PeriodType, Apart, Covers, Table, Never
  <2>1. ASSUME NEW e \in Days, NEW p \in Places, NEW b \in Bosses \cup {None},
               Hire(e, p, b) \/ Reimport(e, p, b)
        PROVE  Kept(c, d)
    <3>1. CASE UNCHANGED <<until, place, hired>>
      BY <3>1, <1>1 DEF Covers
    <3>2. CASE /\ FreeFrom(until, e) /\ until' = Opened(until, e)
               /\ place' = [place EXCEPT ![e] = p] /\ hired' = hired \cup {e}
      <4>1. c # e /\ until'[c] = until[c]
        BY <2>0, <3>2, OpenedFacts
      <4>2. place'[c] = place[c]
        BY <3>2, <4>1, <1>1 DEF IInv, TypeOK, PeriodType
      <4> QED
        BY <4>1, <4>2, <1>1 DEF Covers
    <3> QED
      BY <3>1, <3>2, <1>1, <2>1, HireFacts
  <2>2. ASSUME NEW s \in Sessions, Read(s) \/ Abort(s) PROVE Kept(c, d)
    BY <2>2, <1>1, ReadsChangeNothing DEF Covers
  <2>3. ASSUME NEW s \in Sessions, RecordCommit(s) PROVE Kept(c, d)
    <3>1. c # tx[s].day /\ place'[c] = place[c]
      BY <2>0, <2>3, <1>1, RecordFacts
    <3>2. CASE d < tx[s].day
      <4>1. until'[c] = tx[s].day \/ until'[c] = until[c]
        BY <2>3, <1>1, <3>1, RecordFacts
      <4> QED
        BY <3>1, <3>2, <4>1, <1>1 DEF Covers
    <3>3. CASE tx[s].day <= d
      <4>1. Ended(s)
        BY <2>3, <1>1, CommitEnds DEF Commit
      <4>2. Effective(s) <= d
        <5>1. tx[s].at = "recording" /\ tx[s].day \in Int
          BY <2>3, <1>1, RecordFacts, DaysFacts DEF RecordCommit
        <5> QED
          BY <5>1, <3>3 DEF Effective
      <4> QED
        BY <4>1, <4>2
    <3> QED
      <4>1. tx[s].day \in Int /\ d \in Int
        BY <2>3, <1>1, RecordFacts, DaysFacts
      <4> QED
        BY <4>1, <3>2, <3>3
  <2>4. ASSUME NEW s \in Sessions, SeparateCommit(s) PROVE Kept(c, d)
    <3>1. CASE d < tx[s].day + 1
      <4>1. until'[c] = tx[s].day + 1 \/ until'[c] = until[c]
        BY <2>4, <1>1, SeparateFacts
      <4>2. place'[c] = place[c]
        BY <2>4, <1>1, SeparateFacts
      <4> QED
        BY <3>1, <4>1, <4>2, <1>1 DEF Covers
    <3>2. CASE tx[s].day + 1 <= d
      <4>1. Ended(s)
        BY <2>4, <1>1, CommitEnds DEF Commit
      <4>2. Effective(s) <= d
        BY <2>4, <3>2 DEF Effective, SeparateCommit
      <4> QED
        BY <4>1, <4>2
    <3> QED
      <4>1. tx[s].day \in Days
        BY <2>4, <1>1, SeparateFacts
      <4>2. tx[s].day \in Int /\ d \in Int
        BY <4>1, DaysFacts
      <4> QED
        BY <3>1, <3>2, <4>2
  <2> QED
    BY <2>1, <2>2, <2>3, <2>4, <1>1 DEF Next, HireStep, Commit
<1>2. IInv /\ [Next]_vars
        => [\A c, d \in Days : Covers(until, c, d) => Kept(c, d)]_vars
  BY <1>1
<1>3. Spec => [][\A c, d \in Days : Covers(until, c, d) => Kept(c, d)]_vars
  BY InitInv, NextInv, <1>2, PTL DEF Spec
<1> QED
  BY <1>3 DEF HistoryKept

\* A separated person gets an open period only by an import with another date
\* of hire, or by a change that had read the period still open.
THEOREM SeparationCorrect == Spec => SeparationStands
<1>1. ASSUME IInv, Next, status = "separated", ~IsOpen(until), IsOpen(until')
      PROVE  hired' # hired \/ ByStale
  <2>0. until \in Table /\ Valid(until) /\ Disjoint(until)
    BY <1>1 DEF IInv, TypeOK, PeriodType, Apart
  <2>a. PICK o \in Days : until'[o] = Forever
    BY <1>1 DEF IsOpen
  <2>1. ASSUME NEW e \in Days, NEW p \in Places, NEW b \in Bosses \cup {None},
               Hire(e, p, b) \/ Reimport(e, p, b)
        PROVE  hired' # hired
    <3>1. CASE UNCHANGED <<until, place, hired>>
      BY <3>1, <1>1 DEF IsOpen
    <3>2. CASE FreeFrom(until, e) /\ hired' = hired \cup {e}
      <4>1. until[e] = Never
        BY <2>0, <3>2, OpenedFacts
      <4> QED
        BY <3>2, <4>1, <1>1 DEF IInv, HiredStarts
    <3> QED
      BY <3>1, <3>2, <1>1, <2>1, HireFacts
  <2>2. ASSUME NEW s \in Sessions, Read(s) \/ Abort(s) PROVE FALSE
    BY <2>2, <1>1, ReadsChangeNothing DEF IsOpen
  <2>3. ASSUME NEW s \in Sessions, RecordCommit(s) PROVE ByStale
    <3>1. o = tx[s].day
      BY <2>3, <2>a, <1>1, RecordFacts, DaysFacts DEF IsOpen
    <3>2. tx[s].far = Forever /\ until[tx[s].start] # Forever
      BY <3>1, <2>3, <2>a, <1>1, RecordFacts DEF IsOpen
    <3>3. Ended(s)
      BY <2>3, <1>1, CommitEnds DEF Commit
    <3> QED
      BY <3>2, <3>3 DEF ByStale, Stale
  <2>4. ASSUME NEW s \in Sessions, SeparateCommit(s) PROVE FALSE
    BY <2>4, <2>a, <1>1, SeparateFacts, DaysFacts DEF IsOpen
  <2> QED
    BY <2>1, <2>2, <2>3, <2>4, <1>1 DEF Next, HireStep, Commit
<1>2. IInv /\ [Next]_vars
        => [status = "separated" /\ ~IsOpen(until) /\ IsOpen(until)'
              => hired' # hired \/ ByStale]_vars
  BY <1>1 DEF IsOpen
<1>3. Spec => [][status = "separated" /\ ~IsOpen(until) /\ IsOpen(until)'
                   => hired' # hired \/ ByStale]_vars
  BY InitInv, NextInv, <1>2, PTL DEF Spec
<1> QED
  BY <1>3 DEF SeparationStands

\* A change tears a history only if it is stale: if what it closes was changed
\* after it read it.
THEOREM GapsCorrect == Spec => GapsAreStale
<1>1. ASSUME IInv, Next, NoGap, ~ByStale, NEW e \in Days, until'[e] # Never, e \notin hired'
      PROVE  \E c \in Days : until'[c] # Never /\ until'[c] = e
  <2>0. until \in Table /\ Valid(until) /\ Disjoint(until)
    BY <1>1 DEF IInv, TypeOK, PeriodType, Apart
  <2>a. ASSUME until[e] # Never, e \notin hired
        PROVE  \E c \in Days : until[c] # Never /\ until[c] = e
    BY <1>1, <2>a DEF NoGap, Starts
  <2>1. ASSUME NEW d \in Days, NEW p \in Places, NEW b \in Bosses \cup {None},
               Hire(d, p, b) \/ Reimport(d, p, b)
        PROVE  \E c \in Days : until'[c] # Never /\ until'[c] = e
    <3>1. CASE UNCHANGED <<until, place, hired>>
      BY <3>1, <2>a, <1>1
    <3>2. CASE FreeFrom(until, d) /\ until' = Opened(until, d) /\ hired' = hired \cup {d}
      <4>1. e # d /\ e \notin hired /\ until'[e] = until[e]
        BY <3>2, <2>0, <1>1, OpenedFacts
      <4>2. PICK c \in Days : until[c] # Never /\ until[c] = e
        BY <4>1, <2>a, <1>1
      <4>3. until'[c] = until[c]
        BY <4>2, <3>2, <2>0, OpenedFacts
      <4> QED
        BY <4>2, <4>3
    <3> QED
      BY <3>1, <3>2, <1>1, <2>1, HireFacts
  <2>2. ASSUME NEW s \in Sessions, Read(s) \/ Abort(s)
        PROVE  \E c \in Days : until'[c] # Never /\ until'[c] = e
    BY <2>2, <2>a, <1>1, ReadsChangeNothing
  <2>3. ASSUME NEW s \in Sessions, RecordCommit(s)
        PROVE  \E c \in Days : until'[c] # Never /\ until'[c] = e
    <3>1. until[tx[s].start] = tx[s].far
      BY <2>3, <1>1, CommitEnds DEF ByStale, Stale, Commit
    <3>2. CASE e = tx[s].day
      <4>1. tx[s].start \in Days /\ until'[tx[s].start] = e
        BY <3>2, <2>3, <1>1, RecordFacts
      <4>2. until[tx[s].start] # Never /\ tx[s].start < tx[s].day
        BY <2>3, <1>1, RecordFacts
      <4>3. e # Never
        <5>1. tx[s].start >= 0 /\ tx[s].start \in Int /\ e \in Int
          BY <4>1, DaysFacts
        <5> QED
          BY <5>1, <4>2, <3>2 DEF Never
      <4> QED
        BY <4>1, <4>3
    <3>3. CASE e # tx[s].day
      <4>1. until[e] # Never /\ e \notin hired
        BY <3>3, <2>3, <1>1, RecordFacts
      <4>2. PICK c \in Days : until[c] # Never /\ until[c] = e
        BY <4>1, <2>a
      <4>3. CASE c = tx[s].start
        BY <4>2, <4>3, <3>1, <2>3, <1>1, RecordFacts
      <4>4. CASE c # tx[s].start
        <5>1. c # tx[s].day
          BY <4>2, <2>3, <1>1, RecordFacts
        <5> QED
          BY <5>1, <4>2, <4>4, <2>3, <1>1, RecordFacts
      <4> QED
        BY <4>3, <4>4
    <3> QED
      BY <3>2, <3>3
  <2>4. ASSUME NEW s \in Sessions, SeparateCommit(s)
        PROVE  \E c \in Days : until'[c] # Never /\ until'[c] = e
    <3>1. until[tx[s].start] = Forever
      <4>1. ~Stale(s)
        BY <2>4, <1>1, CommitEnds DEF ByStale, Commit
      <4> QED
        BY <4>1, <2>4, <1>1 DEF Stale, SeparateCommit, IInv, ReadsHold
    <3>2. until[e] # Never /\ e \notin hired
      BY <3>1, <2>4, <1>1, SeparateFacts, DaysFacts DEF Never
    <3>3. PICK c \in Days : until[c] # Never /\ until[c] = e
      BY <3>2, <2>a
    <3>4. c # tx[s].start
      BY <3>1, <3>3, DaysFacts
    <3> QED
      BY <3>3, <3>4, <2>4, <1>1, SeparateFacts
  <2> QED
    BY <2>1, <2>2, <2>3, <2>4, <1>1 DEF Next, HireStep, Commit
<1>2. IInv /\ [Next]_vars => [NoGap /\ ~NoGap' => ByStale]_vars
  <2> SUFFICES ASSUME IInv, Next, NoGap, ~ByStale PROVE NoGap'
    OBVIOUS
  <2> QED
    BY <1>1 DEF NoGap, Starts
<1>3. Spec => [][NoGap /\ ~NoGap' => ByStale]_vars
  BY InitInv, NextInv, <1>2, PTL DEF Spec
<1> QED
  BY <1>3 DEF GapsAreStale

-----------------------------------------------------------------------------
(***************************************************************************)
(* Import.  The invariant: who numbers what, which updates are open, and   *)
(* what their triggers have found that is still true.                      *)
(***************************************************************************)

\* The units that were created with a code.
Numbered(o, code) == {i \in DOMAIN o.units : i[1] = code}

\* They are numbered from 1, so that the next number is free.
NumbersInUse(o) ==
    \A code \in Codes :
        /\ IsFiniteSet(Numbered(o, code))
        /\ \A i \in Numbered(o, code) : i[2] <= Cardinality(Numbered(o, code))

\* The units of an open update.
Open(s) == pending[s] # NoUpdate
Moves(s) == Open(s) /\ pending[s].row.ends = "never" /\ pending[s].row.parent # Nil

\* Whatever is named as a parent exists.
ParentsIn(o) == \A i \in DOMAIN o.units : o.units[i].parent \in DOMAIN o.units \cup {Nil}

ParentsThere ==
    /\ ParentsIn(org)
    /\ \A s \in Updates : Open(s) => pending[s].row.parent \in DOMAIN org.units \cup {Nil}

\* A row has one open update; one that closes it leaves its parent, and found
\* nobody in it: who is there has been admitted since.
UpdatesApart ==
    /\ \A s, t \in Updates : Open(s) /\ Open(t) /\ pending[s].unit = pending[t].unit => s = t
    /\ \A s \in Updates : Open(s) /\ pending[s].row.ends # "never" =>
           /\ pending[s].row.parent = org.units[pending[s].unit].parent
           /\ \A p \in People : UnitOf(p) = pending[s].unit => p \in admitted

\* While no two moves overlap, what the trigger found is true until the commit.
MovesSafe ==
    ~raced =>
        /\ \A s, t \in Updates : Moves(s) /\ Moves(t) => s = t
        /\ \A s \in Updates :
               Moves(s) => ~ Trapped(org.units, pending[s].unit, pending[s].row.parent)

\* A line is of an import that was.
LinesNumbered == \A p \in People : lineFrom[p] <= imports

ImportIInv ==
    /\ ImportTypeOK /\ NumbersInUse(org) /\ ParentsThere /\ UpdatesApart /\ MovesSafe /\ LinesNumbered
    /\ ForestUnlessRaced /\ ClosedUnlessAdmitted /\ CyclesSpanImports

-----------------------------------------------------------------------------
(***************************************************************************)
(* Reading a file.                                                         *)
(***************************************************************************)

LEMMA LeastNumber ==
  ASSUME NEW S \in SUBSET Nat, S # {}
  PROVE  \E n \in S : \A m \in S : n <= m
<1>1. \E n \in S : \A m \in S : ~ (<<m, n>> \in OpToRel(<, Nat))
  BY NatLessThanWellFounded, WFMin
<1>2. PICK n \in S : \A m \in S : ~ (<<m, n>> \in OpToRel(<, Nat))
  BY <1>1
<1>3. \A m \in S : ~ (m < n)
  BY <1>2, Zenon DEF OpToRel
<1> QED
  BY <1>3

LEMMA FileFacts ==
  ASSUME NEW f \in Files
  PROVE  /\ Len(f) \in Nat /\ DOMAIN f = 1..Len(f)
         /\ \A i \in DOMAIN f :
               /\ f[i] \in [who : People, units : Seq([name : Names, level : DOMAIN DepthOf]),
                            boss : People \cup {Nil}, rank : Ranks \cup {Nil}]
               /\ Len(f[i].units) \in Nat \ {0} /\ DOMAIN f[i].units = 1..Len(f[i].units)
               /\ \A j \in DOMAIN f[i].units :
                     f[i].units[j] \in [name : Names, level : DOMAIN DepthOf]
<1> DEFINE U == [name : Names, level : DOMAIN DepthOf]
           R == [who : People, units : Seq(U), boss : People \cup {Nil}, rank : Ranks \cup {Nil}]
<1>1. f \in Seq(R) /\ \A i \in DOMAIN f : f[i].units # <<>>
  BY FilesAssumption DEF StaffFile
<1>2. \A r \in R : r.units \in Seq(U)
  OBVIOUS
<1> HIDE DEF R
<1>3. Len(f) \in Nat /\ DOMAIN f = 1..Len(f) /\ \A i \in DOMAIN f : f[i] \in R
  BY <1>1
<1> HIDE DEF U
<1>4. ASSUME NEW i \in DOMAIN f
      PROVE  /\ Len(f[i].units) \in Nat \ {0} /\ DOMAIN f[i].units = 1..Len(f[i].units)
             /\ \A j \in DOMAIN f[i].units : f[i].units[j] \in U
  <2>1. f[i].units \in Seq(U) /\ f[i].units # <<>>
    BY <1>1, <1>2, <1>3
  <2>2. Len(f[i].units) \in Nat \ {0}
    BY <2>1, EmptySeq
  <2> QED
    BY <2>1, <2>2
<1> QED
  BY <1>3, <1>4 DEF R, U

LEMMA MentionFacts ==
  ASSUME NEW f \in Files, NEW m \in Mentions(f)
  PROVE  /\ m = <<m[1], m[2]>> /\ m[1] \in DOMAIN f /\ m[2] \in 1..Len(f[m[1]].units)
         /\ m[2] \in Nat \ {0}
         /\ At(f, m).name \in Names /\ At(f, m).level \in DOMAIN DepthOf
         /\ CodeAt(f, m) \in Codes
         /\ m[2] # 1 => <<m[1], m[2] - 1>> \in Mentions(f)
<1>1. PICK i \in DOMAIN f : m \in {i} \X DOMAIN f[i].units
  BY DEF Mentions
<1>2. /\ m = <<m[1], m[2]>> /\ m[1] \in DOMAIN f /\ m[2] \in DOMAIN f[m[1]].units
  BY <1>1
<1>3. m[2] \in 1..Len(f[m[1]].units) /\ m[2] \in Nat \ {0}
  BY <1>2, FileFacts
<1>4. At(f, m).name \in Names /\ At(f, m).level \in DOMAIN DepthOf
  BY <1>2, FileFacts DEF At
<1>5. CodeAt(f, m) \in Codes
  BY <1>4, CodeOfAssumption DEF CodeAt
<1>6. m[2] # 1 => <<m[1], m[2] - 1>> \in Mentions(f)
  <2> SUFFICES ASSUME m[2] # 1 PROVE <<m[1], m[2] - 1>> \in Mentions(f)
    OBVIOUS
  <2>1. m[2] - 1 \in DOMAIN f[m[1]].units
    BY <1>2, <1>3, FileFacts
  <2> QED
    BY <1>2, <2>1 DEF Mentions
<1> QED
  BY <1>2, <1>3, <1>4, <1>5, <1>6

\* The first mention of a code is one.
LEMMA FirstFacts ==
  ASSUME NEW f \in Files, NEW code \in CodesIn(f)
  PROVE  First(f, code) \in Mentions(f) /\ CodeAt(f, First(f, code)) = code
<1> DEFINE M == {m \in Mentions(f) : CodeAt(f, m) = code}
<1>1. M # {}
  BY DEF CodesIn
<1> DEFINE I == {m[1] : m \in M}
<1>2. I \in SUBSET Nat /\ I # {}
  <2>1. \A m \in M : m[1] \in DOMAIN f
    BY MentionFacts
  <2> QED
    BY <1>1, <2>1, FileFacts
<1>3. PICK i \in I : \A k \in I : i <= k
  BY <1>2, LeastNumber
<1> DEFINE J == {m[2] : m \in {n \in M : n[1] = i}}
<1>4. J \in SUBSET Nat /\ J # {}
  BY MentionFacts, <1>3
<1>5. PICK j \in J : \A k \in J : j <= k
  BY <1>4, LeastNumber
<1>6. PICK m \in M : m[1] = i /\ m[2] = j
  BY <1>5
<1>7. \A n \in Mentions(f) : CodeAt(f, n) = code =>
          m[1] < n[1] \/ (m[1] = n[1] /\ m[2] <= n[2])
  <2> SUFFICES ASSUME NEW n \in M PROVE m[1] < n[1] \/ (m[1] = n[1] /\ m[2] <= n[2])
    OBVIOUS
  <2>1. n[1] \in I /\ m[1] <= n[1] /\ n[1] \in Nat /\ m[1] \in Nat
    BY <1>2, <1>3, <1>6
  <2>2. CASE n[1] = i
    <3>1. n[2] \in J
      BY <2>2
    <3> QED
      BY <1>5, <1>6, <2>2, <3>1
  <2>3. CASE n[1] # i
    BY <1>6, <2>1, <2>3
  <2> QED
    BY <2>2, <2>3
<1>8. m \in Mentions(f) /\ CodeAt(f, m) = code
  OBVIOUS
<1> QED
  BY <1>7, <1>8 DEF First

LEMMA CodeFacts ==
  ASSUME NEW f \in Files, NEW code \in CodesIn(f)
  PROVE  /\ code \in Codes /\ code # Nil
         /\ NameIn(f, code) \in Names /\ LevelIn(f, code) \in DOMAIN DepthOf
         /\ ParentIn(f, code) \in CodesIn(f) \cup {Nil}
<1>1. First(f, code) \in Mentions(f) /\ CodeAt(f, First(f, code)) = code
  BY FirstFacts
<1>2. ParentIn(f, code) \in CodesIn(f) \cup {Nil}
  BY <1>1, MentionFacts DEF ParentIn, ParentAt, CodesIn
<1>3. code \in Codes /\ NameIn(f, code) \in Names /\ LevelIn(f, code) \in DOMAIN DepthOf
  BY <1>1, MentionFacts DEF NameIn, LevelIn
<1> QED
  BY <1>2, <1>3, NilAssumption

\* A file that is let through has no units above each other in a circle: some
\* row names one of them first.
LEMMA NamesForest ==
  ASSUME NEW f \in ValidFiles, NEW C \in SUBSET CodesIn(f), C # {},
         \A code \in C : ParentIn(f, code) \in C
  PROVE  FALSE
<1>1. f \in Files /\ UnitsAgree(f)
  BY DEF ValidFiles, Passes
<1> DEFINE M == {m \in Mentions(f) : CodeAt(f, m) \in C}
<1>2. M # {}
  BY DEF CodesIn
<1> DEFINE J == {m[2] : m \in M}
<1>3. J \in SUBSET Nat /\ J # {}
  <2>1. \A m \in M : m[2] \in Nat
    BY <1>1, MentionFacts
  <2> QED
    BY <1>2, <2>1
<1>4. PICK j \in J : \A k \in J : j <= k
  BY <1>3, LeastNumber
<1>5. PICK m \in M : m[2] = j
  BY <1>4
<1>6. ParentAt(f, m) \in C
  <2>1. First(f, CodeAt(f, m)) \in Mentions(f) /\ CodeAt(f, First(f, CodeAt(f, m))) = CodeAt(f, m)
    BY <1>1, FirstFacts
  <2>2. ParentAt(f, m) = ParentIn(f, CodeAt(f, m))
    BY <1>1, <2>1 DEF UnitsAgree, ParentIn
  <2> QED
    BY <2>2
<1>7. m[2] # 1
  BY <1>1, <1>6, CodeFacts DEF ParentAt
<1>8. <<m[1], m[2] - 1>> \in M
  BY <1>1, <1>6, <1>7, MentionFacts DEF ParentAt
<1>9. m[2] - 1 \in J
  BY <1>8
<1>10. j \in Nat /\ j <= j - 1
  BY <1>3, <1>4, <1>5, <1>9
<1> QED
  BY <1>10
-----------------------------------------------------------------------------
(***************************************************************************)
(* The search for circles of lines.                                        *)
(***************************************************************************)

LEMMA LoopsFound ==
  ASSUME NEW next, IsFiniteSet(DOMAIN next),
         DOMAIN next \subseteq People, \A p \in DOMAIN next : next[p] \in People,
         NEW T \in SUBSET DOMAIN next, \A p \in T : next[p] \in T, NEW start \in T
  PROVE  Loops(next, start)
<1> DEFINE D == DOMAIN next
           X == (SUBSET DOMAIN next) \X (People \cup {Nil})
           On(w, at) == /\ at[2] \in DOMAIN next
                        /\ at[2] \in at[1] \/ w[<<at[1] \cup {at[2]}, next[at[2]]>>]
           walk == CHOOSE w : w = [at \in X |-> On(w, at)]
           Closes(path, node) == \E S \in SUBSET D : node \in S /\ \A u \in S : u \in path \/ next[u] \in S
           found == [at \in X |-> Closes(at[1], at[2])]
<1>1. found = [at \in X |-> On(found, at)]
  <2>1. ASSUME NEW path \in SUBSET D, NEW node \in D \ path
        PROVE  Closes(path, node) <=> Closes(path \cup {node}, next[node])
    <3>1. ASSUME NEW S \in SUBSET D, node \in S, \A u \in S : u \in path \/ next[u] \in S
          PROVE  Closes(path \cup {node}, next[node])
      BY <3>1
    <3>2. ASSUME NEW S \in SUBSET D, next[node] \in S,
                 \A u \in S : u \in path \cup {node} \/ next[u] \in S
          PROVE  Closes(path, node)
      <4>1. \A u \in S \cup {node} : u \in path \/ next[u] \in S \cup {node}
        BY <3>2
      <4> QED
        BY <4>1
    <3> QED
      BY <3>1, <3>2
  <2>2. ASSUME NEW path \in SUBSET D, NEW node \in path PROVE Closes(path, node)
    <3>1. {node} \in SUBSET D
      OBVIOUS
    <3> QED
      BY <3>1
  <2>3. ASSUME NEW path \in SUBSET D, NEW node, node \notin D PROVE ~ Closes(path, node)
    BY <2>3
  <2> HIDE DEF Closes
  <2>4. ASSUME NEW at \in X PROVE Closes(at[1], at[2]) = On(found, at)
    <3>1. at[1] \in SUBSET D /\ at[2] \in People \cup {Nil}
      OBVIOUS
    <3>2. Closes(at[1], at[2]) \in BOOLEAN
      BY DEF Closes
    <3>3. CASE at[2] \notin D
      BY <3>1, <3>2, <3>3, <2>3
    <3>4. CASE at[2] \in at[1]
      <4>1. Closes(at[1], at[2])
        BY <3>1, <3>4, <2>2
      <4>2. On(found, at)
        BY <3>1, <3>4
      <4> QED
        BY <3>2, <4>1, <4>2
    <3>5. CASE at[2] \in D \ at[1]
      <4> DEFINE y == <<at[1] \cup {at[2]}, next[at[2]]>>
      <4>1. y \in X /\ y[1] = at[1] \cup {at[2]} /\ y[2] = next[at[2]]
        BY <3>1, <3>5
      <4> HIDE DEF y
      <4>2. found[y] = Closes(y[1], y[2])
        BY <4>1
      <4>3. Closes(at[1], at[2]) <=> Closes(y[1], y[2])
        BY <3>1, <3>5, <2>1, <4>1
      <4>4. On(found, at) <=> found[y]
        BY <3>5 DEF y
      <4>5. Closes(at[1], at[2]) \in BOOLEAN /\ Closes(y[1], y[2]) \in BOOLEAN
        BY DEF Closes
      <4> QED
        BY <4>2, <4>3, <4>4, <4>5
    <3> QED
      BY <3>1, <3>3, <3>4, <3>5
  <2> QED
    BY <2>4
<1>2. walk = [at \in X |-> On(walk, at)]
  <2> HIDE DEF X, On, found
  <2> QED
    BY <1>1
<1> DEFINE Fails == {path \in SUBSET D : \E node \in T : ~ walk[<<path, node>>]}
<1>3. Fails = {}
  <2> SUFFICES ASSUME Fails # {} PROVE FALSE
    OBVIOUS
  <2> DEFINE Rests == {D \ path : path \in Fails}
             R == StrictSubsetOrdering(D)
  <2>1. Rests \subseteq FiniteSubsetsOf(D) /\ Rests # {}
    <3>1. \A path : D \ path \in SUBSET D
      OBVIOUS
    <3>2. \A S \in SUBSET D : IsFiniteSet(S)
      BY FS_Subset
    <3>3. \A path : D \ path \in FiniteSubsetsOf(D)
      BY <3>1, <3>2 DEF FiniteSubsetsOf
    <3> HIDE DEF Fails, D
    <3> QED
      BY <3>3
  <2>2. IsWellFoundedOn(R, FiniteSubsetsOf(D))
    BY FS_StrictSubsetOrderingWellFounded
  <2>3. PICK rest \in Rests : \A other \in Rests : ~ (<<other, rest>> \in R)
    <3> HIDE DEF Rests, R
    <3> QED
      BY <2>1, <2>2, WFMin
  <2>4. PICK path \in Fails : rest = D \ path
    OBVIOUS
  <2>5. PICK node \in T : ~ walk[<<path, node>>]
    OBVIOUS
  <2>6. <<path, node>> \in X
    OBVIOUS
  <2>7. node \notin path /\ ~ walk[<<path \cup {node}, next[node]>>]
    <3>1. walk[<<path, node>>] = On(walk, <<path, node>>)
      <4> HIDE DEF X, On, walk
      <4> QED
        BY <1>2, <2>6
    <3> HIDE DEF walk
    <3>2. ~ On(walk, <<path, node>>)
      BY <2>5, <3>1
    <3> QED
      BY <3>2
  <2>8. path \cup {node} \in Fails
    BY <2>7
  <2>9. <<D \ (path \cup {node}), rest>> \in R
    BY <2>4, <2>7 DEF StrictSubsetOrdering
  <2> QED
    BY <2>3, <2>8, <2>9
<1>4. walk[<<{}, start>>]
  BY <1>3
<1> QED
  BY <1>4 DEF Loops

LEMMA RowFacts ==
  ASSUME NEW f \in Files, NEW p \in People_(f)
  PROVE  /\ p \in People /\ \E i \in DOMAIN f : RowOf(f, p) = f[i] /\ f[i].who = p
         /\ RowOf(f, p).boss \in People \cup {Nil} /\ RowOf(f, p).rank \in Ranks \cup {Nil}
         /\ Deepest(RowOf(f, p)) \in CodesIn(f)
<1>1. PICK i \in DOMAIN f : f[i].who = p /\ RowOf(f, p) = f[i]
  BY DEF People_, RowOf
<1>2. /\ p \in People /\ RowOf(f, p).boss \in People \cup {Nil}
      /\ RowOf(f, p).rank \in Ranks \cup {Nil}
  BY <1>1, FileFacts
<1>3. Deepest(RowOf(f, p)) \in CodesIn(f)
  <2> DEFINE m == <<i, Len(f[i].units)>>
  <2>1. m \in Mentions(f)
    BY FileFacts DEF Mentions
  <2>2. Deepest(RowOf(f, p)) = CodeAt(f, m)
    BY <1>1 DEF Deepest, CodeAt, At
  <2> QED
    BY <2>1, <2>2 DEF CodesIn
<1> QED
  BY <1>1, <1>2, <1>3

LEMMA PeopleFinite ==
  ASSUME NEW f \in Files
  PROVE  IsFiniteSet(People_(f))
<1> DEFINE who == [i \in DOMAIN f |-> f[i].who]
<1>1. who \in Surjection(DOMAIN f, People_(f))
  BY DEF People_, Surjection
<1>2. IsFiniteSet(DOMAIN f)
  BY FileFacts, FS_Interval
<1> QED
  BY <1>1, <1>2, FS_Surjection

\* A file that is let through has no circle of lines.
LEMMA LinesForest ==
  ASSUME NEW f \in ValidFiles, NEW T \in SUBSET DOMAIN Lines(f), T # {},
         \A p \in T : Lines(f)[p] \in T
  PROVE  FALSE
<1>1. f \in Files /\ \A p \in DOMAIN Lines(f) : ~ Loops(Lines(f), p)
  BY DEF ValidFiles, Passes
<1>2. DOMAIN Lines(f) \subseteq People_(f) /\ DOMAIN Lines(f) \subseteq People
  BY <1>1, RowFacts DEF Lines
<1>3. IsFiniteSet(DOMAIN Lines(f))
  BY <1>1, <1>2, PeopleFinite, FS_Subset
<1>4. \A p \in DOMAIN Lines(f) : Lines(f)[p] \in People
  BY <1>1, <1>2, RowFacts DEF Lines
<1>5. PICK start \in T : TRUE
  OBVIOUS
<1>6. Loops(Lines(f), start)
  BY <1>2, <1>3, <1>4, <1>5, LoopsFound
<1> QED
  BY <1>1, <1>5, <1>6

-----------------------------------------------------------------------------
(***************************************************************************)
(* Writing a file.                                                         *)
(***************************************************************************)

\* The next unit of a code is a new one.
LEMMA FreshFacts ==
  ASSUME NEW o, OrgType(o), NumbersInUse(o), NEW code \in Codes
  PROVE  /\ Fresh(o, code) \in Ids /\ Fresh(o, code) \notin DOMAIN o.units
         /\ Fresh(o, code)[1] = code /\ Fresh(o, code) # Nil
         /\ Fresh(o, code)[2] = 1 + Cardinality(Numbered(o, code))
         /\ Cardinality(Numbered(o, code)) \in Nat
<1>1. IsFiniteSet(Numbered(o, code)) /\ Cardinality(Numbered(o, code)) \in Nat
  BY FS_CardinalityType DEF NumbersInUse
<1>2. Fresh(o, code) = <<code, 1 + Cardinality(Numbered(o, code))>>
  BY DEF Fresh, Numbered
<1>3. Fresh(o, code) \in Ids
  BY <1>1, <1>2 DEF Ids
<1>4. Fresh(o, code) \notin DOMAIN o.units
  <2> SUFFICES ASSUME Fresh(o, code) \in DOMAIN o.units PROVE FALSE
    OBVIOUS
  <2>1. Fresh(o, code) \in Numbered(o, code)
    BY <1>2 DEF Numbered
  <2>2. 1 + Cardinality(Numbered(o, code)) <= Cardinality(Numbered(o, code))
    BY <1>2, <2>1 DEF NumbersInUse
  <2> QED
    BY <1>1, <2>2
<1> QED
  BY <1>1, <1>2, <1>3, <1>4, NilAssumption DEF Ids

\* With the unit that is added, the numbers are in use.
LEMMA NumbersAfter ==
  ASSUME NEW o, OrgType(o), NumbersInUse(o), NEW n, NEW New \in SUBSET Codes,
         DOMAIN n.units = DOMAIN o.units \cup {Fresh(o, code) : code \in New}
  PROVE  NumbersInUse(n)
<1> SUFFICES ASSUME NEW code \in Codes
             PROVE  /\ IsFiniteSet(Numbered(n, code))
                    /\ \A i \in Numbered(n, code) : i[2] <= Cardinality(Numbered(n, code))
  BY DEF NumbersInUse
<1>1. /\ IsFiniteSet(Numbered(o, code)) /\ Cardinality(Numbered(o, code)) \in Nat
      /\ \A i \in Numbered(o, code) : i[2] <= Cardinality(Numbered(o, code))
  BY FreshFacts DEF NumbersInUse
<1>4. \A c \in New : Fresh(o, c)[1] = c
  BY FreshFacts
<1>2. CASE code \notin New
  <2>1. Numbered(n, code) = Numbered(o, code)
    BY <1>2, <1>4 DEF Numbered
  <2> QED
    BY <1>1, <2>1
<1>3. CASE code \in New
  <2>1. Numbered(n, code) = Numbered(o, code) \cup {Fresh(o, code)}
    BY <1>3, <1>4 DEF Numbered
  <2>2. Fresh(o, code) \notin Numbered(o, code)
    BY FreshFacts DEF Numbered
  <2>3. IsFiniteSet(Numbered(n, code)) /\ Cardinality(Numbered(n, code)) = Cardinality(Numbered(o, code)) + 1
    BY <1>1, <2>1, <2>2, FS_AddElement
  <2>4. \A i \in Numbered(o, code) : i[2] \in Nat
    BY DEF Numbered, OrgType, Ids
  <2>5. \A i \in Numbered(o, code) : i[2] <= Cardinality(Numbered(n, code))
    BY <1>1, <2>3, <2>4
  <2>6. Fresh(o, code)[2] <= Cardinality(Numbered(n, code))
    BY <1>1, <2>3, FreshFacts
  <2> QED
    BY <2>1, <2>3, <2>5, <2>6
<1> QED
  BY <1>2, <1>3

\* What each code of a file stands for.
LEMMA FoundFacts ==
  ASSUME NEW o, OrgType(o), NumbersInUse(o), NEW f \in Files, NEW id \in Found(o, f),
         NEW code \in CodesIn(f)
  PROVE  /\ code \in Missing(o, f) =>
               /\ id[code] = Fresh(o, code) /\ id[code] \in Ids /\ id[code] \notin DOMAIN o.units
               /\ id[code][1] = code
         /\ code \notin Missing(o, f) =>
               id[code] \in DOMAIN o.units /\ o.units[id[code]].code = code
         /\ id[code] # Nil
<1>1. code \in Codes
  BY CodeFacts
<1>2. IF code \in Missing(o, f) THEN id[code] = Fresh(o, code) ELSE id[code] \in WithCode(o, code)
  BY DEF Found
<1>3. code \in Missing(o, f) =>
         /\ id[code] = Fresh(o, code) /\ id[code] \in Ids /\ id[code] \notin DOMAIN o.units
         /\ id[code][1] = code /\ id[code] # Nil
  BY <1>1, <1>2, FreshFacts
<1>4. code \notin Missing(o, f) =>
         id[code] \in DOMAIN o.units /\ o.units[id[code]].code = code /\ id[code] # Nil
  BY <1>2, NilAssumption DEF WithCode, OrgType, Ids
<1> QED
  BY <1>3, <1>4

\* Units that were there stay as they are; a new one has a free number, and hangs
\* under the unit the file names above it, or under none.
Created(o, f) == {Fresh(o, code) : code \in Missing(o, f)}
NewRow(f, id, i) ==
    [code |-> i[1], name |-> NameIn(f, i[1]), level |-> LevelIn(f, i[1]), ends |-> "never",
     parent |-> IF ParentIn(f, i[1]) # Nil /\ WrittenBefore(f, ParentIn(f, i[1]), i[1])
                THEN id[ParentIn(f, i[1])] ELSE Nil]

LEMMA UnitsAfterFacts ==
  ASSUME NEW o, OrgType(o), NumbersInUse(o), NEW f \in Files, NEW id \in Found(o, f)
  PROVE  /\ DOMAIN UnitsAfter(o, f, id) = DOMAIN o.units \cup Created(o, f)
         /\ Created(o, f) \cap DOMAIN o.units = {} /\ Created(o, f) \subseteq Ids
         /\ \A i \in DOMAIN o.units : UnitsAfter(o, f, id)[i] = o.units[i]
<1> DEFINE new == [i \in {id[c] : c \in Missing(o, f)} |-> NewRow(f, id, i)]
           old == [i \in DOMAIN o.units |-> o.units[i]]
<1>1. UnitsAfter(o, f, id) = Override(new, old)
  BY DEF UnitsAfter, Reshaped, NewRow
<1>2. Missing(o, f) \subseteq CodesIn(f)
  BY DEF Missing
<1>3. DOMAIN new = Created(o, f)
  BY <1>2, FoundFacts DEF Created
<1>4. \A i \in Created(o, f) :
         /\ i \in Ids /\ i \notin DOMAIN o.units
         /\ i[1] \in Missing(o, f) /\ i[1] \in CodesIn(f)
  BY <1>2, FoundFacts DEF Created
<1> HIDE DEF new
<1> QED
  BY <1>1, <1>3, <1>4 DEF Override

LEMMA CreatedRow ==
  ASSUME NEW o, OrgType(o), NumbersInUse(o), NEW f \in Files, NEW id \in Found(o, f),
         NEW i \in Created(o, f)
  PROVE  UnitsAfter(o, f, id)[i] = NewRow(f, id, i)
<1>1. i \in {id[c] : c \in Missing(o, f)}
  BY FoundFacts DEF Created, Missing
<1> QED
  BY <1>1 DEF UnitsAfter, Override, NewRow

LEMMA CreatedFacts ==
  ASSUME NEW o, OrgType(o), NumbersInUse(o), NEW f \in Files, NEW i \in Created(o, f)
  PROVE  i[1] \in CodesIn(f) /\ i[1] \in Missing(o, f) /\ i[1] \in Codes
BY FreshFacts, CodeFacts DEF Created, Missing

LEMMA UnitsAfterFunction ==
  ASSUME NEW o, NEW f, NEW id, NEW D, NEW R,
         DOMAIN UnitsAfter(o, f, id) = D, \A i \in D : UnitsAfter(o, f, id)[i] \in R
  PROVE  UnitsAfter(o, f, id) \in [D -> R]
BY DEF UnitsAfter, Override

\* The parent of a new unit.
LEMMA ParentAfter ==
  ASSUME NEW o, OrgType(o), NumbersInUse(o), NEW f \in Files, NEW id \in Found(o, f),
         NEW i \in Created(o, f), UnitsAfter(o, f, id)[i].parent # Nil
  PROVE  /\ ParentIn(f, i[1]) \in CodesIn(f)
         /\ UnitsAfter(o, f, id)[i].parent = id[ParentIn(f, i[1])]
         /\ UnitsAfter(o, f, id)[i].parent \in DOMAIN UnitsAfter(o, f, id)
         /\ UnitsAfter(o, f, id)[i].parent \in Created(o, f) =>
               UnitsAfter(o, f, id)[i].parent[1] = ParentIn(f, i[1])
<1>1. /\ ParentIn(f, i[1]) # Nil /\ UnitsAfter(o, f, id)[i].parent = id[ParentIn(f, i[1])]
      /\ i[1] \in CodesIn(f)
  <2>1. UnitsAfter(o, f, id)[i] = NewRow(f, id, i) /\ i[1] \in CodesIn(f)
    BY CreatedRow, CreatedFacts
  <2>2. UnitsAfter(o, f, id)[i].parent =
            IF ParentIn(f, i[1]) # Nil /\ WrittenBefore(f, ParentIn(f, i[1]), i[1])
            THEN id[ParentIn(f, i[1])] ELSE Nil
    BY <2>1 DEF NewRow
  <2> QED
    BY <2>1, <2>2
<1>2. ParentIn(f, i[1]) \in CodesIn(f)
  BY <1>1, CodeFacts
<1>3. \/ id[ParentIn(f, i[1])] \in DOMAIN o.units
      \/ id[ParentIn(f, i[1])] \in Created(o, f) /\ id[ParentIn(f, i[1])][1] = ParentIn(f, i[1])
  BY <1>2, FoundFacts DEF Created
<1>4. DOMAIN UnitsAfter(o, f, id) = DOMAIN o.units \cup Created(o, f)
      /\ Created(o, f) \cap DOMAIN o.units = {}
  BY UnitsAfterFacts
<1> QED
  BY <1>1, <1>2, <1>3, <1>4
\* What the types of the tables say of each entry.
LEMMA OrgParts ==
  ASSUME NEW o, OrgType(o)
  PROVE  /\ DOMAIN o.units \subseteq Ids
         /\ \A i \in DOMAIN o.units : o.units[i] \in Row /\ o.rank[i] \in Ranks \cup {Nil}
         /\ \A p \in People :
               /\ o.place[p] \in DOMAIN o.units \cup {Nil}
               /\ o.boss[p] \in People \cup {Nil}
         /\ \A r \in Ranks : o.ladder[r] \in {"none", "file", "setup"}
BY DEF OrgType

LEMMA UnitsAfterType ==
  ASSUME NEW o, OrgType(o), NumbersInUse(o), NEW f \in Files, NEW id \in Found(o, f)
  PROVE  /\ UnitsAfter(o, f, id) \in [DOMAIN o.units \cup Created(o, f) -> Row]
         /\ DOMAIN UnitsAfter(o, f, id) \subseteq Ids
<1>1. ASSUME NEW i \in DOMAIN o.units PROVE UnitsAfter(o, f, id)[i] \in Row
  <2>1. o.units[i] \in Row
    BY OrgParts
  <2>2. UnitsAfter(o, f, id)[i] = o.units[i]
    BY UnitsAfterFacts
  <2> QED
    BY <2>1, <2>2
<1>2. ASSUME NEW i \in Created(o, f) PROVE UnitsAfter(o, f, id)[i] \in Row
  <2>1. i[1] \in Codes /\ NameIn(f, i[1]) \in Names /\ LevelIn(f, i[1]) \in DOMAIN DepthOf
        /\ ParentIn(f, i[1]) \in CodesIn(f) \cup {Nil}
    BY CreatedFacts, CodeFacts
  <2>2. ParentIn(f, i[1]) \in CodesIn(f) => id[ParentIn(f, i[1])] \in Ids
    BY FoundFacts, OrgParts
  <2>3. NewRow(f, id, i) \in Row
    BY <2>1, <2>2 DEF NewRow, Row
  <2> QED
    BY <2>3, CreatedRow
<1>3. DOMAIN UnitsAfter(o, f, id) = DOMAIN o.units \cup Created(o, f)
  BY UnitsAfterFacts
<1>4. \A i \in DOMAIN o.units \cup Created(o, f) : UnitsAfter(o, f, id)[i] \in Row
  BY <1>1, <1>2
<1>5. DOMAIN UnitsAfter(o, f, id) \subseteq Ids
  BY <1>3, UnitsAfterFacts, OrgParts
<1> QED
  BY <1>3, <1>4, <1>5, UnitsAfterFunction

\* Where a person of the file goes, if they are nowhere yet.
Home(o, f, id, p) == CHOOSE i \in Homes(UnitsAfter(o, f, id), Deepest(RowOf(f, p))) : TRUE

LEMMA HomeFacts ==
  ASSUME NEW o, NEW f, NEW id, Accepts(o, f, id), NEW p \in People_(f)
  PROVE  /\ Home(o, f, id, p) \in DOMAIN UnitsAfter(o, f, id)
         /\ UnitsAfter(o, f, id)[Home(o, f, id, p)].ends # "past"
         /\ UnitsAfter(o, f, id)[Home(o, f, id, p)].code = Deepest(RowOf(f, p))
<1>1. Homes(UnitsAfter(o, f, id), Deepest(RowOf(f, p))) # {}
  BY DEF Accepts
<1>2. Home(o, f, id, p) \in Homes(UnitsAfter(o, f, id), Deepest(RowOf(f, p)))
  BY <1>1 DEF Home
<1> QED
  BY <1>2 DEF Homes

\* The columns of the tables an import writes, one lemma each.
LEMMA ImportedTables ==
  ASSUME NEW o, NEW f, NEW id
  PROVE  /\ DOMAIN Imported(o, f, id) = {"units", "place", "boss", "rank", "ladder"}
         /\ Imported(o, f, id).units = UnitsAfter(o, f, id)
BY DEF Imported

LEMMA ImportedPlace ==
  ASSUME NEW o, NEW f, NEW id, NEW p \in People
  PROVE  Imported(o, f, id).place[p] =
            IF p \in People_(f) /\ o.place[p] = Nil THEN Home(o, f, id, p) ELSE o.place[p]
BY DEF Imported, Home

LEMMA ImportedPlaceType ==
  ASSUME NEW o, NEW f, NEW id, NEW R, \A p \in People : Imported(o, f, id).place[p] \in R
  PROVE  Imported(o, f, id).place \in [People -> R]
BY DEF Imported

LEMMA ImportedBoss ==
  ASSUME NEW o, NEW f, NEW id, NEW p \in People
  PROVE  Imported(o, f, id).boss[p] =
            IF p \in DOMAIN Lines(f) /\ o.boss[p] = Nil THEN Lines(f)[p] ELSE o.boss[p]
BY DEF Imported

LEMMA ImportedBossType ==
  ASSUME NEW o, NEW f, NEW id, NEW R, \A p \in People : Imported(o, f, id).boss[p] \in R
  PROVE  Imported(o, f, id).boss \in [People -> R]
BY DEF Imported

LEMMA ImportedLadder ==
  ASSUME NEW o, NEW f, NEW id, NEW r \in Ranks
  PROVE  Imported(o, f, id).ladder[r] =
            IF \E i \in DOMAIN f : f[i].rank = r THEN "file" ELSE o.ladder[r]
BY DEF Imported

LEMMA ImportedLadderType ==
  ASSUME NEW o, NEW f, NEW id, NEW R, \A r \in Ranks : Imported(o, f, id).ladder[r] \in R
  PROVE  Imported(o, f, id).ladder \in [Ranks -> R]
BY DEF Imported

\* The rows that give the position in a unit its rank, and the units that have one.
RankRows(f, code) == {i \in DOMAIN f : Deepest(f[i]) = code /\ f[i].rank # Nil}
FileRank(f, code) == f[CHOOSE r \in RankRows(f, code) : TRUE].rank
Posts(o, f, id) ==
    {Imported(o, f, id).place[p] : p \in People} \cup {Home(o, f, id, p) : p \in People_(f)}

LEMMA ImportedRank ==
  ASSUME NEW o, NEW f, NEW id, NEW i \in DOMAIN UnitsAfter(o, f, id)
  PROVE  Imported(o, f, id).rank[i] =
            IF i \in Posts(o, f, id) /\ RankRows(f, UnitsAfter(o, f, id)[i].code) # {}
            THEN FileRank(f, UnitsAfter(o, f, id)[i].code)
            ELSE IF i \in DOMAIN o.rank THEN o.rank[i] ELSE Nil
<1> DEFINE us == UnitsAfter(o, f, id)
           named(c) == {r \in DOMAIN f : Deepest(f[r]) = c /\ f[r].rank # Nil}
<1>1. \A c : named(c) = RankRows(f, c)
  BY DEF RankRows
<1>2. Posts(o, f, id) = {Imported(o, f, id).place[p] : p \in People} \cup {Home(o, f, id, p) : p \in People_(f)}
  BY DEF Posts
<1>3. Imported(o, f, id).rank = [j \in DOMAIN us |->
          IF /\ j \in {Imported(o, f, id).place[p] : p \in People} \cup {Home(o, f, id, p) : p \in People_(f)}
             /\ named(us[j].code) # {}
          THEN f[CHOOSE r \in named(us[j].code) : TRUE].rank
          ELSE IF j \in DOMAIN o.rank THEN o.rank[j] ELSE Nil]
  BY DEF Imported, Home
<1> HIDE DEF named
<1> QED
  BY <1>1, <1>2, <1>3 DEF FileRank

LEMMA ImportedRankType ==
  ASSUME NEW o, NEW f, NEW id, NEW R,
         \A i \in DOMAIN UnitsAfter(o, f, id) : Imported(o, f, id).rank[i] \in R
  PROVE  Imported(o, f, id).rank \in [DOMAIN UnitsAfter(o, f, id) -> R]
BY DEF Imported

\* The rank a row of the file gives.
LEMMA RankRowFacts ==
  ASSUME NEW f \in Files, NEW code, RankRows(f, code) # {}
  PROVE  \E r \in DOMAIN f :
            FileRank(f, code) = f[r].rank /\ Deepest(f[r]) = code /\ f[r].rank \in Ranks
<1> DEFINE r == CHOOSE q \in RankRows(f, code) : TRUE
<1>1. r \in RankRows(f, code)
  OBVIOUS
<1>2. r \in DOMAIN f /\ Deepest(f[r]) = code /\ f[r].rank # Nil
  BY <1>1 DEF RankRows
<1>3. f[r].rank \in Ranks
  BY <1>2, FileFacts
<1> QED
  BY <1>2, <1>3 DEF FileRank

\* An import leaves the tables as their types say.
LEMMA ImportedType ==
  ASSUME NEW o, OrgType(o), NumbersInUse(o), NEW f \in Files, NEW id \in Found(o, f),
         Accepts(o, f, id)
  PROVE  OrgType(Imported(o, f, id))
<1> DEFINE us == UnitsAfter(o, f, id)
           n == Imported(o, f, id)
<1>1. DOMAIN n = {"units", "place", "boss", "rank", "ladder"} /\ n.units = us
  BY ImportedTables
<1>2. DOMAIN us \subseteq Ids /\ us \in [DOMAIN us -> Row]
  BY UnitsAfterType, UnitsAfterFacts
<1>3. n.place \in [People -> DOMAIN us \cup {Nil}]
  <2>1. ASSUME NEW p \in People PROVE n.place[p] \in DOMAIN us \cup {Nil}
    <3>1. o.place[p] \in DOMAIN us \cup {Nil}
      <4>1. o.place[p] \in DOMAIN o.units \cup {Nil}
        BY OrgParts
      <4>2. DOMAIN us = DOMAIN o.units \cup Created(o, f)
        BY UnitsAfterFacts
      <4> HIDE DEF us
      <4> QED
        BY <4>1, <4>2
    <3>2. p \in People_(f) => Home(o, f, id, p) \in DOMAIN us
      BY HomeFacts
    <3> HIDE DEF us
    <3> QED
      BY <3>1, <3>2, ImportedPlace
  <2> QED
    BY <2>1, ImportedPlaceType
<1>4. n.boss \in [People -> People \cup {Nil}]
  <2>1. ASSUME NEW p \in People PROVE n.boss[p] \in People \cup {Nil}
    <3>1. p \in DOMAIN Lines(f) => Lines(f)[p] \in People \cup {Nil}
      BY RowFacts DEF Lines
    <3> QED
      BY <3>1, ImportedBoss, OrgParts
  <2> QED
    BY <2>1, ImportedBossType
<1>5. n.rank \in [DOMAIN us -> Ranks \cup {Nil}]
  <2>1. ASSUME NEW i \in DOMAIN us PROVE n.rank[i] \in Ranks \cup {Nil}
    <3>1. DOMAIN o.rank = DOMAIN o.units
      BY DEF OrgType
    <3>2. i \in DOMAIN o.rank => o.rank[i] \in Ranks \cup {Nil}
      BY <3>1, OrgParts
    <3>3. RankRows(f, us[i].code) # {} => FileRank(f, us[i].code) \in Ranks
      BY RankRowFacts
    <3>4. n.rank[i] = IF i \in Posts(o, f, id) /\ RankRows(f, us[i].code) # {}
                      THEN FileRank(f, us[i].code)
                      ELSE IF i \in DOMAIN o.rank THEN o.rank[i] ELSE Nil
      BY ImportedRank
    <3> HIDE DEF n, us
    <3> QED
      BY <3>2, <3>3, <3>4
  <2> QED
    BY <2>1, ImportedRankType
<1>6. n.ladder \in [Ranks -> {"none", "file", "setup"}]
  <2>1. \A r \in Ranks : n.ladder[r] \in {"none", "file", "setup"}
    BY ImportedLadder, OrgParts
  <2> QED
    BY <2>1, ImportedLadderType
<1> HIDE DEF us, n
<1>7. OrgType(n)
  BY <1>1, <1>2, <1>3, <1>4, <1>5, <1>6 DEF OrgType
<1> QED
  BY <1>7 DEF n


-----------------------------------------------------------------------------
(***************************************************************************)
(* The invariant: what it says of an open update, and how chains of        *)
(* parents fare when units are added or one row is rewritten.              *)
(***************************************************************************)

LEMMA OpenFacts ==
  ASSUME ImportTypeOK, NEW s \in Updates, Open(s)
  PROVE  /\ pending[s].unit \in DOMAIN org.units /\ pending[s].row \in Row
         /\ pending[s].unit \in Ids /\ pending[s].unit # Nil
         /\ pending[s] \in [unit : DOMAIN org.units, row : Row]
<1>1. pending[s] \in [unit : DOMAIN org.units, row : Row]
  BY DEF ImportTypeOK, Open
<1>2. DOMAIN org.units \subseteq Ids
  BY OrgParts DEF ImportTypeOK
<1> QED
  BY <1>1, <1>2, NilAssumption DEF Ids

LEMMA UnitOfFacts ==
  ASSUME ImportTypeOK, NEW p \in People
  PROVE  UnitOf(p) \in DOMAIN org.units \cup {Nil}
BY OrgParts DEF ImportTypeOK, UnitOf

\* When units are added, those that were there keep their parents.
Grown(old, new) ==
    /\ DOMAIN old \subseteq DOMAIN new /\ Nil \notin DOMAIN new
    /\ \A i \in DOMAIN old :
           new[i].parent = old[i].parent /\ old[i].parent \in DOMAIN old \cup {Nil}

LEMMA GrownCircle ==
  ASSUME NEW old, NEW new, Grown(old, new),
         NEW T \in SUBSET DOMAIN new, \A i \in T : new[i].parent \in T
  PROVE  \A i \in T \cap DOMAIN old : old[i].parent \in T \cap DOMAIN old
BY DEF Grown

LEMMA GrownTrapped ==
  ASSUME NEW old, NEW new, Grown(old, new), NEW i, NEW parent \in DOMAIN old,
         Trapped(new, i, parent)
  PROVE  Trapped(old, i, parent)
<1>1. PICK T \in SUBSET DOMAIN new : parent \in T /\ \A u \in T : u = i \/ new[u].parent \in T
  BY DEF Trapped
<1>2. \A u \in T \cap DOMAIN old : u = i \/ old[u].parent \in T \cap DOMAIN old
  BY <1>1 DEF Grown
<1>3. T \cap DOMAIN old \in SUBSET DOMAIN old /\ parent \in T \cap DOMAIN old
  BY <1>1
<1> QED
  BY <1>2, <1>3 DEF Trapped

\* Rewriting a row without a new parent traps nobody.
LEMMA RewrittenTrapped ==
  ASSUME NEW old, NEW new, DOMAIN new = DOMAIN old, Nil \notin DOMAIN old,
         \A u \in DOMAIN old : new[u].parent \in {Nil, old[u].parent},
         NEW i, NEW parent, Trapped(new, i, parent)
  PROVE  Trapped(old, i, parent)
<1>1. PICK T \in SUBSET DOMAIN new : parent \in T /\ \A u \in T : u = i \/ new[u].parent \in T
  BY DEF Trapped
<1>2. \A u \in T : u = i \/ old[u].parent \in T
  BY <1>1
<1> QED
  BY <1>1, <1>2 DEF Trapped

LEMMA UnitFacts ==
  ASSUME ImportTypeOK
  PROVE  Nil \notin DOMAIN org.units
BY OrgParts, NilAssumption DEF ImportTypeOK, Ids

LEMMA NoCircleOfUnits ==
  ASSUME ForestUnlessRaced, ~ raced,
         NEW T \in SUBSET DOMAIN org.units, \A i \in T : org.units[i].parent \in T
  PROVE  T = {}
BY DEF ForestUnlessRaced, Circular

LEMMA TwoMembers ==
  ASSUME NEW S, IsFiniteSet(S), NEW x \in S, NEW y \in S, x # y
  PROVE  Cardinality(S) > 1
<1>1. Cardinality({x, y}) = 2
  <2>1. IsFiniteSet({x}) /\ Cardinality({x}) = 1
    BY FS_Singleton
  <2>2. Cardinality({x} \cup {y}) = 2
    BY <2>1, FS_AddElement
  <2>3. {x} \cup {y} = {x, y}
    OBVIOUS
  <2> QED
    BY <2>2, <2>3
<1>2. Cardinality({x, y}) <= Cardinality(S)
  BY FS_Subset
<1>3. Cardinality(S) \in Nat
  BY FS_CardinalityType
<1> QED
  BY <1>1, <1>2, <1>3

-----------------------------------------------------------------------------
(***************************************************************************)
(* The steps.                                                              *)
(***************************************************************************)

LEMMA ImportInitially ==
  ImportInit => ImportIInv
<1> SUFFICES ASSUME ImportInit PROVE ImportIInv
  OBVIOUS
<1>1. DOMAIN org.units = {} /\ org.units = [i \in {} |-> Nil] /\ org.rank = [i \in {} |-> Nil]
  BY DEF ImportInit
<1>2. /\ \A p \in People : org.place[p] = Nil /\ org.boss[p] = Nil /\ lineFrom[p] = 0
      /\ \A s \in Updates : pending[s] = NoUpdate
  BY DEF ImportInit
<1>3. OrgType(org)
  <2>1. org.place = [p \in People |-> Nil] /\ org.boss = [p \in People |-> Nil]
        /\ org.ladder = [r \in Ranks |-> "none"]
        /\ DOMAIN org = {"units", "place", "boss", "rank", "ladder"}
    BY DEF ImportInit
  <2> QED
    BY <1>1, <2>1 DEF OrgType
<1>4. ImportTypeOK
  <2>1. pending \in [Updates -> {NoUpdate} \cup [unit : DOMAIN org.units, row : Row]]
    BY DEF ImportInit
  <2>2. 0 \in 0..MaxImports /\ 0 \in 0..MaxChanges
    BY BoundsAssumption
  <2>3. /\ imports = 0 /\ changes = 0 /\ raced = FALSE /\ admitted = {}
        /\ lineFrom = [p \in People |-> 0] /\ transfer = [p \in People |-> Nil]
    BY DEF ImportInit
  <2>4. lineFrom \in [People -> 0..MaxImports]
    BY <2>2, <2>3
  <2>5. admitted \subseteq People /\ transfer \in [People -> DOMAIN org.units \cup {Nil}]
    BY <2>3
  <2> QED
    BY <1>3, <2>1, <2>2, <2>3, <2>4, <2>5 DEF ImportTypeOK
<1>5. NumbersInUse(org)
  <2>1. \A code \in Codes : Numbered(org, code) = {}
    BY <1>1 DEF Numbered
  <2> QED
    BY <2>1, FS_EmptySet DEF NumbersInUse
<1>6. ParentsThere /\ UpdatesApart /\ MovesSafe
  BY <1>1, <1>2 DEF ParentsThere, ParentsIn, UpdatesApart, MovesSafe, Moves, Open
<1>7. LinesNumbered
  BY <1>2 DEF ImportInit, LinesNumbered
<1>8. ForestUnlessRaced
  BY <1>1 DEF ForestUnlessRaced, Circular
<1>9. ClosedUnlessAdmitted
  <2>1. \A p \in People : UnitOf(p) = Nil
    BY <1>2 DEF ImportInit, UnitOf
  <2> QED
    BY <2>1 DEF ClosedUnlessAdmitted
<1>10. CyclesSpanImports
  <2>1. ASSUME NEW T \in SUBSET People, Circular(org.boss, T) PROVE FALSE
    <3>1. PICK p \in T : org.boss[p] \in T
      BY <2>1 DEF Circular
    <3> QED
      BY <1>2, <3>1, NilAssumption
  <2> QED
    BY <2>1 DEF CyclesSpanImports
<1> QED
  BY <1>4, <1>5, <1>6, <1>7, <1>8, <1>9, <1>10 DEF ImportIInv

\* A step that leaves units, people and open updates alone.
LEMMA TablesKept ==
  ASSUME ImportIInv, OrgType(org'), org'.units = org.units, org'.place = org.place,
         org'.boss = org.boss, UNCHANGED <<transfer, pending, imports, history>>,
         changes' \in 0..MaxChanges
  PROVE  ImportIInv'
<1> USE DEF ImportIInv, history
<1>1. ImportTypeOK'
  BY DEF ImportTypeOK
<1>2. NumbersInUse(org')
  BY DEF NumbersInUse, Numbered
<1>3. ParentsThere' /\ UpdatesApart' /\ MovesSafe'
  BY DEF ParentsThere, ParentsIn, UpdatesApart, MovesSafe, Moves, Open, UnitOf
<1>4. LinesNumbered'
  BY DEF LinesNumbered
<1>5. ForestUnlessRaced' /\ ClosedUnlessAdmitted' /\ CyclesSpanImports'
  BY DEF ForestUnlessRaced, ClosedUnlessAdmitted, CyclesSpanImports, UnitOf
<1> QED
  BY <1>1, <1>2, <1>3, <1>4, <1>5

LEMMA RankStep ==
  ASSUME ImportIInv, NEW i \in DOMAIN org.units, NEW r \in Ranks \cup {Nil}, SetRank(i, r)
  PROVE  ImportIInv'
<1>1. OrgType(org)
  BY DEF ImportIInv, ImportTypeOK
<1>2. org' = [org EXCEPT !.rank[i] = r]
  BY DEF SetRank
<1>3. /\ org'.units = org.units /\ org'.place = org.place /\ org'.boss = org.boss
      /\ OrgType(org')
  BY <1>1, <1>2 DEF OrgType
<1>4. changes' \in 0..MaxChanges /\ UNCHANGED <<transfer, pending, imports, history>>
  BY BoundsAssumption DEF SetRank, ImportIInv, ImportTypeOK
<1> QED
  BY <1>3, <1>4, TablesKept

LEMMA LadderStep ==
  ASSUME ImportIInv, NEW r \in Ranks, CreateRank(r)
  PROVE  ImportIInv'
<1>1. OrgType(org)
  BY DEF ImportIInv, ImportTypeOK
<1>2. org' = [org EXCEPT !.ladder[r] = "setup"]
  BY DEF CreateRank
<1>3. /\ org'.units = org.units /\ org'.place = org.place /\ org'.boss = org.boss
      /\ OrgType(org')
  BY <1>1, <1>2 DEF OrgType
<1>4. changes' \in 0..MaxChanges /\ UNCHANGED <<transfer, pending, imports, history>>
  BY BoundsAssumption DEF CreateRank, ImportIInv, ImportTypeOK
<1> QED
  BY <1>3, <1>4, TablesKept

LEMMA RollBackStep ==
  ASSUME ImportIInv, NEW s \in Updates, RollBack(s)
  PROVE  ImportIInv'
<1>1. /\ UNCHANGED <<org, transfer, imports, changes, lineFrom, raced, admitted>>
      /\ pending' = [pending EXCEPT ![s] = NoUpdate]
  BY DEF RollBack, history
<1>2. pending \in [Updates -> {NoUpdate} \cup [unit : DOMAIN org.units, row : Row]]
  BY DEF ImportIInv, ImportTypeOK
<1>3. \A t \in Updates : Open(t)' => Open(t) /\ pending'[t] = pending[t]
  BY <1>1, <1>2 DEF Open
<1>4. \A t \in Updates : Moves(t)' => Moves(t)
  BY <1>3 DEF Moves
<1>5. ImportTypeOK'
  BY <1>1, <1>2 DEF ImportIInv, ImportTypeOK
<1>6. ParentsThere'
  BY <1>1, <1>3 DEF ImportIInv, ParentsThere, ParentsIn
<1>7. UpdatesApart'
  BY <1>1, <1>3 DEF ImportIInv, UpdatesApart, UnitOf
<1>8. MovesSafe'
  <2>1. \A t \in Updates : Moves(t)' => pending'[t] = pending[t]
    BY <1>3 DEF Moves
  <2> QED
    BY <1>1, <1>4, <2>1 DEF ImportIInv, MovesSafe
<1>9. NumbersInUse(org)' /\ LinesNumbered' /\ ForestUnlessRaced' /\ ClosedUnlessAdmitted' /\ CyclesSpanImports'
  BY <1>1 DEF ImportIInv, NumbersInUse, Numbered, LinesNumbered, ForestUnlessRaced,
              ClosedUnlessAdmitted, CyclesSpanImports, UnitOf
<1> QED
  BY <1>5, <1>6, <1>7, <1>8, <1>9 DEF ImportIInv

\* The row of one unit is written.
LEMMA RowWritten ==
  ASSUME NEW o, OrgType(o), NEW i \in DOMAIN o.units, NEW row \in Row, NEW n,
         n = [o EXCEPT !.units[i] = row]
  PROVE  /\ OrgType(n) /\ DOMAIN n.units = DOMAIN o.units
         /\ n.units[i] = row /\ \A j \in DOMAIN o.units : j # i => n.units[j] = o.units[j]
         /\ n.place = o.place /\ n.boss = o.boss /\ n.rank = o.rank
<1>1. n.units = [o.units EXCEPT ![i] = row] /\ n.place = o.place /\ n.boss = o.boss
      /\ n.rank = o.rank /\ n.ladder = o.ladder /\ DOMAIN n = DOMAIN o
  BY DEF OrgType
<1>2. n.units \in [DOMAIN o.units -> Row]
  BY <1>1 DEF OrgType
<1>3. DOMAIN n.units = DOMAIN o.units
  BY <1>2
<1>4. OrgType(n)
  BY <1>1, <1>2, <1>3 DEF OrgType
<1> QED
  BY <1>1, <1>3, <1>4

LEMMA CommitStep ==
  ASSUME ImportIInv, NEW s \in Updates, CommitUpdate(s)
  PROVE  ImportIInv'
<1> DEFINE i == pending[s].unit
           row == pending[s].row
<1>1. ImportTypeOK /\ OrgType(org) /\ Open(s)
  BY DEF ImportIInv, ImportTypeOK, CommitUpdate, Open
<1>2. i \in DOMAIN org.units /\ row \in Row
  BY <1>1, OpenFacts
<1>3. /\ UNCHANGED <<transfer, imports, changes, lineFrom, raced, admitted>>
      /\ pending' = [pending EXCEPT ![s] = NoUpdate]
      /\ org' = [org EXCEPT !.units[i] = row]
  BY DEF CommitUpdate, history
<1>4. /\ OrgType(org') /\ DOMAIN org'.units = DOMAIN org.units
      /\ org'.units[i] = row
      /\ \A j \in DOMAIN org.units : j # i => org'.units[j] = org.units[j]
      /\ org'.place = org.place /\ org'.boss = org.boss
  BY <1>1, <1>2, <1>3, RowWritten
<1>5. pending \in [Updates -> {NoUpdate} \cup [unit : DOMAIN org.units, row : Row]]
  BY <1>1 DEF ImportTypeOK
<1>6. \A t \in Updates : Open(t)' => t # s /\ Open(t) /\ pending'[t] = pending[t]
  BY <1>3, <1>5 DEF Open
<1>7. \A t \in Updates : Open(t) /\ t # s => pending[t].unit # i
  BY <1>1 DEF ImportIInv, UpdatesApart
<1>8. row.parent \in DOMAIN org.units \cup {Nil}
  BY <1>1 DEF ImportIInv, ParentsThere
<1>9. row.ends # "never" => /\ row.parent = org.units[i].parent
                    /\ \A p \in People : UnitOf(p) = i => p \in admitted
  BY <1>1 DEF ImportIInv, UpdatesApart
<1>10. Nil \notin DOMAIN org.units
  BY <1>1, UnitFacts
<1>20. \A p \in People : UnitOf(p)' = UnitOf(p)
  BY <1>3, <1>4 DEF UnitOf
<1> HIDE DEF i, row
<1>11. ImportTypeOK'
  <2>1. pending' \in [Updates -> {NoUpdate} \cup [unit : DOMAIN org'.units, row : Row]]
    BY <1>3, <1>4, <1>5
  <2>2. /\ imports \in 0..MaxImports /\ changes \in 0..MaxChanges
        /\ lineFrom \in [People -> 0..MaxImports] /\ raced \in BOOLEAN
        /\ admitted \subseteq People /\ transfer \in [People -> DOMAIN org.units \cup {Nil}]
    BY <1>1 DEF ImportTypeOK
  <2> QED
    BY <1>3, <1>4, <2>1, <2>2 DEF ImportTypeOK
<1>12. NumbersInUse(org)'
  <2>1. NumbersInUse(org)
    BY DEF ImportIInv
  <2> QED
    BY <1>4, <2>1 DEF NumbersInUse, Numbered
<1>13. ParentsThere'
  <2>1. ParentsIn(org) /\ \A t \in Updates : Open(t) => pending[t].row.parent \in DOMAIN org.units \cup {Nil}
    BY DEF ImportIInv, ParentsThere
  <2>2. ParentsIn(org)'
    BY <1>2, <1>4, <1>8, <2>1 DEF ParentsIn
  <2>3. \A t \in Updates : Open(t)' => pending'[t].row.parent \in DOMAIN org'.units \cup {Nil}
    BY <1>4, <1>6, <2>1
  <2> QED
    BY <2>2, <2>3 DEF ParentsThere
<1>14. UpdatesApart'
  <2>1. UpdatesApart
    BY DEF ImportIInv
  <2>2. ASSUME NEW t \in Updates, NEW q \in Updates, Open(t)', Open(q)', pending'[t].unit = pending'[q].unit
        PROVE  t = q
    BY <1>6, <2>1, <2>2 DEF UpdatesApart
  <2>3. ASSUME NEW t \in Updates, Open(t)', pending'[t].row.ends # "never"
        PROVE  /\ pending'[t].row.parent = org'.units[pending'[t].unit].parent
               /\ \A p \in People : UnitOf(p)' = pending'[t].unit => p \in admitted'
    <3>1. /\ Open(t) /\ t # s /\ pending'[t] = pending[t] /\ pending[t].unit # i
          /\ pending[t].unit \in DOMAIN org.units
      BY <1>1, <1>6, <1>7, <2>3, OpenFacts
    <3>2. org'.units[pending[t].unit] = org.units[pending[t].unit]
      BY <1>4, <3>1
    <3>3. /\ pending[t].row.parent = org.units[pending[t].unit].parent
          /\ \A p \in People : UnitOf(p) = pending[t].unit => p \in admitted
      BY <2>1, <2>3, <3>1 DEF UpdatesApart
    <3> QED
      BY <1>3, <1>4, <1>20, <3>1, <3>2, <3>3
  <2> QED
    BY <2>2, <2>3 DEF UpdatesApart
<1>15. MovesSafe'
  <2> SUFFICES ASSUME ~ raced
               PROVE  /\ \A t, q \in Updates : Moves(t)' /\ Moves(q)' => t = q
                      /\ \A t \in Updates : Moves(t)' =>
                             ~ Trapped(org'.units, pending'[t].unit, pending'[t].row.parent)
    BY <1>3 DEF MovesSafe
  <2>1. /\ \A t, q \in Updates : Moves(t) /\ Moves(q) => t = q
        /\ \A t \in Updates : Moves(t) => ~ Trapped(org.units, pending[t].unit, pending[t].row.parent)
    BY DEF ImportIInv, MovesSafe
  <2>2. \A t \in Updates : Moves(t)' => t # s /\ Moves(t) /\ pending'[t] = pending[t]
    BY <1>6 DEF Moves
  <2>3. ASSUME NEW t \in Updates, Moves(t)',
               Trapped(org'.units, pending'[t].unit, pending'[t].row.parent)
        PROVE  FALSE
    <3>1. t # s /\ Moves(t) /\ pending'[t] = pending[t]
      BY <2>2, <2>3
    <3>2. ~ Moves(s)
      BY <2>1, <3>1
    <3>3. row.parent \in {Nil, org.units[i].parent}
      BY <1>1, <1>9, <3>2 DEF Moves, row
    <3>4. \A u \in DOMAIN org.units : org'.units[u].parent \in {Nil, org.units[u].parent}
      BY <1>4, <3>3
    <3>5. Trapped(org'.units, pending[t].unit, pending[t].row.parent)
      BY <2>3, <3>1
    <3>6. Trapped(org.units, pending[t].unit, pending[t].row.parent)
      BY <1>4, <1>10, <3>4, <3>5, RewrittenTrapped
    <3> QED
      BY <2>1, <3>1, <3>6
  <2> QED
    BY <2>1, <2>2, <2>3
<1>16. LinesNumbered' /\ CyclesSpanImports'
  <2>1. LinesNumbered /\ CyclesSpanImports
    BY DEF ImportIInv
  <2> QED
    BY <1>3, <1>4, <2>1 DEF LinesNumbered, CyclesSpanImports
<1>17. ForestUnlessRaced'
  <2>1. ASSUME NEW T \in SUBSET DOMAIN org.units, ~ raced,
               \A u \in T : org'.units[u].parent \in T
        PROVE  T = {}
    <3>1. CASE i \notin T
      <4>1. \A u \in T : org.units[u].parent \in T
        BY <1>4, <2>1, <3>1
      <4> QED
        BY <2>1, <4>1, NoCircleOfUnits DEF ImportIInv
    <3>2. CASE i \in T /\ row.ends = "never"
      <4>1. row.parent \in T /\ row.parent # Nil
        BY <1>4, <1>10, <2>1, <3>2
      <4>2. \A u \in T : u = i \/ org.units[u].parent \in T
        BY <1>4, <2>1
      <4>3. Trapped(org.units, i, row.parent)
        BY <4>1, <4>2 DEF Trapped
      <4>4. Moves(s)
        BY <1>1, <3>2, <4>1 DEF Moves, row
      <4> QED
        BY <2>1, <4>3, <4>4 DEF ImportIInv, MovesSafe, i, row
    <3>3. CASE i \in T /\ row.ends # "never"
      <4>1. \A u \in T : org.units[u].parent \in T
        BY <1>4, <1>9, <2>1, <3>3
      <4> QED
        BY <2>1, <4>1, NoCircleOfUnits DEF ImportIInv
    <3> QED
      BY <3>1, <3>2, <3>3
  <2> QED
    BY <1>3, <1>4, <2>1 DEF ForestUnlessRaced, Circular
<1>18. ClosedUnlessAdmitted'
  <2>1. ASSUME NEW p \in People, UnitOf(p)' # Nil
        PROVE  org'.units[UnitOf(p)'].ends = "never" \/ p \in admitted'
    <3>1. UnitOf(p)' = UnitOf(p) /\ UnitOf(p) \in DOMAIN org.units
      BY <1>1, <1>20, <2>1, UnitOfFacts
    <3>2. org.units[UnitOf(p)].ends = "never" \/ p \in admitted
      BY <2>1, <3>1 DEF ImportIInv, ClosedUnlessAdmitted
    <3>3. CASE UnitOf(p) # i
      BY <1>3, <1>4, <3>1, <3>2, <3>3
    <3>4. CASE UnitOf(p) = i /\ row.ends = "never"
      BY <1>4, <3>1, <3>4
    <3>5. CASE UnitOf(p) = i /\ row.ends # "never"
      BY <1>3, <1>9, <3>1, <3>5
    <3> QED
      BY <3>3, <3>4, <3>5
  <2> QED
    BY <2>1 DEF ClosedUnlessAdmitted
<1> QED
  BY <1>11, <1>12, <1>13, <1>14, <1>15, <1>16, <1>17, <1>18 DEF ImportIInv

\* An update begins: it finds its unit open, and nobody else at work on it.
LEMMA BeginFacts ==
  ASSUME ImportIInv, NEW s \in Updates, NEW i \in DOMAIN org.units, NEW row \in Row,
         Begin(s, i, row), row.parent \in DOMAIN org.units \cup {Nil},
         row.ends # "never" => row.parent = org.units[i].parent /\ \A p \in People : UnitOf(p) # i
  PROVE  /\ UNCHANGED <<org, transfer, imports, lineFrom, admitted>>
         /\ ~ Open(s) /\ Open(s)' /\ pending'[s] = [unit |-> i, row |-> row]
         /\ \A t \in Updates : t # s => pending'[t] = pending[t] /\ (Open(t)' <=> Open(t))
         /\ pending' \in [Updates -> {NoUpdate} \cup [unit : DOMAIN org.units, row : Row]]
         /\ changes' \in 0..MaxChanges
         /\ ParentsThere' /\ UpdatesApart'
<1>1. /\ UNCHANGED <<org, transfer, imports, lineFrom, admitted>>
      /\ pending' = [pending EXCEPT ![s] = [unit |-> i, row |-> row]]
      /\ pending[s] = NoUpdate /\ \A t \in Updates : pending[t].unit # i
      /\ changes < MaxChanges /\ changes' = changes + 1
  BY DEF Begin
<1>2. pending \in [Updates -> {NoUpdate} \cup [unit : DOMAIN org.units, row : Row]]
      /\ changes \in 0..MaxChanges /\ ImportTypeOK
  BY DEF ImportIInv, ImportTypeOK
<1>3. changes' \in 0..MaxChanges
  BY <1>1, <1>2, BoundsAssumption
<1>4. pending'[s] = [unit |-> i, row |-> row] /\ \A t \in Updates : t # s => pending'[t] = pending[t]
  BY <1>1, <1>2
<1>5. pending' \in [Updates -> {NoUpdate} \cup [unit : DOMAIN org.units, row : Row]]
  BY <1>1, <1>2
<1>6. i # Nil
  BY <1>2, UnitFacts
<1>7. Open(s)' /\ ~ Open(s)
  <2>1. pending'[s].unit # NoUpdate.unit
    BY <1>4, <1>6 DEF NoUpdate
  <2>2. pending'[s] # NoUpdate
    BY <2>1
  <2> QED
    BY <1>1, <2>2 DEF Open
<1>8. \A t \in Updates : t # s => (Open(t)' <=> Open(t))
  BY <1>4 DEF Open
<1>9. ParentsThere'
  <2>1. ParentsThere
    BY DEF ImportIInv
  <2>2. ParentsIn(org)'
    BY <1>1, <2>1 DEF ParentsThere, ParentsIn
  <2>3. ASSUME NEW t \in Updates, Open(t)' PROVE pending'[t].row.parent \in DOMAIN org'.units \cup {Nil}
    <3>1. CASE t = s
      BY <1>1, <1>4, <3>1
    <3>2. CASE t # s
      BY <1>1, <1>4, <1>8, <2>1, <2>3, <3>2 DEF ParentsThere
    <3> QED
      BY <3>1, <3>2
  <2> QED
    BY <2>2, <2>3 DEF ParentsThere
<1>10. UpdatesApart'
  <2>1. UpdatesApart /\ \A p \in People : UnitOf(p)' = UnitOf(p)
    BY <1>1 DEF ImportIInv, UnitOf
  <2>2. ASSUME NEW t \in Updates, NEW q \in Updates, Open(t)', Open(q)', pending'[t].unit = pending'[q].unit
        PROVE  t = q
    <3>1. CASE t = s \/ q = s
      BY <1>1, <1>4, <2>2, <3>1
    <3>2. CASE t # s /\ q # s
      BY <1>4, <1>8, <2>1, <2>2, <3>2 DEF UpdatesApart
    <3> QED
      BY <3>1, <3>2
  <2>3. ASSUME NEW t \in Updates, Open(t)', pending'[t].row.ends # "never"
        PROVE  /\ pending'[t].row.parent = org'.units[pending'[t].unit].parent
               /\ \A p \in People : UnitOf(p)' = pending'[t].unit => p \in admitted'
    <3>1. CASE t = s
      BY <1>1, <1>4, <2>1, <2>3, <3>1
    <3>2. CASE t # s
      BY <1>1, <1>4, <1>8, <2>1, <2>3, <3>2 DEF UpdatesApart
    <3> QED
      BY <3>1, <3>2
  <2> QED
    BY <2>2, <2>3 DEF UpdatesApart
<1> QED
  BY <1>1, <1>3, <1>4, <1>5, <1>7, <1>8, <1>9, <1>10

\* What does not look at updates is not touched when one begins.
LEMMA BeginKeeps ==
  ASSUME ImportIInv, UNCHANGED <<org, transfer, imports, lineFrom, admitted>>,
         pending' \in [Updates -> {NoUpdate} \cup [unit : DOMAIN org.units, row : Row]],
         changes' \in 0..MaxChanges, raced' \in BOOLEAN, raced => raced'
  PROVE  /\ ImportTypeOK' /\ NumbersInUse(org)' /\ LinesNumbered'
         /\ ForestUnlessRaced' /\ ClosedUnlessAdmitted' /\ CyclesSpanImports'
<1>1. ImportTypeOK'
  BY DEF ImportIInv, ImportTypeOK
<1>2. NumbersInUse(org)' /\ LinesNumbered'
  BY DEF ImportIInv, NumbersInUse, Numbered, LinesNumbered
<1>3. ForestUnlessRaced'
  BY DEF ImportIInv, ForestUnlessRaced
<1>4. ClosedUnlessAdmitted' /\ CyclesSpanImports'
  BY DEF ImportIInv, ClosedUnlessAdmitted, CyclesSpanImports, UnitOf
<1> QED
  BY <1>1, <1>2, <1>3, <1>4

LEMMA CloseStep ==
  ASSUME ImportIInv, NEW s \in Updates, NEW i \in DOMAIN org.units, CloseUnit(s, i)
  PROVE  ImportIInv'
<1>0. PICK ends \in {"later", "past"} : Begin(s, i, [org.units[i] EXCEPT !.ends = ends])
  BY DEF CloseUnit
<1> DEFINE row == [org.units[i] EXCEPT !.ends = ends]
<1>1. org.units[i] \in Row /\ org.units[i].parent \in DOMAIN org.units \cup {Nil}
  BY OrgParts DEF ImportIInv, ImportTypeOK, ParentsThere, ParentsIn
<1>2. row \in Row /\ row.ends # "never" /\ row.parent = org.units[i].parent
  BY <1>1 DEF Row
<1> HIDE DEF row
<1>3. Begin(s, i, row) /\ raced' = raced /\ \A p \in People : UnitOf(p) # i
  BY <1>0 DEF CloseUnit, row
<1>4. /\ UNCHANGED <<org, transfer, imports, lineFrom, admitted>>
      /\ Open(s)' /\ pending'[s] = [unit |-> i, row |-> row]
      /\ \A t \in Updates : t # s => pending'[t] = pending[t] /\ (Open(t)' <=> Open(t))
      /\ pending' \in [Updates -> {NoUpdate} \cup [unit : DOMAIN org.units, row : Row]]
      /\ changes' \in 0..MaxChanges
      /\ ParentsThere' /\ UpdatesApart'
  BY <1>1, <1>2, <1>3, BeginFacts
<1>5. \A t \in Updates : Moves(t)' => Moves(t) /\ pending'[t] = pending[t]
  BY <1>2, <1>4 DEF Moves
<1>6. MovesSafe'
  BY <1>3, <1>4, <1>5 DEF ImportIInv, MovesSafe
<1>7. raced \in BOOLEAN
  BY DEF ImportIInv, ImportTypeOK
<1> QED
  BY <1>3, <1>4, <1>6, <1>7, BeginKeeps DEF ImportIInv

\* The day of a unit comes: no parent changes, and nobody is where they were not.
LEMMA EndStep ==
  ASSUME ImportIInv, NEW i \in DOMAIN org.units, EndComes(i)
  PROVE  ImportIInv'
<1> DEFINE row == [org.units[i] EXCEPT !.ends = "past"]
<1>1. ImportTypeOK /\ OrgType(org) /\ org.units[i] \in Row
  BY OrgParts DEF ImportIInv, ImportTypeOK
<1>2. row \in Row /\ row.parent = org.units[i].parent /\ org.units[i].ends = "later"
  BY <1>1 DEF Row, EndComes
<1>3. /\ org' = [org EXCEPT !.units[i] = row]
      /\ UNCHANGED <<transfer, pending, imports, changes, lineFrom, raced, admitted>>
  <2>1. org' = [org EXCEPT !.units[i].ends = "past"]
    BY DEF EndComes
  <2>2. org' = [org EXCEPT !.units[i] = row]
    BY <2>1
  <2> QED
    BY <2>2 DEF EndComes, history
<1> HIDE DEF row
<1>4. /\ OrgType(org') /\ DOMAIN org'.units = DOMAIN org.units
      /\ \A j \in DOMAIN org.units : j # i => org'.units[j] = org.units[j]
      /\ org'.place = org.place /\ org'.boss = org.boss
  BY <1>1, <1>2, <1>3, RowWritten
<1>5. \A j \in DOMAIN org.units : org'.units[j].parent = org.units[j].parent
  BY <1>1, <1>2, <1>3, RowWritten
<1>6. ImportTypeOK'
  BY <1>1, <1>3, <1>4 DEF ImportTypeOK
<1>7. NumbersInUse(org)' /\ LinesNumbered' /\ CyclesSpanImports'
  BY <1>3, <1>4 DEF ImportIInv, NumbersInUse, Numbered, LinesNumbered, CyclesSpanImports
<1>8. ParentsThere'
  BY <1>3, <1>4, <1>5 DEF ImportIInv, ParentsThere, ParentsIn, Open
<1>9. UpdatesApart'
  BY <1>1, <1>3, <1>4, <1>5, OpenFacts DEF ImportIInv, UpdatesApart, Open, UnitOf
<1>10. MovesSafe'
  <2>1. \A T \in SUBSET DOMAIN org.units : \A u \in T :
            org'.units[u].parent \in T <=> org.units[u].parent \in T
    BY <1>5
  <2>2. \A j, parent : Trapped(org'.units, j, parent) <=> Trapped(org.units, j, parent)
    BY <1>4, <2>1 DEF Trapped
  <2> QED
    BY <1>3, <2>2 DEF ImportIInv, MovesSafe, Moves, Open
<1>11. ForestUnlessRaced'
  BY <1>3, <1>4, <1>5 DEF ImportIInv, ForestUnlessRaced, Circular
<1>12. ClosedUnlessAdmitted'
  <2>1. ASSUME NEW p \in People, UnitOf(p)' # Nil
        PROVE  org'.units[UnitOf(p)'].ends = "never" \/ p \in admitted'
    <3>1. UnitOf(p)' = UnitOf(p)
      BY <1>3, <1>4 DEF UnitOf
    <3>2. UnitOf(p) \in DOMAIN org.units
      BY <1>1, <2>1, <3>1, UnitOfFacts
    <3>3. org.units[UnitOf(p)].ends = "never" \/ p \in admitted
      BY <2>1, <3>1 DEF ImportIInv, ClosedUnlessAdmitted
    <3> QED
      BY <1>2, <1>3, <1>4, <3>1, <3>2, <3>3
  <2> QED
    BY <2>1 DEF ClosedUnlessAdmitted
<1> QED
  BY <1>6, <1>7, <1>8, <1>9, <1>10, <1>11, <1>12 DEF ImportIInv

LEMMA UpdateStep ==
  ASSUME ImportIInv, NEW s \in Updates, NEW i \in DOMAIN org.units, UpdateUnit(s, i)
  PROVE  ImportIInv'
<1>1. PICK code \in Codes, name \in Names, level \in Levels \cup {org.units[i].level},
           parent \in (DOMAIN org.units \ {i}) \cup {Nil} :
        LET row == [org.units[i] EXCEPT !.code = code, !.name = name, !.level = level,
                                        !.parent = parent]
        IN  /\ parent # Nil => ~ Trapped(org.units, i, parent)
            /\ Begin(s, i, row)
            /\ raced' = (raced \/ (parent # Nil /\ \E t \in Updates :
                             pending[t] # NoUpdate /\ pending[t].row.parent # Nil))
  BY DEF UpdateUnit
<1> DEFINE row == [org.units[i] EXCEPT !.code = code, !.name = name, !.level = level,
                                       !.parent = parent]
<1>2. org.units[i] \in Row
  BY OrgParts DEF ImportIInv, ImportTypeOK
<1>3. parent \in Ids \cup {Nil} /\ level \in DOMAIN DepthOf
  <2>1. DOMAIN org.units \subseteq Ids
    BY OrgParts DEF ImportIInv, ImportTypeOK
  <2>2. org.units[i].level \in DOMAIN DepthOf
    BY <1>2 DEF Row
  <2> QED
    BY <2>1, <2>2, LevelsAssumption DEF DepthOf
<1>4. row \in Row /\ row.parent = parent /\ row.ends = org.units[i].ends
  BY <1>2, <1>3 DEF Row
<1>5. /\ parent # Nil => ~ Trapped(org.units, i, parent)
      /\ Begin(s, i, row)
      /\ raced' = (raced \/ (parent # Nil /\ \E t \in Updates :
                             pending[t] # NoUpdate /\ pending[t].row.parent # Nil))
  BY <1>1
<1> HIDE DEF row
<1>6. row.ends = "never"
  BY <1>4, <1>5 DEF Begin
<1>7. /\ UNCHANGED <<org, transfer, imports, lineFrom, admitted>>
      /\ ~ Open(s) /\ Open(s)' /\ pending'[s] = [unit |-> i, row |-> row]
      /\ \A t \in Updates : t # s => pending'[t] = pending[t] /\ (Open(t)' <=> Open(t))
      /\ pending' \in [Updates -> {NoUpdate} \cup [unit : DOMAIN org.units, row : Row]]
      /\ changes' \in 0..MaxChanges
      /\ ParentsThere' /\ UpdatesApart'
  BY <1>4, <1>5, <1>6, BeginFacts
<1>8. raced \in BOOLEAN
  BY DEF ImportIInv, ImportTypeOK
<1>9. MovesSafe'
  <2> SUFFICES ASSUME ~ raced'
               PROVE  /\ \A t, q \in Updates : Moves(t)' /\ Moves(q)' => t = q
                      /\ \A t \in Updates : Moves(t)' =>
                             ~ Trapped(org'.units, pending'[t].unit, pending'[t].row.parent)
    BY DEF MovesSafe
  <2>1. /\ ~ raced
        /\ parent = Nil \/ \A t \in Updates : Open(t) => pending[t].row.parent = Nil
    BY <1>5, <1>8 DEF Open
  <2>2. /\ \A t, q \in Updates : Moves(t) /\ Moves(q) => t = q
        /\ \A t \in Updates : Moves(t) => ~ Trapped(org.units, pending[t].unit, pending[t].row.parent)
    BY <2>1 DEF ImportIInv, MovesSafe
  <2>3. \A t \in Updates : t # s /\ Moves(t)' => Moves(t) /\ pending'[t] = pending[t]
    BY <1>7 DEF Moves
  <2>4. Moves(s)' => parent # Nil /\ pending'[s].unit = i /\ pending'[s].row.parent = parent
    BY <1>4, <1>7 DEF Moves
  <2>5. Moves(s)' => \A t \in Updates : t # s => ~ Moves(t)'
    BY <2>1, <2>3, <2>4 DEF Moves
  <2>6. \A t, q \in Updates : Moves(t)' /\ Moves(q)' => t = q
    BY <2>2, <2>3, <2>5
  <2>7. ASSUME NEW t \in Updates, Moves(t)'
        PROVE  ~ Trapped(org'.units, pending'[t].unit, pending'[t].row.parent)
    <3>1. CASE t = s
      BY <1>5, <1>7, <2>4, <2>7, <3>1
    <3>2. CASE t # s
      BY <1>7, <2>2, <2>3, <2>7, <3>2
    <3> QED
      BY <3>1, <3>2
  <2> QED
    BY <2>6, <2>7
<1>10. raced' \in BOOLEAN /\ (raced => raced')
  BY <1>5, <1>8
<1> QED
  BY <1>7, <1>9, <1>10, BeginKeeps DEF ImportIInv

\* A step that adds units and leaves the rest of the tables alone or fills them.
\* What the open updates say stays true, as they are about units that were there.
LEMMA GrownMoves ==
  ASSUME ImportIInv, Grown(org.units, org'.units), UNCHANGED <<pending, raced>>
  PROVE  MovesSafe'
<1> SUFFICES ASSUME ~ raced
             PROVE  /\ \A t, q \in Updates : Moves(t)' /\ Moves(q)' => t = q
                    /\ \A t \in Updates : Moves(t)' =>
                           ~ Trapped(org'.units, pending'[t].unit, pending'[t].row.parent)
  BY DEF MovesSafe
<1>1. /\ \A t, q \in Updates : Moves(t) /\ Moves(q) => t = q
      /\ \A t \in Updates : Moves(t) => ~ Trapped(org.units, pending[t].unit, pending[t].row.parent)
  BY DEF ImportIInv, MovesSafe
<1>2. \A t \in Updates : Moves(t)' <=> Moves(t)
  BY DEF Moves, Open
<1>3. ASSUME NEW t \in Updates, Moves(t), Trapped(org'.units, pending[t].unit, pending[t].row.parent)
      PROVE  FALSE
  <2>1. pending[t].row.parent \in DOMAIN org.units
    BY <1>3 DEF Moves, ImportIInv, ParentsThere
  <2>2. Trapped(org.units, pending[t].unit, pending[t].row.parent)
    BY <1>3, <2>1, GrownTrapped
  <2> QED
    BY <1>1, <1>3, <2>2
<1> QED
  BY <1>1, <1>2, <1>3

\* With no circle among the new units alone, there is none.
LEMMA GrownForest ==
  ASSUME ImportIInv, Grown(org.units, org'.units), UNCHANGED raced,
         \A T \in SUBSET (DOMAIN org'.units \ DOMAIN org.units) :
             ~ Circular([i \in DOMAIN org'.units |-> org'.units[i].parent], T)
  PROVE  ForestUnlessRaced'
<1>1. ASSUME NEW T \in SUBSET DOMAIN org'.units, ~ raced,
             \A i \in T : org'.units[i].parent \in T, T # {}
      PROVE  FALSE
  <2> DEFINE S == T \cap DOMAIN org.units
  <2>1. \A i \in S : org.units[i].parent \in S
    BY <1>1, GrownCircle
  <2>2. S = {}
    <3>1. S \in SUBSET DOMAIN org.units
      OBVIOUS
    <3> HIDE DEF S
    <3> QED
      BY <1>1, <2>1, <3>1, NoCircleOfUnits DEF ImportIInv
  <2>3. T \in SUBSET (DOMAIN org'.units \ DOMAIN org.units)
    BY <2>2
  <2>4. Circular([i \in DOMAIN org'.units |-> org'.units[i].parent], T)
    BY <1>1 DEF Circular
  <2> QED
    BY <2>3, <2>4
<1> QED
  BY <1>1 DEF ForestUnlessRaced, Circular

LEMMA GrownPending ==
  ASSUME ImportIInv, DOMAIN org.units \subseteq DOMAIN org'.units, pending' = pending
  PROVE  pending' \in [Updates -> {NoUpdate} \cup [unit : DOMAIN org'.units, row : Row]]
<1>1. pending \in [Updates -> {NoUpdate} \cup [unit : DOMAIN org.units, row : Row]]
  BY DEF ImportIInv, ImportTypeOK
<1>2. [unit : DOMAIN org.units, row : Row] \subseteq [unit : DOMAIN org'.units, row : Row]
  OBVIOUS
<1> QED
  BY <1>1, <1>2

LEMMA CreateStep ==
  ASSUME ImportIInv, NEW code \in Codes, NEW name \in Names, NEW level \in Levels,
         NEW parent \in DOMAIN org.units \cup {Nil}, CreateUnit(code, name, level, parent)
  PROVE  ImportIInv'
<1> DEFINE i == Fresh(org, code)
           row == [code |-> code, name |-> name, level |-> level, parent |-> parent, ends |-> "never"]
           us == Override([x \in {i} |-> row], org.units)
           rank == Override([x \in {i} |-> Nil], org.rank)
<1>1. /\ changes < MaxChanges /\ changes' = changes + 1
      /\ org' = [org EXCEPT !.units = us, !.rank = Override([x \in {i} |-> Nil], @)]
      /\ UNCHANGED <<transfer, pending, imports, lineFrom, raced, admitted>>
  BY DEF CreateUnit, history
<1>2. ImportTypeOK /\ OrgType(org) /\ NumbersInUse(org)
  BY DEF ImportIInv, ImportTypeOK
<1>3. i \in Ids /\ i \notin DOMAIN org.units /\ i # Nil
  BY <1>2, FreshFacts
<1>4. row \in Row
  <2>1. parent \in Ids \cup {Nil} /\ level \in DOMAIN DepthOf
    BY <1>2, OrgParts, LevelsAssumption DEF DepthOf
  <2> QED
    BY <2>1 DEF Row
<1> HIDE DEF i
<1>5. /\ DOMAIN us = DOMAIN org.units \cup {i} /\ us[i].parent = parent
      /\ us \in [DOMAIN org.units \cup {i} -> Row]
      /\ \A j \in DOMAIN org.units : us[j] = org.units[j]
  <2>1. \A j \in DOMAIN org.units : org.units[j] \in Row
    BY <1>2, OrgParts
  <2>2. row.parent = parent
    OBVIOUS
  <2> HIDE DEF row
  <2> QED
    BY <1>3, <1>4, <2>1, <2>2 DEF Override
<1>6. rank \in [DOMAIN org.units \cup {i} -> Ranks \cup {Nil}]
  <2>1. DOMAIN org.rank = DOMAIN org.units /\ \A j \in DOMAIN org.units : org.rank[j] \in Ranks \cup {Nil}
    BY <1>2, OrgParts DEF OrgType
  <2> QED
    BY <2>1 DEF Override
<1>7. /\ org'.units = us /\ org'.rank = rank /\ org'.place = org.place /\ org'.boss = org.boss
      /\ org'.ladder = org.ladder /\ DOMAIN org' = DOMAIN org
  BY <1>1, <1>2 DEF OrgType
<1> HIDE DEF us, rank
<1>8. OrgType(org')
  <2>1. org.place \in [People -> DOMAIN us \cup {Nil}]
    <3>1. org.place \in [People -> DOMAIN org.units \cup {Nil}]
      BY <1>2 DEF OrgType
    <3> QED
      BY <1>5, <3>1
  <2>2. DOMAIN us \subseteq Ids
    BY <1>2, <1>3, <1>5, OrgParts
  <2> QED
    BY <1>2, <1>5, <1>6, <1>7, <2>1, <2>2 DEF OrgType
<1>9. Grown(org.units, org'.units)
  <2>1. Nil \notin DOMAIN us
    BY <1>2, <1>3, <1>5, UnitFacts
  <2>2. \A j \in DOMAIN org.units : org.units[j].parent \in DOMAIN org.units \cup {Nil}
    BY DEF ImportIInv, ParentsThere, ParentsIn
  <2> QED
    BY <1>5, <1>7, <2>1, <2>2 DEF Grown
<1>10. ImportTypeOK'
  <2>1. changes' \in 0..MaxChanges /\ imports' \in 0..MaxImports /\ raced' \in BOOLEAN
        /\ lineFrom' \in [People -> 0..MaxImports]
    BY <1>1, <1>2, BoundsAssumption DEF ImportTypeOK
  <2>2. admitted' \subseteq People /\ transfer' \in [People -> DOMAIN org'.units \cup {Nil}]
    BY <1>1, <1>2, <1>5, <1>7 DEF ImportTypeOK
  <2>3. pending' \in [Updates -> {NoUpdate} \cup [unit : DOMAIN org'.units, row : Row]]
    BY <1>1, <1>5, <1>7, GrownPending
  <2> QED
    BY <1>8, <2>1, <2>2, <2>3 DEF ImportTypeOK
<1>11. NumbersInUse(org')
  <2>1. {code} \in SUBSET Codes
    OBVIOUS
  <2>2. DOMAIN org'.units = DOMAIN org.units \cup {Fresh(org, d) : d \in {code}}
    BY <1>5, <1>7 DEF i
  <2> QED
    BY <1>2, <2>1, <2>2, NumbersAfter
<1>12. ParentsThere'
  <2>1. ParentsIn(org')
    <3>1. \A j \in DOMAIN org.units : org.units[j].parent \in DOMAIN org.units \cup {Nil}
      BY DEF ImportIInv, ParentsThere, ParentsIn
    <3> QED
      BY <1>5, <1>7, <3>1 DEF ParentsIn
  <2>2. \A s \in Updates : Open(s)' => pending'[s].row.parent \in DOMAIN org'.units \cup {Nil}
    BY <1>1, <1>5, <1>7 DEF ImportIInv, ParentsThere, Open
  <2> QED
    BY <2>1, <2>2 DEF ParentsThere
<1>13. UpdatesApart'
  <2>1. UpdatesApart
    BY DEF ImportIInv
  <2>2. \A s \in Updates : Open(s) => org'.units[pending[s].unit] = org.units[pending[s].unit]
    BY <1>2, <1>5, <1>7, OpenFacts
  <2>3. \A s \in Updates : Open(s)' <=> Open(s)
    BY <1>1 DEF Open
  <2> QED
    BY <1>1, <1>7, <2>1, <2>2, <2>3 DEF UpdatesApart, UnitOf
<1>14. MovesSafe'
  BY <1>1, <1>9, GrownMoves
<1>15. ForestUnlessRaced'
  <2>1. ASSUME NEW T \in SUBSET (DOMAIN org'.units \ DOMAIN org.units),
               Circular([j \in DOMAIN org'.units |-> org'.units[j].parent], T)
        PROVE  FALSE
    <3>1. T = {i}
      BY <1>5, <1>7, <2>1 DEF Circular
    <3>2. parent = i
      BY <1>5, <1>7, <2>1, <3>1 DEF Circular
    <3> QED
      BY <1>3, <3>2
  <2> QED
    BY <1>1, <1>9, <2>1, GrownForest
<1>16. ClosedUnlessAdmitted'
  <2>1. \A p \in People : UnitOf(p)' = UnitOf(p)
    BY <1>1, <1>7 DEF UnitOf
  <2>2. \A p \in People : UnitOf(p) # Nil => org'.units[UnitOf(p)] = org.units[UnitOf(p)]
    BY <1>2, <1>5, <1>7, UnitOfFacts
  <2> QED
    BY <1>1, <2>1, <2>2 DEF ImportIInv, ClosedUnlessAdmitted
<1>17. LinesNumbered' /\ CyclesSpanImports'
  <2>1. LinesNumbered /\ CyclesSpanImports
    BY DEF ImportIInv
  <2> QED
    BY <1>1, <1>7, <2>1 DEF LinesNumbered, CyclesSpanImports
<1> QED
  BY <1>10, <1>11, <1>12, <1>13, <1>14, <1>15, <1>16, <1>17 DEF ImportIInv

\* An import adds its units to those that are there.
LEMMA ImportGrows ==
  ASSUME NEW o, OrgType(o), NumbersInUse(o), ParentsIn(o), NEW f \in Files, NEW id \in Found(o, f)
  PROVE  Grown(o.units, UnitsAfter(o, f, id))
<1>1. DOMAIN UnitsAfter(o, f, id) = DOMAIN o.units \cup Created(o, f)
      /\ \A i \in DOMAIN o.units : UnitsAfter(o, f, id)[i] = o.units[i]
  BY UnitsAfterFacts
<1>2. DOMAIN UnitsAfter(o, f, id) \subseteq Ids
  BY UnitsAfterType
<1>3. Nil \notin DOMAIN UnitsAfter(o, f, id)
  BY <1>2, NilAssumption DEF Ids
<1> HIDE DEF UnitsAfter
<1> QED
  BY <1>1, <1>3 DEF Grown, ParentsIn

\* The units of a file that is let through are a forest among themselves.
LEMMA CreatedForest ==
  ASSUME NEW o, OrgType(o), NumbersInUse(o), NEW f \in ValidFiles, NEW id \in Found(o, f),
         NEW T \in SUBSET Created(o, f), T # {},
         \A i \in T : UnitsAfter(o, f, id)[i].parent \in T
  PROVE  FALSE
<1> DEFINE C == {i[1] : i \in T}
<1>1. f \in Files
  BY DEF ValidFiles
<1>2. C \in SUBSET CodesIn(f) /\ C # {}
  BY <1>1, CreatedFacts
<1>3. ASSUME NEW i \in T PROVE ParentIn(f, i[1]) \in C
  <2>1. UnitsAfter(o, f, id)[i].parent \in T /\ UnitsAfter(o, f, id)[i].parent \in Created(o, f)
    OBVIOUS
  <2>2. UnitsAfter(o, f, id)[i].parent # Nil
    BY <1>1, <2>1, UnitsAfterFacts, NilAssumption DEF Ids
  <2>3. UnitsAfter(o, f, id)[i].parent[1] = ParentIn(f, i[1])
    BY <1>1, <2>1, <2>2, ParentAfter
  <2> QED
    BY <2>1, <2>3
<1>4. \A code \in C : ParentIn(f, code) \in C
  BY <1>3
<1> QED
  BY <1>2, <1>4, NamesForest

\* What an upload does, with its choice of units named.
LEMMA UploadFacts ==
  ASSUME ImportIInv, NEW f \in Files, Upload(f)
  PROVE  /\ f \in ValidFiles /\ OrgType(org) /\ NumbersInUse(org) /\ ParentsIn(org)
         /\ \E id \in Found(org, f) : Accepts(org, f, id) /\ org' = Imported(org, f, id)
BY DEF Upload, ImportIInv, ImportTypeOK, ParentsThere

LEMMA UploadUnits ==
  ASSUME ImportIInv, NEW f \in Files, Upload(f)
  PROVE  /\ Grown(org.units, org'.units)
         /\ \A i \in DOMAIN org.units : org'.units[i] = org.units[i]
         /\ DOMAIN org'.units = DOMAIN org.units \cup Created(org, f)
         /\ NumbersInUse(org') /\ OrgType(org') /\ ParentsIn(org')
<1>1. OrgType(org) /\ NumbersInUse(org) /\ ParentsIn(org)
  BY UploadFacts
<1>2. PICK id \in Found(org, f) : Accepts(org, f, id) /\ org' = Imported(org, f, id)
  BY UploadFacts
<1>3. org'.units = UnitsAfter(org, f, id)
  BY <1>2, ImportedTables
<1>4. OrgType(org')
  BY <1>1, <1>2, ImportedType
<1>5. /\ DOMAIN org'.units = DOMAIN org.units \cup Created(org, f)
      /\ \A i \in DOMAIN org.units : org'.units[i] = org.units[i]
  BY <1>1, <1>3, UnitsAfterFacts
<1>6. NumbersInUse(org')
  <2>1. Missing(org, f) \in SUBSET Codes
    BY CodeFacts DEF Missing
  <2> QED
    BY <1>1, <1>5, <2>1, NumbersAfter DEF Created
<1>7. Grown(org.units, org'.units)
  BY <1>1, <1>3, ImportGrows
<1>8. ParentsIn(org')
  <2>1. \A i \in Created(org, f) : org'.units[i].parent \in DOMAIN org'.units \cup {Nil}
    BY <1>1, <1>3, ParentAfter
  <2>2. \A i \in DOMAIN org.units : org.units[i].parent \in DOMAIN org.units \cup {Nil}
    BY <1>1 DEF ParentsIn
  <2> QED
    BY <1>5, <2>1, <2>2 DEF ParentsIn
<1> QED
  BY <1>4, <1>5, <1>6, <1>7, <1>8

\* A person stays where they are, or goes to a unit whose end has not come.
LEMMA UploadHomes ==
  ASSUME ImportIInv, NEW f \in Files, Upload(f), NEW p \in People
  PROVE  \/ org'.place[p] = org.place[p]
         \/ org'.place[p] \in DOMAIN org'.units /\ org'.units[org'.place[p]].ends # "past"
<1>1. PICK id \in Found(org, f) : Accepts(org, f, id) /\ org' = Imported(org, f, id)
  BY UploadFacts
<1>2. org'.units = UnitsAfter(org, f, id)
  BY <1>1, ImportedTables
<1>3. p \in People_(f) =>
         /\ Home(org, f, id, p) \in DOMAIN org'.units
         /\ org'.units[Home(org, f, id, p)].ends # "past"
  BY <1>1, <1>2, HomeFacts
<1>4. org'.place[p] = IF p \in People_(f) /\ org.place[p] = Nil THEN Home(org, f, id, p) ELSE org.place[p]
  BY <1>1, ImportedPlace
<1> QED
  BY <1>3, <1>4

\* A person stays where they are, or goes from nowhere to a unit without an end,
\* or is counted as admitted.
LEMMA UploadPlaces ==
  ASSUME ImportIInv, NEW f \in Files, Upload(f), NEW p \in People
  PROVE  \/ org'.place[p] = org.place[p]
         \/ org'.units[org'.place[p]].ends = "never"
         \/ p \in admitted'
<1>1. PICK id \in Found(org, f) : Accepts(org, f, id) /\ org' = Imported(org, f, id)
  BY UploadFacts
<1>2. org'.units = UnitsAfter(org, f, id)
  BY <1>1, ImportedTables
<1> SUFFICES ASSUME org'.place[p] # org.place[p],
                    org'.place[p] \in DOMAIN org'.units, org'.units[org'.place[p]].ends # "past"
             PROVE  org'.units[org'.place[p]].ends = "never" \/ p \in admitted'
  BY UploadHomes
<1>5. CASE org'.place[p] \in DOMAIN org.units
  <2>1. org'.units[org'.place[p]] = org.units[org'.place[p]] /\ org.units[org'.place[p]] \in Row
    BY <1>5, UploadUnits, OrgParts DEF ImportIInv, ImportTypeOK
  <2>2. org'.units[org'.place[p]].ends \in {"never", "later"}
    BY <2>1 DEF Row
  <2>3. org.units[org'.place[p]].ends = "later" => p \in admitted'
    BY <1>5, <2>1 DEF Upload, Closing
  <2> QED
    BY <2>1, <2>2, <2>3
<1>6. CASE org'.place[p] \in Created(org, f)
  <2>1. org'.units[org'.place[p]] = NewRow(f, id, org'.place[p])
    BY <1>1, <1>2, <1>6, UploadFacts, CreatedRow
  <2> QED
    BY <2>1 DEF NewRow
<1> QED
  BY <1>5, <1>6, UploadUnits

\* A line stays as it is, or comes from the file.
LEMMA UploadLines ==
  ASSUME ImportIInv, NEW f \in Files, Upload(f), NEW p \in People
  PROVE  \/ org'.boss[p] = org.boss[p]
         \/ p \in DOMAIN Lines(f) /\ org'.boss[p] = Lines(f)[p]
<1>1. PICK id \in Found(org, f) : Accepts(org, f, id) /\ org' = Imported(org, f, id)
  BY UploadFacts
<1>2. org'.boss[p] = IF p \in DOMAIN Lines(f) /\ org.boss[p] = Nil THEN Lines(f)[p] ELSE org.boss[p]
  BY <1>1, ImportedBoss
<1> QED
  BY <1>2

LEMMA UploadStep ==
  ASSUME ImportIInv, NEW f \in Files, Upload(f)
  PROVE  ImportIInv'
<1>1. /\ imports < MaxImports /\ imports' = imports + 1
      /\ lineFrom' = [p \in People |-> IF org'.boss[p] # org.boss[p]
                                       THEN imports' ELSE lineFrom[p]]
      /\ admitted' = admitted \cup {p \in People :
                      /\ org'.place[p] # org.place[p] /\ org'.place[p] \in DOMAIN org.units
                      /\ Closing(org'.place[p]) /\ org.units[org'.place[p]].ends # "past"}
      /\ UNCHANGED <<transfer, pending, changes, raced>>
  BY DEF Upload
<1>2. ImportTypeOK /\ f \in ValidFiles
  BY UploadFacts DEF ImportIInv
<1>3. /\ DOMAIN org'.units = DOMAIN org.units \cup Created(org, f)
      /\ \A i \in DOMAIN org.units : org'.units[i] = org.units[i]
      /\ Grown(org.units, org'.units)
      /\ OrgType(org') /\ NumbersInUse(org') /\ ParentsIn(org')
  BY UploadUnits
<1>4. imports \in Nat /\ imports' \in 0..MaxImports /\ imports' \in Nat
      /\ \A p \in People : lineFrom[p] \in 0..MaxImports
  BY <1>1, <1>2, BoundsAssumption DEF ImportTypeOK
<1>5. ImportTypeOK'
  <2>1. lineFrom' \in [People -> 0..MaxImports]
    BY <1>1, <1>4
  <2>2. pending' \in [Updates -> {NoUpdate} \cup [unit : DOMAIN org'.units, row : Row]]
    BY <1>1, <1>3, GrownPending
  <2>3. changes' \in 0..MaxChanges /\ raced' \in BOOLEAN
    BY <1>1, <1>2 DEF ImportTypeOK
  <2>4. admitted' \subseteq People /\ transfer' \in [People -> DOMAIN org'.units \cup {Nil}]
    BY <1>1, <1>2, <1>3 DEF ImportTypeOK
  <2> QED
    BY <1>3, <1>4, <2>1, <2>2, <2>3, <2>4 DEF ImportTypeOK
<1>6. \A s \in Updates : Open(s)' <=> Open(s)
  BY <1>1 DEF Open
<1>7. ParentsThere'
  <2>1. \A s \in Updates : Open(s) => pending[s].row.parent \in DOMAIN org.units \cup {Nil}
    BY DEF ImportIInv, ParentsThere
  <2> QED
    BY <1>1, <1>3, <1>6, <2>1 DEF ParentsThere
<1>8. UpdatesApart'
  <2>1. UpdatesApart
    BY DEF ImportIInv
  <2>2. ASSUME NEW s \in Updates, Open(s), pending[s].row.ends # "never"
        PROVE  /\ pending[s].row.parent = org'.units[pending[s].unit].parent
               /\ \A p \in People : UnitOf(p)' = pending[s].unit => p \in admitted'
    <3>1. pending[s].unit \in DOMAIN org.units
      BY <1>2, <2>2, OpenFacts
    <3>2. /\ pending[s].row.parent = org.units[pending[s].unit].parent
          /\ \A p \in People : UnitOf(p) = pending[s].unit => p \in admitted
      BY <2>1, <2>2 DEF UpdatesApart
    <3>3. Closing(pending[s].unit)
      BY <2>2 DEF Closing, Open
    <3>5. ASSUME NEW p \in People, UnitOf(p)' = pending[s].unit PROVE p \in admitted'
      <4>1. CASE UnitOf(p)' = UnitOf(p)
        BY <1>1, <3>2, <3>5, <4>1
      <4>2. CASE UnitOf(p)' # UnitOf(p)
        <5>1. org'.place[p] # org.place[p] /\ org'.place[p] = pending[s].unit
          BY <1>1, <3>5, <4>2 DEF UnitOf
        <5>2. org.units[pending[s].unit].ends # "past"
          BY <1>3, <3>1, <5>1, UploadHomes
        <5> QED
          BY <1>1, <3>1, <3>3, <5>1, <5>2
      <4> QED
        BY <4>1, <4>2
    <3> QED
      BY <1>3, <3>1, <3>2, <3>5
  <2> QED
    BY <1>1, <1>6, <2>1, <2>2 DEF UpdatesApart
<1>9. MovesSafe'
  BY <1>1, <1>3, GrownMoves
<1>10. LinesNumbered'
  <2>1. \A p \in People : lineFrom[p] <= imports
    BY DEF ImportIInv, LinesNumbered
  <2> QED
    BY <1>1, <1>4, <2>1 DEF LinesNumbered
<1>11. ForestUnlessRaced'
  <2>1. ASSUME NEW T \in SUBSET (DOMAIN org'.units \ DOMAIN org.units),
               Circular([i \in DOMAIN org'.units |-> org'.units[i].parent], T)
        PROVE  FALSE
    <3>1. PICK id \in Found(org, f) : org' = Imported(org, f, id)
      BY UploadFacts
    <3>2. org'.units = UnitsAfter(org, f, id)
      BY <3>1, ImportedTables
    <3>3. T \in SUBSET Created(org, f) /\ T # {} /\ \A i \in T : UnitsAfter(org, f, id)[i].parent \in T
      BY <1>3, <2>1, <3>2 DEF Circular
    <3>4. OrgType(org) /\ NumbersInUse(org)
      BY UploadFacts
    <3> QED
      BY <1>2, <3>3, <3>4, CreatedForest
  <2> QED
    BY <1>1, <1>3, <2>1, GrownForest
<1>12. ClosedUnlessAdmitted'
  <2>1. ASSUME NEW p \in People, UnitOf(p)' # Nil
        PROVE  org'.units[UnitOf(p)'].ends = "never" \/ p \in admitted'
    <3>1. CASE UnitOf(p)' = UnitOf(p)
      <4>1. UnitOf(p) \in DOMAIN org.units
        BY <1>2, <2>1, <3>1, UnitOfFacts
      <4>2. org.units[UnitOf(p)].ends = "never" \/ p \in admitted
        BY <2>1, <3>1 DEF ImportIInv, ClosedUnlessAdmitted
      <4> QED
        BY <1>1, <1>3, <3>1, <4>1, <4>2
    <3>2. CASE UnitOf(p)' # UnitOf(p)
      <4>1. org'.place[p] # org.place[p] /\ UnitOf(p)' = org'.place[p]
        BY <1>1, <3>2 DEF UnitOf
      <4> QED
        BY <4>1, UploadPlaces
    <3> QED
      BY <3>1, <3>2
  <2> QED
    BY <2>1 DEF ClosedUnlessAdmitted
<1>13. CyclesSpanImports'
  <2>1. ASSUME NEW T \in SUBSET People, Circular(org'.boss, T)
        PROVE  Cardinality({lineFrom'[p] : p \in T}) > 1
    <3>1. T # {} /\ \A p \in T : org'.boss[p] \in T
      BY <2>1 DEF Circular
    <3>2. CASE \A p \in T : org'.boss[p] = org.boss[p]
      <4>1. Circular(org.boss, T)
        BY <3>1, <3>2 DEF Circular
      <4>2. {lineFrom'[p] : p \in T} = {lineFrom[p] : p \in T}
        <5>1. \A p \in T : lineFrom'[p] = lineFrom[p]
          BY <1>1, <3>2
        <5> QED
          BY <5>1
      <4>3. Cardinality({lineFrom[p] : p \in T}) > 1
        BY <4>1 DEF ImportIInv, CyclesSpanImports
      <4> QED
        BY <4>2, <4>3
    <3>3. CASE \A p \in T : org'.boss[p] # org.boss[p]
      <4>1. \A p \in T : p \in DOMAIN Lines(f) /\ org'.boss[p] = Lines(f)[p]
        BY <3>3, UploadLines
      <4>2. T \in SUBSET DOMAIN Lines(f) /\ \A p \in T : Lines(f)[p] \in T
        BY <3>1, <4>1
      <4> QED
        BY <1>2, <3>1, <4>2, LinesForest
    <3>4. ASSUME NEW p \in T, NEW q \in T, org'.boss[p] = org.boss[p], org'.boss[q] # org.boss[q]
          PROVE  Cardinality({lineFrom'[x] : x \in T}) > 1
      <4> DEFINE S == {lineFrom'[x] : x \in T}
      <4>1. lineFrom'[p] = lineFrom[p] /\ lineFrom'[q] = imports + 1
        BY <1>1, <3>4
      <4>2. lineFrom[p] <= imports
        BY DEF ImportIInv, LinesNumbered
      <4>3. lineFrom'[p] # lineFrom'[q]
        BY <1>4, <4>1, <4>2
      <4>4. S \subseteq 0..MaxImports
        BY <1>5 DEF ImportTypeOK
      <4>5. lineFrom'[p] \in S /\ lineFrom'[q] \in S
        OBVIOUS
      <4> HIDE DEF S
      <4>6. IsFiniteSet(S)
        <5>1. IsFiniteSet(0..MaxImports)
          BY FS_Interval, BoundsAssumption
        <5> QED
          BY <4>4, <5>1, FS_Subset
      <4>7. Cardinality(S) > 1
        BY <4>3, <4>5, <4>6, TwoMembers
      <4> QED
        BY <4>7 DEF S
    <3> QED
      BY <3>2, <3>3, <3>4
  <2> QED
    BY <2>1 DEF CyclesSpanImports
<1> QED
  BY <1>3, <1>5, <1>7, <1>8, <1>9, <1>10, <1>11, <1>12, <1>13 DEF ImportIInv

\* Whoever is transferred is counted as admitted if their new unit has an end or
\* is being given one.
LEMMA TransferStep ==
  ASSUME ImportIInv, NEW q \in People, NEW i \in DOMAIN org.units, Transfer(q, i)
  PROVE  ImportIInv'
<1>1. /\ UNCHANGED <<org, pending, imports, lineFrom, raced>>
      /\ transfer' = [transfer EXCEPT ![q] = i]
      /\ admitted' = IF Closing(i) THEN admitted \cup {q} ELSE admitted \ {q}
      /\ changes < MaxChanges /\ changes' = changes + 1
  BY DEF Transfer
<1>2. ImportTypeOK
  BY DEF ImportIInv
<1>3. i # Nil
  BY <1>2, UnitFacts
<1>4. UnitOf(q)' = i /\ \A p \in People : p # q => UnitOf(p)' = UnitOf(p)
  BY <1>1, <1>2, <1>3 DEF UnitOf, ImportTypeOK
<1>5. /\ Closing(i) => q \in admitted'
      /\ \A p \in People : p # q => (p \in admitted' <=> p \in admitted)
  BY <1>1
<1>6. ImportTypeOK'
  <2>1. changes' \in 0..MaxChanges
    BY <1>1, <1>2, BoundsAssumption DEF ImportTypeOK
  <2>2. admitted' \subseteq People /\ transfer' \in [People -> DOMAIN org.units \cup {Nil}]
    BY <1>1, <1>2 DEF ImportTypeOK
  <2> QED
    BY <1>1, <1>2, <2>1, <2>2 DEF ImportTypeOK
<1>7. /\ NumbersInUse(org)' /\ LinesNumbered' /\ CyclesSpanImports'
      /\ ForestUnlessRaced' /\ ParentsThere' /\ MovesSafe'
  BY <1>1 DEF ImportIInv, NumbersInUse, Numbered, LinesNumbered, CyclesSpanImports,
              ForestUnlessRaced, ParentsThere, ParentsIn, MovesSafe, Moves, Open
<1>8. UpdatesApart'
  <2>1. UpdatesApart /\ \A s \in Updates : Open(s)' <=> Open(s)
    BY <1>1 DEF ImportIInv, Open
  <2>2. ASSUME NEW s \in Updates, Open(s), pending[s].row.ends # "never",
               NEW p \in People, UnitOf(p)' = pending[s].unit
        PROVE  p \in admitted'
    <3>1. CASE p = q
      <4>1. Closing(i)
        BY <1>4, <2>2, <3>1 DEF Closing, Open
      <4> QED
        BY <1>5, <3>1, <4>1
    <3>2. CASE p # q
      BY <1>4, <1>5, <2>1, <2>2, <3>2 DEF UpdatesApart
    <3> QED
      BY <3>1, <3>2
  <2> QED
    BY <1>1, <2>1, <2>2 DEF UpdatesApart
<1>9. ClosedUnlessAdmitted'
  <2>1. ASSUME NEW p \in People, UnitOf(p)' # Nil
        PROVE  org.units[UnitOf(p)'].ends = "never" \/ p \in admitted'
    <3>1. CASE p = q
      BY <1>4, <1>5, <3>1 DEF Closing
    <3>2. CASE p # q
      BY <1>4, <1>5, <2>1, <3>2 DEF ImportIInv, ClosedUnlessAdmitted
    <3> QED
      BY <3>1, <3>2
  <2> QED
    BY <1>1, <2>1 DEF ClosedUnlessAdmitted
<1> QED
  BY <1>6, <1>7, <1>8, <1>9 DEF ImportIInv

LEMMA ImportStep ==
  ImportIInv /\ [ImportNext]_importVars => ImportIInv'
<1> SUFFICES ASSUME ImportIInv, [ImportNext]_importVars PROVE ImportIInv'
  OBVIOUS
<1>1. ASSUME NEW f \in Files, Upload(f) PROVE ImportIInv'
  BY <1>1, UploadStep
<1>2. ASSUME NEW s \in Updates, NEW i \in DOMAIN org.units, UpdateUnit(s, i) PROVE ImportIInv'
  BY <1>2, UpdateStep
<1>3. ASSUME NEW s \in Updates, NEW i \in DOMAIN org.units, CloseUnit(s, i) PROVE ImportIInv'
  BY <1>3, CloseStep
<1>4. ASSUME NEW s \in Updates, CommitUpdate(s) PROVE ImportIInv'
  BY <1>4, CommitStep
<1>5. ASSUME NEW s \in Updates, RollBack(s) PROVE ImportIInv'
  BY <1>5, RollBackStep
<1>6. ASSUME NEW code \in Codes, NEW name \in Names, NEW level \in Levels,
             NEW parent \in DOMAIN org.units \cup {Nil}, CreateUnit(code, name, level, parent)
      PROVE  ImportIInv'
  BY <1>6, CreateStep
<1>7. ASSUME NEW r \in Ranks, CreateRank(r) PROVE ImportIInv'
  BY <1>7, LadderStep
<1>8. ASSUME NEW i \in DOMAIN org.units, NEW r \in Ranks \cup {Nil}, SetRank(i, r) PROVE ImportIInv'
  BY <1>8, RankStep
<1>9. ASSUME NEW i \in DOMAIN org.units, EndComes(i) PROVE ImportIInv'
  BY <1>9, EndStep
<1>10. ASSUME NEW p \in People, NEW i \in DOMAIN org.units, Transfer(p, i) PROVE ImportIInv'
  BY <1>10, TransferStep
<1>11. CASE UNCHANGED importVars
  <2>1. /\ UNCHANGED <<org, transfer, pending, imports, lineFrom, raced, admitted>> /\ changes' = changes
        /\ org'.units = org.units /\ org'.place = org.place /\ org'.boss = org.boss
    BY <1>11 DEF importVars
  <2>2. OrgType(org') /\ changes' \in 0..MaxChanges
    BY <2>1 DEF ImportIInv, ImportTypeOK
  <2> QED
    BY <2>1, <2>2, TablesKept DEF history
<1> QED
  BY <1>1, <1>2, <1>3, <1>4, <1>5, <1>6, <1>7, <1>8, <1>9, <1>10, <1>11 DEF ImportNext

LEMMA ImportInvariant ==
  ImportSpec => []ImportIInv
<1> QED
  BY ImportInitially, ImportStep, PTL DEF ImportSpec

\* Every table of the organisation keeps its type, whatever is uploaded and
\* whatever Setup writes at the same time.
THEOREM ImportTypeCorrect ==
  ImportSpec => []ImportTypeOK
<1>1. ImportIInv => ImportTypeOK
  BY DEF ImportIInv
<1> QED
  BY <1>1, ImportInvariant, PTL

\* The units of the organisation are a forest unless two moves overlapped: the
\* files that validate, and the trigger of 0018, see to it together.
THEOREM ForestCorrect ==
  ImportSpec => []ForestUnlessRaced
<1>1. ImportIInv => ForestUnlessRaced
  BY DEF ImportIInv
<1> QED
  BY <1>1, ImportInvariant, PTL

\* Nobody is in a unit that has been given an end unless an import put them there
\* meanwhile or before the day came, or a transfer did meanwhile or afterwards.
THEOREM ClosedCorrect ==
  ImportSpec => []ClosedUnlessAdmitted
<1>1. ImportIInv => ClosedUnlessAdmitted
  BY DEF ImportIInv
<1> QED
  BY <1>1, ImportInvariant, PTL

\* People report in a circle only through lines of different imports: findCycles()
\* misses no circle that a file would complete by itself.
THEOREM CyclesCorrect ==
  ImportSpec => []CyclesSpanImports
<1>1. ImportIInv => CyclesSpanImports
  BY DEF ImportIInv
<1> QED
  BY <1>1, ImportInvariant, PTL

-----------------------------------------------------------------------------
(***************************************************************************)
(* What one import does.                                                   *)
(***************************************************************************)

\* When each unit of the file has one level, a unit is written after the one
\* that the file names above it.
LEMMA ParentsFirst ==
  ASSUME NEW f \in Files, OneLevelEach(f), NEW code \in CodesIn(f), ParentIn(f, code) # Nil
  PROVE  WrittenBefore(f, ParentIn(f, code), code)
<1> DEFINE m == First(f, code)
           n == <<m[1], m[2] - 1>>
<1>1. m \in Mentions(f) /\ CodeAt(f, m) = code
  BY FirstFacts
<1>2. m[2] # 1 /\ ParentIn(f, code) = CodeAt(f, n)
  BY DEF ParentIn, ParentAt
<1> HIDE DEF m
<1>3. n \in Mentions(f) /\ m[1] \in DOMAIN f /\ m[2] \in 1..Len(f[m[1]].units) /\ m[2] \in Nat \ {0}
  BY <1>1, <1>2, MentionFacts
<1>4. At(f, m).level = LevelIn(f, code) /\ At(f, n).level = LevelIn(f, ParentIn(f, code))
  BY <1>1, <1>2, <1>3 DEF OneLevelEach
<1>5. DOMAIN f[m[1]].units = 1..Len(f[m[1]].units) /\ Len(f[m[1]].units) \in Nat
  BY <1>3, FileFacts
<1>6. \A j, k \in DOMAIN f[m[1]].units :
          j <= k => DepthOf[f[m[1]].units[j].level] <= DepthOf[f[m[1]].units[k].level]
  BY <1>3, FilesAssumption DEF StaffFile
<1>7. m[2] - 1 \in DOMAIN f[m[1]].units /\ m[2] \in DOMAIN f[m[1]].units /\ m[2] - 1 <= m[2]
  BY <1>2, <1>3, <1>5
<1>8. DepthOf[At(f, n).level] <= DepthOf[At(f, m).level]
  BY <1>6, <1>7 DEF At
<1> QED
  BY <1>4, <1>8 DEF WrittenBefore

LEMMA UploadLinks ==
  ASSUME ImportIInv, NEW f \in Files, Upload(f), OneLevelEach(f),
         NEW i \in DOMAIN org'.units \ DOMAIN org.units
  PROVE  IF ParentIn(f, i[1]) = Nil THEN org'.units[i].parent = Nil
         ELSE org'.units[i].parent # Nil /\ org'.units[org'.units[i].parent].code = ParentIn(f, i[1])
<1>1. OrgType(org) /\ NumbersInUse(org)
  BY UploadFacts
<1>2. PICK id \in Found(org, f) : org' = Imported(org, f, id)
  BY UploadFacts
<1>3. org'.units = UnitsAfter(org, f, id)
  BY <1>2, ImportedTables
<1>4. i \in Created(org, f)
  BY UploadUnits
<1>5. i[1] \in CodesIn(f)
  BY <1>1, <1>4, CreatedFacts
<1>6. org'.units[i] = NewRow(f, id, i)
  BY <1>1, <1>3, <1>4, CreatedRow
<1>7. CASE ParentIn(f, i[1]) = Nil
  BY <1>6, <1>7 DEF NewRow
<1>8. CASE ParentIn(f, i[1]) # Nil
  <2> DEFINE p == ParentIn(f, i[1])
  <2>1. WrittenBefore(f, p, i[1]) /\ p \in CodesIn(f)
    BY <1>5, <1>8, ParentsFirst, CodeFacts
  <2>2. org'.units[i].parent = id[p]
    BY <1>6, <1>8, <2>1 DEF NewRow
  <2>3. id[p] # Nil
    BY <1>1, <2>1, FoundFacts
  <2>4. org'.units[id[p]].code = p
    <3>1. CASE p \in Missing(org, f)
      <4>1. id[p] \in Created(org, f) /\ id[p][1] = p
        BY <1>1, <2>1, <3>1, FoundFacts DEF Created
      <4>2. org'.units[id[p]] = NewRow(f, id, id[p])
        BY <1>1, <1>3, <4>1, CreatedRow
      <4> QED
        BY <4>1, <4>2 DEF NewRow
    <3>2. CASE p \notin Missing(org, f)
      <4>1. id[p] \in DOMAIN org.units /\ org.units[id[p]].code = p
        BY <1>1, <2>1, <3>2, FoundFacts
      <4> QED
        BY <4>1, UploadUnits
    <3> QED
      BY <3>1, <3>2
  <2> QED
    BY <1>8, <2>2, <2>3, <2>4
<1> QED
  BY <1>7, <1>8

\* If a file gives each unit one level, every unit it creates hangs under the unit
\* that the file names above it: the order of writing loses no parent.
THEOREM LinksCorrect ==
  ImportSpec => LinkedAsNamed
<1>1. ImportIInv /\ [ImportNext]_importVars =>
        [\A f \in Files : Upload(f) /\ OneLevelEach(f) =>
          \A i \in DOMAIN org'.units \ DOMAIN org.units :
              LET p == ParentIn(f, i[1])  q == org'.units[i].parent IN
              IF p = Nil THEN q = Nil ELSE q # Nil /\ org'.units[q].code = p]_importVars
  <2> SUFFICES ASSUME ImportIInv, NEW f \in Files, Upload(f), OneLevelEach(f),
                      NEW i \in DOMAIN org'.units \ DOMAIN org.units
               PROVE  IF ParentIn(f, i[1]) = Nil THEN org'.units[i].parent = Nil
                      ELSE /\ org'.units[i].parent # Nil
                           /\ org'.units[org'.units[i].parent].code = ParentIn(f, i[1])
    OBVIOUS
  <2> QED
    BY UploadLinks
<1> QED
  BY <1>1, ImportInvariant, PTL DEF ImportSpec, LinkedAsNamed

-----------------------------------------------------------------------------
(* The same file again. *)

LEMMA AgainUnits ==
  ASSUME ImportIInv, NEW f \in Files, Upload(f), NEW again \in Found(org', f)
  PROVE  UnitsAfter(org', f, again) = org'.units
<1>1. OrgType(org) /\ NumbersInUse(org) /\ OrgType(org') /\ NumbersInUse(org')
  BY UploadFacts, UploadUnits
<1>2. PICK id \in Found(org, f) : org' = Imported(org, f, id)
  BY UploadFacts
<1>3. org'.units = UnitsAfter(org, f, id)
  BY <1>2, ImportedTables
<1>4. Missing(org', f) = {}
  <2>1. ASSUME NEW code \in CodesIn(f) PROVE WithCode(org', code) # {}
    <3>1. CASE code \in Missing(org, f)
      <4>1. id[code] \in Created(org, f) /\ id[code][1] = code
        BY <1>1, <3>1, FoundFacts DEF Created
      <4>2. org'.units[id[code]] = NewRow(f, id, id[code]) /\ id[code] \in DOMAIN org'.units
        <5>1. id[code] \in DOMAIN org'.units
          BY <4>1, UploadUnits
        <5> QED
          BY <1>1, <1>3, <4>1, <5>1, CreatedRow
      <4>3. org'.units[id[code]].code = code
        BY <4>1, <4>2 DEF NewRow
      <4> QED
        BY <4>2, <4>3 DEF WithCode
    <3>2. CASE code \notin Missing(org, f)
      <4>1. id[code] \in DOMAIN org.units /\ org.units[id[code]].code = code
        BY <1>1, <3>2, FoundFacts
      <4>2. id[code] \in DOMAIN org'.units /\ org'.units[id[code]] = org.units[id[code]]
        BY <4>1, UploadUnits
      <4> QED
        BY <4>1, <4>2 DEF WithCode
    <3> QED
      BY <3>1, <3>2
  <2> QED
    BY <2>1 DEF Missing
<1>5. Created(org', f) = {}
  BY <1>4 DEF Created
<1>6. /\ DOMAIN UnitsAfter(org', f, again) = DOMAIN org'.units
      /\ \A i \in DOMAIN org'.units : UnitsAfter(org', f, again)[i] = org'.units[i]
  <2>1. DOMAIN UnitsAfter(org', f, again) = DOMAIN org'.units \cup Created(org', f)
    BY <1>1, UnitsAfterFacts
  <2>2. \A i \in DOMAIN org'.units : UnitsAfter(org', f, again)[i] = org'.units[i]
    BY <1>1, UnitsAfterFacts
  <2> QED
    BY <1>5, <2>1, <2>2
<1>7. /\ UnitsAfter(org', f, again) \in [DOMAIN org'.units -> Row]
      /\ org'.units \in [DOMAIN org'.units -> Row]
  <2>1. UnitsAfter(org', f, again) \in [DOMAIN org'.units \cup Created(org', f) -> Row]
    BY <1>1, UnitsAfterType
  <2> QED
    BY <1>1, <1>5, <2>1 DEF OrgType
<1> QED
  BY <1>6, <1>7

LEMMA AgainAccepted ==
  ASSUME ImportIInv, NEW f \in Files, Upload(f), NEW again \in Found(org', f)
  PROVE  Accepts(org', f, again)
<1>1. PICK id \in Found(org, f) : Accepts(org, f, id) /\ org' = Imported(org, f, id)
  BY UploadFacts
<1>2. UnitsAfter(org', f, again) = org'.units /\ org'.units = UnitsAfter(org, f, id)
  BY <1>1, AgainUnits, ImportedTables
<1>3. \A p \in People_(f) : Homes(org'.units, Deepest(RowOf(f, p))) # {}
  BY <1>1, <1>2 DEF Accepts
<1>4. ASSUME NEW p \in People_(f), RowOf(f, p).rank # Nil
      PROVE  org'.ladder[RowOf(f, p).rank] # "setup"
  <2>1. RowOf(f, p).rank \in Ranks /\ \E i \in DOMAIN f : f[i].rank = RowOf(f, p).rank
    BY <1>4, RowFacts
  <2>2. org'.ladder[RowOf(f, p).rank] = "file"
    BY <1>1, <2>1, ImportedLadder
  <2> QED
    BY <2>2
<1> QED
  BY <1>2, <1>3, <1>4 DEF Accepts

\* An import is its tables.
LEMMA ImportedRecord ==
  ASSUME NEW o, NEW f, NEW id
  PROVE  Imported(o, f, id) =
           [units |-> Imported(o, f, id).units, place |-> Imported(o, f, id).place,
            boss |-> Imported(o, f, id).boss, rank |-> Imported(o, f, id).rank,
            ladder |-> Imported(o, f, id).ladder]
BY DEF Imported

LEMMA AgainSame ==
  ASSUME ImportIInv, NEW f \in Files, Upload(f), NEW again \in Found(org', f)
  PROVE  Imported(org', f, again) = org'
<1>1. OrgType(org) /\ NumbersInUse(org) /\ OrgType(org') /\ NumbersInUse(org')
  BY UploadFacts, UploadUnits
<1>2. PICK id \in Found(org, f) : Accepts(org, f, id) /\ org' = Imported(org, f, id)
  BY UploadFacts
<1> DEFINE n == Imported(org', f, again)
<1>3. UnitsAfter(org', f, again) = org'.units /\ org'.units = UnitsAfter(org, f, id)
  BY <1>2, AgainUnits, ImportedTables
<1>4. n.units = org'.units
  BY <1>3, ImportedTables
<1>5. OrgType(n)
  BY <1>1, AgainAccepted, ImportedType
<1>6. \A p \in People : Home(org', f, again, p) = Home(org, f, id, p)
  BY <1>3 DEF Home
<1>7. \A p \in People : n.place[p] = org'.place[p]
  <2>1. ASSUME NEW p \in People, p \in People_(f) PROVE org'.place[p] # Nil
    <3>1. Home(org, f, id, p) # Nil
      <4>1. Home(org, f, id, p) \in DOMAIN UnitsAfter(org, f, id)
        BY <1>2, <2>1, HomeFacts
      <4>2. Nil \notin DOMAIN org'.units
        BY UploadUnits DEF Grown
      <4> QED
        BY <1>3, <4>1, <4>2
    <3> QED
      BY <1>2, <2>1, <3>1, ImportedPlace
  <2> QED
    BY <2>1, ImportedPlace
<1>8. \A p \in People : n.boss[p] = org'.boss[p]
  <2>1. ASSUME NEW p \in People, p \in DOMAIN Lines(f) PROVE org'.boss[p] # Nil
    <3>1. Lines(f)[p] # Nil
      BY <2>1 DEF Lines
    <3> QED
      BY <1>2, <2>1, <3>1, ImportedBoss
  <2> QED
    BY <2>1, ImportedBoss
<1>9. \A r \in Ranks : n.ladder[r] = org'.ladder[r]
  BY <1>2, ImportedLadder
<1>10. \A i \in DOMAIN org'.units : n.rank[i] = org'.rank[i]
  <2>1. Posts(org', f, again) = Posts(org, f, id)
    <3>1. {n.place[p] : p \in People} = {org'.place[p] : p \in People}
      BY <1>7
    <3>2. {Home(org', f, again, p) : p \in People_(f)} = {Home(org, f, id, p) : p \in People_(f)}
      BY <1>6, RowFacts
    <3> HIDE DEF n
    <3> QED
      BY <1>2, <3>1, <3>2 DEF Posts, n
  <2>2. DOMAIN org'.rank = DOMAIN org'.units
    BY <1>1 DEF OrgType
  <2> SUFFICES ASSUME NEW i \in DOMAIN org'.units PROVE n.rank[i] = org'.rank[i]
    OBVIOUS
  <2>3. i \in DOMAIN UnitsAfter(org', f, again) /\ i \in DOMAIN UnitsAfter(org, f, id)
    BY <1>3
  <2>4. n.rank[i] = IF /\ i \in Posts(org', f, again)
                       /\ RankRows(f, UnitsAfter(org', f, again)[i].code) # {}
                    THEN FileRank(f, UnitsAfter(org', f, again)[i].code)
                    ELSE IF i \in DOMAIN org'.rank THEN org'.rank[i] ELSE Nil
    BY <2>3, ImportedRank
  <2>5. i \in Posts(org, f, id) /\ RankRows(f, org'.units[i].code) # {} =>
            org'.rank[i] = FileRank(f, org'.units[i].code)
    <3>1. Imported(org, f, id).rank[i] =
            IF /\ i \in Posts(org, f, id)
               /\ RankRows(f, UnitsAfter(org, f, id)[i].code) # {}
            THEN FileRank(f, UnitsAfter(org, f, id)[i].code)
            ELSE IF i \in DOMAIN org.rank THEN org.rank[i] ELSE Nil
      BY <2>3, ImportedRank
    <3> HIDE DEF n
    <3> QED
      BY <1>2, <1>3, <3>1
  <2> HIDE DEF n
  <2> QED
    BY <1>3, <2>1, <2>2, <2>4, <2>5
<1> HIDE DEF n
<1>11. /\ n.place = org'.place /\ n.boss = org'.boss /\ n.ladder = org'.ladder
       /\ n.rank = org'.rank
  BY <1>1, <1>4, <1>5, <1>7, <1>8, <1>9, <1>10 DEF OrgType
<1>12. /\ n = [units |-> n.units, place |-> n.place, boss |-> n.boss, rank |-> n.rank,
               ladder |-> n.ladder]
       /\ org' = [units |-> org'.units, place |-> org'.place, boss |-> org'.boss,
                  rank |-> org'.rank, ladder |-> org'.ladder]
  BY <1>2, ImportedRecord DEF n
<1> QED
  BY <1>4, <1>11, <1>12 DEF n

\* The same file again is accepted and changes nothing, whichever rows it takes
\* its units for: HR may correct the file and upload it as often as needed.
THEOREM RepeatCorrect ==
  ImportSpec => Repeatable
<1>1. ImportIInv /\ [ImportNext]_importVars =>
        [\A f \in Files : Upload(f) =>
          \A id \in Found(org', f) : Accepts(org', f, id) /\ Imported(org', f, id) = org']_importVars
  BY AgainAccepted, AgainSame
<1> QED
  BY <1>1, ImportInvariant, PTL DEF ImportSpec, Repeatable
=============================================================================
