------------------------- MODULE EvaluationsProofs --------------------------
(***************************************************************************)
(* What Evaluations.tla keeps for every number of people, scorecards,      *)
(* lines and requests.                                                     *)
(***************************************************************************)
EXTENDS Evaluations, TLAPS

\* What a transaction has read still holds, or the history tells otherwise.
OpeningHolds(t) ==
    t.at = "opening" =>
        /\ t.of \in Evals /\ t.next \in 0..Last /\ t.total \in Totals
        /\ ~ t.torn => t.total = Sum(item[t.of[2]])

SumHolds(t) ==
    /\ t.at \in {"scoring", "submitting", "summed"} =>
         t.of \in Evals /\ head[t.of].state # "absent"
    /\ t.at = "summed" =>
         /\ t.total \in Totals
         /\ t.of \notin crossed => Assessed(t.of) /\ t.total = Sum(got[t.of])

\* What it has inserted nobody else has, and is whole unless it is torn.
NewHolds(t) ==
    \A f \in t.new : /\ head[f.of].state = "absent"
                     /\ ~ f.torn => f.target = Sum(f.lines)

Holds(t) == OpeningHolds(t) /\ SumHolds(t) /\ NewHolds(t)

Apart ==
    \A r, s \in Sessions : r # s =>
        \A f \in tx[r].new, g \in tx[s].new : f.of # g.of

QueuedIsSubmitted == \A e \in Evals : mail[e].queued => Submitted(e)

IInv == /\ TypeOK /\ TargetOfLines /\ AwardedIsSum /\ SubjectToldTotal
        /\ QueuedIsSubmitted /\ Apart
        /\ \A s \in Sessions : Holds(tx[s])

-----------------------------------------------------------------------------
LEMMA SumIsTotal == \A f \in Points : Sum(f) \in Totals
  BY DEF Totals

LEMMA MissingType == Missing \in Head /\ [l \in Lines |-> 0] \in Points
<1>1. [l \in Lines |-> 0] \in Points
  BY PointsAssumption DEF Points
<1> QED
  BY <1>1, SumIsTotal DEF Missing, Head

\* A request carries a number, or None, for each line it names.
LEMMA ScoresType ==
  /\ NoScores \in Scores
  /\ \A put \in Scores : \A l \in DOMAIN put : put[l] \in (0..MaxPoints) \cup {None}
<1>1. NoScores \in [{} -> (0..MaxPoints) \cup {None}]
  BY DEF NoScores
<1>2. NoScores \in Scores
  BY <1>1 DEF Scores
<1> QED
  BY <1>2 DEF Scores

LEMMA IdleType == Idle \in Tx /\ Idle.new = {} /\ Idle.at = "idle" /\ Holds(Idle)
<1>1. Idle \in Tx
  BY PeopleAssumption, ScoresType DEF Idle, Tx
<1> QED
  BY <1>1 DEF Idle, Holds, OpeningHolds, SumHolds, NewHolds

LEMMA AssessedIsPoints ==
  ASSUME TypeOK, NEW e \in Evals, Assessed(e)
  PROVE  got[e] \in Points
<1>1. got[e] \in [Lines -> (0..MaxPoints) \cup {None}]
  BY DEF TypeOK, Claims
<1>2. \A l \in Lines : got[e][l] \in 0..MaxPoints
  BY <1>1 DEF Assessed
<1> QED
  BY <1>1, <1>2 DEF Points

\* A transaction that only reads changes itself only.
LEMMA ReadKeeps ==
  ASSUME IInv, NEW s \in Sessions, NEW t \in Tx, Holds(t),
         \A r \in Sessions \ {s} : \A f \in t.new, g \in tx[r].new : f.of # g.of,
         Reads(s, t)
  PROVE  IInv'
<1>1. /\ tx' = [tx EXCEPT ![s] = t] /\ tx \in [Sessions -> Tx]
      /\ UNCHANGED <<held, item, head, avail, got, mail, torn, crossed>>
  BY DEF Reads, Goes, recordVars, historyVars, IInv, TypeOK
<1>2. tx'[s] = t /\ \A o \in Sessions \ {s} : tx'[o] = tx[o]
  BY <1>1
<1>3. tx' \in [Sessions -> Tx]
  BY <1>1
<1>4. TypeOK'
  BY <1>1, <1>3 DEF IInv, TypeOK
<1>5. \A o \in Sessions : Holds(tx'[o])
  BY <1>2 DEF IInv
<1>6. \A o \in Sessions : Holds(tx[o])'
  BY <1>1, <1>5 DEF Holds, OpeningHolds, SumHolds, NewHolds, Assessed
<1>7. (TargetOfLines /\ AwardedIsSum /\ SubjectToldTotal /\ QueuedIsSubmitted)'
  BY <1>1 DEF IInv, TargetOfLines, AwardedIsSum, SubjectToldTotal, QueuedIsSubmitted,
     Submitted, Assessed
<1>8. Apart'
  BY <1>2 DEF IInv, Apart
<1> QED
  BY <1>4, <1>6, <1>7, <1>8 DEF IInv

LEMMA InitInv == Init => IInv
<1> SUFFICES ASSUME Init PROVE IInv
  OBVIOUS
<1>1. /\ held \in [People -> Cards \cup {None}]
      /\ item \in [Cards -> Points]
      /\ head \in [Evals -> Head]
      /\ avail \in [Evals -> Points]
      /\ mail \in [Evals -> Mail]
      /\ tx \in [Sessions -> Tx]
  BY MissingType, IdleType DEF Init, Mail
<1>2. got \in [Evals -> Claims]
  <2>1. [l \in Lines |-> 0] \in Claims
    BY PointsAssumption DEF Claims
  <2> QED
    BY <2>1 DEF Init
<1>3. TypeOK
  BY <1>1, <1>2 DEF Init, TypeOK
<1>4. \A e \in Evals : head[e].state = "absent" /\ mail[e].queued = FALSE
  BY DEF Init, Missing
<1>5. \A s \in Sessions : tx[s] = Idle
  BY DEF Init
<1> QED
  BY <1>3, <1>4, <1>5, IdleType
  DEF IInv, TargetOfLines, AwardedIsSum, SubjectToldTotal, QueuedIsSubmitted,
      Submitted, Apart

-----------------------------------------------------------------------------
LEMMA SetLineKeeps ==
  ASSUME IInv, NEW c \in Cards, NEW l \in Lines, NEW n \in 0..MaxPoints, SetLine(c, l, n)
  PROVE  IInv'
<1>1. /\ item' = [item EXCEPT ![c][l] = n]
      /\ tx' = [s \in Sessions |-> Torn(tx[s], c)]
      /\ UNCHANGED <<held, head, avail, got, mail, torn, crossed>>
  BY DEF SetLine, recordVars, historyVars
<1>2. item' \in [Cards -> Points] /\ \A o \in Cards \ {c} : item'[o] = item[o]
  BY <1>1 DEF IInv, TypeOK, Points
<1>3. ASSUME NEW s \in Sessions
      PROVE  /\ tx'[s] \in Tx
             /\ tx'[s].at = tx[s].at /\ tx'[s].of = tx[s].of /\ tx'[s].next = tx[s].next
             /\ tx'[s].total = tx[s].total /\ tx'[s].new = tx[s].new
             /\ tx[s].torn => tx'[s].torn
             /\ tx'[s].at = "opening" /\ ~ tx'[s].torn => tx[s].of[2] # c /\ ~ tx[s].torn
  <2>1. tx[s] \in Tx /\ tx'[s] = Torn(tx[s], c)
    BY <1>1 DEF IInv, TypeOK
  <2>2. CASE tx[s].at = "opening" /\ tx[s].of[2] = c
    <3>1. tx'[s] = [tx[s] EXCEPT !.torn = TRUE]
      BY <2>1, <2>2 DEF Torn
    <3> QED
      BY <2>1, <3>1 DEF Tx
  <2>3. CASE ~ (tx[s].at = "opening" /\ tx[s].of[2] = c)
    <3>1. tx'[s] = tx[s]
      BY <2>1, <2>3 DEF Torn
    <3> QED
      BY <2>1, <2>3, <3>1 DEF Tx
  <2> QED
    BY <2>2, <2>3
<1>4. tx' \in [Sessions -> Tx]
  BY <1>1, <1>3
<1>5. TypeOK'
  BY <1>1, <1>2, <1>4 DEF IInv, TypeOK
<1>6. ASSUME NEW s \in Sessions PROVE Holds(tx[s])'
  <2>1. Holds(tx[s])
    BY DEF IInv
  <2>2. OpeningHolds(tx[s])'
    <3> SUFFICES ASSUME tx'[s].at = "opening"
                 PROVE  /\ tx'[s].of \in Evals /\ tx'[s].next \in 0..Last /\ tx'[s].total \in Totals
                        /\ ~ tx'[s].torn => tx'[s].total = Sum(item'[tx'[s].of[2]])
      BY DEF OpeningHolds
    <3>1. /\ tx[s].of \in Evals /\ tx[s].next \in 0..Last /\ tx[s].total \in Totals
          /\ ~ tx[s].torn => tx[s].total = Sum(item[tx[s].of[2]])
      BY <1>3, <2>1 DEF Holds, OpeningHolds
    <3>2. ~ tx'[s].torn => item'[tx[s].of[2]] = item[tx[s].of[2]]
      BY <1>2, <1>3, <3>1 DEF Evals
    <3> QED
      BY <1>3, <3>1, <3>2
  <2>3. SumHolds(tx[s])'
    BY <1>1, <1>3, <2>1 DEF Holds, SumHolds, Assessed
  <2>4. NewHolds(tx[s])'
    BY <1>1, <1>3, <2>1 DEF Holds, NewHolds
  <2> QED
    BY <2>2, <2>3, <2>4 DEF Holds
<1>7. (TargetOfLines /\ AwardedIsSum /\ SubjectToldTotal /\ QueuedIsSubmitted)'
  BY <1>1 DEF IInv, TargetOfLines, AwardedIsSum, SubjectToldTotal, QueuedIsSubmitted,
     Submitted, Assessed
<1>8. Apart'
  BY <1>3 DEF IInv, Apart
<1> QED
  BY <1>5, <1>6, <1>7, <1>8 DEF IInv

LEMMA MetricsKeeps ==
  ASSUME IInv, Metrics
  PROVE  IInv'
<1>1. ASSUME NEW c \in Cards, NEW l \in Lines, NEW n \in 1..MaxPoints, AddItem(c, l, n)
      PROVE  IInv'
  BY <1>1, SetLineKeeps DEF AddItem
<1>2. ASSUME NEW c \in Cards, NEW l \in Lines, RemoveItem(c, l)
      PROVE  IInv'
  BY <1>2, SetLineKeeps, PointsAssumption DEF RemoveItem
<1>3. ASSUME NEW c \in Cards, NEW p \in People, Assign(p, c)
      PROVE  IInv'
  <2>1. /\ held' = [held EXCEPT ![p] = c]
        /\ UNCHANGED <<item, head, avail, got, mail, tx, torn, crossed>>
    BY <1>3 DEF Assign, recordVars, historyVars
  <2>2. TypeOK'
    BY <2>1 DEF IInv, TypeOK
  <2>3. \A s \in Sessions : Holds(tx[s])'
    BY <2>1 DEF IInv, Holds, OpeningHolds, SumHolds, NewHolds, Assessed
  <2> QED
    BY <2>1, <2>2, <2>3
    DEF IInv, TargetOfLines, AwardedIsSum, SubjectToldTotal, QueuedIsSubmitted,
        Submitted, Assessed, Apart
<1> QED
  BY <1>1, <1>2, <1>3 DEF Metrics

LEMMA OpenKeeps ==
  ASSUME IInv, NEW s \in Sessions, Open(s)
  PROVE  IInv'
<1>1. tx[s] \in Tx /\ Holds(tx[s]) /\ tx \in [Sessions -> Tx]
  BY DEF IInv, TypeOK
<1>2. ASSUME NEW p \in People, Openable(p)
      PROVE  /\ <<p, held[p]>> \in Evals
             /\ Sum(Card(p)) \in Totals /\ Card(p) = item[held[p]]
  <2>1. held[p] \in Cards
    BY <1>2 DEF IInv, TypeOK, Openable
  <2>2. item[held[p]] \in Points
    BY <2>1 DEF IInv, TypeOK
  <2> QED
    BY <2>1, <2>2, SumIsTotal DEF Evals, Card
<1>3. ASSUME NEW p \in People, Openable(p), NEW n \in 0..Last, NEW new \in SUBSET Fresh
      PROVE  LET t == Opening(p, n, new)
             IN  t \in Tx /\ t.new = new /\ OpeningHolds(t) /\ SumHolds(t)
  <2> DEFINE t == Opening(p, n, new)
  <2>1. /\ t.at = "opening" /\ t.next = n /\ t.of = <<p, held[p]>> /\ t.total = Sum(Card(p))
        /\ t.torn = FALSE /\ t.new = new
    BY DEF Opening, Idle
  <2>2. n \in 0..(Last + 1) /\ Idle.put \in Scores
    BY PeopleAssumption, ScoresType DEF Idle
  <2>3. t \in Tx
    BY <1>2, <1>3, <2>2, IdleType DEF Opening, Tx
  <2>4. t.of[2] = held[p]
    BY <2>1
  <2> HIDE DEF t
  <2>5. OpeningHolds(t) /\ SumHolds(t)
    BY <1>2, <1>3, <2>1, <2>4 DEF OpeningHolds, SumHolds
  <2> QED
    BY <2>1, <2>3, <2>5 DEF t
<1>4. ASSUME NEW p \in People, OpenBegin(s, p) PROVE IInv'
  <2> DEFINE t == Opening(p, Last, {})
  <2>2. t \in Tx /\ t.new = {} /\ OpeningHolds(t) /\ SumHolds(t)
    <3>1. Last \in 0..Last /\ {} \in SUBSET Fresh /\ Openable(p)
      BY <1>4, PeopleAssumption DEF OpenBegin
    <3> QED
      BY <1>3, <3>1
  <2>3. Holds(t)
    BY <2>2 DEF Holds, NewHolds
  <2>4. Reads(s, t)
    BY <1>4 DEF OpenBegin, Begins, Reads
  <2> HIDE DEF t
  <2> QED
    BY <2>2, <2>3, <2>4, ReadKeeps
<1>5. CASE BatchBegin(s)
  <2> DEFINE t == [Idle EXCEPT !.at = "batch", !.next = 1]
  <2>1. /\ t \in Tx /\ t.at = "batch" /\ t.new = {}
    <3>1. 1 \in 0..(Last + 1)
      BY PeopleAssumption
    <3> QED
      BY <3>1, IdleType DEF Tx
  <2>2. Holds(t)
    BY <2>1 DEF Holds, OpeningHolds, SumHolds, NewHolds
  <2>3. Reads(s, t)
    BY <1>5 DEF BatchBegin, Begins, Reads
  <2> HIDE DEF t
  <2> QED
    BY <2>1, <2>2, <2>3, ReadKeeps
<1>6. CASE BatchSkip(s)
  <2> DEFINE t == [tx[s] EXCEPT !.next = @ + 1]
  <2>1. tx[s].at = "batch" /\ tx[s].next \in People /\ Reads(s, t)
    BY <1>6 DEF BatchSkip, AtPerson
  <2>2. t \in Tx /\ t.at = "batch" /\ t.new = tx[s].new
    BY <1>1, <2>1, PeopleAssumption DEF Tx, People
  <2>3. Holds(t)
    BY <1>1, <2>2 DEF Holds, OpeningHolds, SumHolds, NewHolds
  <2> HIDE DEF t
  <2> QED
    BY <2>1, <2>2, <2>3, ReadKeeps DEF IInv, Apart
<1>7. CASE BatchPick(s)
  <2> DEFINE p == tx[s].next
             t == Opening(p, p, tx[s].new)
  <2>1. p \in People /\ Openable(p) /\ Reads(s, t)
    BY <1>7 DEF BatchPick, AtPerson
  <2>2. p \in 0..Last /\ tx[s].new \in SUBSET Fresh
    BY <1>1, <2>1, PeopleAssumption DEF People, Tx
  <2>3. t \in Tx /\ t.new = tx[s].new /\ OpeningHolds(t) /\ SumHolds(t)
    BY <1>3, <2>1, <2>2
  <2>4. Holds(t)
    BY <1>1, <2>3 DEF Holds, NewHolds
  <2> HIDE DEF t, p
  <2> QED
    BY <2>1, <2>3, <2>4, ReadKeeps DEF IInv, Apart
<1>8. CASE Insert(s)
  <2> DEFINE f == [of |-> tx[s].of, target |-> tx[s].total, torn |-> tx[s].torn,
                   lines |-> item[tx[s].of[2]]]
             t == [Idle EXCEPT !.at = "batch", !.next = tx[s].next + 1,
                               !.new = tx[s].new \cup {f}]
  <2>1. tx[s].at = "opening" /\ Free(s, tx[s].of) /\ Reads(s, t)
    BY <1>8 DEF Insert
  <2>2. /\ tx[s].of \in Evals /\ tx[s].next \in 0..Last /\ tx[s].total \in Totals
        /\ ~ tx[s].torn => tx[s].total = Sum(item[tx[s].of[2]])
    BY <1>1, <2>1 DEF Holds, OpeningHolds
  <2>3. item[tx[s].of[2]] \in Points
    BY <2>2 DEF Evals, IInv, TypeOK
  <2>4. f \in Fresh /\ f.of = tx[s].of /\ (~ f.torn => f.target = Sum(f.lines))
    BY <1>1, <2>2, <2>3 DEF Fresh, Tx
  <2> HIDE DEF f
  <2>5. /\ t \in Tx /\ t.at = "batch" /\ t.new = tx[s].new \cup {f}
    <3>1. tx[s].next + 1 \in 0..(Last + 1) /\ tx[s].new \cup {f} \in SUBSET Fresh
      BY <1>1, <2>2, <2>4, PeopleAssumption DEF Tx
    <3> QED
      BY <3>1, IdleType DEF Tx
  <2>6. Holds(t)
    <3>1. head[f.of].state = "absent"
      BY <2>1, <2>4 DEF Free
    <3>2. NewHolds(t)
      BY <1>1, <2>4, <2>5, <3>1 DEF Holds, NewHolds
    <3> QED
      BY <2>5, <3>2 DEF Holds, OpeningHolds, SumHolds
  <2>7. \A r \in Sessions \ {s} : \A g \in t.new, h \in tx[r].new : g.of # h.of
    BY <2>1, <2>4, <2>5 DEF IInv, Apart, Free
  <2> HIDE DEF t
  <2> QED
    BY <2>1, <2>5, <2>6, <2>7, ReadKeeps
<1>9. CASE OpenCommit(s)
  <2> DEFINE New(e) == {f \in tx[s].new : f.of = e}
             F(e)   == CHOOSE f \in New(e) : TRUE
  <2>1. /\ head' = [e \in Evals |->
                 IF New(e) = {} THEN head[e]
                 ELSE [state |-> "draft", target |-> F(e).target, awarded |-> None]]
        /\ avail' = [e \in Evals |-> IF New(e) = {} THEN avail[e] ELSE F(e).lines]
        /\ got' = [e \in Evals |-> IF New(e) = {} THEN got[e] ELSE Unscored(F(e).lines)]
        /\ torn' = torn \cup {e \in Evals : New(e) # {} /\ F(e).torn}
        /\ tx' = [tx EXCEPT ![s] = Idle]
        /\ UNCHANGED <<held, item, mail, crossed>>
    BY <1>9 DEF OpenCommit, Goes
  <2>2. ASSUME NEW e \in Evals, New(e) # {}
        PROVE  /\ F(e) \in Fresh /\ F(e).of = e /\ head[e].state = "absent"
               /\ ~ F(e).torn => F(e).target = Sum(F(e).lines)
    <3>1. F(e) \in New(e)
      BY <2>2
    <3>2. F(e) \in tx[s].new /\ F(e).of = e
      BY <3>1
    <3> QED
      BY <1>1, <3>2 DEF Tx, Holds, NewHolds
  <2> HIDE DEF New, F
  <2>3. ASSUME NEW e \in Evals, New(e) # {}
        PROVE  /\ head'[e].state = "draft" /\ head'[e].target = F(e).target
               /\ head'[e] \in Head /\ avail'[e] = F(e).lines /\ avail'[e] \in Points
               /\ got'[e] \in Claims
               /\ e \notin torn' => ~ F(e).torn
    <3>1. F(e).target \in Totals /\ F(e).lines \in Points
      BY <2>2, <2>3 DEF Fresh
    <3>2. Unscored(F(e).lines) \in Claims
      BY PointsAssumption DEF Unscored, Claims
    <3> QED
      BY <2>1, <2>3, <3>1, <3>2 DEF Head
  <2>4. ASSUME NEW e \in Evals, New(e) = {}
        PROVE  head'[e] = head[e] /\ avail'[e] = avail[e] /\ got'[e] = got[e]
    BY <2>1, <2>4
  <2>5. TypeOK'
    <3>1. head' \in [Evals -> Head] /\ avail' \in [Evals -> Points]
      BY <2>1, <2>3, <2>4 DEF IInv, TypeOK
    <3>2. got' \in [Evals -> Claims]
      BY <2>1, <2>3, <2>4 DEF IInv, TypeOK
    <3>3. tx' \in [Sessions -> Tx] /\ torn' \subseteq Evals
      BY <1>1, <2>1, IdleType DEF IInv, TypeOK
    <3> QED
      BY <2>1, <3>1, <3>2, <3>3 DEF IInv, TypeOK
  <2>6. TargetOfLines'
    <3> SUFFICES ASSUME NEW e \in Evals, head'[e].state # "absent", e \notin torn'
                 PROVE  head'[e].target = Sum(avail'[e])
      BY DEF TargetOfLines
    <3>1. CASE New(e) = {}
      BY <2>1, <2>4, <3>1 DEF IInv, TargetOfLines
    <3>2. CASE New(e) # {}
      BY <2>2, <2>3, <3>2
    <3> QED
      BY <3>1, <3>2
  <2>7. \A e \in Evals : Submitted(e)' => /\ New(e) = {} /\ Submitted(e)
    BY <2>3, <2>4 DEF Submitted
  <2>8. AwardedIsSum'
    BY <2>1, <2>4, <2>7 DEF IInv, AwardedIsSum, Assessed
  <2>9. SubjectToldTotal'
    BY <2>1, <2>4, <2>7 DEF IInv, SubjectToldTotal
  <2>10. QueuedIsSubmitted'
    <3>1. \A e \in Evals : Submitted(e) => Submitted(e)'
      BY <2>2, <2>4 DEF Submitted
    <3> QED
      BY <2>1, <3>1 DEF IInv, QueuedIsSubmitted
  <2>11. tx'[s] = Idle /\ \A o \in Sessions \ {s} : tx'[o] = tx[o]
    BY <1>1, <2>1
  <2>12. Apart'
    BY <2>11, IdleType DEF IInv, Apart
  <2>13. ASSUME NEW o \in Sessions PROVE Holds(tx[o])'
    <3>1. CASE o = s
      BY <2>11, <3>1, IdleType DEF Holds, OpeningHolds, SumHolds, NewHolds
    <3>2. CASE o # s
      <4>1. tx'[o] = tx[o] /\ Holds(tx[o])
        BY <2>11, <3>2 DEF IInv
      <4>2. OpeningHolds(tx[o])'
        BY <2>1, <4>1 DEF Holds, OpeningHolds
      <4>3. \A e \in Evals : head[e].state # "absent" =>
               head'[e] = head[e] /\ got'[e] = got[e]
        BY <2>2, <2>4
      <4>4. SumHolds(tx[o])'
        BY <2>1, <4>1, <4>3 DEF Holds, SumHolds, Assessed
      <4>5. \A f \in tx[o].new : New(f.of) = {} /\ f.of \in Evals
        <5>1. \A f \in tx[o].new, g \in tx[s].new : g.of # f.of
          BY <3>2 DEF IInv, Apart
        <5>2. \A f \in tx[o].new : f.of \in Evals
          BY DEF IInv, TypeOK, Tx, Fresh
        <5> QED
          BY <5>1, <5>2 DEF New
      <4>6. NewHolds(tx[o])'
        BY <2>4, <4>1, <4>5 DEF Holds, NewHolds
      <4> QED
        BY <4>2, <4>4, <4>6 DEF Holds
    <3> QED
      BY <3>1, <3>2
  <2> QED
    BY <2>5, <2>6, <2>8, <2>9, <2>10, <2>12, <2>13 DEF IInv
<1> QED
  BY <1>4, <1>5, <1>6, <1>7, <1>8, <1>9 DEF Open

LEMMA ScoreKeeps ==
  ASSUME IInv, NEW s \in Sessions, ScoreCommit(s)
  PROVE  IInv'
<1> DEFINE e == tx[s].of
<1>1. /\ tx[s] \in Tx /\ Holds(tx[s]) /\ tx \in [Sessions -> Tx]
      /\ got \in [Evals -> Claims]
  BY DEF IInv, TypeOK
<1>2. /\ tx[s].at = "scoring"
      /\ got' = [got EXCEPT ![e] = Over(got[e], tx[s].put)]
      /\ crossed' = IF Summed(e) THEN crossed \cup {e} ELSE crossed
      /\ tx' = [tx EXCEPT ![s] = Idle]
      /\ UNCHANGED <<held, item, head, avail, mail, torn>>
  BY DEF ScoreCommit, Goes
<1>3. e \in Evals
  BY <1>1, <1>2 DEF Holds, SumHolds
<1>4. tx'[s] = Idle /\ \A o \in Sessions \ {s} : tx'[o] = tx[o]
  BY <1>1, <1>2
<1> HIDE DEF e
<1>5. \A d \in Evals : d # e => got'[d] = got[d]
  BY <1>1, <1>2
<1>6. \A d \in Evals : d \notin crossed' => d \notin crossed
  BY <1>2
<1>7. \A d \in Evals : Submitted(d) /\ d \notin crossed' => d # e
  BY <1>2, <1>3 DEF Submitted, Summed, IInv, TypeOK, Head
<1>8. TypeOK'
  <2>1. Over(got[e], tx[s].put) \in Claims
    <3>1. got[e] \in Claims /\ tx[s].put \in Scores
      BY <1>1, <1>3 DEF Tx
    <3>2. \A l \in DOMAIN tx[s].put : tx[s].put[l] \in (0..MaxPoints) \cup {None}
      BY <3>1, ScoresType
    <3> QED
      BY <3>1, <3>2 DEF Over, Claims
  <2>2. got' \in [Evals -> Claims] /\ tx' \in [Sessions -> Tx]
    BY <1>1, <1>2, <2>1, IdleType
  <2>3. crossed' \subseteq Evals
    BY <1>2, <1>3 DEF IInv, TypeOK
  <2> QED
    BY <1>2, <2>2, <2>3 DEF IInv, TypeOK
<1>9. AwardedIsSum' /\ SubjectToldTotal'
  <2>1. \A d \in Evals : Submitted(d)' <=> Submitted(d)
    BY <1>2 DEF Submitted
  <2> QED
    BY <1>2, <1>5, <1>6, <1>7, <2>1 DEF IInv, AwardedIsSum, SubjectToldTotal, Assessed
<1>10. TargetOfLines' /\ QueuedIsSubmitted'
  BY <1>2 DEF IInv, TargetOfLines, QueuedIsSubmitted, Submitted
<1>11. Apart'
  BY <1>4, IdleType DEF IInv, Apart
<1>12. ASSUME NEW o \in Sessions PROVE Holds(tx[o])'
  <2>1. CASE o = s
    BY <1>4, <2>1, IdleType DEF Holds, OpeningHolds, SumHolds, NewHolds
  <2>2. CASE o # s
    <3>1. tx'[o] = tx[o] /\ Holds(tx[o])
      BY <1>4, <2>2 DEF IInv
    <3>2. OpeningHolds(tx[o])' /\ NewHolds(tx[o])'
      BY <1>2, <3>1 DEF Holds, OpeningHolds, NewHolds
    <3>3. tx[o].at = "summed" /\ tx[o].of = e => e \in crossed'
      BY <1>2 DEF Summed
    <3>4. SumHolds(tx[o])'
      BY <1>2, <1>5, <1>6, <3>1, <3>3 DEF Holds, SumHolds, Assessed
    <3> QED
      BY <3>2, <3>4 DEF Holds
  <2> QED
    BY <2>1, <2>2
<1> QED
  BY <1>8, <1>9, <1>10, <1>11, <1>12 DEF IInv

LEMMA SubmitKeeps ==
  ASSUME IInv, NEW s \in Sessions, SubmitCommit(s)
  PROVE  IInv'
<1> DEFINE e == tx[s].of
           total == tx[s].total
<1>1. /\ tx[s] \in Tx /\ Holds(tx[s]) /\ tx \in [Sessions -> Tx]
      /\ head \in [Evals -> Head] /\ mail \in [Evals -> Mail]
  BY DEF IInv, TypeOK
<1>2. /\ tx[s].at = "summed"
      /\ head' = [head EXCEPT ![e].state = "submitted", ![e].awarded = total]
      /\ mail' = [mail EXCEPT ![e] = Queue(e, total)]
      /\ tx' = [tx EXCEPT ![s] = Idle]
      /\ UNCHANGED <<held, item, avail, got, torn, crossed>>
  BY DEF SubmitCommit, Goes, historyVars
<1>3. /\ e \in Evals /\ head[e].state # "absent" /\ total \in Totals
      /\ e \notin crossed => Assessed(e) /\ total = Sum(got[e])
  BY <1>1, <1>2 DEF Holds, SumHolds
<1>4. tx'[s] = Idle /\ \A o \in Sessions \ {s} : tx'[o] = tx[o]
  BY <1>1, <1>2
<1> HIDE DEF e, total
<1>5. /\ head'[e].state = "submitted" /\ head'[e].awarded = total
      /\ head'[e].target = head[e].target /\ head'[e] \in Head
      /\ \A d \in Evals : d # e => head'[d] = head[d]
  <2>1. head[e] \in Head
    BY <1>1, <1>3
  <2> QED
    BY <1>1, <1>2, <1>3, <2>1 DEF Head
<1>6. mail'[e] = Queue(e, total) /\ \A d \in Evals : d # e => mail'[d] = mail[d]
  BY <1>1, <1>2, <1>3
<1>7. TypeOK'
  <2>1. Queue(e, total) \in Mail
    BY <1>1, <1>3 DEF Queue, Mail
  <2>2. mail' \in [Evals -> Mail] /\ tx' \in [Sessions -> Tx]
    BY <1>1, <1>2, <2>1, IdleType
  <2>3. head' \in [Evals -> Head]
    <3>1. DOMAIN head' = Evals /\ head' = [d \in DOMAIN head' |-> head'[d]]
      BY <1>1, <1>2
    <3>2. \A d \in Evals : head'[d] \in Head
      BY <1>1, <1>5
    <3> QED
      BY <3>1, <3>2
  <2> QED
    BY <1>2, <2>2, <2>3 DEF IInv, TypeOK
<1>8. \A d \in Evals : d # e => (Submitted(d)' <=> Submitted(d))
  BY <1>5 DEF Submitted
<1>9. AwardedIsSum'
  BY <1>2, <1>3, <1>5, <1>8 DEF IInv, AwardedIsSum, Assessed
<1>10. SubjectToldTotal'
  <2>1. e \notin crossed => mail'[e].total = total
    <3>1. CASE mail[e].queued
      <4>1. Submitted(e)
        BY <1>3, <3>1 DEF IInv, QueuedIsSubmitted
      <4>2. e \notin crossed => mail[e].total = head[e].awarded /\ head[e].awarded = Sum(got[e])
        BY <1>3, <4>1 DEF IInv, SubjectToldTotal, AwardedIsSum
      <4> QED
        BY <1>3, <1>6, <3>1, <4>2 DEF Queue
    <3>2. CASE ~ mail[e].queued
      BY <1>6, <3>2 DEF Queue
    <3> QED
      BY <3>1, <3>2
  <2> QED
    BY <1>2, <1>5, <1>6, <1>8, <2>1 DEF IInv, SubjectToldTotal
<1>11. QueuedIsSubmitted'
  <2>1. \A d \in Evals : d = e => Submitted(d)'
    BY <1>5 DEF Submitted
  <2> QED
    BY <1>6, <1>8, <2>1 DEF IInv, QueuedIsSubmitted
<1>12. TargetOfLines'
  BY <1>2, <1>3, <1>5 DEF IInv, TargetOfLines
<1>13. Apart'
  BY <1>4, IdleType DEF IInv, Apart
<1>14. ASSUME NEW o \in Sessions PROVE Holds(tx[o])'
  <2>1. CASE o = s
    BY <1>4, <2>1, IdleType DEF Holds, OpeningHolds, SumHolds, NewHolds
  <2>2. CASE o # s
    <3>1. tx'[o] = tx[o] /\ Holds(tx[o])
      BY <1>4, <2>2 DEF IInv
    <3>2. \A d \in Evals : head'[d].state = "absent" <=> head[d].state = "absent"
      BY <1>3, <1>5
    <3>3. \A f \in tx[o].new : f.of \in Evals
      BY DEF IInv, TypeOK, Tx, Fresh
    <3>4. OpeningHolds(tx[o])' /\ NewHolds(tx[o])'
      BY <1>2, <3>1, <3>2, <3>3 DEF Holds, OpeningHolds, NewHolds
    <3>5. SumHolds(tx[o])'
      <4>1. SumHolds(tx[o])
        BY <3>1 DEF Holds
      <4>2. /\ tx'[o].at = "summed" =>
                  /\ tx'[o].total \in Totals
                  /\ tx'[o].of \notin crossed' => Assessed(tx[o].of)' /\ tx'[o].total = Sum(got'[tx'[o].of])
        BY <1>2, <3>1, <4>1 DEF SumHolds, Assessed
      <4>3. tx'[o].at \in {"scoring", "submitting", "summed"} =>
               tx'[o].of \in Evals /\ head'[tx'[o].of].state # "absent"
        BY <3>1, <3>2, <4>1 DEF SumHolds
      <4> QED
        BY <4>2, <4>3 DEF SumHolds
    <3> QED
      BY <3>4, <3>5 DEF Holds
  <2> QED
    BY <2>1, <2>2
<1> QED
  BY <1>7, <1>9, <1>10, <1>11, <1>12, <1>13, <1>14 DEF IInv

LEMMA EvaluateKeeps ==
  ASSUME IInv, NEW s \in Sessions, Evaluate(s)
  PROVE  IInv'
<1>1. tx[s] \in Tx /\ Holds(tx[s]) /\ tx \in [Sessions -> Tx]
  BY DEF IInv, TypeOK
<1>2. ASSUME NEW e \in Evals, NEW put \in Scores, ScoreBegin(s, e, put) PROVE IInv'
  <2> DEFINE t == [Idle EXCEPT !.at = "scoring", !.of = e, !.put = put]
  <2>1. head[e].state = "draft" /\ Reads(s, t)
    BY <1>2 DEF ScoreBegin, Begins, Reads
  <2>2. t \in Tx /\ t.at = "scoring" /\ t.of = e /\ t.new = {}
    BY IdleType DEF Tx
  <2>3. Holds(t)
    BY <2>1, <2>2 DEF Holds, OpeningHolds, SumHolds, NewHolds
  <2> HIDE DEF t
  <2> QED
    BY <2>1, <2>2, <2>3, ReadKeeps
<1>3. ASSUME NEW e \in Evals, SubmitBegin(s, e) PROVE IInv'
  <2> DEFINE t == [Idle EXCEPT !.at = "submitting", !.of = e]
  <2>1. head[e].state = "draft" /\ Reads(s, t)
    BY <1>3 DEF SubmitBegin, Begins, Reads
  <2>2. t \in Tx /\ t.at = "submitting" /\ t.of = e /\ t.new = {}
    BY IdleType DEF Tx
  <2>3. Holds(t)
    BY <2>1, <2>2 DEF Holds, OpeningHolds, SumHolds, NewHolds
  <2> HIDE DEF t
  <2> QED
    BY <2>1, <2>2, <2>3, ReadKeeps
<1>4. CASE SubmitSum(s)
  <2> DEFINE t == [tx[s] EXCEPT !.at = "summed", !.total = Sum(got[tx[s].of])]
  <2>1. tx[s].at = "submitting" /\ Assessed(tx[s].of) /\ Reads(s, t)
    BY <1>4 DEF SubmitSum
  <2>2. tx[s].of \in Evals /\ head[tx[s].of].state # "absent"
    BY <1>1, <2>1 DEF Holds, SumHolds
  <2>3. Sum(got[tx[s].of]) \in Totals
    BY <2>1, <2>2, AssessedIsPoints, SumIsTotal DEF IInv
  <2>4. /\ t \in Tx /\ t.at = "summed" /\ t.of = tx[s].of /\ t.new = tx[s].new
        /\ t.total = Sum(got[tx[s].of])
    BY <1>1, <2>3 DEF Tx
  <2>5. Holds(t)
    BY <1>1, <2>1, <2>2, <2>3, <2>4 DEF Holds, OpeningHolds, SumHolds, NewHolds
  <2> HIDE DEF t
  <2> QED
    BY <2>1, <2>4, <2>5, ReadKeeps DEF IInv, Apart
<1> QED
  BY <1>2, <1>3, <1>4, ScoreKeeps, SubmitKeeps DEF Evaluate

LEMMA RollbackKeeps ==
  ASSUME IInv, NEW s \in Sessions, Rollback(s)
  PROVE  IInv'
<1>1. Reads(s, Idle)
  BY DEF Rollback
<1> QED
  BY <1>1, IdleType, ReadKeeps

\* A change of states alone, of those that are there, that nobody takes back.
LEMMA AcknowledgeKeeps ==
  ASSUME IInv, NEW e \in Evals, Acknowledge(e)
  PROVE  IInv'
<1>1. /\ head[e].state = "submitted"
      /\ head' = [head EXCEPT ![e].state = "acknowledged"]
      /\ UNCHANGED <<held, item, avail, got, mail, tx, torn, crossed>>
  BY DEF Acknowledge, historyVars
<1>2. /\ head'[e].state = "acknowledged" /\ head'[e] \in Head
      /\ head'[e].target = head[e].target /\ head'[e].awarded = head[e].awarded
      /\ \A d \in Evals : d # e => head'[d] = head[d]
  BY <1>1 DEF IInv, TypeOK, Head
<1>3. /\ \A d \in Evals : /\ Submitted(d)' <=> Submitted(d)
                          /\ head'[d].state = "absent" <=> head[d].state = "absent"
                          /\ head'[d].target = head[d].target
                          /\ head'[d].awarded = head[d].awarded
  BY <1>1, <1>2 DEF Submitted
<1>4. TypeOK'
  <2>1. head' \in [Evals -> Head]
    BY <1>1, <1>2 DEF IInv, TypeOK
  <2> QED
    BY <1>1, <2>1 DEF IInv, TypeOK
<1>5. (TargetOfLines /\ AwardedIsSum /\ SubjectToldTotal /\ QueuedIsSubmitted)'
  BY <1>1, <1>3 DEF IInv, TargetOfLines, AwardedIsSum, SubjectToldTotal,
     QueuedIsSubmitted, Assessed
<1>6. ASSUME NEW o \in Sessions PROVE Holds(tx[o])'
  <2>1. Holds(tx[o]) /\ \A f \in tx[o].new : f.of \in Evals
    BY DEF IInv, TypeOK, Tx, Fresh
  <2>2. OpeningHolds(tx[o])' /\ NewHolds(tx[o])'
    BY <1>1, <1>3, <2>1 DEF Holds, OpeningHolds, NewHolds
  <2>3. SumHolds(tx[o])'
    BY <1>1, <1>3, <2>1 DEF Holds, SumHolds, Assessed
  <2> QED
    BY <2>2, <2>3 DEF Holds
<1> QED
  BY <1>1, <1>4, <1>5, <1>6 DEF IInv, Apart

LEMMA DeliverKeeps ==
  ASSUME IInv, NEW e \in Evals, Deliver(e)
  PROVE  IInv'
<1>1. /\ mail' = [mail EXCEPT ![e].queued = FALSE]
      /\ UNCHANGED <<held, item, head, avail, got, tx, torn, crossed>>
  BY DEF Deliver, historyVars
<1>2. /\ mail' \in [Evals -> Mail]
      /\ \A d \in Evals : /\ mail'[d].total = mail[d].total
                          /\ mail'[d].queued => mail[d].queued
  BY <1>1 DEF IInv, TypeOK, Mail
<1>3. TypeOK'
  BY <1>1, <1>2 DEF IInv, TypeOK
<1>4. \A o \in Sessions : Holds(tx[o])'
  BY <1>1 DEF IInv, Holds, OpeningHolds, SumHolds, NewHolds, Assessed
<1> QED
  BY <1>1, <1>2, <1>3, <1>4
  DEF IInv, TargetOfLines, AwardedIsSum, SubjectToldTotal, QueuedIsSubmitted,
      Submitted, Assessed, Apart

LEMMA StutterKeeps == IInv /\ UNCHANGED vars => IInv'
<1> SUFFICES ASSUME IInv, UNCHANGED vars PROVE IInv'
  OBVIOUS
<1>1. UNCHANGED <<held, item, head, avail, got, mail, tx, torn, crossed>>
  BY DEF vars, recordVars, historyVars
<1>2. TypeOK'
  BY <1>1 DEF IInv, TypeOK
<1>3. \A o \in Sessions : Holds(tx[o])'
  BY <1>1 DEF IInv, Holds, OpeningHolds, SumHolds, NewHolds, Assessed
<1> QED
  BY <1>1, <1>2, <1>3
  DEF IInv, TargetOfLines, AwardedIsSum, SubjectToldTotal, QueuedIsSubmitted,
      Submitted, Assessed, Apart

LEMMA NextInv == IInv /\ [Next]_vars => IInv'
  BY MetricsKeeps, OpenKeeps, EvaluateKeeps, RollbackKeeps, AcknowledgeKeeps,
     DeliverKeeps, StutterKeeps DEF Next

LEMMA Invariance == Spec => []IInv
  BY InitInv, NextInv, PTL DEF Spec

-----------------------------------------------------------------------------
\* Every variable keeps its type.
THEOREM TypeCorrect == Spec => []TypeOK
  BY Invariance, PTL DEF IInv

\* The target is the sum of the lines, unless the scorecard changed between
\* the statements that read it.
THEOREM TargetCorrect == Spec => []TargetOfLines
  BY Invariance, PTL DEF IInv

\* The recorded total is the sum of assessed lines, unless they were scored
\* beside the submission.
THEOREM TotalCorrect == Spec => []AwardedIsSum
  BY Invariance, PTL DEF IInv

\* The subject of a submitted evaluation was told the total on record, unless two
\* submissions of it crossed: also when the second message is dropped.
THEOREM ToldCorrect == Spec => []SubjectToldTotal
  BY Invariance, PTL DEF IInv

-----------------------------------------------------------------------------
Stands(e) ==
    /\ head[e].state = "acknowledged" => head'[e] = head[e]
    /\ head[e].state # "absent" => avail'[e] = avail[e] /\ head'[e].target = head[e].target

LEMMA StepStands ==
  ASSUME IInv, [Next]_vars, NEW e \in Evals
  PROVE  Stands(e)
<1>1. head \in [Evals -> Head] /\ avail \in [Evals -> Points]
  BY DEF IInv, TypeOK
<1>2. ASSUME UNCHANGED <<head, avail>> PROVE Stands(e)
  BY <1>2 DEF Stands
<1>3. ASSUME NEW s \in Sessions, OpenCommit(s) PROVE Stands(e)
  <2>1. head[e].state # "absent" => {f \in tx[s].new : f.of = e} = {}
    BY DEF IInv, Holds, NewHolds
  <2>2. /\ head' = [d \in Evals |->
                 IF {f \in tx[s].new : f.of = d} = {} THEN head[d]
                 ELSE [state |-> "draft", awarded |-> None,
                       target |-> (CHOOSE f \in {f \in tx[s].new : f.of = d} : TRUE).target]]
        /\ avail' = [d \in Evals |-> IF {f \in tx[s].new : f.of = d} = {} THEN avail[d]
                       ELSE (CHOOSE f \in {f \in tx[s].new : f.of = d} : TRUE).lines]
    BY <1>3, Zenon DEF OpenCommit
  <2>3. {f \in tx[s].new : f.of = e} = {} => head'[e] = head[e] /\ avail'[e] = avail[e]
    BY <2>2, Zenon
  <2> QED
    BY <2>1, <2>3 DEF Stands
<1>4. ASSUME NEW s \in Sessions, SubmitCommit(s) PROVE Stands(e)
  <2>1. /\ head[tx[s].of].state # "acknowledged" /\ UNCHANGED avail
        /\ head' = [head EXCEPT ![tx[s].of].state = "submitted", ![tx[s].of].awarded = tx[s].total]
    BY <1>4 DEF SubmitCommit, Accepts
  <2>2. head'[e].target = head[e].target /\ (e # tx[s].of => head'[e] = head[e])
    BY <1>1, <2>1 DEF Head
  <2> QED
    BY <2>1, <2>2 DEF Stands
<1>5. ASSUME NEW d \in Evals, Acknowledge(d) PROVE Stands(e)
  <2>1. /\ head[d].state = "submitted" /\ UNCHANGED avail
        /\ head' = [head EXCEPT ![d].state = "acknowledged"]
    BY <1>5 DEF Acknowledge
  <2>2. head'[e].target = head[e].target /\ (e # d => head'[e] = head[e])
    BY <1>1, <2>1 DEF Head
  <2> QED
    BY <2>1, <2>2 DEF Stands
<1>6. ASSUME NEW s \in Sessions, Open(s), ~ OpenCommit(s) PROVE Stands(e)
  BY <1>2, <1>6 DEF Open, OpenBegin, BatchBegin, BatchSkip, BatchPick, Insert, Begins,
     Reads, recordVars
<1>7. ASSUME NEW s \in Sessions, Evaluate(s), ~ SubmitCommit(s) PROVE Stands(e)
  BY <1>2, <1>7 DEF Evaluate, ScoreBegin, SubmitBegin, ScoreCommit, SubmitSum, Begins,
     Reads, recordVars
<1>8. ASSUME NEW s \in Sessions, Rollback(s) PROVE Stands(e)
  BY <1>2, <1>8 DEF Rollback, Reads, recordVars
<1>9. ASSUME Metrics PROVE Stands(e)
  BY <1>2, <1>9 DEF Metrics, AddItem, RemoveItem, SetLine, Assign, recordVars
<1>10. ASSUME NEW d \in Evals, Deliver(d) PROVE Stands(e)
  BY <1>2, <1>10 DEF Deliver
<1>11. ASSUME UNCHANGED vars PROVE Stands(e)
  BY <1>2, <1>11 DEF vars, recordVars
<1> QED
  BY <1>3, <1>4, <1>5, <1>6, <1>7, <1>8, <1>9, <1>10, <1>11 DEF Next

\* Nothing undoes or rewrites an acknowledged evaluation.
THEOREM AcknowledgementCorrect == Spec => AcknowledgedFinal
<1>1. IInv /\ [Next]_vars =>
        \A e \in Evals : head[e].state = "acknowledged" => head'[e] = head[e]
  BY StepStands DEF Stands
<1> QED
  BY <1>1, Invariance, PTL DEF Spec, AcknowledgedFinal

\* What an evaluation is measured against is written once: no other opening of
\* it that runs at the same time, and no edit of the scorecard, replaces it.
THEOREM SnapshotCorrect == Spec => LinesStand
<1>1. IInv /\ [Next]_vars =>
        \A e \in Evals : head[e].state # "absent" =>
          avail'[e] = avail[e] /\ head'[e].target = head[e].target
  BY StepStands DEF Stands
<1> QED
  BY <1>1, Invariance, PTL DEF Spec, LinesStand
=============================================================================
