---------------------------- MODULE Evaluations -----------------------------
(***************************************************************************)
(* Evaluations of one period against scorecards: MetricsService,           *)
(* EvaluationsService and the functions of 0033 and 0034 they call.  Each  *)
(* call is one transaction of several statements, and under READ COMMITTED *)
(* each statement sees what is committed when it starts.  A transaction is *)
(* the record tx[s]; its writes are seen when it commits.                  *)
(***************************************************************************)
EXTENDS Integers, FiniteSets, Functions

CONSTANTS
    Last,       \* the people, 1..Last, in the order of their names
    Writable,   \* those of them the callers may evaluate
    Cards,      \* scorecards
    Lines,      \* slots for the lines of a scorecard
    MaxPoints,  \* bound: what a line may be worth
    None,       \* no scorecard, no number yet
    Sessions    \* requests that run at the same time

ASSUME PeopleAssumption == Last \in Nat /\ Writable \subseteq 1..Last
ASSUME PointsAssumption == MaxPoints \in Nat \ {0} /\ None \notin 0..MaxPoints
ASSUME CardsAssumption  == None \notin Cards

People == 1..Last
Evals  == People \X Cards   \* scorecard_evaluation_unique_period
Points == [Lines -> 0..MaxPoints]                  \* 0: there is no such line
Claims == [Lines -> (0..MaxPoints) \cup {None}]    \* None: not assessed

\* What a request to score carries: the claims of some of the lines, also None,
\* which takes a line back to not assessed.
Scores == UNION {[ls -> (0..MaxPoints) \cup {None}] : ls \in SUBSET Lines}
NoScores == [l \in {} |-> None]

\* app.scorecard_target, and the sum of the claims.
Sum(points) == FoldFunction(+, 0, points)
Totals == {Sum(f) : f \in Points}

Head == [state : {"absent", "draft", "submitted", "acknowledged"},
         target : Totals, awarded : Totals \cup {None}]
Missing == [state |-> "absent", target |-> Sum([l \in Lines |-> 0]), awarded |-> None]

\* An evaluation a transaction has inserted; `torn` remembers that the
\* scorecard changed between the reading of its target and of its lines.
Fresh == [of : Evals, target : Totals, lines : Points, torn : BOOLEAN]

VARIABLES
    held,     \* held[p]: the scorecard p is on at the end of the period
    item,     \* item[c]: the points of the lines of scorecard c
    head,     \* head[e]: the row of scorecard_evaluation
    avail,    \* avail[e]: points_available of its lines
    got,      \* got[e]: points_awarded of its lines
    mail,     \* mail[e]: the last evaluation.result queued, and if it is still queued
    tx,       \* tx[s]: the transaction of session s
    torn,     \* history: opened from a scorecard that changed meanwhile
    crossed   \* history: scored after it was summed

recordVars  == <<head, avail, got, mail>>
historyVars == <<torn, crossed>>
vars == <<held, item, recordVars, tx, historyVars>>

Mail == [queued : BOOLEAN, total : Totals \cup {None}]

\* `next` is the person a batch comes to next, `of` the evaluation at hand,
\* `total` the target or the sum it read, `put` the claims it writes.
Tx == [at : {"idle", "batch", "opening", "scoring", "submitting", "summed"},
       next : 0..(Last + 1), of : Evals \cup {None}, total : Totals \cup {None},
       torn : BOOLEAN, new : SUBSET Fresh, put : Scores]

Idle == [at |-> "idle", next |-> 0, of |-> None, total |-> None, torn |-> FALSE,
         new |-> {}, put |-> NoScores]

TypeOK ==
    /\ held \in [People -> Cards \cup {None}]
    /\ item \in [Cards -> Points]
    /\ head \in [Evals -> Head]
    /\ avail \in [Evals -> Points]
    /\ got \in [Evals -> Claims]
    /\ mail \in [Evals -> Mail]
    /\ tx \in [Sessions -> Tx]
    /\ torn \subseteq Evals /\ crossed \subseteq Evals

Goes(s, t) == tx' = [tx EXCEPT ![s] = t]

Begins(s, t) == /\ tx[s].at = "idle"
                /\ Goes(s, t)
                /\ UNCHANGED <<held, item, recordVars, historyVars>>

Reads(s, t) == Goes(s, t) /\ UNCHANGED <<held, item, recordVars, historyVars>>

-----------------------------------------------------------------------------
(***************************************************************************)
(* MetricsService: the lines of scorecards, and who is on which.           *)
(***************************************************************************)
\* What an edit of c does to the openings that have read its target.
Torn(t, c) == IF t.at = "opening" /\ t.of[2] = c THEN [t EXCEPT !.torn = TRUE] ELSE t

\* Mutant: drafts read their lines live from the scorecard.
SetLineLive(c, l, points) ==
    /\ item' = [item EXCEPT ![c][l] = points]
    /\ avail' = [e \in Evals |-> IF e[2] = c /\ head[e].state = "draft"
                                 THEN item'[c] ELSE avail[e]]
    /\ tx' = [s \in Sessions |-> Torn(tx[s], c)]
    /\ UNCHANGED <<held, head, got, mail, historyVars>>

SetLine(c, l, points) ==
    /\ item' = [item EXCEPT ![c][l] = points]
    /\ tx' = [s \in Sessions |-> Torn(tx[s], c)]
    /\ UNCHANGED <<held, recordVars, historyVars>>

AddItem(c, l, points) == item[c][l] = 0 /\ SetLine(c, l, points)

RemoveItem(c, l) == item[c][l] # 0 /\ SetLine(c, l, 0)

Assign(p, c) ==
    /\ held' = [held EXCEPT ![p] = c]
    /\ UNCHANGED <<item, recordVars, tx, historyVars>>

-----------------------------------------------------------------------------
(***************************************************************************)
(* open() and openForDepartment().  A single opening is the end of a batch *)
(* of which only the last person is left.                                  *)
(***************************************************************************)
Card(p) == item[held[p]]

\* There is a scorecard with lines.  open() raises otherwise.
Openable(p) == /\ held[p] # None
               /\ Sum(Card(p)) > 0
               /\ p \in Writable

Opening(p, next, new) ==
    [Idle EXCEPT !.at = "opening", !.next = next, !.new = new,
                 !.of = <<p, held[p]>>, !.total = Sum(Card(p))]

OpenBegin(s, p) == Openable(p) /\ Begins(s, Opening(p, Last, {}))

BatchBegin(s) == Begins(s, [Idle EXCEPT !.at = "batch", !.next = 1])

AtPerson(s) == tx[s].at = "batch" /\ tx[s].next \in People

Opened(p) == held[p] # None /\ head[<<p, held[p]>>].state # "absent"

\* no_scorecard, already_open, not_permitted, empty_scorecard.
BatchSkip(s) ==
    /\ AtPerson(s)
    /\ ~ Openable(tx[s].next) \/ Opened(tx[s].next)
    /\ Reads(s, [tx[s] EXCEPT !.next = @ + 1])

BatchPick(s) ==
    /\ AtPerson(s)
    /\ Openable(tx[s].next) /\ ~ Opened(tx[s].next)
    /\ Reads(s, Opening(tx[s].next, tx[s].next, tx[s].new))

\* The key is free: nobody has committed it, nor inserted it and not ended.
Free(s, e) == /\ head[e].state = "absent"
              /\ \A r \in Sessions \ {s} : \A f \in tx[r].new : f.of # e

\* INSERT of the head with the target read before, and of the lines as they
\* are now.  A duplicate key is an error (Rollback); while the other insert
\* has not ended, this one waits.
Insert(s) ==
    /\ tx[s].at = "opening"
    /\ Free(s, tx[s].of)
    /\ LET f == [of |-> tx[s].of, target |-> tx[s].total, torn |-> tx[s].torn,
                 lines |-> item[tx[s].of[2]]]
       IN  Reads(s, [Idle EXCEPT !.at = "batch", !.next = tx[s].next + 1,
                                 !.new = tx[s].new \cup {f}])

Unscored(points) == [l \in Lines |-> IF points[l] = 0 THEN 0 ELSE None]

\* The end of a batch, also of one in which there was nothing to open.
OpenCommit(s) ==
    /\ tx[s].at = "batch" /\ tx[s].next = Last + 1
    /\ LET New(e) == {f \in tx[s].new : f.of = e}
           F(e)   == CHOOSE f \in New(e) : TRUE
       IN  /\ head' = [e \in Evals |->
                 IF New(e) = {} THEN head[e]
                 ELSE [state |-> "draft", target |-> F(e).target, awarded |-> None]]
           /\ avail' = [e \in Evals |-> IF New(e) = {} THEN avail[e] ELSE F(e).lines]
           /\ got' = [e \in Evals |-> IF New(e) = {} THEN got[e] ELSE Unscored(F(e).lines)]
           /\ torn' = torn \cup {e \in Evals : New(e) # {} /\ F(e).torn}
    /\ Goes(s, Idle)
    /\ UNCHANGED <<held, item, mail, crossed>>

-----------------------------------------------------------------------------
(***************************************************************************)
(* score(), submit() and acknowledge().                                    *)
(***************************************************************************)
\* scorecard_evaluation_line_within_available.
Within(e, put) == \A l \in DOMAIN put : put[l] # None => put[l] <= avail[e][l]

\* The lines of the request are lines of the evaluation; otherwise score()
\* raises.
OfEvaluation(e, put) == \A l \in DOMAIN put : avail[e][l] > 0

\* assertDraft, and the policy on the lines the UPDATE is subject to: both
\* look at the state when they start.
ScoreBegin(s, e, put) ==
    /\ head[e].state = "draft"
    /\ put # NoScores /\ OfEvaluation(e, put) /\ Within(e, put)
    /\ Begins(s, [Idle EXCEPT !.at = "scoring", !.of = e, !.put = put])

Over(claims, put) == [l \in Lines |-> IF l \in DOMAIN put THEN put[l] ELSE claims[l]]

\* The sum of e has been taken, or is what is recorded.
Summed(e) == \/ head[e].state \notin {"absent", "draft"}
             \/ \E s \in Sessions : tx[s].at = "summed" /\ tx[s].of = e

ScoreCommit(s) ==
    LET e == tx[s].of
    IN  /\ tx[s].at = "scoring"
        /\ got' = [got EXCEPT ![e] = Over(@, tx[s].put)]
        /\ crossed' = IF Summed(e) THEN crossed \cup {e} ELSE crossed
        /\ Goes(s, Idle)
        /\ UNCHANGED <<held, item, head, avail, mail, torn>>

SubmitBegin(s, e) ==
    /\ head[e].state = "draft"
    /\ Begins(s, [Idle EXCEPT !.at = "submitting", !.of = e])

Assessed(e) == \A l \in Lines : got[e][l] # None

\* Mutant: a line that is not assessed counts as nothing.
SubmitSumUnassessed(s) ==
    LET zero == [l \in Lines |-> IF got[tx[s].of][l] = None THEN 0 ELSE got[tx[s].of][l]]
    IN  /\ tx[s].at = "submitting"
        /\ Reads(s, [tx[s] EXCEPT !.at = "summed", !.total = Sum(zero)])

SubmitSum(s) ==
    /\ tx[s].at = "submitting"
    /\ Assessed(tx[s].of)
    /\ Reads(s, [tx[s] EXCEPT !.at = "summed", !.total = Sum(got[tx[s].of])])

\* Mutant: a second submission takes the acknowledgement back.
AcceptsAnyState(e, total) == total <= head[e].target

\* acknowledged_after and within_target, which the row is checked against.
Accepts(e, total) == head[e].state # "acknowledged" /\ total <= head[e].target

\* Mutant: a result that is still queued is taken for one of the target.
QueueTarget(e, total) ==
    IF mail[e].queued THEN mail[e] ELSE [queued |-> TRUE, total |-> head[e].target]

\* enqueue: while a message with the key is queued a second one is dropped.
Queue(e, total) == IF mail[e].queued THEN mail[e] ELSE [queued |-> TRUE, total |-> total]

SubmitCommit(s) ==
    LET e == tx[s].of
        total == tx[s].total
    IN  /\ tx[s].at = "summed"
        /\ Accepts(e, total)
        /\ head' = [head EXCEPT ![e].state = "submitted", ![e].awarded = total]
        /\ mail' = [mail EXCEPT ![e] = Queue(e, total)]
        /\ Goes(s, Idle)
        /\ UNCHANGED <<held, item, avail, got, historyVars>>

Acknowledge(e) ==
    /\ head[e].state = "submitted"
    /\ head' = [head EXCEPT ![e].state = "acknowledged"]
    /\ UNCHANGED <<held, item, avail, got, mail, tx, historyVars>>

\* The worker sends the message, and its key is free again.
Deliver(e) ==
    /\ mail[e].queued
    /\ mail' = [mail EXCEPT ![e].queued = FALSE]
    /\ UNCHANGED <<held, item, head, avail, got, tx, historyVars>>

\* An error, a lost connection, or the end of a preview, which rolls back what
\* the batch has done.
Rollback(s) == tx[s].at # "idle" /\ Reads(s, Idle)

-----------------------------------------------------------------------------
Init ==
    /\ held = [p \in People |-> None]
    /\ item = [c \in Cards |-> [l \in Lines |-> 0]]
    /\ head = [e \in Evals |-> Missing]
    /\ avail = [e \in Evals |-> [l \in Lines |-> 0]]
    /\ got = [e \in Evals |-> [l \in Lines |-> 0]]
    /\ mail = [e \in Evals |-> [queued |-> FALSE, total |-> None]]
    /\ tx = [s \in Sessions |-> Idle]
    /\ torn = {} /\ crossed = {}

Metrics == \E c \in Cards : \/ \E l \in Lines : \/ \E n \in 1..MaxPoints : AddItem(c, l, n)
                                                \/ RemoveItem(c, l)
                            \/ \E p \in People : Assign(p, c)

Open(s) == \/ \E p \in People : OpenBegin(s, p)
           \/ BatchBegin(s) \/ BatchSkip(s) \/ BatchPick(s)
           \/ Insert(s)     \/ OpenCommit(s)

Evaluate(s) == \/ \E e \in Evals : \/ \E put \in Scores : ScoreBegin(s, e, put)
                                   \/ SubmitBegin(s, e)
               \/ ScoreCommit(s) \/ SubmitSum(s) \/ SubmitCommit(s)

Next == \/ Metrics
        \/ \E s \in Sessions : Open(s) \/ Evaluate(s) \/ Rollback(s)
        \/ \E e \in Evals : Acknowledge(e) \/ Deliver(e)

Spec == Init /\ [][Next]_vars

-----------------------------------------------------------------------------
(***************************************************************************)
(* Properties that hold.                                                   *)
(***************************************************************************)
Submitted(e) == head[e].state \in {"submitted", "acknowledged"}

\* The target of an evaluation is what its lines are worth together, if the
\* scorecard did not change between the two statements that read it.
TargetOfLines ==
    \A e \in Evals : head[e].state # "absent" /\ e \notin torn => head[e].target = Sum(avail[e])

\* A recorded total is the sum of lines that are all assessed, for each of any
\* number of submissions, unless a request to score them was under way.
AwardedIsSum ==
    \A e \in Evals : Submitted(e) /\ e \notin crossed =>
        Assessed(e) /\ head[e].awarded = Sum(got[e])

\* The result its subject was told is the one on record, also when the message
\* of a second submission is dropped because that of the first is still queued.
SubjectToldTotal ==
    \A e \in Evals : Submitted(e) /\ e \notin crossed => mail[e].total = head[e].awarded

\* What the subject has acknowledged stays as it was: a submission that was
\* begun before is refused, although the UPDATE has no condition on the state.
AcknowledgedFinal ==
    [][\A e \in Evals : head[e].state = "acknowledged" => head'[e] = head[e]]_vars

\* The lines a person is judged on are those of the day the evaluation was
\* opened: nothing done to a scorecard, and no second opening, moves them.
LinesStand ==
    [][\A e \in Evals : head[e].state # "absent" =>
          avail'[e] = avail[e] /\ head'[e].target = head[e].target]_vars

-----------------------------------------------------------------------------
(***************************************************************************)
(* What comments say, and the code does not do.                            *)
(***************************************************************************)

\* "copies the indicator name, the criterion, the nature and the points
\* available at the moment it is opened" and "Snapshot of scorecard_target()
\* when the evaluation was opened" (0033_scorecard_evaluation.sql): one moment.
SnapshotAtOneMoment ==
    \A e \in Evals : head[e].state # "absent" => head[e].target = Sum(avail[e])

\* "Scores are fixed once submitted" (evaluations.service.ts, assertDraft).
ScoresFixed ==
    [][\A e \in Evals : Submitted(e) => got'[e] = got[e]]_vars
=============================================================================
