----------------------------- MODULE PlansProofs -----------------------------
(***************************************************************************)
(* The two kinds of plan: proofs about performance improvement plans       *)
(* (Pips), for any plans, milestones and requests, and about development   *)
(* plans (Development), for any plans, actions, people, resources, grants  *)
(* and requests.  Both implement Lifecycle.                                *)
(***************************************************************************)
EXTENDS Pips, Development, TLAPS

-----------------------------------------------------------------------------
(***************************************************************************)
(* Performance improvement plans.                                          *)
(***************************************************************************)


\* What is known of a transaction under way.
Judged(s) ==
    LET p == tx[s].of  new == tx[s].new IN
    /\ p \in Plans /\ Exists(p)
    /\ new.state = row[p].state \/ new.state \in Allowed[row[p].state]
    /\ (new.state = "completed") <=> (new.outcome # None)
    /\ tx[s].tells => new.state = "active"

OneHolder ==
    \A s, r \in Sessions :
        tx[s].at = "updating" /\ tx[r].at = "updating" /\ tx[s].of = tx[r].of => s = r

HeldJudged == \A s \in Sessions : tx[s].at = "updating" => Judged(s)

CreatingAbsent ==
    \A s \in Sessions : tx[s].at = "creating" => tx[s].of \in Plans /\ ~Exists(tx[s].of)

ReviewingPlan ==
    \A s \in Sessions : tx[s].at = "reviewing" => tx[s].of \in Plans

\* Inductive: a transaction that holds a row is alone on it, so what it was
\* judged on is still there when it commits.
IInv ==
    /\ TypeOK
    /\ OneHolder
    /\ HeldJudged
    /\ CreatingAbsent
    /\ ReviewingPlan
    /\ OutcomeIffCompleted
    /\ LateReviewsInFlight

LEMMA TxnFacts ==
  ASSUME NEW at, NEW p, NEW new, NEW tells, NEW slots
  PROVE  LET t == Txn(at, p, new, tells, slots) IN
         /\ t.at = at /\ t.of = p /\ t.new = new /\ t.tells = tells /\ t.slots = slots
         /\ (/\ at \in {"idle", "creating", "updating", "reviewing"} /\ p \in Plans \cup {None}
             /\ new \in Row /\ tells \in BOOLEAN /\ slots \in SUBSET Slots) => t \in Tx
BY DEF Txn, Tx

LEMMA FreshFacts ==
    /\ \A state \in States : /\ Fresh(state) \in Row
                             /\ Fresh(state).state = state
                             /\ Fresh(state).outcome = None
    /\ Seeded \in Row /\ Seeded.state = "active" /\ Seeded.outcome = None
<1>1. ASSUME NEW state \in States
      PROVE  /\ Fresh(state) \in Row
             /\ Fresh(state).state = state
             /\ Fresh(state).outcome = None
  BY DEF Fresh, Row
<1>2. Fresh("active") \in Row /\ Fresh("active").state = "active" /\ Fresh("active").outcome = None
  BY <1>1 DEF States
<1>3. Seeded \in Row /\ Seeded.state = "active" /\ Seeded.outcome = None
  <2> DEFINE r == Fresh("active")
  <2>1. Seeded = [r EXCEPT !.acked = TRUE]
    BY DEF Seeded
  <2> HIDE DEF r
  <2>2. r \in Row /\ r.state = "active" /\ r.outcome = None
    BY <1>2 DEF r
  <2> QED BY <2>1, <2>2 DEF Row
<1> QED BY <1>1, <1>3

LEMMA IdleFacts == Idle \in Tx /\ Idle.at = "idle" /\ Idle.of = None
<1>1. Fresh("absent") \in Row
  BY FreshFacts DEF States
<1> QED BY <1>1 DEF Idle, Txn, Tx

LEMMA InitHolds == Init => IInv
<1>1. Fresh("absent") \in Row /\ Fresh("draft") \in Row /\ Seeded \in Row
  BY FreshFacts DEF States
<1>2. /\ Fresh("absent").outcome = None /\ Fresh("draft").outcome = None /\ Seeded.outcome = None
      /\ Fresh("absent").state = "absent" /\ Fresh("draft").state = "draft"
      /\ Seeded.state = "active"
  BY FreshFacts DEF States
<1> SUFFICES ASSUME Init PROVE IInv
  OBVIOUS
<1>3. TypeOK
  <2>1. row \in [Plans -> Row]
    BY <1>1 DEF Init
  <2>2. marks \in [Plans -> [Slots -> Marks]]
    <3>1. \A p \in Plans : marks[p] \in [Slots -> {"none", "open"}]
      BY DEF Init
    <3>2. \A p \in Plans : marks[p] \in [Slots -> Marks]
      BY <3>1 DEF Marks
    <3>3. marks = [p \in Plans |-> marks[p]]
      BY DEF Init
    <3> QED BY <3>2, <3>3
  <2>3. reviews \in [Plans -> 0..MaxReviews] /\ mail \in [Plans -> {"none", "queued", "sent"}]
    BY ReviewsAssumption DEF Init
  <2>4. tx \in [Sessions -> Tx]
    BY IdleFacts DEF Init
  <2>5. late \in [Plans -> SUBSET Sessions] /\ gone \subseteq Plans /\ refused \subseteq Plans
    BY DEF Init
  <2> QED BY <2>1, <2>2, <2>3, <2>4, <2>5 DEF TypeOK
<1>4. \A s \in Sessions : tx[s].at = "idle"
  BY IdleFacts DEF Init
<1>5. OutcomeIffCompleted
  BY <1>2 DEF Init, OutcomeIffCompleted
<1>6. OneHolder /\ HeldJudged /\ CreatingAbsent /\ ReviewingPlan /\ LateReviewsInFlight
  BY <1>4 DEF OneHolder, HeldJudged, CreatingAbsent, ReviewingPlan, LateReviewsInFlight, Reviewing
<1> QED BY <1>3, <1>5, <1>6 DEF IInv

LEMMA UpdatesKeeps ==
  ASSUME IInv, NEW s \in Sessions, NEW p \in Plans, NEW new \in Row, NEW tells \in BOOLEAN,
         Updates(s, p, new, tells),
         (new.state = "completed") <=> (new.outcome # None),
         tells => new.state = "active"
  PROVE  IInv'
<1> USE DEF IInv
<1>1. /\ tx' = [tx EXCEPT ![s] = Txn("updating", p, new, tells, {})]
      /\ tx[s].at = "idle" /\ Exists(p) /\ ~Locked(p) /\ Passes(p, new)
      /\ UNCHANGED <<row, marks, reviews, mail, historyVars>>
  BY DEF Updates
<1>2. /\ tx'[s] \in Tx /\ tx'[s].at = "updating" /\ tx'[s].of = p
      /\ tx'[s].new = new /\ tx'[s].tells = tells
      /\ \A r \in Sessions \ {s} : tx'[r] = tx[r]
  <2>1. tx'[s] = Txn("updating", p, new, tells, {}) /\ \A r \in Sessions \ {s} : tx'[r] = tx[r]
    BY <1>1 DEF TypeOK
  <2> QED BY <2>1, TxnFacts
<1>3. TypeOK'
  BY <1>1, <1>2 DEF TypeOK, historyVars
<1>4. OneHolder'
  BY <1>1, <1>2 DEF OneHolder, Locked
<1>5. HeldJudged'
  <2>1. row' = row
    BY <1>1
  <2>2. Judged(s)'
    BY <1>1, <1>2, <2>1 DEF Judged, Passes, Exists
  <2>3. ASSUME NEW r \in Sessions \ {s}, tx'[r].at = "updating" PROVE Judged(r)'
    BY <2>3, <1>2, <2>1 DEF HeldJudged, Judged, Exists
  <2> QED BY <2>2, <2>3 DEF HeldJudged
<1>6. CreatingAbsent' /\ ReviewingPlan'
  BY <1>1, <1>2 DEF CreatingAbsent, ReviewingPlan, Exists
<1>7. OutcomeIffCompleted'
  BY <1>1 DEF OutcomeIffCompleted
<1>8. LateReviewsInFlight'
  BY <1>1, <1>2 DEF LateReviewsInFlight, Reviewing, historyVars
<1> QED BY <1>3, <1>4, <1>5, <1>6, <1>7, <1>8

LEMMA RowFacts ==
  ASSUME IInv, NEW p \in Plans
  PROVE  row[p] \in Row /\ ((row[p].state = "completed") <=> (row[p].outcome # None))
BY DEF IInv, TypeOK, OutcomeIffCompleted

LEMMA ActivateKeeps ==
  ASSUME IInv, NEW s \in Sessions, NEW p \in Plans, NEW who \in Callers,
         NEW tells \in BOOLEAN, Activate(s, who, p, tells)
  PROVE  IInv'
<1> DEFINE new == [row[p] EXCEPT !.state = "active"]
<1>1. new \in Row /\ new.state = "active" /\ new.outcome = row[p].outcome
  BY RowFacts DEF Row, States
<1>2. Updates(s, p, new, tells)
  BY DEF Activate
<1>3. row[p].state # "completed"
  BY <1>1, <1>2 DEF Updates, Passes, Allowed
<1> QED BY <1>1, <1>2, <1>3, RowFacts, UpdatesKeeps

LEMMA CloseKeeps ==
  ASSUME IInv, NEW s \in Sessions, NEW p \in Plans, NEW who \in Callers,
         NEW outcome \in Outcomes, Close(s, who, p, outcome)
  PROVE  IInv'
<1> DEFINE new == [row[p] EXCEPT !.state = "completed", !.outcome = outcome, !.noted = who]
<1>1. new \in Row /\ new.state = "completed" /\ new.outcome = outcome
  BY RowFacts DEF Row, States
<1>2. Updates(s, p, new, FALSE)
  BY DEF Close
<1> QED BY <1>1, <1>2, NoneAssumption, UpdatesKeeps

LEMMA CancelKeeps ==
  ASSUME IInv, NEW s \in Sessions, NEW p \in Plans, NEW who \in Callers,
         Cancel(s, who, p)
  PROVE  IInv'
<1> DEFINE new == [row[p] EXCEPT !.state = "cancelled", !.noted = who]
<1>1. new \in Row /\ new.state = "cancelled" /\ new.outcome = row[p].outcome
  BY RowFacts DEF Row, States
<1>2. Updates(s, p, new, FALSE)
  BY DEF Cancel
<1>3. row[p].state # "completed"
  BY <1>1, <1>2 DEF Updates, Passes, Allowed
<1> QED BY <1>1, <1>2, <1>3, RowFacts, UpdatesKeeps

LEMMA CreateKeeps ==
  ASSUME IInv, NEW s \in Sessions, NEW p \in Plans, NEW slots \in SUBSET Slots,
         Create(s, p, slots)
  PROVE  IInv'
<1> USE DEF IInv
<1>1. /\ tx' = [tx EXCEPT ![s] = Txn("creating", p, Fresh("draft"), FALSE, slots)]
      /\ tx[s].at = "idle" /\ ~Exists(p)
      /\ UNCHANGED <<row, marks, reviews, mail, historyVars>>
  BY DEF Create
<1>2. tx'[s] \in Tx /\ tx'[s].at = "creating" /\ tx'[s].of = p
      /\ \A r \in Sessions \ {s} : tx'[r] = tx[r]
  <2>1. tx'[s] = Txn("creating", p, Fresh("draft"), FALSE, slots)
        /\ \A r \in Sessions \ {s} : tx'[r] = tx[r]
    BY <1>1 DEF TypeOK
  <2>2. Fresh("draft") \in Row
    BY FreshFacts DEF States
  <2> QED BY <2>1, <2>2 DEF Txn, Tx
<1>3. TypeOK'
  BY <1>1, <1>2 DEF TypeOK, historyVars
<1>4. OneHolder' /\ CreatingAbsent' /\ ReviewingPlan'
  BY <1>1, <1>2 DEF OneHolder, CreatingAbsent, ReviewingPlan, Exists
<1>5. HeldJudged'
  BY <1>1, <1>2 DEF HeldJudged, Judged, Exists
<1>6. OutcomeIffCompleted' /\ LateReviewsInFlight'
  BY <1>1, <1>2 DEF OutcomeIffCompleted, LateReviewsInFlight, Reviewing, historyVars
<1> QED BY <1>3, <1>4, <1>5, <1>6

\* A transaction that ends without a trace keeps the invariant, whatever the
\* histories and the counters become.
LEMMA EndKeeps ==
  ASSUME IInv, NEW s \in Sessions, tx' = [tx EXCEPT ![s] = Idle],
         row' = row, TypeOK', LateReviewsInFlight'
  PROVE  IInv'
<1> USE DEF IInv
<1>1. tx'[s].at = "idle" /\ \A r \in Sessions \ {s} : tx'[r] = tx[r]
  BY IdleFacts DEF TypeOK
<1>2. OneHolder' /\ CreatingAbsent' /\ ReviewingPlan'
  BY <1>1 DEF OneHolder, CreatingAbsent, ReviewingPlan, Exists
<1>3. HeldJudged'
  BY <1>1 DEF HeldJudged, Judged, Exists
<1>4. OutcomeIffCompleted'
  BY DEF OutcomeIffCompleted
<1> QED BY <1>2, <1>3, <1>4

LEMMA RequirePlanKeeps ==
  ASSUME IInv, NEW s \in Sessions, RequirePlan(s)
  PROVE  IInv' /\ row' = row
<1> USE DEF IInv
<1>1. tx[s].of \in Plans /\ ~Exists(tx[s].of)
  BY DEF RequirePlan, CreatingAbsent
<1>2. /\ row' = row /\ marks' = marks /\ gone' = gone \cup {tx[s].of}
      /\ tx' = [tx EXCEPT ![s] = Idle]
      /\ UNCHANGED <<reviews, mail, late, refused>>
  BY <1>1 DEF RequirePlan
<1>3. TypeOK'
  BY <1>1, <1>2, IdleFacts DEF TypeOK
<1>4. \A q \in Plans : Reviewing(q)' \subseteq Reviewing(q)
  BY <1>2, IdleFacts DEF Reviewing, TypeOK
<1>5. LateReviewsInFlight'
  BY <1>2, <1>4 DEF LateReviewsInFlight
<1> QED BY <1>2, <1>3, <1>5, EndKeeps

LEMMA CommitUpdateKeeps ==
  ASSUME IInv, NEW s \in Sessions, CommitUpdate(s)
  PROVE  IInv'
<1> USE DEF IInv
<1> DEFINE p == tx[s].of  new == tx[s].new
<1>1. /\ tx[s].at = "updating" /\ p \in Plans /\ Exists(p) /\ new \in Row
      /\ (new.state = "completed") <=> (new.outcome # None)
      /\ new.state = row[p].state \/ new.state \in Allowed[row[p].state]
  BY DEF CommitUpdate, HeldJudged, Judged, TypeOK, Tx
<1>2. /\ row' = [row EXCEPT ![p] = new]
      /\ mail' = IF tx[s].tells THEN [mail EXCEPT ![p] = "queued"] ELSE mail
      /\ late' = IF row[p].state = "active" /\ new.state # "active"
                  THEN [late EXCEPT ![p] = Reviewing(p)] ELSE late
      /\ tx' = [tx EXCEPT ![s] = Idle]
      /\ UNCHANGED <<marks, reviews, gone, refused>>
  BY DEF CommitUpdate
<1>3. tx'[s].at = "idle" /\ \A r \in Sessions \ {s} : tx'[r] = tx[r]
  BY <1>2, IdleFacts DEF TypeOK
<1>4. row'[p] = new /\ \A q \in Plans \ {p} : row'[q] = row[q]
  BY <1>1, <1>2 DEF TypeOK
<1>5. new.state # "absent"
  <2>1. row[p].state \in States /\ row[p].state # "absent"
    BY <1>1 DEF TypeOK, Row, Exists
  <2> QED BY <2>1, <1>1 DEF Allowed, States
<1> HIDE DEF p, new
<1>6. TypeOK'
  BY <1>1, <1>2, IdleFacts DEF TypeOK, Reviewing
<1>7. OneHolder'
  BY <1>3 DEF OneHolder
<1>8. HeldJudged'
  <2>1. ASSUME NEW r \in Sessions, tx'[r].at = "updating" PROVE Judged(r)'
    <3>1. r # s /\ tx'[r] = tx[r]
      BY <2>1, <1>3
    <3>2. tx[r].of # p
      BY <2>1, <3>1, <1>1 DEF OneHolder, p
    <3>3. Judged(r)
      BY <2>1, <3>1 DEF HeldJudged
    <3> QED BY <3>1, <3>2, <3>3, <1>4 DEF Judged, Exists
  <2> QED BY <2>1 DEF HeldJudged
<1>9. CreatingAbsent'
  <2>1. ASSUME NEW r \in Sessions, tx'[r].at = "creating"
        PROVE  tx'[r].of \in Plans /\ row'[tx'[r].of].state = "absent"
    <3>1. tx'[r] = tx[r] /\ tx[r].of \in Plans /\ row[tx[r].of].state = "absent"
      BY <2>1, <1>3 DEF CreatingAbsent, Exists
    <3>2. tx[r].of # p
      BY <3>1, <1>1 DEF Exists
    <3> QED BY <3>1, <3>2, <1>4
  <2> QED BY <2>1 DEF CreatingAbsent, Exists
<1>10. ReviewingPlan'
  BY <1>3 DEF ReviewingPlan
<1>11. OutcomeIffCompleted'
  BY <1>1, <1>4 DEF OutcomeIffCompleted
<1>12. LateReviewsInFlight'
  <2>1. \A q \in Plans : Reviewing(q)' \subseteq Reviewing(q)
    BY <1>3 DEF Reviewing
  <2>2. ASSUME NEW q \in Plans, row'[q].state # "active" PROVE Reviewing(q)' \subseteq late'[q]
    <3>1. CASE q # p
      <4>1. late'[q] = late[q] /\ row'[q] = row[q]
        BY <3>1, <1>1, <1>2, <1>4 DEF TypeOK
      <4> QED BY <4>1, <2>1, <2>2 DEF LateReviewsInFlight
    <3>2. CASE q = p /\ row[p].state = "active"
      <4>1. late'[p] = Reviewing(p)
        BY <3>2, <2>2, <1>1, <1>2, <1>4 DEF TypeOK
      <4> QED BY <4>1, <3>2, <2>1
    <3>3. CASE q = p /\ row[p].state # "active"
      <4>1. late' = late
        BY <3>3, <1>2
      <4> QED BY <4>1, <3>3, <2>1 DEF LateReviewsInFlight
    <3> QED BY <3>1, <3>2, <3>3
  <2> QED BY <2>2 DEF LateReviewsInFlight
<1> QED BY <1>6, <1>7, <1>8, <1>9, <1>10, <1>11, <1>12

LEMMA AddReviewKeeps ==
  ASSUME IInv, NEW s \in Sessions, NEW p \in Plans, NEW who \in Callers,
         AddReview(s, who, p)
  PROVE  IInv'
<1> USE DEF IInv
<1>1. /\ tx' = [tx EXCEPT ![s] = Txn("reviewing", p, Fresh("absent"), FALSE, {})]
      /\ row[p].state = "active"
      /\ UNCHANGED <<row, marks, reviews, mail, historyVars>>
  BY DEF AddReview
<1>2. tx'[s] \in Tx /\ tx'[s].at = "reviewing" /\ tx'[s].of = p
      /\ \A r \in Sessions \ {s} : tx'[r] = tx[r]
  <2>1. tx'[s] = Txn("reviewing", p, Fresh("absent"), FALSE, {})
        /\ \A r \in Sessions \ {s} : tx'[r] = tx[r]
    BY <1>1 DEF TypeOK
  <2>2. Fresh("absent") \in Row
    BY FreshFacts DEF States
  <2> QED BY <2>1, <2>2 DEF Txn, Tx
<1>3. TypeOK'
  BY <1>1, <1>2 DEF TypeOK, historyVars
<1>4. OneHolder' /\ CreatingAbsent' /\ ReviewingPlan'
  BY <1>1, <1>2 DEF OneHolder, CreatingAbsent, ReviewingPlan, Exists
<1>5. HeldJudged'
  BY <1>1, <1>2 DEF HeldJudged, Judged, Exists
<1>6. OutcomeIffCompleted'
  BY <1>1 DEF OutcomeIffCompleted
<1>7. LateReviewsInFlight'
  BY <1>1, <1>2 DEF LateReviewsInFlight, Reviewing, historyVars
<1> QED BY <1>3, <1>4, <1>5, <1>6, <1>7

LEMMA CommitReviewKeeps ==
  ASSUME IInv, NEW s \in Sessions, CommitReview(s)
  PROVE  IInv'
<1> USE DEF IInv
<1> DEFINE p == tx[s].of
<1>1. p \in Plans
  BY DEF CommitReview, ReviewingPlan
<1>2. /\ reviews[p] < MaxReviews /\ reviews' = [reviews EXCEPT ![p] = @ + 1]
      /\ late' = [late EXCEPT ![p] = @ \ {s}]
      /\ tx' = [tx EXCEPT ![s] = Idle]
      /\ UNCHANGED <<row, marks, mail, gone, refused>>
  BY DEF CommitReview
<1> HIDE DEF p
<1>3. TypeOK'
  <2>1. reviews[p] \in 0..MaxReviews
    BY <1>1 DEF TypeOK
  <2>2. reviews[p] + 1 \in 0..MaxReviews
    BY <1>2, <2>1, ReviewsAssumption
  <2> QED BY <1>1, <1>2, <2>2, IdleFacts DEF TypeOK
<1>4. \A q \in Plans : Reviewing(q)' \subseteq Reviewing(q) \ {s}
  BY <1>2, IdleFacts DEF Reviewing, TypeOK
<1>5. \A q \in Plans : late[q] \ {s} \subseteq late'[q]
  BY <1>1, <1>2 DEF TypeOK
<1>6. LateReviewsInFlight'
  BY <1>2, <1>4, <1>5 DEF LateReviewsInFlight
<1> QED BY <1>2, <1>3, <1>6, EndKeeps

LEMMA AbortKeeps ==
  ASSUME IInv, NEW s \in Sessions, Abort(s)
  PROVE  IInv'
<1> USE DEF IInv
<1>1. TypeOK'
  BY IdleFacts DEF Abort, TypeOK
<1>2. \A q \in Plans : Reviewing(q)' \subseteq Reviewing(q) \ {s}
  BY IdleFacts DEF Abort, Reviewing, TypeOK
<1>3. LateReviewsInFlight'
  BY <1>2 DEF Abort, LateReviewsInFlight
<1> QED BY <1>1, <1>3, EndKeeps DEF Abort

LEMMA RestKeeps ==
  ASSUME IInv, row' = row, tx' = tx, reviews' = reviews, late' = late, TypeOK'
  PROVE  IInv'
<1> USE DEF IInv
<1>1. OneHolder' /\ CreatingAbsent' /\ ReviewingPlan'
  BY DEF OneHolder, CreatingAbsent, ReviewingPlan, Exists
<1>2. HeldJudged'
  BY DEF HeldJudged, Judged, Exists
<1>3. OutcomeIffCompleted' /\ LateReviewsInFlight'
  BY DEF OutcomeIffCompleted, LateReviewsInFlight, Reviewing
<1> QED BY <1>1, <1>2, <1>3

LEMMA NextKeeps == IInv /\ [Next]_vars => IInv'
<1> SUFFICES ASSUME IInv, [Next]_vars PROVE IInv'
  OBVIOUS
<1>1. ASSUME NEW s \in Sessions, RequirePlan(s) \/ CommitUpdate(s) \/ CommitReview(s) \/ Abort(s)
      PROVE  IInv'
  BY <1>1, RequirePlanKeeps, CommitUpdateKeeps, CommitReviewKeeps, AbortKeeps
<1>2. ASSUME NEW s \in Sessions, NEW p \in Plans, NEW slots \in SUBSET Slots, Create(s, p, slots)
      PROVE  IInv'
  BY <1>2, CreateKeeps
<1>3. ASSUME NEW s \in Sessions, NEW p \in Plans, Acknowledge(s, p)
      PROVE  IInv'
  <2>1. row[p] \in Row /\ ((row[p].state = "completed") <=> (row[p].outcome # None))
    BY DEF IInv, TypeOK, OutcomeIffCompleted
  <2>2. [row[p] EXCEPT !.acked = TRUE] \in Row
        /\ [row[p] EXCEPT !.acked = TRUE].state = row[p].state
        /\ [row[p] EXCEPT !.acked = TRUE].outcome = row[p].outcome
    BY <2>1 DEF Row
  <2>3. Updates(s, p, [row[p] EXCEPT !.acked = TRUE], FALSE)
    BY <1>3 DEF Acknowledge
  <2> QED BY <2>1, <2>2, <2>3, UpdatesKeeps
<1>4. ASSUME NEW s \in Sessions, NEW p \in Plans, NEW who \in Callers,
             \/ \E tells \in BOOLEAN : Activate(s, who, p, tells)
             \/ \E outcome \in Outcomes : Close(s, who, p, outcome)
             \/ Cancel(s, who, p)
             \/ AddReview(s, who, p)
      PROVE  IInv'
  BY <1>4, ActivateKeeps, CloseKeeps, CancelKeeps, AddReviewKeeps
<1>5. ASSUME NEW p \in Plans, RefuseAcknowledge(p) \/ Delivered(p)
      PROVE  IInv'
  <2>1. TypeOK'
    BY <1>5 DEF RefuseAcknowledge, Delivered, IInv, TypeOK, historyVars
  <2> QED BY <1>5, <2>1, RestKeeps DEF RefuseAcknowledge, Delivered, historyVars
<1>6. ASSUME NEW p \in Plans, NEW who \in Callers, NEW m \in Slots, NEW mark \in {"met", "unmet"},
             AssessMilestone(who, p, m, mark)
      PROVE  IInv'
  <2>1. marks' = [marks EXCEPT ![p] = [marks[p] EXCEPT ![m] = mark]] /\ mark \in Marks
        /\ UNCHANGED <<row, reviews, mail, tx, historyVars>>
    BY <1>6 DEF AssessMilestone, Marks
  <2>2. TypeOK'
    BY <2>1 DEF IInv, TypeOK, historyVars
  <2> QED BY <2>1, <2>2, RestKeeps DEF historyVars
<1>7. CASE UNCHANGED vars
  <2>1. TypeOK'
    BY <1>7 DEF vars, historyVars, IInv, TypeOK
  <2> QED BY <1>7, <2>1, RestKeeps DEF vars, historyVars
<1> QED BY <1>1, <1>2, <1>3, <1>4, <1>5, <1>6, <1>7 DEF Next

\* The inductive invariant holds in every state.
THEOREM Invariance == Spec => []IInv
BY InitHolds, NextKeeps, PTL DEF Spec

(***************************************************************************)
(* What a reader should know.                                              *)
(***************************************************************************)

\* Every variable of the improvement plans keeps its type.
THEOREM TypeCorrect == Spec => []TypeOK
BY Invariance, PTL DEF IInv

\* A plan has an outcome exactly when it is completed, whoever closes and
\* cancels it at the same time.
THEOREM OutcomeCorrect == Spec => []OutcomeIffCompleted
BY Invariance, PTL DEF IInv

\* A review of a plan that has ended comes from a request that was under way
\* when it ended.
THEOREM LateReviewsCorrect == Spec => []LateReviewsInFlight
BY Invariance, PTL DEF IInv

\* Only the end of an UPDATE moves a row; a delivery moves the mail.
LEMMA WhoMoves ==
  ASSUME IInv, [Next]_vars
  PROVE  \/ \E s \in Sessions : CommitUpdate(s)
         \/ row' = row /\ mail' = mail
         \/ row' = row /\ \E p \in Plans : Delivered(p)
<1> DEFINE Still == row' = row /\ mail' = mail
<1>1. ASSUME NEW s \in Sessions, RequirePlan(s) PROVE Still
  BY <1>1, RequirePlanKeeps DEF RequirePlan
<1>2. ASSUME NEW s \in Sessions, CommitReview(s) \/ Abort(s) PROVE Still
  BY <1>2 DEF CommitReview, Abort
<1>3. ASSUME NEW s, NEW p, NEW new, NEW tells, Updates(s, p, new, tells) PROVE Still
  BY <1>3 DEF Updates
<1>4. ASSUME NEW s \in Sessions, NEW p \in Plans, NEW who \in Callers, NEW tells \in BOOLEAN,
             Activate(s, who, p, tells)
      PROVE  Still
  BY <1>4, <1>3 DEF Activate
<1>5. ASSUME NEW s \in Sessions, NEW p \in Plans, Acknowledge(s, p) PROVE Still
  BY <1>5, <1>3 DEF Acknowledge
<1>6. ASSUME NEW s \in Sessions, NEW p \in Plans, NEW who \in Callers, NEW outcome \in Outcomes,
             Close(s, who, p, outcome) \/ Cancel(s, who, p)
      PROVE  Still
  BY <1>6, <1>3 DEF Close, Cancel
<1>7. ASSUME NEW s \in Sessions, NEW p \in Plans, NEW who \in Callers, Cancel(s, who, p)
      PROVE  Still
  BY <1>7, <1>3 DEF Cancel
<1>8. ASSUME NEW s \in Sessions, NEW p \in Plans, NEW slots, Create(s, p, slots) PROVE Still
  BY <1>8 DEF Create
<1>9. ASSUME NEW s \in Sessions, NEW p \in Plans, NEW who, AddReview(s, who, p) PROVE Still
  BY <1>9 DEF AddReview
<1>10. ASSUME NEW p \in Plans, RefuseAcknowledge(p) PROVE Still
  BY <1>10 DEF RefuseAcknowledge
<1>11. ASSUME NEW p \in Plans, NEW who, NEW m, NEW mark, AssessMilestone(who, p, m, mark)
       PROVE  Still
  BY <1>11 DEF AssessMilestone
<1>12. ASSUME NEW p \in Plans, Delivered(p) PROVE row' = row
  BY <1>12 DEF Delivered
<1>13. ASSUME UNCHANGED vars PROVE Still
  BY <1>13 DEF vars
<1> HIDE DEF Still
<1>14. Still \/ (\E s \in Sessions : CommitUpdate(s)) \/ \E p \in Plans : Delivered(p)
  BY <1>1, <1>2, <1>4, <1>5, <1>6, <1>7, <1>8, <1>9, <1>10, <1>11, <1>13 DEF Next
<1> QED BY <1>12, <1>14 DEF Still

\* The subject is told of a plan by a step that leaves it active.
THEOREM ToldCorrect == Spec => ToldWhenActive
<1>1. ASSUME IInv, [Next]_vars, NEW p \in Plans, mail[p] # "queued", mail'[p] = "queued"
      PROVE  row'[p].state = "active"
  <2>1. \A s \in Sessions : CommitUpdate(s) => row'[p].state = "active"
    <3>1. ASSUME NEW s \in Sessions, CommitUpdate(s) PROVE row'[p].state = "active"
      <4>1. tx[s].of \in Plans /\ (tx[s].tells => tx[s].new.state = "active")
        BY <1>1, <3>1 DEF CommitUpdate, IInv, HeldJudged, Judged
      <4>2. mail' = [mail EXCEPT ![tx[s].of] = "queued"] /\ tx[s].tells
        BY <1>1, <3>1 DEF CommitUpdate
      <4>3. p = tx[s].of
        BY <1>1, <4>1, <4>2 DEF IInv, TypeOK
      <4> QED BY <3>1, <4>1, <4>2, <4>3, <1>1 DEF CommitUpdate, IInv, TypeOK
    <3> QED BY <3>1
  <2>2. \A q \in Plans : ~Delivered(q)
    BY <1>1 DEF Delivered, IInv, TypeOK
  <2> QED BY <1>1, <2>1, <2>2, WhoMoves
<1>2. IInv /\ [Next]_vars
        => [\A p \in Plans : mail[p] # "queued" /\ mail'[p] = "queued"
                                => row'[p].state = "active"]_vars
  BY <1>1
<1> QED BY Invariance, <1>2, PTL DEF Spec, ToldWhenActive

LEMMA StateMoves ==
  ASSUME IInv, [Next]_vars
  PROVE  \/ lives' = lives
         \/ \E p \in Plans : \E new \in States : Life!Moves(p, new)
<1>1. ASSUME NEW s \in Sessions, CommitUpdate(s)
      PROVE  \/ lives' = lives
             \/ \E p \in Plans : \E new \in States : Life!Moves(p, new)
  <2> DEFINE p == tx[s].of  new == tx[s].new.state
  <2>1. /\ p \in Plans /\ row[p].state \in States \ {"absent"} /\ new \in States
        /\ new = row[p].state \/ new \in Allowed[row[p].state]
    BY <1>1 DEF IInv, CommitUpdate, HeldJudged, Judged, TypeOK, Tx, Row, Exists
  <2>2. row'[p].state = new /\ \A q \in Plans \ {p} : row'[q] = row[q]
    BY <1>1, <2>1 DEF CommitUpdate, IInv, TypeOK
  <2> HIDE DEF p, new
  <2>3. CASE new = row[p].state
    BY <2>2, <2>3 DEF lives
  <2>4. CASE new \in Allowed[row[p].state]
    <3>1. new \in Life!Follows[row[p].state]
      BY <2>1, <2>4 DEF Allowed, Life!Follows, States
    <3>2. lives' = [lives EXCEPT ![p] = new] /\ lives[p] = row[p].state
      BY <2>1, <2>2 DEF lives
    <3>3. Life!Moves(p, new)
      BY <2>1, <3>1, <3>2 DEF Life!Moves
    <3> QED BY <2>1, <3>3
  <2> QED BY <2>1, <2>3, <2>4
<1>3. (\E s \in Sessions : CommitUpdate(s)) \/ row' = row
  BY WhoMoves
<1>2. row' = row => lives' = lives
  BY DEF lives
<1> QED BY <1>1, <1>2, <1>3

\* The improvement plans implement the life of a plan.
THEOREM LifecycleCorrect == Spec => ImplementsLifecycle
<1>1. Init => Life!Init
  BY FreshFacts DEF Init, Life!Init, lives, States
<1>2. IInv /\ [Next]_vars => [Life!Next]_lives
  BY StateMoves DEF Life!Next, Life!States, States
<1> QED BY Invariance, <1>1, <1>2, PTL DEF Spec, ImplementsLifecycle, Life!Spec

-----------------------------------------------------------------------------
(***************************************************************************)
(* Development plans.                                                      *)
(***************************************************************************)


USE OwnersAssumption, CoversAssumption, NullAssumption

-----------------------------------------------------------------------------
(* The inductive invariant.                                                *)

\* Who holds a row holds it alone.
Alone ==
    \A r, s \in Requests : r # s =>
        /\ writes[s].plan # Null => writes[r].plan # writes[s].plan
        /\ writes[s].marks # Null => writes[r].marks # writes[s].marks
        /\ writes[s].learns # Null => writes[r].learns # writes[s].learns

\* The action is completed, or somebody has taken it back.
Told(x) == action[x].status = "completed" \/ x \in reopened

\* The same of the next state.
ToldNext(x) == action'[x].status = "completed" \/ x \in reopened'

\* What a transaction is about to write fits what stands.
Fits(t) ==
    /\ t.plan # Null =>
         /\ life[t.plan] # "absent" /\ t.life # "absent"
         /\ t.life = life[t.plan] \/ t.life \in Successors[life[t.plan]]
    /\ t.marks # Null => action[t.marks].status # "absent" /\ t.action.status # "absent"
    /\ t.learns = Null => ~t.blind /\ t.lesson.state = "absent"
    /\ t.learns # Null /\ t.lesson.of # Null => action[t.lesson.of].status # "absent"
    /\ t.learns # Null /\ t.lesson.state = "completed" /\ t.lesson.of # Null =>
         \/ t.blind
         \/ t.learns \in unseen
         \/ t.marks = t.lesson.of /\ t.action.status = "completed"
         \/ Told(t.lesson.of)

\* An action belongs to a plan that has been created.
OfAPlan == \A x \in Actions : action[x].status # "absent" => life[x[1]] # "absent"

\* A lesson is for an action that is there.
ForAnAction ==
    \A a \in Lessons : lesson[a].of # Null => action[lesson[a].of].status # "absent"

DevIInv ==
    /\ DevTypeOK
    /\ Alone
    /\ \A s \in Requests : Fits(writes[s])
    /\ OfAPlan
    /\ ForAnAction
    /\ DriftOnlyByHand

-----------------------------------------------------------------------------
(* Records.                                                                *)

LEMMA NothingFacts ==
  /\ NoAction \in Action /\ NoAction.status = "absent"
  /\ NoLesson \in Lesson /\ NoLesson.state = "absent"
BY DEF NoAction, NoLesson, Action, Lesson

LEMMA NoWritesFacts ==
  /\ NoWrites \in Writes
  /\ NoWrites.plan = Null /\ NoWrites.marks = Null /\ NoWrites.learns = Null
  /\ NoWrites.blind = FALSE /\ NoWrites.lesson.state = "absent"
BY NothingFacts DEF NoWrites, Writing, Writes, Stages

LEMMA MarkedFacts ==
  ASSUME NEW status \in Statuses, NEW day \in Days
  PROVE  /\ Marked(status, day) \in Action
         /\ Marked(status, day).status = status
         /\ status # "absent"
BY DEF Marked, Action, Statuses

-----------------------------------------------------------------------------
(* The invariant is inductive.                                             *)

LEMMA DevInitHolds == DevInit => DevIInv
<1> SUFFICES ASSUME DevInit PROVE DevIInv
  OBVIOUS
<1>1. DevTypeOK
  BY NoWritesFacts, NothingFacts DEF DevInit, DevTypeOK, Stages
<1>2. \A s \in Requests : writes[s] = NoWrites
  BY DEF DevInit
<1>3. Alone
  BY <1>2, NoWritesFacts DEF Alone
<1>4. \A s \in Requests : Fits(writes[s])
  BY <1>2, NoWritesFacts DEF Fits
<1>5. OfAPlan /\ ForAnAction
  BY NothingFacts DEF DevInit, OfAPlan, ForAnAction, NoLesson
<1>6. DriftOnlyByHand
  BY NothingFacts DEF DevInit, DriftOnlyByHand
<1> QED BY <1>1, <1>3, <1>4, <1>5, <1>6 DEF DevIInv

\* A request writes its rows and holds them; nothing is seen of it yet.
LEMMA WriteKeeps ==
  ASSUME DevIInv, NEW s \in Requests, NEW t \in Writes,
         writes' = [writes EXCEPT ![s] = t],
         UNCHANGED <<life, action, lesson, devHistory>>,
         writes[s] = NoWrites,
         t.plan # Null => Free(t.plan),
         t.marks # Null => FreeAction(t.marks),
         t.learns # Null => FreeLesson(t.learns),
         Fits(t)
  PROVE  DevIInv'
<1> USE DEF DevIInv
<1>1. writes'[s] = t /\ \A r \in Requests \ {s} : writes'[r] = writes[r]
  BY DEF DevTypeOK
<1>2. DevTypeOK'
  BY <1>1 DEF DevTypeOK, devHistory
<1>3. Alone'
  BY <1>1 DEF Alone, Free, FreeAction, FreeLesson
<1>4. ASSUME NEW r \in Requests PROVE Fits(writes[r])'
  BY <1>1 DEF Fits, Told, devHistory
<1>5. OfAPlan' /\ ForAnAction' /\ DriftOnlyByHand'
  BY DEF OfAPlan, ForAnAction, DriftOnlyByHand, devHistory
<1> QED BY <1>2, <1>3, <1>4, <1>5

LEMMA SetPlanStateKeeps ==
  ASSUME DevIInv, NEW s \in Requests, NEW who \in People, NEW p \in DevPlans,
         NEW to \in {"active", "completed", "cancelled"}, SetPlanState(s, who, p, to)
  PROVE  DevIInv'
<1> DEFINE t == Writing(p, to, Null, NoAction, Null, NoLesson, FALSE)
<1>1. /\ t \in Writes /\ t.plan = p /\ t.life = to /\ t.marks = Null
      /\ t.learns = Null /\ t.lesson = NoLesson /\ t.blind = FALSE
  BY NothingFacts DEF Stages, Writing, Writes
<1>2. /\ writes' = [writes EXCEPT ![s] = t] /\ writes[s] = NoWrites /\ Free(p)
      /\ UNCHANGED <<life, action, lesson, devHistory>>
      /\ life[p] # "absent" /\ (to = life[p] \/ to \in Successors[life[p]])
  BY DEF SetPlanState
<1> HIDE DEF t
<1>3. Fits(t)
  BY <1>1, <1>2, NothingFacts DEF Fits
<1> QED BY <1>1, <1>2, <1>3, WriteKeeps

LEMMA UpdateActionKeeps ==
  ASSUME DevIInv, NEW s \in Requests, NEW who \in People, NEW x \in Actions,
         NEW status \in Statuses, NEW day \in Days, UpdateAction(s, who, x, status, day)
  PROVE  DevIInv'
<1> DEFINE t == Writing(Null, "absent", x, Marked(status, day), Null, NoLesson, FALSE)
<1>1. /\ t \in Writes /\ t.plan = Null /\ t.marks = x /\ t.action = Marked(status, day)
      /\ t.learns = Null /\ t.lesson = NoLesson /\ t.blind = FALSE
  BY NothingFacts, MarkedFacts DEF Stages, Writing, Writes
<1>2. /\ writes' = [writes EXCEPT ![s] = t] /\ writes[s] = NoWrites /\ FreeAction(x)
      /\ UNCHANGED <<life, action, lesson, devHistory>>
      /\ action[x].status # "absent"
  BY DEF UpdateAction
<1> HIDE DEF t
<1>3. Fits(t)
  BY <1>1, <1>2, NothingFacts, MarkedFacts DEF Fits
<1> QED BY <1>1, <1>2, <1>3, WriteKeeps

LEMMA SetAssignmentStateKeeps ==
  ASSUME DevIInv, NEW s \in Requests, NEW who \in People, NEW a \in Lessons,
         NEW to \in Progress, NEW day \in Days, SetAssignmentState(s, who, a, to, day)
  PROVE  DevIInv'
<1> USE DEF DevIInv
<1> DEFINE x      == lesson[a].of
           closes == Closes(who, a, to)
           after  == [state |-> to, of |-> x, on |-> IF to = "completed" THEN day ELSE Null]
           blind  == Fires(a, to) /\ ~MayChange(who, OwnerOf[x[1]])
           mark   == IF closes THEN Marked("completed", day) ELSE NoAction
           t      == Writing(Null, "absent", IF closes THEN x ELSE Null, mark, a, after, blind)
<1>1. /\ writes' = [writes EXCEPT ![s] = t] /\ writes[s] = NoWrites
      /\ FreeLesson(a) /\ (closes => FreeAction(x))
      /\ UNCHANGED <<life, action, lesson, devHistory>>
  BY DEF SetAssignmentState
<1>2. x \in Actions \cup {Null} /\ (closes => x # Null) /\ (closes => x \in Actions)
  BY DEF DevTypeOK, Lesson, Closes, Fires
<1>3. after \in Lesson /\ after.state = to /\ after.of = x
  BY <1>2 DEF Lesson
<1>4. mark \in Action /\ (closes => mark.status = "completed")
  BY MarkedFacts, NothingFacts DEF Statuses
<1>5. blind \in BOOLEAN
  BY DEF Fires, MayChange
<1>6. /\ t \in Writes /\ t.plan = Null /\ t.marks = (IF closes THEN x ELSE Null)
      /\ t.action = mark /\ t.learns = a /\ t.lesson = after /\ t.blind = blind
  BY <1>2, <1>3, <1>4, <1>5 DEF Stages, Writing, Writes
<1>7. a # Null
  BY DEF Lessons
<1> HIDE DEF t, after, mark
<1>8. x # Null => action[x].status # "absent"
  BY DEF ForAnAction
<1>9. to = "completed" /\ x # Null =>
        blind \/ a \in unseen \/ closes \/ Told(x)
  BY DEF Closes, Fires, Told, DriftOnlyByHand
<1>10. Fits(t)
  BY <1>3, <1>4, <1>6, <1>7, <1>8, <1>9 DEF Fits
<1> QED BY <1>1, <1>6, <1>10, WriteKeeps

LEMMA CreatePlanKeeps ==
  ASSUME DevIInv, NEW who \in People, NEW p \in DevPlans, NEW slots \in SUBSET Places,
         CreatePlan(who, p, slots)
  PROVE  DevIInv'
<1> USE DEF DevIInv
<1> DEFINE made == {x \in Actions : x[1] = p /\ x[2] \in slots}
           open == [status |-> "not_started", on |-> Null]
<1>1. /\ life[p] = "absent" /\ life' = [life EXCEPT ![p] = "draft"]
      /\ action' = [x \in Actions |-> IF x \in made THEN open ELSE action[x]]
      /\ UNCHANGED <<lesson, writes, devHistory>>
  BY DEF CreatePlan
<1>2. open \in Action /\ open.status = "not_started"
  BY DEF Action, Statuses
<1>3. life'[p] = "draft" /\ \A q \in DevPlans \ {p} : life'[q] = life[q]
  BY <1>1 DEF DevTypeOK
<1>4. /\ \A x \in made : action[x].status = "absent" /\ action'[x] = open
      /\ \A x \in Actions \ made : action'[x] = action[x]
  BY <1>1 DEF OfAPlan
<1> HIDE DEF made, open
<1>5. DevTypeOK'
  BY <1>1, <1>2 DEF DevTypeOK, devHistory, Stages
<1>6. Alone'
  BY <1>1 DEF Alone
<1>7. \A x \in Actions : /\ action[x].status # "absent" => action'[x] = action[x]
                         /\ Told(x) => Told(x)'
  BY <1>1, <1>4, <1>2 DEF Told, devHistory
<1>8. ASSUME NEW s \in Requests PROVE Fits(writes[s])'
  <2>1. writes[s] \in Writes /\ Fits(writes[s]) /\ writes' = writes
    BY <1>1 DEF DevTypeOK
  <2>2. writes[s].plan # p
    BY <2>1, <1>1 DEF Fits
  <2>3. writes[s].lesson.of \in Actions \cup {Null}
    BY <2>1 DEF Writes, Lesson
  <2> QED BY <2>1, <2>2, <2>3, <1>1, <1>3, <1>7 DEF Fits, Writes, devHistory
<1>9. OfAPlan'
  BY <1>3, <1>4, <1>2 DEF OfAPlan, Actions, made
<1>10. ForAnAction' /\ DriftOnlyByHand'
  <2>1. \A a \in Lessons : lesson[a].of \in Actions \cup {Null}
    BY DEF DevTypeOK, Lesson
  <2> QED BY <2>1, <1>1, <1>7 DEF ForAnAction, DriftOnlyByHand, Told, devHistory
<1> QED BY <1>5, <1>6, <1>8, <1>9, <1>10

LEMMA AssignKeeps ==
  ASSUME DevIInv, NEW who \in People, NEW a \in Lessons, NEW x \in Actions \cup {Null},
         Assign(who, a, x)
  PROVE  DevIInv'
<1> USE DEF DevIInv
<1> DEFINE new == [state |-> "assigned", of |-> x, on |-> Null]
<1>1. /\ lesson[a].state = "absent" /\ lesson' = [lesson EXCEPT ![a] = new]
      /\ x # Null => action[x].status # "absent"
      /\ UNCHANGED <<life, action, writes, devHistory>>
  BY DEF Assign
<1>2. new \in Lesson /\ new.state = "assigned" /\ new.of = x
  BY DEF Lesson, Progress
<1>3. lesson'[a] = new /\ \A b \in Lessons \ {a} : lesson'[b] = lesson[b]
  BY <1>1 DEF DevTypeOK
<1> HIDE DEF new
<1>4. DevTypeOK'
  BY <1>1, <1>2 DEF DevTypeOK, devHistory
<1>5. Alone' /\ OfAPlan'
  BY <1>1 DEF Alone, OfAPlan
<1>6. ASSUME NEW s \in Requests PROVE Fits(writes[s])'
  BY <1>1 DEF Fits, Told, devHistory
<1>7. ForAnAction' /\ DriftOnlyByHand'
  BY <1>1, <1>2, <1>3 DEF ForAnAction, DriftOnlyByHand, devHistory
<1> QED BY <1>4, <1>5, <1>6, <1>7

\* What a commit does to the rows.
LEMMA CommitFacts ==
  ASSUME DevIInv, NEW s \in Requests, Commit(s)
  PROVE  /\ writes[s] \in Writes /\ Fits(writes[s])
         /\ writes'[s] = NoWrites /\ \A r \in Requests \ {s} : writes'[r] = writes[r]
         /\ \A p \in DevPlans : life'[p] = IF p = writes[s].plan THEN writes[s].life ELSE life[p]
         /\ \A x \in Actions :
               action'[x] = IF x = writes[s].marks THEN writes[s].action ELSE action[x]
         /\ \A a \in Lessons :
               lesson'[a] = IF a = writes[s].learns THEN writes[s].lesson ELSE lesson[a]
<1>1. writes[s] \in Writes /\ Fits(writes[s])
  BY DEF DevIInv, DevTypeOK
<1>2. writes'[s] = NoWrites /\ \A r \in Requests \ {s} : writes'[r] = writes[r]
  BY DEF DevIInv, DevTypeOK, Commit
<1>3. \A p \in DevPlans : life'[p] = IF p = writes[s].plan THEN writes[s].life ELSE life[p]
  BY DEF Commit
<1>4. \A x \in Actions : action'[x] = IF x = writes[s].marks THEN writes[s].action ELSE action[x]
  BY DEF Commit
<1>5. \A a \in Lessons : lesson'[a] = IF a = writes[s].learns THEN writes[s].lesson ELSE lesson[a]
  BY DEF Commit
<1> QED BY <1>1, <1>2, <1>3, <1>4, <1>5

\* What a commit does to the history of the lessons.
LEMMA CommitUnseen ==
  ASSUME DevIInv, NEW s \in Requests, Commit(s)
  PROVE  /\ \A a \in Lessons : a # writes[s].learns => (a \in unseen' <=> a \in unseen)
         /\ writes[s].learns # Null => (writes[s].blind => writes[s].learns \in unseen')
         /\ writes[s].learns # Null /\ writes[s].lesson.state = "completed" /\ writes[s].learns \in unseen
               => writes[s].learns \in unseen'
<1>1. unseen' = IF writes[s].blind THEN unseen \cup {writes[s].learns}
                ELSE IF writes[s].lesson.state # "completed" THEN unseen \ {writes[s].learns}
                ELSE unseen
  BY DEF Commit
<1> QED BY <1>1

\* Nothing an action has been through is forgotten by a commit.
LEMMA CommitTells ==
  ASSUME DevIInv, NEW s \in Requests, Commit(s), NEW x \in Actions
  PROVE  /\ Told(x) => ToldNext(x)
         /\ x = writes[s].marks /\ writes[s].action.status = "completed" => ToldNext(x)
<1>1. action'[x] = IF x = writes[s].marks THEN writes[s].action ELSE action[x]
  BY CommitFacts
<1>2. reopened' = ReopenedBy(writes[s].marks, writes[s].action.status)
  BY DEF Commit
<1>3. x # Null
  BY DEF Actions
<1> QED BY <1>1, <1>2, <1>3 DEF Told, ToldNext, ReopenedBy

LEMMA CommitTypes ==
  ASSUME DevIInv, NEW s \in Requests, Commit(s)
  PROVE  DevTypeOK'
<1>1. /\ writes[s].plan \in DevPlans \cup {Null} /\ writes[s].life \in Stages
      /\ writes[s].marks \in Actions \cup {Null} /\ writes[s].action \in Action
      /\ writes[s].learns \in Lessons \cup {Null} /\ writes[s].lesson \in Lesson
      /\ writes[s].blind \in BOOLEAN
  BY CommitFacts DEF Writes
<1>2. writes[s].blind => writes[s].learns \in Lessons
  BY <1>1, CommitFacts DEF Fits
<1>3. /\ life' = [p \in DevPlans |-> IF p = writes[s].plan THEN writes[s].life ELSE life[p]]
      /\ action' = [x \in Actions |-> IF x = writes[s].marks THEN writes[s].action ELSE action[x]]
      /\ lesson' = [a \in Lessons |-> IF a = writes[s].learns THEN writes[s].lesson ELSE lesson[a]]
      /\ reopened' = ReopenedBy(writes[s].marks, writes[s].action.status)
      /\ unseen' = IF writes[s].blind THEN unseen \cup {writes[s].learns}
                   ELSE IF writes[s].lesson.state # "completed" THEN unseen \ {writes[s].learns}
                   ELSE unseen
      /\ writes' = [writes EXCEPT ![s] = NoWrites]
  BY DEF Commit
<1>4. DevTypeOK
  BY DEF DevIInv
<1>5. life' \in [DevPlans -> Stages]
  BY <1>1, <1>3, <1>4 DEF DevTypeOK
<1>6. action' \in [Actions -> Action]
  BY <1>1, <1>3, <1>4 DEF DevTypeOK
<1>7. lesson' \in [Lessons -> Lesson]
  BY <1>1, <1>3, <1>4 DEF DevTypeOK
<1>8. writes' \in [Requests -> Writes]
  BY NoWritesFacts, <1>3, <1>4 DEF DevTypeOK
<1>9. reopened' \subseteq Actions
  BY <1>1, <1>3, <1>4 DEF DevTypeOK, ReopenedBy
<1>10. unseen' \subseteq Lessons
  BY <1>2, <1>3, <1>4 DEF DevTypeOK
<1> QED BY <1>5, <1>6, <1>7, <1>8, <1>9, <1>10 DEF DevTypeOK

\* Rows that are there stay there.
LEMMA CommitStays ==
  ASSUME DevIInv, NEW s \in Requests, Commit(s)
  PROVE  /\ \A p \in DevPlans : life[p] # "absent" => life'[p] # "absent"
         /\ \A x \in Actions : action[x].status # "absent" => action'[x].status # "absent"
         /\ \A x \in Actions : action'[x].status # "absent" => action[x].status # "absent"
<1>1. \A p \in DevPlans : p = writes[s].plan => writes[s].life # "absent"
  BY CommitFacts DEF Fits
<1>2. \A x \in Actions : x = writes[s].marks => /\ writes[s].action.status # "absent"
                                            /\ action[x].status # "absent"
  <2>1. Null \notin Actions
    BY DEF Actions
  <2> QED BY <2>1, CommitFacts DEF Fits
<1> QED BY <1>1, <1>2, CommitFacts

\* What the other transactions are about to write still fits.
LEMMA CommitFits ==
  ASSUME DevIInv, NEW s \in Requests, Commit(s), NEW r \in Requests
  PROVE  Fits(writes[r])'
<1>1. CASE r = s
  <2>1. writes'[r] = NoWrites
    BY <1>1, CommitFacts
  <2> QED BY <2>1, NoWritesFacts DEF Fits
<1>2. CASE r # s
  <2> DEFINE u == writes[r]
  <2>1. writes'[r] = u
    BY <1>2, CommitFacts
  <2>2. u \in Writes /\ Fits(u)
    BY DEF DevIInv, DevTypeOK
  <2>3. /\ u.plan # Null => u.plan # writes[s].plan
        /\ u.learns # Null => u.learns # writes[s].learns
    BY <1>2 DEF DevIInv, Alone
  <2>4. /\ u.plan \in DevPlans \cup {Null} /\ u.marks \in Actions \cup {Null}
        /\ u.learns \in Lessons \cup {Null} /\ u.lesson.of \in Actions \cup {Null}
    BY <2>2 DEF Writes, Lesson
  <2> HIDE DEF u
  <2>5. u.plan # Null => life'[u.plan] = life[u.plan]
    BY <2>3, <2>4, CommitFacts
  <2>6. u.learns # Null => (u.learns \in unseen' <=> u.learns \in unseen)
    BY <2>3, <2>4, CommitUnseen
  <2>7. u.marks # Null => action'[u.marks].status # "absent" /\ u.action.status # "absent"
    BY <2>2, <2>4, CommitStays DEF Fits
  <2>8. u.learns # Null /\ u.lesson.of # Null => action'[u.lesson.of].status # "absent"
    BY <2>2, <2>4, CommitStays DEF Fits
  <2>9. u.learns # Null /\ u.lesson.state = "completed" /\ u.lesson.of # Null =>
             \/ u.blind
             \/ u.learns \in unseen'
             \/ u.marks = u.lesson.of /\ u.action.status = "completed"
             \/ ToldNext(u.lesson.of)
    <3>1. u.lesson.of # Null /\ Told(u.lesson.of) => ToldNext(u.lesson.of)
      BY <2>4, CommitTells
    <3> QED BY <3>1, <2>2, <2>6 DEF Fits
  <2> QED BY <2>1, <2>2, <2>5, <2>7, <2>8, <2>9 DEF Fits, Told, ToldNext
<1> QED BY <1>1, <1>2

LEMMA CommitKeeps ==
  ASSUME DevIInv, NEW s \in Requests, Commit(s)
  PROVE  DevIInv'
<1>1. Alone'
  BY CommitFacts, NoWritesFacts DEF Alone, DevIInv
<1>2. OfAPlan'
  <2>1. \A x \in Actions : x[1] \in DevPlans
    BY DEF Actions
  <2> QED BY <2>1, CommitStays DEF OfAPlan, DevIInv
<1>3. /\ \A a \in Lessons : lesson[a].of \in Actions \cup {Null}
      /\ writes[s].lesson.of \in Actions \cup {Null}
      /\ Null \notin Lessons /\ Null \notin Actions
  BY CommitFacts DEF DevIInv, DevTypeOK, Writes, Lesson, Lessons, Actions
<1>4. ASSUME NEW a \in Lessons, lesson'[a].of # Null
      PROVE  action'[lesson'[a].of].status # "absent"
  <2>1. CASE a = writes[s].learns
    <3>1. lesson'[a] = writes[s].lesson /\ action[writes[s].lesson.of].status # "absent"
      BY <1>3, <1>4, <2>1, CommitFacts DEF Fits
    <3> QED BY <1>3, <1>4, <3>1, CommitStays
  <2>2. CASE a # writes[s].learns
    <3>1. lesson'[a] = lesson[a] /\ action[lesson[a].of].status # "absent"
      BY <1>4, <2>2, CommitFacts DEF DevIInv, ForAnAction
    <3> QED BY <1>3, <1>4, <3>1, CommitStays
  <2> QED BY <2>1, <2>2
<1>5. ASSUME NEW a \in Lessons, lesson'[a].state = "completed", lesson'[a].of # Null
      PROVE  ToldNext(lesson'[a].of) \/ a \in unseen'
  <2>1. CASE a = writes[s].learns
    <3> DEFINE y == writes[s].lesson.of
    <3>1. lesson'[a] = writes[s].lesson /\ y \in Actions /\ writes[s].learns # Null
      BY <1>3, <1>5, <2>1, CommitFacts
    <3>2. \/ writes[s].blind
          \/ writes[s].learns \in unseen
          \/ writes[s].marks = y /\ writes[s].action.status = "completed"
          \/ Told(y)
      BY <1>3, <1>5, <3>1, CommitFacts DEF Fits
    <3>3. writes[s].lesson.state = "completed"
      BY <1>5, <3>1
    <3> HIDE DEF y
    <3>4. CASE writes[s].blind \/ writes[s].learns \in unseen
      BY <2>1, <3>1, <3>3, <3>4, CommitUnseen
    <3>5. CASE (writes[s].marks = y /\ writes[s].action.status = "completed") \/ Told(y)
      <4>1. ToldNext(y)
        BY <3>1, <3>5, CommitTells
      <4> QED BY <3>1, <4>1 DEF y
    <3> QED BY <3>2, <3>4, <3>5
  <2>2. CASE a # writes[s].learns
    <3> DEFINE y == lesson[a].of
    <3>1. lesson'[a] = lesson[a]
      BY <2>2, CommitFacts
    <3>2. y \in Actions /\ (Told(y) \/ a \in unseen)
      BY <1>3, <1>5, <3>1 DEF DevIInv, DriftOnlyByHand, Told
    <3>3. Told(y) => ToldNext(y)
      <4> HIDE DEF y
      <4> QED BY <3>2, CommitTells
    <3>4. a \in unseen => a \in unseen'
      BY <2>2, CommitUnseen
    <3> QED BY <3>1, <3>2, <3>3, <3>4
  <2> QED BY <2>1, <2>2
<1>6. ForAnAction' /\ DriftOnlyByHand'
  BY <1>4, <1>5 DEF ForAnAction, DriftOnlyByHand, ToldNext
<1> QED BY <1>1, <1>2, <1>6, CommitTypes, CommitFits DEF DevIInv

LEMMA UndoKeeps ==
  ASSUME DevIInv, NEW s \in Requests, Undo(s)
  PROVE  DevIInv'
<1> USE DEF DevIInv
<1>1. writes'[s] = NoWrites /\ (\A r \in Requests \ {s} : writes'[r] = writes[r])
      /\ UNCHANGED <<life, action, lesson, devHistory>>
  BY DEF Undo, DevTypeOK
<1>2. DevTypeOK'
  BY NoWritesFacts DEF Undo, DevTypeOK, devHistory
<1>3. Alone'
  BY <1>1, NoWritesFacts DEF Alone
<1>4. ASSUME NEW r \in Requests PROVE Fits(writes[r])'
  BY <1>1, NoWritesFacts DEF Fits, Told, devHistory
<1>5. OfAPlan' /\ ForAnAction' /\ DriftOnlyByHand'
  BY <1>1 DEF OfAPlan, ForAnAction, DriftOnlyByHand, devHistory
<1> QED BY <1>2, <1>3, <1>4, <1>5

LEMMA DevNextKeeps == DevIInv /\ [DevNext]_devVars => DevIInv'
<1> SUFFICES ASSUME DevIInv, [DevNext]_devVars PROVE DevIInv'
  OBVIOUS
<1>1. ASSUME NEW s \in Requests, Commit(s) \/ Undo(s) PROVE DevIInv'
  BY <1>1, CommitKeeps, UndoKeeps
<1>2. ASSUME NEW who \in People, NEW p \in DevPlans, NEW slots \in SUBSET Places,
             CreatePlan(who, p, slots)
      PROVE  DevIInv'
  BY <1>2, CreatePlanKeeps
<1>3. ASSUME NEW who \in People, NEW a \in Lessons, NEW x \in Actions \cup {Null},
             Assign(who, a, x)
      PROVE  DevIInv'
  BY <1>3, AssignKeeps
<1>4. ASSUME NEW s \in Requests, NEW who \in People, NEW p \in DevPlans,
             NEW to \in {"active", "completed", "cancelled"}, SetPlanState(s, who, p, to)
      PROVE  DevIInv'
  BY <1>4, SetPlanStateKeeps
<1>5. ASSUME NEW s \in Requests, NEW who \in People, NEW x \in Actions,
             NEW status \in Statuses, NEW day \in Days, UpdateAction(s, who, x, status, day)
      PROVE  DevIInv'
  BY <1>5, UpdateActionKeeps
<1>6. ASSUME NEW s \in Requests, NEW who \in People, NEW a \in Lessons,
             NEW to \in Progress, NEW day \in Days, SetAssignmentState(s, who, a, to, day)
      PROVE  DevIInv'
  BY <1>6, SetAssignmentStateKeeps
<1>7. ASSUME UNCHANGED devVars PROVE DevIInv'
  BY <1>7 DEF devVars, devHistory, DevIInv, DevTypeOK, Alone, Fits, Told, OfAPlan, ForAnAction,
              DriftOnlyByHand
<1> QED BY <1>1, <1>2, <1>3, <1>4, <1>5, <1>6, <1>7 DEF DevNext

THEOREM DevInvariance == DevSpec => []DevIInv
BY DevInitHolds, DevNextKeeps, PTL DEF DevSpec

-----------------------------------------------------------------------------
(* The theorems.                                                           *)

\* Every variable of the development plans and of the assigned learning keeps
\* its type.
THEOREM DevTypeCorrect == DevSpec => []DevTypeOK
BY DevInvariance, PTL DEF DevIInv

\* A lesson that is done and an action of it that is not: somebody took the
\* action back, or completed the lesson without the right to write the action,
\* however the requests overlap and are lost.
THEOREM DriftCorrect == DevSpec => []DriftOnlyByHand
BY DevInvariance, PTL DEF DevIInv

\* A step leaves every plan in its state or moves one plan as its trigger says.
LEMMA LifeMoves ==
  ASSUME DevIInv, [DevNext]_devVars
  PROVE  \/ life' = life
         \/ \E p \in DevPlans : \E new \in Stages : Course!Moves(p, new)
<1>1. ASSUME NEW s \in Requests, Commit(s)
      PROVE  \/ life' = life
             \/ \E p \in DevPlans : \E new \in Stages : Course!Moves(p, new)
  <2> DEFINE p == writes[s].plan  new == writes[s].life
  <2>1. life' = [q \in DevPlans |-> IF q = p THEN new ELSE life[q]]
    BY <1>1 DEF Commit
  <2>2. p \in DevPlans \cup {Null} /\ new \in Stages
    BY <1>1, CommitFacts DEF Writes
  <2>3. p # Null => /\ life[p] # "absent"
                    /\ new = life[p] \/ new \in Successors[life[p]]
    BY <1>1, CommitFacts DEF Fits
  <2>4. life \in [DevPlans -> Stages]
    BY DEF DevIInv, DevTypeOK
  <2> HIDE DEF p, new
  <2>5. CASE p \notin DevPlans \/ (p # Null /\ new = life[p])
    BY <2>1, <2>4, <2>5
  <2>6. CASE p \in DevPlans /\ new \in Successors[life[p]] /\ life[p] # "absent"
    <3>1. new \in Course!Follows[life[p]]
      BY <2>4, <2>6 DEF Successors, Course!Follows, Stages
    <3>2. life' = [life EXCEPT ![p] = new]
      BY <2>1, <2>4
    <3> QED BY <2>2, <2>6, <3>1, <3>2 DEF Course!Moves
  <2>7. CASE p \in DevPlans /\ p = Null
    BY <2>7
  <2> QED BY <2>2, <2>3, <2>5, <2>6, <2>7
<1>2. ASSUME NEW who \in People, NEW p \in DevPlans, NEW slots \in SUBSET Places,
             CreatePlan(who, p, slots)
      PROVE  \E q \in DevPlans : \E new \in Stages : Course!Moves(q, new)
  <2>1. life[p] = "absent" /\ life' = [life EXCEPT ![p] = "draft"]
    BY <1>2 DEF CreatePlan
  <2>2. Course!Moves(p, "draft")
    BY <2>1 DEF Course!Moves, Course!Follows
  <2> QED BY <2>2 DEF Stages
<1>3. ASSUME NEW s \in Requests, Undo(s) PROVE life' = life
  BY <1>3 DEF Undo
<1>4. ASSUME NEW who \in People, NEW a \in Lessons, NEW x \in Actions \cup {Null},
             Assign(who, a, x)
      PROVE  life' = life
  BY <1>4 DEF Assign
<1>5. ASSUME NEW s \in Requests, NEW who \in People, NEW p \in DevPlans,
             NEW to \in {"active", "completed", "cancelled"}, SetPlanState(s, who, p, to)
      PROVE  life' = life
  BY <1>5 DEF SetPlanState
<1>6. ASSUME NEW s \in Requests, NEW who \in People, NEW x \in Actions,
             NEW status \in Statuses, NEW day \in Days, UpdateAction(s, who, x, status, day)
      PROVE  life' = life
  BY <1>6 DEF UpdateAction
<1>7. ASSUME NEW s \in Requests, NEW who \in People, NEW a \in Lessons,
             NEW to \in Progress, NEW day \in Days, SetAssignmentState(s, who, a, to, day)
      PROVE  life' = life
  BY <1>7 DEF SetAssignmentState
<1>8. ASSUME UNCHANGED devVars PROVE life' = life
  BY <1>8 DEF devVars
<1> QED BY <1>1, <1>2, <1>3, <1>4, <1>5, <1>6, <1>7, <1>8 DEF DevNext

\* The development plans implement the life of a plan.
THEOREM DevLifecycleCorrect == DevSpec => FollowsLifecycle
<1>1. DevInit => Course!Init
  BY DEF DevInit, Course!Init
<1>2. DevIInv /\ [DevNext]_devVars => [Course!Next]_life
  BY LifeMoves DEF Course!Next, Course!States, Stages
<1> QED BY DevInvariance, <1>1, <1>2, PTL DEF DevSpec, FollowsLifecycle, Course!Spec
=============================================================================
