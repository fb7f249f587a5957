-------------------------------- MODULE Pips --------------------------------
(***************************************************************************)
(* Performance improvement plans: PipService and the rules of 0011.  Every *)
(* call is a transaction: the UPDATE of a plan locks its row until the     *)
(* transaction ends, and one that waited is judged again on the row it     *)
(* finds.  The INSERT of a review locks nothing.  Drafts and active plans  *)
(* stand in the database when the model starts, put there by seed-activity *)
(* or by SQL.                                                              *)
(***************************************************************************)
EXTENDS Naturals

CONSTANTS
    Plans,
    Slots,          \* slots for the milestones of a plan
    Outcomes,       \* of a completed plan
    SubjectWrites,  \* the plans whose subject holds a write grant that covers it
    None,           \* no outcome, no author, no plan
    MaxReviews,     \* bound: reviews of a plan
    Sessions        \* requests that run at the same time

ASSUME PlansAssumption == None \notin Plans /\ SubjectWrites \subseteq Plans
ASSUME NoneAssumption == None \notin Outcomes /\ None \notin {"subject", "supervisor"}
ASSUME ReviewsAssumption == MaxReviews \in Nat

Callers == {"subject", "supervisor"}

\* pip_plan_update, pip_milestone_update and pip_review_insert: the supervisor
\* of the plan, or who may write the plans of its subject.
MayWrite(who, p) == who = "supervisor" \/ p \in SubjectWrites

States == {"absent", "draft", "active", "completed", "cancelled"}
Marks  == {"none", "open", "met", "unmet"}   \* none: there is no such milestone

\* `noted` is whose outcome_notes the plan carries.
Row == [state : States, outcome : Outcomes \cup {None},
        noted : Callers \cup {None}, acked : BOOLEAN]

Fresh(state) == [state |-> state, outcome |-> None, noted |-> None, acked |-> FALSE]

\* The plan seed-activity inserts.
Seeded == [Fresh("active") EXCEPT !.acked = TRUE]

VARIABLES
    row,      \* row[p]: pip_plan
    marks,    \* marks[p]: its milestones, and how they were assessed
    reviews,  \* reviews[p]: the number of its reviews
    mail,     \* mail[p]: the last pip.created queued with the key of p
    tx,       \* tx[s]: the transaction of session s
    late,     \* history: late[p]: reviews under way when p stopped being active
    gone,     \* history: plans whose creation was answered "PIP not found"
    refused   \* history: plans whose subject was refused when it acknowledged

historyVars == <<late, gone, refused>>
vars == <<row, marks, reviews, mail, tx, historyVars>>

\* What a transaction will leave behind when it commits.
Tx == [at : {"idle", "creating", "updating", "reviewing"}, of : Plans \cup {None},
       new : Row, tells : BOOLEAN, slots : SUBSET Slots]

Txn(at, p, new, tells, slots) ==
    [at |-> at, of |-> p, new |-> new, tells |-> tells, slots |-> slots]

Idle == Txn("idle", None, Fresh("absent"), FALSE, {})

TypeOK ==
    /\ row \in [Plans -> Row]
    /\ marks \in [Plans -> [Slots -> Marks]]
    /\ reviews \in [Plans -> 0..MaxReviews]
    /\ mail \in [Plans -> {"none", "queued", "sent"}]
    /\ tx \in [Sessions -> Tx]
    /\ late \in [Plans -> SUBSET Sessions]
    /\ gone \subseteq Plans /\ refused \subseteq Plans

HasMilestone(p) == \E m \in Slots : marks[p][m] # "none"
Exists(p) == row[p].state # "absent"

\* Another transaction has written this row and has not ended.
Locked(p) == \E s \in Sessions : tx[s].at = "updating" /\ tx[s].of = p

Reviewing(p) == {s \in Sessions : tx[s].at = "reviewing" /\ tx[s].of = p}

Init ==
    /\ row \in [Plans -> {Fresh("absent"), Fresh("draft"), Seeded}]
    /\ marks \in [Plans -> [Slots -> {"none", "open"}]]
    /\ \A p \in Plans : row[p].state = "active" => HasMilestone(p)
    /\ \A p \in Plans : HasMilestone(p) => Exists(p)
    /\ reviews = [p \in Plans |-> 0]
    /\ mail = [p \in Plans |-> "none"]
    /\ tx = [s \in Sessions |-> Idle]
    /\ late = [p \in Plans |-> {}]
    /\ gone = {} /\ refused = {}

(***************************************************************************)
(* app.pip_state_transition: a row whose state does not change is not      *)
(* looked at; and pip_completed_has_outcome.                               *)
(***************************************************************************)
Allowed == [draft     |-> {"active", "cancelled"},
            active    |-> {"completed", "cancelled"},
            completed |-> {},
            cancelled |-> {}]

Passes(p, new) ==
    /\ \/ new.state = row[p].state
       \/ /\ new.state \in Allowed[row[p].state]
          /\ new.state = "active" => HasMilestone(p)
    /\ new.state = "completed" => new.outcome # None

\* Mutant: the row is judged without waiting for who holds it.
UpdatesUnlocked(s, p, new, tells) ==
    /\ tx[s].at = "idle" /\ Exists(p)
    /\ Passes(p, new)
    /\ tx' = [tx EXCEPT ![s] = Txn("updating", p, new, tells, {})]
    /\ UNCHANGED <<row, marks, reviews, mail, historyVars>>

\* An UPDATE of the plan that finds the row free, and holds it from now on.
Updates(s, p, new, tells) ==
    /\ tx[s].at = "idle" /\ Exists(p) /\ ~Locked(p)
    /\ Passes(p, new)
    /\ tx' = [tx EXCEPT ![s] = Txn("updating", p, new, tells, {})]
    /\ UNCHANGED <<row, marks, reviews, mail, historyVars>>

(***************************************************************************)
(* create(): the plan and its milestones are inserted, and then read back  *)
(* by requirePlan(), which opens a transaction of its own on another       *)
(* connection before the first has committed.  When it finds no plan it    *)
(* throws, and the throw rolls the first transaction back.                 *)
(***************************************************************************)
Create(s, p, slots) ==
    /\ tx[s].at = "idle" /\ ~Exists(p) /\ slots # {}
    /\ \A r \in Sessions : tx[r].of # p
    /\ tx' = [tx EXCEPT ![s] = Txn("creating", p, Fresh("draft"), FALSE, slots)]
    /\ UNCHANGED <<row, marks, reviews, mail, historyVars>>

RequirePlan(s) ==
    LET p == tx[s].of IN
    /\ tx[s].at = "creating"
    /\ row' = IF Exists(p) THEN [row EXCEPT ![p] = tx[s].new] ELSE row
    /\ marks' = IF Exists(p)
                THEN [marks EXCEPT ![p] = [m \in Slots |-> IF m \in tx[s].slots
                                                           THEN "open" ELSE "none"]]
                ELSE marks
    /\ gone' = IF Exists(p) THEN gone ELSE gone \cup {p}
    /\ tx' = [tx EXCEPT ![s] = Idle]
    /\ UNCHANGED <<reviews, mail, late, refused>>

\* activate(); `tells` is false for a subject who gets no such mail.
Activate(s, who, p, tells) ==
    /\ MayWrite(who, p)
    /\ Updates(s, p, [row[p] EXCEPT !.state = "active"], tells)

\* acknowledge(): the UPDATE finds the row only if it is the subject's own,
\* not yet acknowledged, and one the subject may write.
Acknowledge(s, p) ==
    /\ MayWrite("subject", p) /\ ~row[p].acked
    /\ Updates(s, p, [row[p] EXCEPT !.acked = TRUE], FALSE)

RefuseAcknowledge(p) ==
    /\ Exists(p) /\ ~Locked(p)
    /\ ~MayWrite("subject", p) \/ row[p].acked
    /\ refused' = refused \cup {p}
    /\ UNCHANGED <<row, marks, reviews, mail, tx, late, gone>>

Close(s, who, p, outcome) ==
    /\ MayWrite(who, p)
    /\ Updates(s, p, [row[p] EXCEPT !.state = "completed", !.outcome = outcome,
                                    !.noted = who], FALSE)

Cancel(s, who, p) ==
    /\ MayWrite(who, p)
    /\ Updates(s, p, [row[p] EXCEPT !.state = "cancelled", !.noted = who], FALSE)

\* The end of activate(), acknowledge(), close() and cancel().  The message is
\* queued in the same transaction, under one key for the plan; while one is
\* queued another is swallowed.
CommitUpdate(s) ==
    LET p == tx[s].of IN
    /\ tx[s].at = "updating"
    /\ row' = [row EXCEPT ![p] = tx[s].new]
    /\ mail' = IF tx[s].tells THEN [mail EXCEPT ![p] = "queued"] ELSE mail
    /\ late' = IF row[p].state = "active" /\ tx[s].new.state # "active"
               THEN [late EXCEPT ![p] = Reviewing(p)] ELSE late
    /\ tx' = [tx EXCEPT ![s] = Idle]
    /\ UNCHANGED <<marks, reviews, gone, refused>>

\* Mutant: there is no trigger.
AddReviewAnytime(s, who, p) ==
    /\ tx[s].at = "idle" /\ MayWrite(who, p) /\ Exists(p)
    /\ tx' = [tx EXCEPT ![s] = Txn("reviewing", p, Fresh("absent"), FALSE, {})]
    /\ UNCHANGED <<row, marks, reviews, mail, historyVars>>

\* addReview(): app.enforce_pip_review_active reads the state without a lock.
AddReview(s, who, p) ==
    /\ tx[s].at = "idle" /\ MayWrite(who, p)
    /\ row[p].state = "active"
    /\ tx' = [tx EXCEPT ![s] = Txn("reviewing", p, Fresh("absent"), FALSE, {})]
    /\ UNCHANGED <<row, marks, reviews, mail, historyVars>>

CommitReview(s) ==
    LET p == tx[s].of IN
    /\ tx[s].at = "reviewing"
    /\ reviews[p] < MaxReviews
    /\ reviews' = [reviews EXCEPT ![p] = @ + 1]
    /\ late' = [late EXCEPT ![p] = @ \ {s}]
    /\ tx' = [tx EXCEPT ![s] = Idle]
    /\ UNCHANGED <<row, marks, mail, gone, refused>>

\* assessMilestone(): one statement, in any state of the plan, again and again.
AssessMilestone(who, p, m, mark) ==
    /\ MayWrite(who, p)
    /\ marks[p][m] # "none"
    /\ marks' = [marks EXCEPT ![p][m] = mark]
    /\ UNCHANGED <<row, reviews, mail, tx, historyVars>>

\* A statement fails, the connection is lost or the process dies.
Abort(s) ==
    /\ tx[s].at # "idle"
    /\ tx' = [tx EXCEPT ![s] = Idle]
    /\ late' = [p \in Plans |-> late[p] \ {s}]
    /\ UNCHANGED <<row, marks, reviews, mail, gone, refused>>

\* The worker delivers the message (Outbox).
Delivered(p) ==
    /\ mail[p] = "queued"
    /\ mail' = [mail EXCEPT ![p] = "sent"]
    /\ UNCHANGED <<row, marks, reviews, tx, historyVars>>

Next ==
    \/ \E s \in Sessions : RequirePlan(s) \/ CommitUpdate(s) \/ CommitReview(s) \/ Abort(s)
    \/ \E s \in Sessions, p \in Plans :
          \/ Acknowledge(s, p)
          \/ \E slots \in SUBSET Slots : Create(s, p, slots)
          \/ \E who \in Callers :
                \/ \E tells \in BOOLEAN : Activate(s, who, p, tells)
                \/ \E outcome \in Outcomes : Close(s, who, p, outcome)
                \/ Cancel(s, who, p)
                \/ AddReview(s, who, p)
    \/ \E p \in Plans :
          \/ RefuseAcknowledge(p) \/ Delivered(p)
          \/ \E who \in Callers, m \in Slots, mark \in {"met", "unmet"} :
                AssessMilestone(who, p, m, mark)

Spec == Init /\ [][Next]_vars

(***************************************************************************)
(* Properties                                                              *)
(***************************************************************************)

\* The part of the rows that the abstract specification sees.
lives == [p \in Plans |-> row[p].state]

\* However activations, closings and cancellations overlap, wait and are
\* lost, a plan moves as app.pip_state_transition says: it is activated from a
\* draft, ends once, and stays as it ended.
Life == INSTANCE Lifecycle WITH state <- lives

ImplementsLifecycle == Life!Spec

\* A plan has an outcome exactly when it is completed: one who cancels while
\* another closes never leaves a cancelled plan with an outcome, nor a
\* completed one without.  (pip_completed_has_outcome states one half.)
OutcomeIffCompleted ==
    \A p \in Plans : (row[p].state = "completed") <=> (row[p].outcome # None)

\* The subject is told by a step after which the plan is active: never of a
\* draft, and never of a plan that another request has ended meanwhile.
ToldWhenActive ==
    [][\A p \in Plans : mail[p] # "queued" /\ mail'[p] = "queued"
                            => row'[p].state = "active"]_vars

\* A review of a plan that is no longer active can only come from a request
\* that was under way when the plan ended; none begins after.
LateReviewsInFlight ==
    \A p \in Plans : row[p].state # "active" => Reviewing(p) \subseteq late[p]

\* What the trigger of pip_review says: reviews can only be recorded against an
\* active plan.
ReviewedWhileActive ==
    [][\A p \in Plans : reviews'[p] # reviews[p] => row[p].state = "active"]_vars

\* What the form for a new plan promises: a permitted, valid request to create
\* one is not answered "PIP not found".
CreatedIsFound == gone = {}

\* What the refusal of acknowledge() says: it refuses only those who are not
\* the subject, and an acknowledgement that is already there.
RefusedOnlyTwice == \A p \in refused : row[p].acked
=============================================================================
