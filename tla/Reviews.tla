------------------------------ MODULE Reviews -------------------------------
(***************************************************************************)
(* The review of one employee in one cycle: the self-review and those of   *)
(* the supervisors, and the summary that is calibrated, signed off and     *)
(* acknowledged.                                                           *)
(*                                                                         *)
(* The service is apps/api/src/reviews/reviews.service.ts, the rules are   *)
(* the triggers of db/migrations/0013.  Transactions run at READ           *)
(* COMMITTED: what a statement reads may have changed when a later one     *)
(* writes.  A transaction is cut where that can be told: after its reads,  *)
(* and after an answer is written whose trigger has looked at the state of *)
(* the review.  An UPDATE that depends on its own, locked, row alone is    *)
(* one step with the COMMIT.                                               *)
(***************************************************************************)
EXTENDS Integers

CONSTANTS
    Self,         \* the employee under review
    Supervisors,  \* those who are their supervisor in turn
    Sessions,     \* concurrent requests; a sign-off is signed by its session
    Answers,      \* what a reviewer may answer to the required question
    Null,         \* no answer
    Ratings,      \* overall ratings
    None,         \* no rating, no signer
    MaxAttainment \* bound: how often the attainment of the goals moves

ASSUME ReviewersAssumption  == Self \notin Supervisors
ASSUME ValuesAssumption     == Null \notin Answers /\ None \notin Ratings \cup Sessions
ASSUME AttainmentAssumption == MaxAttainment \in Nat

Reviewers == {Self} \cup Supervisors

\* A review_instance.  `score` stands for the computed score: it is the answer
\* it was computed from.
Instance == [state : {"absent", "not_started", "in_progress", "submitted", "returned"},
             rating : Ratings \cup {None},
             score : Answers \cup {Null}]

\* The review_summary; released_at is set with signed_off_at.
Summary == [overall : Ratings \cup {None}, calibrated : Ratings \cup {None},
            attainment : 0..MaxAttainment, signedBy : Sessions \cup {None},
            acknowledged : BOOLEAN]

\* Where a transaction is, the review it is about, and what it has read or is
\* about to commit.  `saw` is the state the trigger of an answer looked at.
Tx == [at : {"idle", "saving", "submitting", "unsigned", "counted", "signing"},
       review : Reviewers, saw : {"not_started", "in_progress", "submitted", "returned"},
       answer : Answers \cup {Null}, rating : Ratings \cup {None},
       attainment : 0..MaxAttainment]

Idle == [at |-> "idle", review |-> Self, saw |-> "not_started", answer |-> Null,
         rating |-> None, attainment |-> 0]

VARIABLES
    supervisor,  \* the primary reporting line of the employee
    attainment,  \* app.review_goal_attainment: it moves while goals do
    instance,    \* instance[r]: the committed row of the review by r
    response,    \* response[r]: the committed answer of that review
    generated,   \* the summary exists
    summary,     \* the committed row of the summary
    tx           \* tx[s]: the transaction of session s

context == <<supervisor, attainment>>
vars    == <<context, instance, response, generated, summary, tx>>

Signed == summary.signedBy # None

SupervisorType == supervisor \in Supervisors
MovingType     == attainment \in 0..MaxAttainment /\ generated \in BOOLEAN
InstanceType   == instance \in [Reviewers -> Instance]
ResponseType   == response \in [Reviewers -> Answers \cup {Null}]
SummaryType    == summary \in Summary
TxType         == tx \in [Sessions -> Tx]

\* Every variable holds values of its kind.
TypeOK == /\ SupervisorType /\ MovingType /\ InstanceType /\ ResponseType
          /\ SummaryType /\ TxType

-----------------------------------------------------------------------------
(***************************************************************************)
(* generateInstances, and what moves outside of the reviews.               *)
(***************************************************************************)
Missing == [state |-> "absent", rating |-> None, score |-> Null]
Fresh   == [state |-> "not_started", rating |-> None, score |-> Null]

\* It tops up: what is there stays.
Generate ==
    /\ generated' = TRUE
    /\ instance' = [r \in Reviewers |->
                      IF r \in {Self, supervisor} /\ instance[r].state = "absent"
                      THEN Fresh ELSE instance[r]]
    /\ UNCHANGED <<context, response, summary, tx>>

ChangeSupervisor ==
    /\ supervisor' \in Supervisors \ {supervisor}
    /\ UNCHANGED <<attainment, instance, response, generated, summary, tx>>

AttainmentMoves ==
    /\ attainment < MaxAttainment
    /\ attainment' = attainment + 1
    /\ UNCHANGED <<supervisor, instance, response, generated, summary, tx>>

-----------------------------------------------------------------------------
(***************************************************************************)
(* saveDraft.                                                              *)
(***************************************************************************)
Begin(s, t) ==
    /\ tx[s].at = "idle"
    /\ tx' = [tx EXCEPT ![s] = t]
    /\ UNCHANGED <<context, instance, response, generated, summary>>

\* Mutant: the trigger is missing.
EditableAlways(r) == instance[r].state # "absent"

\* form_response_frozen, and the check of saveDraft before it.
Editable(r) == instance[r].state \notin {"absent", "submitted"}

Saving(r, answer, rating) ==
    [at |-> "saving", review |-> r, saw |-> instance[r].state, answer |-> answer,
     rating |-> rating, attainment |-> 0]

\* The answer is written, under the lock of its row, once the trigger has
\* looked at the committed state of the review.
SaveAnswer(s, r) ==
    /\ Editable(r)
    /\ \A o \in Sessions : ~(tx[o].at = "saving" /\ tx[o].review = r)
    /\ \E answer \in Answers \cup {Null}, rating \in Ratings \cup {None} :
          Begin(s, Saving(r, answer, rating))

\* Mutant: every save puts the review in progress.
SaveReopens(s) ==
    LET r == tx[s].review
    IN  /\ tx[s].at = "saving"
        /\ response' = [response EXCEPT ![r] = tx[s].answer]
        /\ instance' = [instance EXCEPT
              ![r].state  = "in_progress",
              ![r].rating = IF tx[s].rating = None THEN @ ELSE tx[s].rating]
        /\ tx' = [tx EXCEPT ![s] = Idle]
        /\ UNCHANGED <<context, generated, summary>>

\* The UPDATE of the review: the rating is written whatever the state is now.
SaveCommit(s) ==
    LET r == tx[s].review
    IN  /\ tx[s].at = "saving"
        /\ response' = [response EXCEPT ![r] = tx[s].answer]
        /\ instance' = [instance EXCEPT
              ![r].state  = IF @ = "not_started" THEN "in_progress" ELSE @,
              ![r].rating = IF tx[s].rating = None THEN @ ELSE tx[s].rating]
        /\ tx' = [tx EXCEPT ![s] = Idle]
        /\ UNCHANGED <<context, generated, summary>>

-----------------------------------------------------------------------------
(***************************************************************************)
(* submit and returnForRevision.                                           *)
(***************************************************************************)
Submitting(r) ==
    [at |-> "submitting", review |-> r, saw |-> "not_started", answer |-> response[r],
     rating |-> None, attainment |-> 0]

\* Mutant: required questions are not checked.
SubmitUnchecked(s, r) ==
    /\ instance[r].state # "absent"
    /\ Begin(s, Submitting(r))

\* The answers are read and the required ones are there.
SubmitRead(s, r) ==
    /\ instance[r].state # "absent"
    /\ response[r] # Null
    /\ Begin(s, Submitting(r))

\* review_instance_transition.
Successors(state) ==
    CASE state = "not_started" -> {"in_progress", "submitted"}
      [] state = "in_progress" -> {"submitted"}
      [] state = "submitted"   -> {"returned"}
      [] state = "returned"    -> {"in_progress", "submitted"}
      [] OTHER                 -> {}

MayBecome(old, new) == new = old \/ new \in Successors(old)

\* The score is that of the answers that were read.
SubmitCommit(s) ==
    LET r == tx[s].review
    IN  /\ tx[s].at = "submitting"
        /\ MayBecome(instance[r].state, "submitted")
        /\ instance' = [instance EXCEPT ![r].state = "submitted",
                                        ![r].score = tx[s].answer]
        /\ tx' = [tx EXCEPT ![s] = Idle]
        /\ UNCHANGED <<context, response, generated, summary>>

\* By a department head or HR; nothing looks at the summary.
ReturnForRevision(r) ==
    /\ instance[r].state # "absent"
    /\ MayBecome(instance[r].state, "returned")
    /\ instance' = [instance EXCEPT ![r].state = "returned"]
    /\ UNCHANGED <<context, response, generated, summary, tx>>

-----------------------------------------------------------------------------
(***************************************************************************)
(* calibrate, signOff and acknowledge.                                     *)
(***************************************************************************)

\* Mutant: the trigger of 0013 forgets the attainment.
RatingsKeptOnly(old, new) ==
    old.signedBy # None =>
      /\ new.overall = old.overall
      /\ new.calibrated = old.calibrated

\* review_summary_signoff: the ratings of a signed summary do not change.
RatingsKept(old, new) ==
    old.signedBy # None =>
      /\ new.overall = old.overall
      /\ new.calibrated = old.calibrated
      /\ new.attainment = old.attainment

Calibrate ==
    /\ generated
    /\ \E rating \in Ratings :
          /\ summary' = [summary EXCEPT !.calibrated = rating]
          /\ RatingsKept(summary, summary')
    /\ UNCHANGED <<context, instance, response, generated, tx>>

SignRead(s) ==
    /\ generated
    /\ ~Signed
    /\ Begin(s, [Idle EXCEPT !.at = "unsigned"])

Goes(s, t) ==
    /\ tx' = [tx EXCEPT ![s] = t]
    /\ UNCHANGED <<context, instance, response, generated, summary>>

\* No review of the employee that is there is pending.
AllSubmitted == \A r \in Reviewers : instance[r].state \in {"absent", "submitted"}

SignCount(s) ==
    /\ tx[s].at = "unsigned"
    /\ AllSubmitted
    /\ Goes(s, [tx[s] EXCEPT !.at = "counted"])

\* LIMIT 1 without an order: any of the supervisors' reviews, or none.
SupervisorRatings ==
    LET there == {r \in Supervisors : instance[r].state # "absent"}
    IN  IF there = {} THEN {None} ELSE {instance[r].rating : r \in there}

SignInputs(s) ==
    /\ tx[s].at = "counted"
    /\ \E rating \in SupervisorRatings :
          Goes(s, [tx[s] EXCEPT !.at = "signing", !.rating = rating,
                                !.attainment = attainment])

\* COALESCE(overall_rating, ...): a rating that is there stays.
SignedSummary(s) ==
    [summary EXCEPT
       !.overall    = IF @ = None THEN tx[s].rating ELSE @,
       !.attainment = tx[s].attainment,
       !.signedBy   = s]

SignCommit(s) ==
    /\ tx[s].at = "signing"
    /\ RatingsKept(summary, SignedSummary(s))
    /\ summary' = SignedSummary(s)
    /\ tx' = [tx EXCEPT ![s] = Idle]
    /\ UNCHANGED <<context, instance, response, generated>>

\* A released summary, once.
Acknowledge ==
    /\ Signed
    /\ ~summary.acknowledged
    /\ summary' = [summary EXCEPT !.acknowledged = TRUE]
    /\ UNCHANGED <<context, instance, response, generated, tx>>

\* A check fails, a trigger refuses, or the connection is lost.
Abort(s) ==
    /\ tx[s].at # "idle"
    /\ Goes(s, Idle)

-----------------------------------------------------------------------------
Init ==
    /\ supervisor \in Supervisors
    /\ attainment = 0
    /\ instance = [r \in Reviewers |-> Missing]
    /\ response = [r \in Reviewers |-> Null]
    /\ generated = FALSE
    /\ summary = [overall |-> None, calibrated |-> None, attainment |-> 0,
                  signedBy |-> None, acknowledged |-> FALSE]
    /\ tx = [s \in Sessions |-> Idle]

Outside == Generate \/ ChangeSupervisor \/ AttainmentMoves

ReviewStep(s) == \/ \E r \in Reviewers : SaveAnswer(s, r) \/ SubmitRead(s, r)
                 \/ SaveCommit(s) \/ SubmitCommit(s)

SignStep(s) == SignRead(s) \/ SignCount(s) \/ SignInputs(s) \/ SignCommit(s)

Next == \/ Outside
        \/ \E s \in Sessions : ReviewStep(s) \/ SignStep(s) \/ Abort(s)
        \/ \E r \in Reviewers : ReturnForRevision(r)
        \/ Calibrate
        \/ Acknowledge

Spec == Init /\ [][Next]_vars

-----------------------------------------------------------------------------
(***************************************************************************)
(* Properties that hold.                                                   *)
(***************************************************************************)

\* Whoever signs at the same time, and whatever the goals do meanwhile, the
\* ratings and the attainment a review was signed with stay (0013, "a signed
\* review is final").
RatingsFinal ==
    [][Signed => /\ summary'.overall = summary.overall
                 /\ summary'.calibrated = summary.calibrated
                 /\ summary'.attainment = summary.attainment]_vars

\* There is no quiet un-submit: no late save or submission takes a submitted
\* review anywhere but back to its reviewer, with a reason.
NoQuietUnsubmit ==
    [][\A r \in Reviewers :
         instance[r].state = "submitted" => instance'[r].state \in {"submitted", "returned"}]_vars

\* Generation may be run again at any time: no review that was begun starts anew
\* ("re-running after adding staff tops up rather than duplicating").
NeverRestarts ==
    [][\A r \in Reviewers :
         instance[r].state \notin {"absent", "not_started"}
           => instance'[r].state \notin {"absent", "not_started"}]_vars

\* A submitted review was complete when it was submitted: it has a score, and
\* the score is that of an answer.
SubmittedScored ==
    \A r \in Reviewers : instance[r].state = "submitted" => instance[r].score \in Answers

\* What still changes in a submitted review was written before it was
\* submitted, by a draft that commits late.
LateSave(s, r) == tx[s].at = "saving" /\ tx[s].review = r
                  /\ tx[s].saw # "submitted" /\ tx'[s] = Idle

ChangesRatedPart(r) ==
    response'[r] # response[r] \/ instance'[r].rating # instance[r].rating

FrozenButForLateSaves ==
    [][\A r \in Reviewers :
         instance[r].state = "submitted" /\ ChangesRatedPart(r)
           => \E s \in Sessions : LateSave(s, r)]_vars

-----------------------------------------------------------------------------
(***************************************************************************)
(* What the comments say and the code does not keep.                       *)
(***************************************************************************)

\* "Answers are frozen once submitted.  This is the core integrity guarantee of
\* the whole phase" (0013).
AnswersFrozen ==
    [][\A r \in Reviewers :
         instance[r].state = "submitted" => response'[r] = response[r]]_vars

\* "Computed at submission from the answers" (0031, of computed_score): when a
\* review becomes submitted its score is that of its answers.
ScoreOfAnswers ==
    [][\A r \in Reviewers :
         instance[r].state # "submitted" /\ instance'[r].state = "submitted"
           => instance'[r].score = response'[r]]_vars

\* "A signed review is final" (0013): no review of a signed summary is sent
\* back and rewritten, and none is added.
SignedReviewsFinal == Signed => AllSubmitted

\* "signOff refuses while any instance for the subject is unsubmitted" (0038).
SignedWhenComplete ==
    [][~Signed /\ Signed' => AllSubmitted]_vars

\* "This review is already signed off" (signOff): a summary is signed once.
SignedOnce == [][Signed => summary'.signedBy = summary.signedBy]_vars

\* "The supervisor's rating becomes the record" (signOff): of the employee's
\* supervisor, not of a former one who also wrote a review in this cycle.
SupervisorRated ==
    [][~Signed /\ Signed' /\ instance[supervisor].state = "submitted"
         => summary'.overall = instance[supervisor].rating]_vars
=============================================================================
