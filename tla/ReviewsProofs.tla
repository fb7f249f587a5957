--------------------------- MODULE ReviewsProofs ----------------------------
(***************************************************************************)
(* What Reviews.tla keeps for every number of requests and supervisors, and*)
(* ReviewForm.tla for every number of calls and every form.                *)
(***************************************************************************)
EXTENDS Reviews, ReviewForm, FiniteSetTheorems, WellFoundedInduction, TLAPS

\* What a transaction has read holds when it commits: a submission has read an
\* answer, and a draft has seen its review unsubmitted.
ReadsHold ==
    \A s \in Sessions :
       /\ tx[s].at = "submitting" => tx[s].answer \in Answers
       /\ tx[s].at = "saving"     => tx[s].saw # "submitted"

\* A submission under way, and a saving one, has a review to write to.
ReviewsThere ==
    \A s \in Sessions :
       tx[s].at \in {"saving", "submitting"} => instance[tx[s].review].state # "absent"

IInv == TypeOK /\ SubmittedScored /\ ReadsHold /\ ReviewsThere

-----------------------------------------------------------------------------
LEMMA IdleType == Idle \in Tx
  BY AttainmentAssumption DEF Idle, Tx, Reviewers

LEMMA InitInv == Init => IInv
<1> SUFFICES ASSUME Init PROVE IInv
  OBVIOUS
<1>1. TxType
  BY IdleType DEF Init, TxType
<1>2. ResponseType /\ SupervisorType
  BY DEF Init, ResponseType, SupervisorType
<1>3. MovingType
  <2>1. attainment \in 0..MaxAttainment
    BY AttainmentAssumption DEF Init
  <2>2. generated \in BOOLEAN
    BY ZenonT(20) DEF Init
  <2> QED
    BY <2>1, <2>2 DEF MovingType
<1>4. InstanceType /\ \A r \in Reviewers : instance[r].state = "absent"
  BY DEF Init, InstanceType, Instance, Missing
<1>5. SummaryType
  BY AttainmentAssumption DEF Init, SummaryType, Summary
<1>6. \A s \in Sessions : tx[s].at = "idle"
  BY DEF Init, Idle
<1> QED
  BY <1>1, <1>2, <1>3, <1>4, <1>5, <1>6
  DEF IInv, TypeOK, SubmittedScored, ReadsHold, ReviewsThere

\* A transaction that takes a step without a commit changes itself only.
LEMMA TxKeeps ==
  ASSUME IInv, NEW s \in Sessions, NEW t \in Tx,
         tx' = [tx EXCEPT ![s] = t],
         UNCHANGED <<context, instance, response, generated, summary>>,
         t.at = "submitting" => t.answer \in Answers,
         t.at = "saving" => t.saw # "submitted",
         t.at \in {"saving", "submitting"} => instance[t.review].state # "absent"
  PROVE  IInv'
<1>1. TypeOK'
  BY DEF IInv, TypeOK, SupervisorType, MovingType, InstanceType, ResponseType,
     SummaryType, TxType, context
<1>2. SubmittedScored'
  BY DEF IInv, SubmittedScored
<1>3. tx'[s] = t /\ \A o \in Sessions \ {s} : tx'[o] = tx[o]
  BY DEF IInv, TypeOK, TxType
<1>4. ReadsHold' /\ ReviewsThere'
  BY <1>3 DEF IInv, ReadsHold, ReviewsThere
<1> QED
  BY <1>1, <1>2, <1>4 DEF IInv

LEMMA ReviewKeeps ==
  ASSUME IInv, NEW s \in Sessions, ReviewStep(s)
  PROVE  IInv'
<1>1. /\ TypeOK /\ InstanceType /\ ResponseType /\ TxType /\ tx[s] \in Tx
      /\ Idle \in Tx /\ tx[s].review \in Reviewers
  BY IdleType DEF IInv, TypeOK, TxType, Tx
<1>2. ASSUME NEW r \in Reviewers, SaveAnswer(s, r) PROVE IInv'
  <2>1. PICK answer \in Answers \cup {Null}, rating \in Ratings \cup {None} :
          Begin(s, Saving(r, answer, rating))
    BY <1>2 DEF SaveAnswer
  <2>2. instance[r].state \in {"not_started", "in_progress", "returned"}
    BY <1>1, <1>2 DEF SaveAnswer, Editable, InstanceType, Instance
  <2> DEFINE t == Saving(r, answer, rating)
  <2>3. /\ t \in Tx /\ t.at = "saving" /\ t.saw = instance[r].state
        /\ t.review = r
    BY <2>2, AttainmentAssumption DEF Saving, Tx
  <2>4. /\ tx' = [tx EXCEPT ![s] = t]
        /\ UNCHANGED <<context, instance, response, generated, summary>>
    BY <2>1 DEF Begin
  <2> HIDE DEF t
  <2> QED
    BY <2>2, <2>3, <2>4, TxKeeps
<1>3. ASSUME NEW r \in Reviewers, SubmitRead(s, r) PROVE IInv'
  <2>1. response[r] \in Answers /\ instance[r].state # "absent"
    BY <1>1, <1>3 DEF SubmitRead, ResponseType
  <2> DEFINE t == Submitting(r)
  <2>2. /\ t \in Tx /\ t.at = "submitting" /\ t.answer \in Answers
        /\ t.review = r
    BY <2>1, AttainmentAssumption DEF Submitting, Tx
  <2>3. /\ tx' = [tx EXCEPT ![s] = t]
        /\ UNCHANGED <<context, instance, response, generated, summary>>
    BY <1>3 DEF SubmitRead, Begin
  <2> HIDE DEF t
  <2> QED
    BY <2>1, <2>2, <2>3, TxKeeps
<1>4. CASE SaveCommit(s)
  <2> DEFINE r == tx[s].review
  <2>1. /\ tx[s].at = "saving"
        /\ response' = [response EXCEPT ![r] = tx[s].answer]
        /\ instance' = [instance EXCEPT
             ![r].state  = IF @ = "not_started" THEN "in_progress" ELSE @,
             ![r].rating = IF tx[s].rating = None THEN @ ELSE tx[s].rating]
        /\ tx' = [tx EXCEPT ![s] = Idle]
        /\ UNCHANGED <<context, generated, summary>>
    BY <1>4 DEF SaveCommit
  <2>2. /\ instance' \in [Reviewers -> Instance]
        /\ \A o \in Reviewers :
             /\ instance'[o].score = instance[o].score
             /\ instance'[o].state = "submitted" => instance[o].state = "submitted"
             /\ instance'[o].state = "absent" => instance[o].state = "absent"
    <3>1. instance[r] \in Instance /\ tx[s].rating \in Ratings \cup {None}
      BY <1>1 DEF InstanceType, Tx
    <3>2. /\ instance'[r] \in Instance
          /\ instance'[r].score = instance[r].score
          /\ instance'[r].state = IF instance[r].state = "not_started"
                                  THEN "in_progress" ELSE instance[r].state
      BY <1>1, <2>1, <3>1 DEF InstanceType, Instance
    <3>3. \A o \in Reviewers : o # r => instance'[o] = instance[o]
      BY <1>1, <2>1 DEF InstanceType
    <3>4. instance' \in [Reviewers -> Instance]
      <4>1. \A o \in Reviewers : instance'[o] \in Instance
        BY <1>1, <3>2, <3>3 DEF InstanceType
      <4>2. /\ DOMAIN instance' = Reviewers
            /\ instance' = [o \in DOMAIN instance' |-> instance'[o]]
        BY <1>1, <2>1 DEF InstanceType
      <4> QED
        BY <4>1, <4>2
    <3> QED
      BY <3>2, <3>3, <3>4
  <2>3. TypeOK'
    BY <1>1, <2>1, <2>2 DEF TypeOK, SupervisorType, MovingType, InstanceType,
       ResponseType, SummaryType, TxType, Tx, context
  <2>4. SubmittedScored'
    BY <2>2 DEF IInv, SubmittedScored
  <2>5. tx'[s] = Idle /\ \A o \in Sessions \ {s} : tx'[o] = tx[o]
    BY <1>1, <2>1 DEF TxType
  <2>6. ReadsHold'
    BY <2>5 DEF IInv, ReadsHold, Idle
  <2>7. ReviewsThere'
    BY <1>1, <2>2, <2>5 DEF IInv, ReviewsThere, Idle, TxType, Tx
  <2> QED
    BY <2>3, <2>4, <2>6, <2>7 DEF IInv
<1>5. CASE SubmitCommit(s)
  <2> DEFINE r == tx[s].review
  <2>1. /\ tx[s].at = "submitting"
        /\ instance' = [instance EXCEPT ![r].state = "submitted",
                                        ![r].score = tx[s].answer]
        /\ tx' = [tx EXCEPT ![s] = Idle]
        /\ UNCHANGED <<context, response, generated, summary>>
    BY <1>5 DEF SubmitCommit
  <2>2. tx[s].answer \in Answers
    BY <2>1 DEF IInv, ReadsHold
  <2>3. /\ instance' \in [Reviewers -> Instance]
        /\ \A o \in Reviewers \ {r} : instance'[o] = instance[o]
        /\ instance'[r].state = "submitted" /\ instance'[r].score = tx[s].answer
    BY <1>1, <2>1, <2>2 DEF InstanceType, Instance
  <2>4. TypeOK'
    BY <1>1, <2>1, <2>3 DEF TypeOK, SupervisorType, MovingType, InstanceType,
       ResponseType, SummaryType, TxType, context
  <2>5. SubmittedScored'
    BY <2>2, <2>3 DEF IInv, SubmittedScored
  <2>6. tx'[s] = Idle /\ \A o \in Sessions \ {s} : tx'[o] = tx[o]
    BY <1>1, <2>1 DEF TxType
  <2>7. ReadsHold'
    BY <2>6 DEF IInv, ReadsHold, Idle
  <2>8. ReviewsThere'
    BY <1>1, <2>3, <2>6 DEF IInv, ReviewsThere, Idle, TxType, Tx
  <2> QED
    BY <2>4, <2>5, <2>7, <2>8 DEF IInv
<1> QED
  BY <1>2, <1>3, <1>4, <1>5 DEF ReviewStep

LEMMA SignKeeps ==
  ASSUME IInv, NEW s \in Sessions, SignStep(s) \/ Abort(s)
  PROVE  IInv'
<1>1. /\ TypeOK /\ MovingType /\ InstanceType /\ SummaryType /\ TxType
      /\ tx[s] \in Tx /\ Idle \in Tx
  BY IdleType DEF IInv, TypeOK, TxType
<1>2. CASE SignRead(s)
  <2> DEFINE t == [Idle EXCEPT !.at = "unsigned"]
  <2>1. t \in Tx /\ t.at = "unsigned"
    BY <1>1 DEF Tx, Idle
  <2>2. /\ tx' = [tx EXCEPT ![s] = t]
        /\ UNCHANGED <<context, instance, response, generated, summary>>
    BY <1>2 DEF SignRead, Begin
  <2> HIDE DEF t
  <2> QED
    BY <2>1, <2>2, TxKeeps
<1>3. CASE SignCount(s)
  <2> DEFINE t == [tx[s] EXCEPT !.at = "counted"]
  <2>1. t \in Tx /\ t.at = "counted"
    BY <1>1 DEF Tx
  <2>2. /\ tx' = [tx EXCEPT ![s] = t]
        /\ UNCHANGED <<context, instance, response, generated, summary>>
    BY <1>3 DEF SignCount, Goes
  <2> HIDE DEF t
  <2> QED
    BY <2>1, <2>2, TxKeeps
<1>4. CASE SignInputs(s)
  <2>1. PICK rating \in SupervisorRatings :
          Goes(s, [tx[s] EXCEPT !.at = "signing", !.rating = rating,
                                !.attainment = attainment])
    BY <1>4 DEF SignInputs
  <2> DEFINE t == [tx[s] EXCEPT !.at = "signing", !.rating = rating,
                                !.attainment = attainment]
  <2>2. rating \in Ratings \cup {None}
    BY <1>1 DEF SupervisorRatings, InstanceType, Instance, Reviewers
  <2>3. t \in Tx /\ t.at = "signing"
    BY <1>1, <2>2 DEF Tx, MovingType
  <2>4. /\ tx' = [tx EXCEPT ![s] = t]
        /\ UNCHANGED <<context, instance, response, generated, summary>>
    BY <2>1 DEF Goes
  <2> HIDE DEF t
  <2> QED
    BY <2>3, <2>4, TxKeeps
<1>5. CASE SignCommit(s)
  <2>1. /\ summary' = SignedSummary(s)
        /\ tx' = [tx EXCEPT ![s] = Idle]
        /\ UNCHANGED <<context, instance, response, generated>>
    BY <1>5 DEF SignCommit
  <2>2. SignedSummary(s) \in Summary
    BY <1>1 DEF SignedSummary, SummaryType, Summary, Tx
  <2>3. TypeOK'
    BY <1>1, <2>1, <2>2 DEF TypeOK, SupervisorType, MovingType, InstanceType,
       ResponseType, SummaryType, TxType, context
  <2>4. tx'[s] = Idle /\ \A o \in Sessions \ {s} : tx'[o] = tx[o]
    BY <1>1, <2>1 DEF TxType
  <2> QED
    BY <2>1, <2>3, <2>4 DEF IInv, SubmittedScored, ReadsHold, ReviewsThere, Idle
<1>6. CASE Abort(s)
  BY <1>1, <1>6, TxKeeps DEF Abort, Goes, Idle
<1> QED
  BY <1>2, <1>3, <1>4, <1>5, <1>6 DEF SignStep

LEMMA RestKeeps ==
  ASSUME IInv,
         \/ Outside
         \/ \E r \in Reviewers : ReturnForRevision(r)
         \/ Calibrate
         \/ Acknowledge
         \/ UNCHANGED vars
  PROVE  IInv'
<1>1. /\ TypeOK /\ InstanceType /\ SummaryType /\ MovingType
  BY DEF IInv, TypeOK
<1>2. /\ SupervisorType' /\ MovingType' /\ ResponseType' /\ TxType'
      /\ UNCHANGED tx
  <2>1. CASE ChangeSupervisor
    BY <2>1 DEF ChangeSupervisor, IInv, TypeOK, SupervisorType, MovingType,
       ResponseType, TxType
  <2>2. CASE AttainmentMoves
    BY <2>2, AttainmentAssumption DEF AttainmentMoves, IInv, TypeOK, SupervisorType,
       MovingType, ResponseType, TxType
  <2>3. CASE Generate
    BY <2>3 DEF Generate, context, IInv, TypeOK, SupervisorType, MovingType,
       ResponseType, TxType
  <2>4. CASE UNCHANGED <<context, response, generated, tx>>
    BY <2>4 DEF context, IInv, TypeOK, SupervisorType, MovingType, ResponseType, TxType
  <2> QED
    BY <2>1, <2>2, <2>3, <2>4
    DEF Outside, ReturnForRevision, Calibrate, Acknowledge, vars
<1>3. SummaryType'
  BY <1>1 DEF Outside, Generate, ChangeSupervisor, AttainmentMoves, ReturnForRevision,
      Calibrate, Acknowledge, vars, SummaryType, Summary
<1>4. /\ InstanceType'
      /\ \A o \in Reviewers :
           /\ instance'[o].state = "submitted" => instance'[o] = instance[o]
           /\ instance'[o].state = "absent" => instance[o].state = "absent"
  <2>1. CASE Generate
    BY <1>1, <2>1 DEF Generate, InstanceType, Instance, Fresh
  <2>2. ASSUME NEW r \in Reviewers, ReturnForRevision(r)
        PROVE  /\ InstanceType'
               /\ \A o \in Reviewers :
                    /\ instance'[o].state = "submitted" => instance'[o] = instance[o]
                    /\ instance'[o].state = "absent" => instance[o].state = "absent"
    BY <1>1, <2>2 DEF ReturnForRevision, InstanceType, Instance
  <2>3. CASE UNCHANGED instance
    BY <1>1, <2>3 DEF InstanceType
  <2> QED
    BY <2>1, <2>2, <2>3 DEF Outside, ChangeSupervisor, AttainmentMoves, Calibrate,
       Acknowledge, vars
<1>5. SubmittedScored'
  BY <1>4 DEF IInv, SubmittedScored
<1>6. ReadsHold'
  BY <1>2 DEF IInv, ReadsHold
<1>7. ReviewsThere'
  BY <1>2, <1>4 DEF IInv, ReviewsThere, TypeOK, TxType, Tx
<1> QED
  BY <1>1, <1>2, <1>3, <1>4, <1>5, <1>6, <1>7 DEF IInv, TypeOK

LEMMA NextKeeps == IInv /\ [Next]_vars => IInv'
  BY ReviewKeeps, SignKeeps, RestKeeps DEF Next

LEMMA Invariance == Spec => []IInv
<1>1. Init => IInv
  BY InitInv
<1>2. IInv /\ [Next]_vars => IInv'
  BY NextKeeps
<1> QED
  BY <1>1, <1>2, PTL DEF Spec

-----------------------------------------------------------------------------
\* Every variable keeps its type.
THEOREM TypeCorrect == Spec => []TypeOK
<1>1. IInv => TypeOK
  BY DEF IInv
<1> QED
  BY <1>1, Invariance, PTL

\* A submitted review has a score computed from an answer.
THEOREM ScoreCorrect == Spec => []SubmittedScored
<1>1. IInv => SubmittedScored
  BY DEF IInv
<1> QED
  BY <1>1, Invariance, PTL

\* The ratings of a signed review stay, however many sign at the same time.
THEOREM RatingsCorrect == Spec => RatingsFinal
<1>1. [Next]_vars => (Signed => /\ summary'.overall = summary.overall
                                /\ summary'.calibrated = summary.calibrated
                                /\ summary'.attainment = summary.attainment)
  <2> SUFFICES ASSUME [Next]_vars, Signed
               PROVE  /\ summary'.overall = summary.overall
                      /\ summary'.calibrated = summary.calibrated
                      /\ summary'.attainment = summary.attainment
    OBVIOUS
  <2>1. CASE Calibrate \/ \E s \in Sessions : SignCommit(s)
    BY <2>1 DEF Calibrate, SignCommit, RatingsKept, Signed
  <2>2. CASE Acknowledge
    BY <2>2 DEF Acknowledge
  <2>3. CASE UNCHANGED summary
    BY <2>3
  <2> QED
    BY <2>1, <2>2, <2>3
    DEF Next, Outside, Generate, ChangeSupervisor, AttainmentMoves, ReviewStep,
        SaveAnswer, SubmitRead, SaveCommit, SubmitCommit, SignStep, SignRead,
        SignCount, SignInputs, Begin, Goes, Abort, ReturnForRevision, vars
<1> QED
  BY <1>1, PTL DEF Spec, RatingsFinal

\* What a step does to a review that was there.
LEMMA StepOfReview ==
  ASSUME IInv, [Next]_vars, NEW r \in Reviewers
  PROVE  \/ instance'[r] = instance[r] /\ response'[r] = response[r]
         \/ /\ instance[r].state = "absent"
            /\ instance'[r].state = "not_started"
         \/ /\ \E s \in Sessions : LateSave(s, r)
            /\ instance'[r].state = IF instance[r].state = "not_started"
                                    THEN "in_progress" ELSE instance[r].state
         \/ /\ instance'[r].state \in {"submitted", "returned"}
            /\ instance'[r].rating = instance[r].rating
            /\ response'[r] = response[r]
<1>1. /\ TypeOK /\ InstanceType /\ ResponseType /\ TxType
      /\ \A s \in Sessions : tx[s] \in Tx /\ tx[s].review \in Reviewers
  BY DEF IInv, TypeOK, TxType, Tx
<1>2. CASE UNCHANGED <<instance, response>>
  BY <1>2
<1>3. CASE Generate
  BY <1>1, <1>3 DEF Generate, InstanceType, Fresh
<1>4. ASSUME NEW s \in Sessions, SaveCommit(s)
      PROVE  \/ instance'[r] = instance[r] /\ response'[r] = response[r]
             \/ /\ LateSave(s, r)
                /\ instance'[r].state = IF instance[r].state = "not_started"
                                        THEN "in_progress" ELSE instance[r].state
  <2>1. tx[s].at = "saving" /\ tx[s].saw # "submitted" /\ tx'[s] = Idle
    BY <1>1, <1>4 DEF SaveCommit, IInv, ReadsHold, TxType
  <2>2. CASE tx[s].review = r
    BY <1>1, <1>4, <2>1, <2>2 DEF SaveCommit, LateSave, InstanceType, Instance
  <2>3. CASE tx[s].review # r
    BY <1>1, <1>4, <2>3 DEF SaveCommit, InstanceType, ResponseType
  <2> QED BY <2>2, <2>3
<1>5. ASSUME NEW s \in Sessions, SubmitCommit(s)
      PROVE  \/ instance'[r] = instance[r] /\ response'[r] = response[r]
             \/ /\ instance'[r].state = "submitted"
                /\ instance'[r].rating = instance[r].rating
                /\ response'[r] = response[r]
  <2>1. CASE tx[s].review = r
    BY <1>1, <1>5, <2>1 DEF SubmitCommit, InstanceType, Instance
  <2>2. CASE tx[s].review # r
    BY <1>1, <1>5, <2>2 DEF SubmitCommit, InstanceType
  <2> QED BY <2>1, <2>2
<1>6. ASSUME NEW o \in Reviewers, ReturnForRevision(o)
      PROVE  \/ instance'[r] = instance[r] /\ response'[r] = response[r]
             \/ /\ instance'[r].state = "returned"
                /\ instance'[r].rating = instance[r].rating
                /\ response'[r] = response[r]
  BY <1>1, <1>6 DEF ReturnForRevision, InstanceType, Instance
<1> QED
  BY <1>2, <1>3, <1>4, <1>5, <1>6
  DEF Next, Outside, ChangeSupervisor, AttainmentMoves, ReviewStep, SaveAnswer,
      SubmitRead, SignStep, SignRead, SignCount, SignInputs, SignCommit, Begin,
      Goes, Abort, Calibrate, Acknowledge, vars

\* A submitted review leaves that state by being returned and in no other way,
\* and no review that was begun starts anew.
THEOREM SubmissionCorrect == Spec => NoQuietUnsubmit /\ NeverRestarts
<1>1. IInv /\ [Next]_vars =>
        \A r \in Reviewers :
          instance[r].state = "submitted" => instance'[r].state \in {"submitted", "returned"}
  BY StepOfReview
<1>2. IInv /\ [Next]_vars =>
        \A r \in Reviewers :
          instance[r].state \notin {"absent", "not_started"}
            => instance'[r].state \notin {"absent", "not_started"}
  BY StepOfReview
<1>3. Spec => NoQuietUnsubmit
  BY <1>1, Invariance, PTL DEF Spec, NoQuietUnsubmit
<1>4. Spec => NeverRestarts
  BY <1>2, Invariance, PTL DEF Spec, NeverRestarts
<1> QED
  BY <1>3, <1>4

\* A submitted review changes only by a draft whose answers were written before
\* it was submitted.
THEOREM FreezeCorrect == Spec => FrozenButForLateSaves
<1>1. IInv /\ [Next]_vars =>
        \A r \in Reviewers :
           instance[r].state = "submitted" /\ ChangesRatedPart(r)
             => \E s \in Sessions : LateSave(s, r)
  <2> SUFFICES ASSUME IInv, [Next]_vars, NEW r \in Reviewers,
                      instance[r].state = "submitted", ChangesRatedPart(r)
               PROVE  \E s \in Sessions : LateSave(s, r)
    OBVIOUS
  <2> QED
    BY StepOfReview DEF ChangesRatedPart
<1> QED
  BY <1>1, Invariance, PTL DEF Spec, FrozenButForLateSaves

-----------------------------------------------------------------------------
(***************************************************************************)
(* The screen of one reviewer (ReviewForm).  Where nothing was crossed, one*)
(* call is under way: what it has stored is what it was sent with, and what*)
(* is on the screen is the copy or that.                                   *)
(***************************************************************************)

\* A call has changed the answers, and the screen does not know yet.
Half == {c \in Calls : call[c].at \in {"patched", "post", "posted", "denied"}}

\* A call stores what it was sent with, unless another one interferes.
Alone == ~crossed => \A c, d \in Busy : c = d

\* Answers that say no more than what is stored.
Within(sheet) == \A f \in form.fields : sheet[f] \in {Nothing, stored[f]}

SentIsStored ==
    ~crossed => /\ \A c \in Half : Within(call[c].body)
                /\ state = "submitted" => Within(sent)

ScoreStands == state = "submitted" => ScoreOfStored

\* The newest copy holds what is stored, unless a fetch or a call is under way.
CopyCurrent ==
    Half = {} /\ ~missed =>
        /\ fetch.at = "served" => fetch.copy.responses = stored
        /\ fetch = NoFetch /\ ~stale /\ cache # NotFetched => cache.responses = stored

\* A screen without a good copy is waiting for one.
ScreenWaits == screen = "open" /\ fetch = NoFetch => ~stale /\ cache # NotFetched

\* Nothing that was fetched is taken off the screen.
NothingCleared ==
    screen = "open" /\ cache # NotFetched =>
        \A f \in form.fields : values[f] = Nothing => cache.responses[f] = Nothing

\* What is on a screen with a call under way.
ShownInCall ==
    screen = "open" /\ cache # NotFetched /\ ~crossed =>
        \A c \in Busy : \/ values = cache.responses
                        \/ call[c].mine /\ values = call[c].body

\* What is on a screen that reads "Saved".
ShownWhenSaved ==
    screen = "open" /\ cache # NotFetched /\ ~crossed /\ ~missed /\ ~dirty =>
        \/ values = cache.responses
        \/ Within(values) /\ (fetch # NoFetch \/ Half # {})

\* What every step of the screen keeps.
FormIInv ==
    /\ FormTypeOK /\ Alone /\ SentIsStored /\ ScoreStands /\ CopyCurrent /\ ScreenWaits
    /\ NothingCleared /\ ShownInCall /\ ShownWhenSaved
-----------------------------------------------------------------------------
\* A sheet has the answers of the form's fields; Blank is one.
LEMMA BlankFacts == Blank \in Sheets /\ \A f \in form.fields : Blank[f] = Nothing
BY DEF Blank, Sheets

LEMMA FreeFacts == Free \in CallType /\ Over \in CallType
BY DEF CallType

LEMMA CallFacts ==
  ASSUME FormTypeOK, NEW c \in Busy
  PROVE  /\ c \in Calls /\ call[c].at \in {"patch", "patched", "post", "posted", "refused", "denied"}
         /\ call[c].body \in Sheets /\ call[c].mine \in BOOLEAN /\ call[c].submits \in BOOLEAN
         /\ call[c] \in [at : {"patch", "patched", "post", "posted", "refused", "denied"},
                         submits : BOOLEAN, mine : BOOLEAN, body : Sheets]
BY DEF FormTypeOK, CallType, Busy

\* A call that a step moves is under way.
LEMMA HalfFacts == \A c \in Calls : call[c].at \notin {"free", "over"} => c \in Busy
BY DEF Busy, Free, Over

LEMMA FormInitHolds == FormInit => FormIInv
<1> SUFFICES ASSUME FormInit PROVE FormIInv
  OBVIOUS
<1>1. FormTypeOK
  <2>1. form \in Forms /\ ScoringValid(form)
    BY DEF FormInit
  <2>2. stored \in Sheets /\ values \in Sheets /\ sent \in Sheets
    BY BlankFacts DEF FormInit
  <2>3. call \in [Calls -> CallType]
    BY FreeFacts DEF FormInit
  <2>4. cache \in Copy \cup {NotFetched} /\ fetch \in {NoFetch, Asked} \cup [at : {"served"}, copy : Copy]
    BY DEF FormInit
  <2>5. typed \in 0..MaxTyped
    BY TypedAssumption DEF FormInit
  <2>6. <<stale, dirty, crossed, missed>> \in BOOLEAN \X BOOLEAN \X BOOLEAN \X BOOLEAN
    BY DEF FormInit
  <2> QED
    BY <2>1, <2>2, <2>3, <2>4, <2>5, <2>6 DEF FormInit, FormTypeOK
<1>2. Busy = {} /\ Half = {}
  BY DEF FormInit, Busy, Half, Free
<1>3. Alone /\ SentIsStored /\ ScoreStands
  BY <1>2 DEF FormInit, Alone, SentIsStored, ScoreStands
<1>4. CopyCurrent /\ ScreenWaits /\ NothingCleared /\ ShownInCall /\ ShownWhenSaved
  BY DEF FormInit, CopyCurrent, ScreenWaits, NothingCleared, ShownInCall, ShownWhenSaved, NoFetch
<1> QED BY <1>1, <1>3, <1>4 DEF FormIInv

\* The form does not change under a screen.
LEMMA KindsKeep ==
  ASSUME UNCHANGED form
  PROVE  Sheets' = Sheets /\ Copy' = Copy /\ CallType' = CallType /\ Blank' = Blank
BY DEF Sheets, Copy, CallType, Blank, Options

LEMMA FormTypeKeeps ==
  ASSUME FormTypeOK, UNCHANGED form,
         stored' \in Sheets, values' \in Sheets, sent' \in Sheets,
         state' \in {"not_started", "in_progress", "submitted", "returned"},
         cache' \in Copy \cup {NotFetched},
         fetch' \in {NoFetch, Asked} \cup [at : {"served"}, copy : Copy],
         screen' \in {"closed", "open"},
         stale' \in BOOLEAN, dirty' \in BOOLEAN, crossed' \in BOOLEAN, missed' \in BOOLEAN,
         call' \in [Calls -> CallType], typed' \in 0..MaxTyped
  PROVE  FormTypeOK'
<1>1. ScoringValid(form)' /\ form' \in Forms
  BY DEF FormTypeOK
<1> QED
  BY <1>1, KindsKeep DEF FormTypeOK

-----------------------------------------------------------------------------
\* A step of the query leaves the answers, the review and the calls alone.
LEMMA AnswersKeep ==
  ASSUME FormIInv, UNCHANGED <<review, call, ghosts>>
  PROVE  /\ Alone' /\ SentIsStored' /\ ScoreStands'
         /\ Busy' = Busy /\ Half' = Half
         /\ UNCHANGED <<form, classification, stored, state, score, typed, crossed, missed, sent>>
<1>1. UNCHANGED <<form, classification, stored, state, score, typed, crossed, missed, sent>>
      /\ Busy' = Busy /\ Half' = Half
  BY DEF review, ghosts, Busy, Half
<1>2. Alone' /\ SentIsStored' /\ ScoreStands'
  BY <1>1 DEF FormIInv, Alone, SentIsStored, ScoreStands, ScoreOfStored, Within
<1> QED
  BY <1>1, <1>2

LEMMA ServeFetchKeeps ==
  ASSUME FormIInv, ServeFetch
  PROVE  FormIInv'
<1>1. UNCHANGED <<review, call, ghosts>> /\ UNCHANGED <<cache, stale, screen, values, dirty>>
  BY DEF ServeFetch, edits
<1>2. fetch = Asked /\ fetch' = [at |-> "served", copy |-> [state |-> state, responses |-> stored]]
  BY DEF ServeFetch
<1>3. FormTypeOK'
  BY <1>1, <1>2, AnswersKeep, FormTypeKeeps DEF FormIInv, FormTypeOK, Copy
<1>4. CopyCurrent' /\ ScreenWaits'
  BY <1>1, <1>2, AnswersKeep DEF FormIInv, CopyCurrent, ScreenWaits, NoFetch, Asked
<1>5. NothingCleared' /\ ShownInCall' /\ ShownWhenSaved'
  BY <1>1, <1>2, AnswersKeep
  DEF FormIInv, NothingCleared, ShownInCall, ShownWhenSaved, Within, NoFetch, Asked
<1> QED
  BY <1>1, <1>3, <1>4, <1>5, AnswersKeep DEF FormIInv

\* What was typed and what a lost call left are taken off the screen only by a
\* copy that differs: a copy that does not, on a screen whose answers are all
\* stored, is what the screen shows.
LEMMA FetchedKeeps ==
  ASSUME FormIInv, Fetched
  PROVE  FormIInv'
<1>1. UNCHANGED <<review, call, ghosts>> /\ UNCHANGED <<screen, dirty>>
  BY DEF Fetched
<1>2. fetch.at = "served" /\ cache' = fetch.copy /\ fetch' = NoFetch /\ stale' = FALSE
  BY DEF Fetched
<1>3. values' = IF screen = "open" /\ fetch.copy # cache THEN fetch.copy.responses ELSE values
  BY DEF Fetched
<1>4. fetch.copy \in Copy /\ fetch.copy # NotFetched /\ fetch # NoFetch
  BY <1>2 DEF FormIInv, FormTypeOK, Copy, NotFetched, NoFetch, Asked
<1>5. fetch.copy.responses \in Sheets
  BY <1>4 DEF Copy
<1>6. FormTypeOK'
  <2>1. values' \in Sheets
    BY <1>3, <1>5 DEF FormIInv, FormTypeOK
  <2> QED
    BY <1>1, <1>2, <1>4, <2>1, AnswersKeep, FormTypeKeeps DEF FormIInv, FormTypeOK
<1>7. CopyCurrent' /\ ScreenWaits'
  BY <1>1, <1>2, <1>4, AnswersKeep DEF FormIInv, CopyCurrent, ScreenWaits, NoFetch
<1>8. NothingCleared' /\ ShownInCall'
  BY <1>1, <1>2, <1>3, <1>4, AnswersKeep
  DEF FormIInv, FormTypeOK, NothingCleared, ShownInCall
<1>9. ShownWhenSaved'
  <2> SUFFICES ASSUME screen = "open", ~crossed, ~missed, ~dirty, fetch.copy = cache,
                      values # cache.responses
               PROVE  Within(values') /\ Half # {}
    BY <1>1, <1>2, <1>3, <1>4, AnswersKeep DEF ShownWhenSaved, Within
  <2>1. cache # NotFetched /\ Within(values)
    BY <1>4 DEF FormIInv, ShownWhenSaved
  <2>2. CASE Half = {}
    <3>1. cache.responses = stored
      BY <1>2, <2>2 DEF FormIInv, CopyCurrent
    <3>2. \A f \in form.fields : values[f] = stored[f]
      BY <2>1, <3>1 DEF FormIInv, NothingCleared, Within
    <3>3. values = stored
      BY <3>2 DEF FormIInv, FormTypeOK, Sheets
    <3> QED
      BY <3>1, <3>3
  <2> QED
    BY <1>3, <2>1, <2>2
<1> QED
  BY <1>1, <1>6, <1>7, <1>8, <1>9, AnswersKeep DEF FormIInv

LEMMA OpenKeeps ==
  ASSUME FormIInv, Open
  PROVE  FormIInv'
<1>1. UNCHANGED <<review, call, ghosts>> /\ UNCHANGED <<cache, stale>>
  BY DEF Open
<1>2. screen = "closed" /\ screen' = "open" /\ dirty' = FALSE
      /\ values' = IF cache = NotFetched THEN Blank ELSE cache.responses
  BY DEF Open
<1>3. \/ fetch' = IF fetch = NoFetch THEN Asked ELSE fetch
      \/ cache # NotFetched /\ ~stale /\ fetch' = fetch
  BY DEF Open
<1>4. FormTypeOK'
  <2>1. values' \in Sheets
    BY <1>2, BlankFacts DEF FormIInv, FormTypeOK, Copy
  <2>2. fetch' \in {NoFetch, Asked} \cup [at : {"served"}, copy : Copy]
    BY <1>3 DEF FormIInv, FormTypeOK
  <2> QED
    BY <1>1, <1>2, <2>1, <2>2, AnswersKeep, FormTypeKeeps DEF FormIInv, FormTypeOK
<1>5. CopyCurrent' /\ ScreenWaits'
  BY <1>1, <1>2, <1>3, AnswersKeep DEF FormIInv, FormTypeOK, CopyCurrent, ScreenWaits, NoFetch, Asked
<1>6. NothingCleared' /\ ShownInCall' /\ ShownWhenSaved'
  BY <1>1, <1>2, AnswersKeep DEF NothingCleared, ShownInCall, ShownWhenSaved
<1> QED
  BY <1>1, <1>4, <1>5, <1>6, AnswersKeep DEF FormIInv

LEMMA ReconnectKeeps ==
  ASSUME FormIInv, Reconnect
  PROVE  FormIInv'
<1>1. UNCHANGED <<review, call, ghosts>> /\ UNCHANGED <<cache, stale, screen, values, dirty>>
  BY DEF Reconnect, edits
<1>2. fetch = NoFetch /\ fetch' = Asked
  BY DEF Reconnect
<1>3. FormTypeOK'
  BY <1>1, <1>2, AnswersKeep, FormTypeKeeps DEF FormIInv, FormTypeOK, Copy
<1>4. CopyCurrent' /\ ScreenWaits'
  BY <1>1, <1>2, AnswersKeep DEF FormIInv, CopyCurrent, ScreenWaits, NoFetch, Asked
<1>5. NothingCleared' /\ ShownInCall' /\ ShownWhenSaved'
  BY <1>1, <1>2, AnswersKeep
  DEF FormIInv, NothingCleared, ShownInCall, ShownWhenSaved, Within, NoFetch, Asked
<1> QED
  BY <1>1, <1>3, <1>4, <1>5, AnswersKeep DEF FormIInv

-----------------------------------------------------------------------------
LEMMA OptionFacts ==
  ASSUME FormTypeOK, NEW f \in form.fields, NEW v \in Options(f)
  PROVE  v \in form.scale \cup {0, 1, Nothing} /\ v # Nothing
<1>1. FormType(form)
  BY FormsAssumption DEF FormTypeOK
<1>2. form.scale \subseteq Int
  BY <1>1 DEF FormType
<1> QED
  BY <1>2, NothingAssumption DEF Options

LEMMA TypeKeeps ==
  ASSUME FormIInv, NEW f \in form.fields, NEW v \in Options(f), Type(f, v)
  PROVE  FormIInv'
<1>1. UNCHANGED <<form, classification, stored, state, score, cache, stale, fetch,
                  screen, call, missed, sent>>
  BY DEF Type, review, query
<1>2. values' = [values EXCEPT ![f] = v] /\ dirty' = TRUE /\ typed < MaxTyped /\ typed' = typed + 1
      /\ crossed' = (crossed \/ Busy # {})
  BY DEF Type, Crosses
<1>3. Busy' = Busy /\ Half' = Half
  BY <1>1 DEF Busy, Half
<1>4. FormTypeOK'
  <2>1. values' \in Sheets
    BY <1>2, OptionFacts DEF FormIInv, FormTypeOK, Sheets
  <2>2. typed' \in 0..MaxTyped
    BY <1>2, TypedAssumption DEF FormIInv, FormTypeOK
  <2>3. crossed' \in BOOLEAN
    BY <1>2 DEF FormIInv, FormTypeOK
  <2> QED
    BY <1>1, <1>2, <2>1, <2>2, <2>3, FormTypeKeeps DEF FormIInv, FormTypeOK
<1>5. Alone' /\ SentIsStored' /\ ScoreStands'
  BY <1>1, <1>2, <1>3 DEF FormIInv, Alone, SentIsStored, ScoreStands, ScoreOfStored, Within
<1>6. CopyCurrent' /\ ScreenWaits'
  BY <1>1, <1>3 DEF FormIInv, CopyCurrent, ScreenWaits
<1>7. NothingCleared'
  BY <1>1, <1>2, OptionFacts DEF FormIInv, FormTypeOK, NothingCleared, Sheets
<1>8. ShownInCall' /\ ShownWhenSaved'
  BY <1>2, <1>3 DEF ShownInCall, ShownWhenSaved
<1> QED
  BY <1>4, <1>5, <1>6, <1>7, <1>8 DEF FormIInv

LEMMA AbandonedFacts ==
  ASSUME NEW k \in CallType
  PROVE  /\ Abandoned(k) \in CallType /\ Abandoned(k).at = k.at
         /\ Abandoned(k) \in {Free, Over} <=> k \in {Free, Over}
         /\ k \notin {Free, Over} => Abandoned(k).body = k.body
BY DEF Abandoned, CallType, Free, Over

LEMMA LeaveKeeps ==
  ASSUME FormIInv, Leave
  PROVE  FormIInv'
<1>1. UNCHANGED <<form, classification, stored, state, score, cache, stale, fetch,
                  values, dirty, typed, crossed, missed, sent>>
  BY DEF Leave, review, query, ghosts
<1>2. screen' = "closed" /\ call' = [c \in Calls |-> Abandoned(call[c])]
  BY DEF Leave
<1>3. /\ call' \in [Calls -> CallType] /\ Busy' = Busy /\ Half' = Half
      /\ \A c \in Busy : call'[c].body = call[c].body
  BY <1>2, AbandonedFacts DEF FormIInv, FormTypeOK, Busy, Half
<1>4. FormTypeOK'
  BY <1>1, <1>2, <1>3, FormTypeKeeps DEF FormIInv, FormTypeOK
<1>5. Half \subseteq Busy
  BY HalfFacts DEF Half
<1>6. Alone' /\ SentIsStored' /\ ScoreStands' /\ CopyCurrent'
  BY <1>1, <1>3, <1>5
  DEF FormIInv, Alone, SentIsStored, ScoreStands, ScoreOfStored, Within, CopyCurrent
<1>7. ScreenWaits' /\ NothingCleared' /\ ShownInCall' /\ ShownWhenSaved'
  BY <1>2 DEF ScreenWaits, NothingCleared, ShownInCall, ShownWhenSaved
<1> QED
  BY <1>4, <1>6, <1>7 DEF FormIInv

LEMMA ReturnKeeps ==
  ASSUME FormIInv, Return
  PROVE  FormIInv'
<1>1. UNCHANGED <<form, classification, stored, score, cache, stale, fetch,
                  screen, values, dirty, call, typed, crossed, missed>>
  BY DEF Return, query, edits
<1>2. state' = "returned" /\ sent' = Blank
  BY DEF Return
<1>3. Busy' = Busy /\ Half' = Half
  BY <1>1 DEF Busy, Half
<1>4. FormTypeOK'
  BY <1>1, <1>2, BlankFacts, FormTypeKeeps DEF FormIInv, FormTypeOK
<1>5. Alone' /\ SentIsStored' /\ ScoreStands' /\ CopyCurrent'
  BY <1>1, <1>2, <1>3 DEF FormIInv, Alone, SentIsStored, ScoreStands, Within, CopyCurrent
<1>6. ScreenWaits' /\ NothingCleared' /\ ShownInCall' /\ ShownWhenSaved'
  BY <1>1, <1>3
  DEF FormIInv, ScreenWaits, NothingCleared, ShownInCall, ShownWhenSaved, Within
<1> QED
  BY <1>4, <1>5, <1>6 DEF FormIInv

-----------------------------------------------------------------------------
LEMMA ClickKeeps ==
  ASSUME FormIInv, NEW c \in Calls, NEW submits \in BOOLEAN, Click(c, submits)
  PROVE  FormIInv'
<1> DEFINE k == [at |-> "patch", submits |-> submits, mine |-> TRUE, body |-> values]
<1>1. UNCHANGED <<form, classification, stored, state, score, cache, stale, fetch,
                  screen, values, dirty, typed, missed, sent>>
  BY DEF Click, review, query, edits
<1>2. call[c] = Free /\ call' = [call EXCEPT ![c] = k] /\ crossed' = (crossed \/ Busy # {})
  BY DEF Click, Crosses
<1>3. k \in CallType /\ k \notin {Free, Over} /\ k.at = "patch"
  BY DEF FormIInv, FormTypeOK, CallType, Free, Over
<1>4. /\ call' \in [Calls -> CallType] /\ call'[c] = k
      /\ \A d \in Calls \ {c} : call'[d] = call[d]
  BY <1>2, <1>3 DEF FormIInv, FormTypeOK
<1> HIDE DEF k
<1>5. Busy' = Busy \cup {c} /\ Half' = Half /\ c \notin Busy
  BY <1>2, <1>3, <1>4 DEF Busy, Half, Free
<1>6. FormTypeOK'
  <2>1. crossed' \in BOOLEAN
    BY <1>2 DEF FormIInv, FormTypeOK
  <2> QED
    BY <1>1, <1>4, <2>1, FormTypeKeeps DEF FormIInv, FormTypeOK
<1>7. Half \subseteq Busy
  BY HalfFacts DEF Half
<1>8. Alone' /\ SentIsStored' /\ ScoreStands' /\ CopyCurrent' /\ ScreenWaits'
  <2>1. Alone' /\ SentIsStored'
    BY <1>1, <1>2, <1>4, <1>5, <1>7 DEF FormIInv, Alone, SentIsStored, Within
  <2>2. ScoreStands' /\ CopyCurrent' /\ ScreenWaits'
    BY <1>1, <1>5 DEF FormIInv, ScoreStands, ScoreOfStored, CopyCurrent, ScreenWaits
  <2> QED
    BY <2>1, <2>2
<1>9. NothingCleared' /\ ShownInCall' /\ ShownWhenSaved'
  <2>1. NothingCleared'
    BY <1>1 DEF FormIInv, NothingCleared
  <2>2. ShownInCall'
    BY <1>1, <1>2, <1>4, <1>5 DEF ShownInCall, k
  <2>3. ShownWhenSaved'
    BY <1>1, <1>2, <1>5 DEF FormIInv, ShownWhenSaved, Within
  <2> QED
    BY <2>1, <2>2, <2>3
<1> QED
  BY <1>6, <1>8, <1>9 DEF FormIInv

\* The call c moves on to `at`, and stays under way.
LEMMA ReachesFacts ==
  ASSUME FormTypeOK, NEW c \in Busy,
         NEW at \in {"patched", "post", "posted", "refused", "denied"}, Reaches(c, at)
  PROVE  /\ call' \in [Calls -> CallType]
         /\ \A d \in Calls \ {c} : call'[d] = call[d]
         /\ Busy' = Busy
         /\ \A d \in Busy : call'[d].body = call[d].body /\ call'[d].mine = call[d].mine
         /\ Half' = IF at = "refused" THEN Half \ {c} ELSE Half \cup {c}
<1>1. call' = [call EXCEPT ![c] = [call[c] EXCEPT !.at = at]]
  BY DEF Reaches
<1> DEFINE k == [call[c] EXCEPT !.at = at]
<1>2. c \in Calls
  BY CallFacts
<1>3. /\ k \in CallType /\ k.at = at /\ k \notin {Free, Over}
      /\ k.body = call[c].body /\ k.mine = call[c].mine
  BY CallFacts DEF CallType, Free, Over
<1> HIDE DEF k
<1>4. /\ call' \in [Calls -> CallType] /\ call'[c] = k
      /\ \A d \in Calls \ {c} : call'[d] = call[d]
  BY <1>1, <1>2, <1>3 DEF FormTypeOK, k
<1>5. Busy' = Busy
  BY <1>2, <1>3, <1>4 DEF Busy
<1>6. Half' = IF at = "refused" THEN Half \ {c} ELSE Half \cup {c}
  BY <1>2, <1>3, <1>4 DEF Half
<1>7. \A d \in Busy : call'[d].body = call[d].body /\ call'[d].mine = call[d].mine
  BY <1>3, <1>4 DEF Busy
<1> QED
  BY <1>4, <1>5, <1>6, <1>7

\* Where nothing was crossed, one call is under way: the only one that can have
\* stored anything.
LEMMA OnlyCall ==
  ASSUME FormIInv, NEW c \in Busy, ~crossed
  PROVE  Busy = {c} /\ Half \subseteq {c}
BY HalfFacts DEF FormIInv, Alone, Half

LEMMA ServePatchKeeps ==
  ASSUME FormIInv, NEW c \in Calls, ServePatch(c)
  PROVE  FormIInv'
<1>1. UNCHANGED <<form, classification, score, cache, stale, fetch, screen, values, dirty,
                  typed, crossed, missed, sent>>
  BY DEF ServePatch, query, edits, ghosts
<1>2. call[c].at = "patch" /\ c \in Busy /\ c \notin Half
  BY HalfFacts DEF ServePatch, Half
<1>3. CASE state = "submitted"
  <2>1. Reaches(c, "refused") /\ UNCHANGED <<stored, state>>
    BY <1>3 DEF ServePatch
  <2>2. /\ call' \in [Calls -> CallType] /\ Busy' = Busy /\ Half' = Half
        /\ \A d \in Busy : call'[d].body = call[d].body /\ call'[d].mine = call[d].mine
    BY <1>2, <2>1, ReachesFacts DEF FormIInv
  <2>3. FormTypeOK'
    BY <1>1, <2>1, <2>2, FormTypeKeeps DEF FormIInv, FormTypeOK
  <2>4. Half \subseteq Busy
    BY HalfFacts DEF Half
  <2>5. Alone' /\ SentIsStored' /\ ScoreStands'
    BY <1>1, <2>1, <2>2, <2>4 DEF FormIInv, Alone, SentIsStored, ScoreStands, ScoreOfStored, Within
  <2>6. CopyCurrent' /\ ScreenWaits' /\ NothingCleared'
    BY <1>1, <2>1, <2>2 DEF FormIInv, CopyCurrent, ScreenWaits, NothingCleared
  <2>7. ShownInCall' /\ ShownWhenSaved'
    BY <1>1, <2>1, <2>2 DEF FormIInv, ShownInCall, ShownWhenSaved, Within
  <2> QED
    BY <2>3, <2>5, <2>6, <2>7 DEF FormIInv
<1>4. CASE state # "submitted"
  <2>1. /\ Reaches(c, "patched")
        /\ stored' = [f \in form.fields |->
                        IF call[c].body[f] = Nothing THEN stored[f] ELSE call[c].body[f]]
        /\ state' = IF state = "not_started" THEN "in_progress" ELSE state
    BY <1>4 DEF ServePatch
  <2>2. /\ call' \in [Calls -> CallType] /\ Busy' = Busy /\ Half' = Half \cup {c}
        /\ \A d \in Busy : call'[d].body = call[d].body /\ call'[d].mine = call[d].mine
    BY <1>2, <2>1, ReachesFacts DEF FormIInv
  <2>3. FormTypeOK'
    <3>1. stored' \in Sheets
      BY <1>2, <2>1, CallFacts DEF FormIInv, FormTypeOK, Sheets
    <3>2. state' \in {"not_started", "in_progress", "submitted", "returned"} /\ state' # "submitted"
      BY <1>4, <2>1 DEF FormIInv, FormTypeOK
    <3> QED
      BY <1>1, <2>2, <3>1, <3>2, FormTypeKeeps DEF FormIInv, FormTypeOK
  <2>4. state' # "submitted"
    BY <1>4, <2>1
  <2>5. Within(call[c].body)'
    BY <1>1, <1>2, <2>1, <2>2 DEF Within
  <2>6. Alone' /\ SentIsStored'
    BY <1>1, <1>2, <2>2, <2>4, <2>5, OnlyCall DEF FormIInv, Alone, SentIsStored
  <2>7. ScoreStands' /\ CopyCurrent' /\ ScreenWaits' /\ NothingCleared'
    BY <1>1, <2>2, <2>4 DEF FormIInv, ScoreStands, CopyCurrent, ScreenWaits, NothingCleared
  <2>8. ShownInCall'
    BY <1>1, <2>2 DEF FormIInv, ShownInCall
  <2>9. ShownWhenSaved'
    <3> SUFFICES ASSUME screen = "open", cache # NotFetched, ~crossed, values # cache.responses
                 PROVE  Within(values)' /\ Half' # {}
      BY <1>1 DEF ShownWhenSaved
    <3>1. values = call[c].body
      BY <1>2 DEF FormIInv, ShownInCall
    <3> QED
      BY <1>1, <2>1, <2>2, <3>1 DEF Within
  <2> QED
    BY <2>3, <2>6, <2>7, <2>8, <2>9 DEF FormIInv
<1> QED
  BY <1>3, <1>4

LEMMA SubmitsKeeps ==
  ASSUME FormIInv, NEW c \in Calls, Submits(c)
  PROVE  FormIInv'
<1>1. UNCHANGED <<form, classification, stored, state, score, cache, stale, fetch,
                  screen, values, dirty, typed, crossed, missed, sent>>
  BY DEF Submits, review, query, edits, ghosts
<1>2. call[c].at = "patched" /\ c \in Busy /\ c \in Half /\ Reaches(c, "post")
  BY HalfFacts DEF Submits, Half
<1>3. /\ call' \in [Calls -> CallType] /\ Busy' = Busy /\ Half' = Half
      /\ \A d \in Busy : call'[d].body = call[d].body /\ call'[d].mine = call[d].mine
  BY <1>2, ReachesFacts DEF FormIInv
<1>4. FormTypeOK'
  BY <1>1, <1>3, FormTypeKeeps DEF FormIInv, FormTypeOK
<1>5. Half \subseteq Busy
  BY HalfFacts DEF Half
<1>6. Alone' /\ SentIsStored' /\ ScoreStands'
  BY <1>1, <1>3, <1>5 DEF FormIInv, Alone, SentIsStored, ScoreStands, ScoreOfStored, Within
<1>7. CopyCurrent' /\ ScreenWaits' /\ NothingCleared'
  BY <1>1, <1>3 DEF FormIInv, CopyCurrent, ScreenWaits, NothingCleared
<1>8. ShownInCall' /\ ShownWhenSaved'
  BY <1>1, <1>3 DEF FormIInv, ShownInCall, ShownWhenSaved, Within
<1> QED
  BY <1>4, <1>6, <1>7, <1>8 DEF FormIInv

\* What is computed at a submission is the score of what is stored.
LEMMA ComputedStands ==
  ASSUME score' = Submitted, UNCHANGED <<form, stored>>
  PROVE  ScoreOfStored'
<1> DEFINE column == IF classification = Nothing /\ Plain(form) THEN Unnamed ELSE classification
<1>1. CASE form.scoring = Nothing \/ ~Scaled(form) \/ column = Nothing
  <2>1. score' = Nothing
    BY <1>1 DEF Submitted, ScoreOf
  <2>2. column = Nothing => ~Plain(form)
    BY NothingAssumption
  <2> QED
    BY <1>1, <2>1, <2>2 DEF ScoreOfStored
<1>2. CASE ~(form.scoring = Nothing \/ ~Scaled(form) \/ column = Nothing)
  <2>1. score' = ScoreResponses(form, stored, column)
    BY <1>2 DEF Submitted, ScoreOf
  <2>2. score'.column = column
    BY <2>1 DEF ScoreResponses
  <2> QED
    BY <1>2, <2>1, <2>2 DEF ScoreOfStored
<1> QED
  BY <1>1, <1>2

LEMMA ServePostKeeps ==
  ASSUME FormIInv, NEW c \in Calls, ServePost(c)
  PROVE  FormIInv'
<1>1. UNCHANGED <<form, stored, cache, stale, fetch,
                  screen, values, dirty, typed, crossed, missed>>
  BY DEF ServePost, query, edits
<1>2. call[c].at = "post" /\ c \in Busy /\ c \in Half
  BY HalfFacts DEF ServePost, Half
<1>3. \/ /\ Reaches(c, "posted")
         /\ state' = "submitted" /\ score' = Submitted /\ sent' = call[c].body
      \/ Reaches(c, "denied") /\ UNCHANGED <<state, score, sent>>
  BY DEF ServePost
<1>4. /\ call' \in [Calls -> CallType] /\ Busy' = Busy /\ Half' = Half
      /\ \A d \in Busy : call'[d].body = call[d].body /\ call'[d].mine = call[d].mine
  BY <1>2, <1>3, ReachesFacts DEF FormIInv
<1>5. FormTypeOK'
  <2>1. sent' \in Sheets /\ state' \in {"not_started", "in_progress", "submitted", "returned"}
    BY <1>2, <1>3, CallFacts DEF FormIInv, FormTypeOK
  <2> QED
    BY <1>1, <1>4, <2>1, FormTypeKeeps DEF FormIInv, FormTypeOK
<1>6. Half \subseteq Busy
  BY HalfFacts DEF Half
<1>7. Alone'
  BY <1>1, <1>4 DEF FormIInv, Alone
<1>8. SentIsStored'
  BY <1>1, <1>2, <1>3, <1>4, <1>6 DEF FormIInv, SentIsStored, Within
<1>9. ScoreStands'
  BY <1>1, <1>3, ComputedStands DEF FormIInv, ScoreStands, ScoreOfStored
<1>10. CopyCurrent' /\ ScreenWaits' /\ NothingCleared'
  BY <1>1, <1>4 DEF FormIInv, CopyCurrent, ScreenWaits, NothingCleared
<1>11. ShownInCall' /\ ShownWhenSaved'
  BY <1>1, <1>4 DEF FormIInv, ShownInCall, ShownWhenSaved, Within
<1> QED
  BY <1>5, <1>7, <1>8, <1>9, <1>10, <1>11 DEF FormIInv

\* A call that is over is under way no longer.
LEMMA OverFacts ==
  ASSUME FormTypeOK, NEW c \in Busy, call' = [call EXCEPT ![c] = Over]
  PROVE  /\ call' \in [Calls -> CallType]
         /\ Busy' = Busy \ {c} /\ Half' = Half \ {c}
         /\ \A d \in Busy \ {c} : call'[d] = call[d]
<1>1. c \in Calls
  BY CallFacts
<1>2. /\ call' \in [Calls -> CallType] /\ call'[c] = Over
      /\ \A d \in Calls \ {c} : call'[d] = call[d]
  BY <1>1, FreeFacts DEF FormTypeOK
<1> QED
  BY <1>1, <1>2 DEF Busy, Half, Over

LEMMA SavedKeeps ==
  ASSUME FormIInv, NEW c \in Calls, Saved(c)
  PROVE  FormIInv'
<1>1. UNCHANGED <<form, classification, stored, state, score, cache,
                  screen, values, typed, crossed, sent>>
  BY DEF Saved, review
<1>2. call[c].at = "patched" /\ c \in Busy /\ c \in Half
  BY HalfFacts DEF Saved, Half
<1>3. /\ dirty' = (dirty /\ ~call[c].mine) /\ stale' = TRUE
      /\ fetch' = IF screen = "open" THEN Asked ELSE fetch
      /\ missed' = (missed \/ (screen = "closed" /\ fetch # NoFetch))
  BY DEF Saved, Invalidate, Passed
<1>4. /\ call' \in [Calls -> CallType] /\ Busy' = Busy \ {c} /\ Half' = Half \ {c}
      /\ \A d \in Busy \ {c} : call'[d] = call[d]
  BY <1>2, OverFacts DEF FormIInv, Saved
<1>5. FormTypeOK'
  <2>1. dirty' \in BOOLEAN /\ missed' \in BOOLEAN
    BY <1>2, <1>3, CallFacts DEF FormIInv, FormTypeOK
  <2> QED
    BY <1>1, <1>3, <1>4, <2>1, FormTypeKeeps DEF FormIInv, FormTypeOK
<1>6. Half \subseteq Busy
  BY HalfFacts DEF Half
<1>7. Alone' /\ SentIsStored' /\ ScoreStands'
  BY <1>1, <1>4, <1>6 DEF FormIInv, Alone, SentIsStored, ScoreStands, ScoreOfStored, Within
<1>8. CopyCurrent' /\ ScreenWaits' /\ NothingCleared'
  <2>1. ~missed' => fetch' \in {Asked, NoFetch}
    BY <1>3 DEF FormIInv, FormTypeOK
  <2>2. CopyCurrent'
    BY <1>3, <2>1 DEF CopyCurrent, NoFetch, Asked
  <2>3. ScreenWaits'
    BY <1>1, <1>3 DEF ScreenWaits, NoFetch, Asked
  <2>4. NothingCleared'
    BY <1>1 DEF FormIInv, NothingCleared
  <2> QED
    BY <2>2, <2>3, <2>4
<1>9. ShownInCall'
  BY <1>1, <1>4 DEF FormIInv, ShownInCall
<1>10. ShownWhenSaved'
  <2> SUFFICES ASSUME screen = "open", cache # NotFetched, ~crossed, values # cache.responses
               PROVE  Within(values)' /\ fetch' # NoFetch
    BY <1>1 DEF ShownWhenSaved
  <2>1. values = call[c].body
    BY <1>2 DEF FormIInv, ShownInCall
  <2> QED
    BY <1>1, <1>2, <1>3, <2>1 DEF FormIInv, SentIsStored, Within, NoFetch, Asked
<1> QED
  BY <1>5, <1>7, <1>8, <1>9, <1>10 DEF FormIInv

LEMMA PostedKeeps ==
  ASSUME FormIInv, NEW c \in Calls, Posted(c)
  PROVE  FormIInv'
<1>1. UNCHANGED <<form, classification, stored, state, score, cache,
                  values, dirty, typed, crossed, sent>>
  BY DEF Posted, review
<1>2. call[c].at = "posted" /\ c \in Busy
  BY HalfFacts DEF Posted
<1>3. /\ screen' = "closed" /\ stale' = TRUE
      /\ fetch' = IF screen = "open" THEN Asked ELSE fetch
      /\ missed' = (missed \/ (screen = "closed" /\ fetch # NoFetch))
  BY DEF Posted, Invalidate, Passed
<1>4. /\ call' \in [Calls -> CallType] /\ Busy' = Busy \ {c} /\ Half' = Half \ {c}
      /\ \A d \in Busy \ {c} : call'[d].body = call[d].body
  <2>1. call' = [o \in Calls |-> IF o = c THEN Over ELSE Abandoned(call[o])]
    BY DEF Posted
  <2>2. \A o \in Calls : call[o] \in CallType
    BY DEF FormIInv, FormTypeOK
  <2>3. call' \in [Calls -> CallType]
    BY <2>1, <2>2, FreeFacts, AbandonedFacts
  <2>4. Busy' = Busy \ {c} /\ \A d \in Busy \ {c} : call'[d].body = call[d].body
    BY <2>1, <2>2, AbandonedFacts DEF Busy
  <2>5. Half' = Half \ {c}
    BY <2>1, <2>2, AbandonedFacts DEF Half, Over
  <2> QED
    BY <2>3, <2>4, <2>5
<1>5. FormTypeOK'
  <2>1. missed' \in BOOLEAN
    BY <1>3 DEF FormIInv, FormTypeOK
  <2> QED
    BY <1>1, <1>3, <1>4, <2>1, FormTypeKeeps DEF FormIInv, FormTypeOK
<1>6. Half \subseteq Busy
  BY HalfFacts DEF Half
<1>7. Alone' /\ SentIsStored' /\ ScoreStands'
  BY <1>1, <1>4, <1>6 DEF FormIInv, Alone, SentIsStored, ScoreStands, ScoreOfStored, Within
<1>8. CopyCurrent'
  <2>1. ~missed' => fetch' \in {Asked, NoFetch}
    BY <1>3 DEF FormIInv, FormTypeOK
  <2> QED
    BY <1>3, <2>1 DEF CopyCurrent, NoFetch, Asked
<1>9. ScreenWaits' /\ NothingCleared' /\ ShownInCall' /\ ShownWhenSaved'
  BY <1>3 DEF ScreenWaits, NothingCleared, ShownInCall, ShownWhenSaved
<1> QED
  BY <1>5, <1>7, <1>8, <1>9 DEF FormIInv

LEMMA FailedKeeps ==
  ASSUME FormIInv, NEW c \in Calls, Failed(c)
  PROVE  FormIInv'
<1>1. UNCHANGED <<form, classification, stored, state, score, cache, stale, fetch,
                  screen, values, dirty, typed, crossed, sent>>
  BY DEF Failed, review, query, edits
<1>2. c \in Busy /\ missed' = (missed \/ c \in Half)
  BY DEF Failed, Half
<1>3. /\ call' \in [Calls -> CallType] /\ Busy' = Busy \ {c} /\ Half' = Half \ {c}
      /\ \A d \in Busy \ {c} : call'[d] = call[d]
  BY <1>2, OverFacts DEF FormIInv, Failed
<1>4. FormTypeOK'
  <2>1. missed' \in BOOLEAN
    BY <1>2 DEF FormIInv, FormTypeOK
  <2> QED
    BY <1>1, <1>3, <2>1, FormTypeKeeps DEF FormIInv, FormTypeOK
<1>5. Half \subseteq Busy
  BY HalfFacts DEF Half
<1>6. Alone' /\ SentIsStored' /\ ScoreStands'
  BY <1>1, <1>3, <1>5 DEF FormIInv, Alone, SentIsStored, ScoreStands, ScoreOfStored, Within
<1>7. ~missed' => ~missed /\ Half' = Half
  BY <1>2, <1>3
<1>8. CopyCurrent' /\ ScreenWaits' /\ NothingCleared'
  BY <1>1, <1>7 DEF FormIInv, CopyCurrent, ScreenWaits, NothingCleared
<1>9. ShownInCall' /\ ShownWhenSaved'
  BY <1>1, <1>3, <1>7 DEF FormIInv, ShownInCall, ShownWhenSaved, Within
<1> QED
  BY <1>4, <1>6, <1>8, <1>9 DEF FormIInv

-----------------------------------------------------------------------------
LEMMA FormStutters ==
  ASSUME FormIInv, UNCHANGED formVars
  PROVE  FormIInv'
<1>1. UNCHANGED <<form, classification, stored, state, score, cache, stale, fetch, screen,
                  values, dirty, call, typed, crossed, missed, sent>>
  BY DEF formVars, review, query, edits, ghosts
<1>2. FormTypeOK'
  BY <1>1, FormTypeKeeps DEF FormIInv, FormTypeOK
<1>3. Alone' /\ SentIsStored' /\ ScoreStands' /\ Half' = Half /\ Busy' = Busy
  BY <1>1, AnswersKeep DEF review, ghosts
<1>4. CopyCurrent' /\ ScreenWaits' /\ NothingCleared' /\ ShownInCall' /\ ShownWhenSaved'
  BY <1>1, <1>3
  DEF FormIInv, CopyCurrent, ScreenWaits, NothingCleared, ShownInCall, ShownWhenSaved, Within
<1> QED
  BY <1>2, <1>3, <1>4 DEF FormIInv

LEMMA FormStep == FormIInv /\ [FormNext]_formVars => FormIInv'
<1> SUFFICES ASSUME FormIInv, [FormNext]_formVars PROVE FormIInv'
  OBVIOUS
<1>1. CASE UNCHANGED formVars
  BY <1>1, FormStutters
<1>2. CASE Open \/ Leave \/ Reconnect \/ ServeFetch \/ Fetched \/ Return
  BY <1>2, OpenKeeps, LeaveKeeps, ReconnectKeeps, ServeFetchKeeps, FetchedKeeps, ReturnKeeps
<1>3. ASSUME NEW f \in form.fields, NEW v \in Options(f), Type(f, v) PROVE FormIInv'
  BY <1>3, TypeKeeps
<1>4. ASSUME NEW c \in Calls, CallStep(c) PROVE FormIInv'
  BY <1>4, ClickKeeps, ServePatchKeeps, SavedKeeps, SubmitsKeeps, ServePostKeeps,
     PostedKeeps, FailedKeeps
  DEF CallStep
<1> QED
  BY <1>1, <1>2, <1>3, <1>4 DEF FormNext

LEMMA FormInvariant == FormSpec => []FormIInv
BY FormInitHolds, FormStep, PTL DEF FormSpec

-----------------------------------------------------------------------------
\* ReviewForm: every variable of the screen, of its copy and of its calls holds
\* values of its kind.
THEOREM FormTypeCorrect == FormSpec => []FormTypeOK
<1>1. FormIInv => FormTypeOK
  BY DEF FormIInv
<1> QED
  BY <1>1, FormInvariant, PTL

\* ReviewForm: what is submitted and scored has every answer that was on the screen
\* when the button was pressed, unless another call was under way: the submission
\* waits for the draft it is made of (ReviewForm.tsx:82).
THEOREM FormScoredAsShown == FormSpec => []ScoredAsShown
<1>1. FormIInv => ScoredAsShown
  BY DEF FormIInv, ScoredAsShown, SentIsStored, Within, ScoreStands
<1> QED
  BY <1>1, FormInvariant, PTL

\* ReviewForm: with nothing under way, and no calls crossed or copies missed, a
\* screen that reads "Saved" shows what is stored (ReviewForm.tsx:246).
THEOREM FormSavedMeansStored == FormSpec => []SavedMeansStored
<1>1. FormIInv => SavedMeansStored
  <2> SUFFICES ASSUME FormIInv, screen = "open", ~dirty, fetch = NoFetch, Busy = {},
                      ~crossed, ~missed
               PROVE  values = stored
    BY DEF SavedMeansStored
  <2>1. Half = {}
    BY HalfFacts DEF Half
  <2>2. ~stale /\ cache # NotFetched
    BY DEF FormIInv, ScreenWaits
  <2>3. cache.responses = stored
    BY <2>1, <2>2 DEF FormIInv, CopyCurrent
  <2> QED
    BY <2>1, <2>2, <2>3 DEF FormIInv, ShownWhenSaved
<1> QED
  BY <1>1, FormInvariant, PTL
-----------------------------------------------------------------------------
(***************************************************************************)
(* Sums.  What SumFunctionOnSet computes is a recursive function on the    *)
(* subsets of a set.  Here it is shown to be there, and what follows for   *)
(* its values: each time, of the sets that break a rule, one with none of  *)
(* the others in it is taken, and its elements less one keep the rule.     *)
(***************************************************************************)
LEMMA LeastNumber ==
  ASSUME NEW S \in SUBSET Nat, S # {}
  PROVE  \E n \in S : \A m \in S : n <= m
<1>1. \E n \in S : \A m \in S : ~ (<<m, n>> \in OpToRel(<, Nat))
  BY NatLessThanWellFounded, WFMin
<1>2. PICK n \in S : \A m \in S : ~ (<<m, n>> \in OpToRel(<, Nat))
  BY <1>1
<1>3. \A m \in S : ~ (m < n)
  BY <1>2, Zenon DEF OpToRel
<1> QED
  BY <1>3

Pick(T) == CHOOSE x \in T : TRUE

\* The table of sums over the subsets of T.
IsTable(g, w, T) ==
    g = [s \in SUBSET T |-> IF s = {} THEN 0 ELSE w[Pick(s)] + g[s \ {Pick(s)}]]

Table(w, T) == CHOOSE g : IsTable(g, w, T)

LEMMA SumIsTable ==
  ASSUME NEW w, NEW T
  PROVE  SumFunctionOnSet(w, T) = Table(w, T)[T]
BY DEF SumFunctionOnSet, FoldFunctionOnSet, MapThenFoldSet, Table, IsTable, Pick

LEMMA PickIn == ASSUME NEW T, T # {} PROVE Pick(T) \in T
BY DEF Pick

\* Of some finite sets, one has none of the others in it.
LEMMA LeastSet ==
  ASSUME NEW F, F # {}, \A T \in F : IsFiniteSet(T)
  PROVE  \E T \in F : \A U \in F : U \subseteq T => U = T
<1> DEFINE sizes == {Cardinality(T) : T \in F}
<1>1. sizes \in SUBSET Nat /\ sizes # {}
  BY FS_CardinalityType
<1>2. PICK n \in sizes : \A m \in sizes : n <= m
  BY <1>1, LeastNumber
<1>3. PICK T \in F : Cardinality(T) = n
  BY <1>2
<1>4. ASSUME NEW U \in F, U \subseteq T PROVE U = T
  <2>1. Cardinality(U) <= Cardinality(T) /\ (Cardinality(U) = Cardinality(T) => U = T)
    BY <1>4, FS_Subset
  <2>2. Cardinality(T) <= Cardinality(U) /\ Cardinality(U) \in Nat /\ Cardinality(T) \in Nat
    BY <1>1, <1>2, <1>3
  <2> QED
    BY <2>1, <2>2
<1> QED
  BY <1>4

LEMMA TableAt ==
  ASSUME NEW g, NEW w, NEW T, IsTable(g, w, T), NEW s \in SUBSET T
  PROVE  g[s] = IF s = {} THEN 0 ELSE w[Pick(s)] + g[s \ {Pick(s)}]
BY DEF IsTable

\* Two tables agree where both are defined.
LEMMA TablesAgree ==
  ASSUME NEW w, NEW T, NEW U, NEW g, NEW h, IsTable(g, w, T), IsTable(h, w, U),
         NEW r \in SUBSET T, r \in SUBSET U, IsFiniteSet(r)
  PROVE  g[r] = h[r]
<1> DEFINE F == {s \in SUBSET r : g[s] # h[s]}
<1>1. F = {}
  <2> SUFFICES ASSUME F # {} PROVE FALSE
    OBVIOUS
  <2>1. \A s \in F : IsFiniteSet(s)
    BY FS_Subset
  <2> HIDE DEF F
  <2>2. PICK s \in F : \A u \in F : u \subseteq s => u = s
    BY <2>1, LeastSet
  <2> USE DEF F
  <2>3. s \in SUBSET T /\ s \in SUBSET U
    BY <2>2
  <2>4. g[s] = (IF s = {} THEN 0 ELSE w[Pick(s)] + g[s \ {Pick(s)}])
    BY <2>3, TableAt
  <2>5. h[s] = (IF s = {} THEN 0 ELSE w[Pick(s)] + h[s \ {Pick(s)}])
    BY <2>3, TableAt
  <2>6. s # {} => g[s \ {Pick(s)}] = h[s \ {Pick(s)}]
    BY <2>2, PickIn
  <2> QED
    BY <2>2, <2>4, <2>5, <2>6
<1> QED
  BY <1>1

LEMMA TableThere ==
  ASSUME NEW w, NEW S, IsFiniteSet(S)
  PROVE  IsTable(Table(w, S), w, S)
<1> DEFINE F == {T \in SUBSET S : ~ IsTable(Table(w, T), w, T)}
<1>1. F = {}
  <2> SUFFICES ASSUME F # {} PROVE FALSE
    OBVIOUS
  <2>1. \A T \in F : IsFiniteSet(T)
    BY FS_Subset
  <2> HIDE DEF F
  <2>2. PICK T \in F : \A U \in F : U \subseteq T => U = T
    BY <2>1, LeastSet
  <2>3. T \in SUBSET S /\ IsFiniteSet(T)
    BY <2>1, <2>2 DEF F
  <2>4. \A U \in SUBSET T : U # T => IsTable(Table(w, U), w, U) /\ IsFiniteSet(U)
    BY <2>2, <2>3, FS_Subset DEF F
  <2> DEFINE under(s) == s \ {Pick(s)}
             h == [s \in SUBSET T |->
                     IF s = {} THEN 0 ELSE w[Pick(s)] + Table(w, under(s))[under(s)]]
  <2>5. ASSUME NEW s \in SUBSET T, s # T PROVE h[s] = Table(w, s)[s]
    <3>1. IsTable(Table(w, s), w, s)
      BY <2>4, <2>5
    <3>2. Table(w, s)[s] = IF s = {} THEN 0 ELSE w[Pick(s)] + Table(w, s)[under(s)]
      BY <3>1, TableAt
    <3>3. CASE s = {}
      BY <3>2, <3>3
    <3>4. CASE s # {}
      <4>1. under(s) \in SUBSET T /\ under(s) # T /\ under(s) \in SUBSET s
        BY <3>4, PickIn
      <4>2. IsTable(Table(w, under(s)), w, under(s)) /\ IsFiniteSet(under(s))
        BY <2>4, <4>1
      <4> DEFINE r == under(s)
      <4> HIDE DEF r
      <4>3. Table(w, s)[r] = Table(w, r)[r]
        BY <3>1, <4>1, <4>2, TablesAgree DEF r
      <4> USE DEF r
      <4> QED
        BY <3>2, <3>4, <4>3
    <3> QED
      BY <3>3, <3>4
  <2>6. \A s \in SUBSET T : s # {} => Table(w, under(s))[under(s)] = h[under(s)]
    <3> SUFFICES ASSUME NEW s \in SUBSET T, s # {}
                 PROVE  Table(w, under(s))[under(s)] = h[under(s)]
      OBVIOUS
    <3>1. under(s) \in SUBSET T /\ under(s) # T
      BY PickIn
    <3> HIDE DEF h
    <3> QED
      BY <2>5, <3>1
  <2>7. IsTable(h, w, T)
    <3>1. h = [s \in SUBSET T |-> IF s = {} THEN 0 ELSE w[Pick(s)] + h[s \ {Pick(s)}]]
      <4>1. \A s \in SUBSET T : h[s] = IF s = {} THEN 0 ELSE w[Pick(s)] + h[s \ {Pick(s)}]
        <5>1. \A s \in SUBSET T : h[s] = IF s = {} THEN 0 ELSE w[Pick(s)] + Table(w, under(s))[under(s)]
          OBVIOUS
        <5> HIDE DEF h
        <5> QED
          BY <2>6, <5>1
      <4>2. h = [s \in SUBSET T |-> h[s]]
        OBVIOUS
      <4> HIDE DEF h
      <4> QED
        BY <4>1, <4>2
    <3> QED
      BY <3>1 DEF IsTable
  <2> HIDE DEF h
  <2>8. IsTable(Table(w, T), w, T)
    BY <2>7 DEF Table
  <2> QED
    BY <2>2, <2>8 DEF F
<1> QED
  BY <1>1, FS_Subset

\* Taking the first element away.
LEMMA SumPick ==
  ASSUME NEW w, NEW S, IsFiniteSet(S)
  PROVE  /\ SumFunctionOnSet(w, {}) = 0
         /\ S # {} => SumFunctionOnSet(w, S) = w[Pick(S)] + SumFunctionOnSet(w, S \ {Pick(S)})
<1>1. SumFunctionOnSet(w, {}) = 0
  BY SumIsTable, TableThere, TableAt, FS_EmptySet
<1>2. ASSUME S # {}
      PROVE  SumFunctionOnSet(w, S) = w[Pick(S)] + SumFunctionOnSet(w, S \ {Pick(S)})
  <2> DEFINE R == S \ {Pick(S)}
  <2>1. R \in SUBSET S /\ IsFiniteSet(R)
    BY FS_Subset
  <2>2. IsTable(Table(w, S), w, S) /\ IsTable(Table(w, R), w, R)
    BY <2>1, TableThere
  <2>3. Table(w, S)[S] = w[Pick(S)] + Table(w, S)[R]
    BY <1>2, <2>2, TableAt
  <2> HIDE DEF R
  <2>4. Table(w, S)[R] = Table(w, R)[R]
    BY <2>1, <2>2, TablesAgree
  <2> QED
    BY <2>3, <2>4, SumIsTable DEF R
<1> QED
  BY <1>1, <1>2

LEMMA SumInt ==
  ASSUME NEW w, NEW S, IsFiniteSet(S), \A x \in S : w[x] \in Int
  PROVE  SumFunctionOnSet(w, S) \in Int
<1> DEFINE F == {T \in SUBSET S : SumFunctionOnSet(w, T) \notin Int}
<1>1. F = {}
  <2> SUFFICES ASSUME F # {} PROVE FALSE
    OBVIOUS
  <2>1. \A T \in F : IsFiniteSet(T)
    BY FS_Subset
  <2> HIDE DEF F
  <2>2. PICK T \in F : \A U \in F : U \subseteq T => U = T
    BY <2>1, LeastSet
  <2>3. T \in SUBSET S /\ IsFiniteSet(T)
    BY <2>1, <2>2 DEF F
  <2>4. T # {}
    <3>1. SumFunctionOnSet(w, {}) = 0
      BY <2>3, SumPick
    <3>2. SumFunctionOnSet(w, T) \notin Int
      BY <2>2 DEF F
    <3>3. SumFunctionOnSet(w, {}) \in Int
      BY <3>1
    <3> QED
      BY <3>2, <3>3
  <2> DEFINE x == Pick(T)
             R == T \ {x}
  <2>5. x \in T /\ SumFunctionOnSet(w, T) = w[x] + SumFunctionOnSet(w, R)
    BY <2>3, <2>4, SumPick, PickIn
  <2>6. R \in SUBSET S /\ R \subseteq T /\ R # T
    BY <2>3, <2>5
  <2> HIDE DEF x, R
  <2>7. SumFunctionOnSet(w, R) \in Int /\ w[x] \in Int
    BY <2>2, <2>3, <2>5, <2>6 DEF F
  <2> QED
    BY <2>2, <2>5, <2>7 DEF F
<1> QED
  BY <1>1

\* Taking any element away.
LEMMA SumSplit ==
  ASSUME NEW w, NEW S, IsFiniteSet(S), \A x \in S : w[x] \in Int, NEW e \in S
  PROVE  SumFunctionOnSet(w, S) = w[e] + SumFunctionOnSet(w, S \ {e})
<1> DEFINE sum(T) == SumFunctionOnSet(w, T)
           Splits(T) == \A x \in T : sum(T) = w[x] + sum(T \ {x})
           F == {T \in SUBSET S : ~ Splits(T)}
<1>1. F = {}
  <2> SUFFICES ASSUME F # {} PROVE FALSE
    OBVIOUS
  <2>1. \A T \in F : IsFiniteSet(T)
    BY FS_Subset
  <2> HIDE DEF F
  <2>2. PICK T \in F : \A U \in F : U \subseteq T => U = T
    BY <2>1, LeastSet
  <2>3. T \in SUBSET S /\ IsFiniteSet(T)
    BY <2>1, <2>2 DEF F
  <2>4. \A U \in SUBSET T : IsFiniteSet(U) /\ sum(U) \in Int /\ (U # T => Splits(U))
    <3>1. \A U \in SUBSET T : IsFiniteSet(U) /\ U \in SUBSET S
      BY <2>3, FS_Subset
    <3>2. \A U \in SUBSET T : sum(U) \in Int
      BY <3>1, SumInt
    <3> HIDE DEF sum, Splits
    <3>3. \A U \in SUBSET T : U # T => Splits(U)
      BY <2>2, <3>1 DEF F
    <3> QED
      BY <3>1, <3>2, <3>3
  <2>5. ASSUME NEW x \in T PROVE sum(T) = w[x] + sum(T \ {x})
    <3> DEFINE y == Pick(T)
    <3>1. y \in T /\ sum(T) = w[y] + sum(T \ {y})
      BY <2>3, <2>5, SumPick, PickIn
    <3>2. CASE x = y
      BY <3>1, <3>2
    <3>3. CASE x # y
      <4> HIDE DEF y
      <4>1. T \ {y} \in SUBSET T /\ T \ {y} # T /\ x \in T \ {y}
            /\ T \ {x} \in SUBSET T /\ T \ {x} # T /\ y \in T \ {x}
        BY <2>5, <3>1, <3>3
      <4> HIDE DEF sum
      <4>2. sum(T \ {y}) = w[x] + sum((T \ {y}) \ {x}) /\ sum(T \ {x}) = w[y] + sum((T \ {x}) \ {y})
        BY <2>4, <4>1
      <4>3. (T \ {y}) \ {x} = (T \ {x}) \ {y} /\ (T \ {x}) \ {y} \in SUBSET T
        OBVIOUS
      <4>4. w[x] \in Int /\ w[y] \in Int /\ sum((T \ {x}) \ {y}) \in Int
        BY <2>3, <2>4, <2>5, <3>1, <4>3
      <4> DEFINE rest == sum((T \ {x}) \ {y})
      <4>5. sum(T \ {y}) = w[x] + rest /\ sum(T \ {x}) = w[y] + rest
        BY <4>2, <4>3
      <4>6. sum(T) = w[y] + (w[x] + rest)
        BY <3>1, <4>5
      <4>7. w[y] + (w[x] + rest) = w[x] + (w[y] + rest)
        <5> HIDE DEF rest
        <5>1. rest \in Int
          BY <4>4 DEF rest
        <5> QED
          BY <4>4, <5>1
      <4> QED
        BY <4>5, <4>6, <4>7
    <3> QED
      BY <3>2, <3>3
  <2> HIDE DEF sum
  <2> QED
    BY <2>2, <2>5 DEF F
<1> HIDE DEF sum
<1>2. Splits(S)
  BY <1>1
<1> QED
  BY <1>2 DEF sum

\* What is nothing adds nothing.
LEMMA SumSupport ==
  ASSUME NEW w, NEW S, IsFiniteSet(S), \A x \in S : w[x] \in Int,
         NEW R \in SUBSET S, \A x \in S \ R : w[x] = 0
  PROVE  SumFunctionOnSet(w, S) = SumFunctionOnSet(w, R)
<1> DEFINE sum(T) == SumFunctionOnSet(w, T)
           F == {T \in SUBSET S : sum(T) # sum(T \cap R)}
<1>1. F = {}
  <2> SUFFICES ASSUME F # {} PROVE FALSE
    OBVIOUS
  <2>1. \A T \in F : IsFiniteSet(T)
    BY FS_Subset
  <2> HIDE DEF F
  <2>2. PICK T \in F : \A U \in F : U \subseteq T => U = T
    BY <2>1, LeastSet
  <2>3. T \in SUBSET S /\ IsFiniteSet(T) /\ IsFiniteSet(T \cap R) /\ sum(T) # sum(T \cap R)
    BY <2>1, <2>2, FS_Subset DEF F
  <2>4. PICK x \in T : TRUE
    <3>1. T # {}
      BY <2>3
    <3> QED
      BY <3>1
  <2>5. sum(T) = w[x] + sum(T \ {x})
    BY <2>3, <2>4, SumSplit
  <2>6. sum(T \ {x}) = sum((T \ {x}) \cap R)
    BY <2>2, <2>3, <2>4 DEF F
  <2>7. CASE x \in R
    <3>1. sum(T \cap R) = w[x] + sum((T \cap R) \ {x})
      BY <2>3, <2>4, <2>7, SumSplit
    <3>2. (T \ {x}) \cap R = (T \cap R) \ {x}
      OBVIOUS
    <3> HIDE DEF sum
    <3> QED
      BY <2>3, <2>5, <2>6, <3>1, <3>2
  <2>8. CASE x \notin R
    <3>1. w[x] = 0 /\ (T \ {x}) \cap R = T \cap R
      BY <2>3, <2>4, <2>8
    <3>2. sum(T \ {x}) \in Int
      BY <2>3, SumInt, FS_Subset
    <3> HIDE DEF sum
    <3>3. sum(T) = sum(T \ {x})
      BY <2>5, <3>1, <3>2
    <3> QED
      BY <2>3, <2>6, <3>1, <3>3
  <2> QED
    BY <2>7, <2>8
<1>2. S \cap R = R
  OBVIOUS
<1> HIDE DEF sum
<1>3. sum(S) = sum(S \cap R)
  BY <1>1
<1> QED
  BY <1>2, <1>3 DEF sum

LEMMA Distributes ==
  ASSUME NEW a \in Int, NEW b \in Int, NEW c \in Int
  PROVE  a * (b + c) = a * b + a * c
OBVIOUS

\* One factor for all.
LEMMA SumScaled ==
  ASSUME NEW w, NEW v, NEW S, IsFiniteSet(S), NEW a \in Int,
         \A x \in S : w[x] \in Int /\ v[x] = a * w[x]
  PROVE  SumFunctionOnSet(v, S) = a * SumFunctionOnSet(w, S)
<1> DEFINE F == {T \in SUBSET S : SumFunctionOnSet(v, T) # a * SumFunctionOnSet(w, T)}
<1>1. F = {}
  <2> SUFFICES ASSUME F # {} PROVE FALSE
    OBVIOUS
  <2>1. \A T \in F : IsFiniteSet(T)
    BY FS_Subset
  <2> HIDE DEF F
  <2>2. PICK T \in F : \A U \in F : U \subseteq T => U = T
    BY <2>1, LeastSet
  <2> DEFINE x == Pick(T)
             R == T \ {x}
  <2>3. T \in SUBSET S /\ IsFiniteSet(T)
    BY <2>1, <2>2 DEF F
  <2>4. T # {}
    <3>1. SumFunctionOnSet(v, {}) = 0 /\ SumFunctionOnSet(w, {}) = 0
      BY <2>3, SumPick
    <3>2. SumFunctionOnSet(v, {}) = a * SumFunctionOnSet(w, {})
      BY <3>1
    <3> QED
      BY <2>2, <3>2 DEF F
  <2>5. x \in T /\ SumFunctionOnSet(v, T) = v[x] + SumFunctionOnSet(v, R)
        /\ SumFunctionOnSet(w, T) = w[x] + SumFunctionOnSet(w, R)
    BY <2>3, <2>4, SumPick, PickIn
  <2>6. SumFunctionOnSet(w, R) \in Int
    BY <2>3, SumInt, FS_Subset
  <2>7. SumFunctionOnSet(v, R) = a * SumFunctionOnSet(w, R)
    BY <2>2, <2>3, <2>5 DEF F
  <2>8. w[x] \in Int /\ v[x] = a * w[x]
    BY <2>3, <2>5
  <2> HIDE DEF x, R
  <2> QED
    BY <2>2, <2>5, <2>6, <2>7, <2>8, Distributes DEF F
<1> QED
  BY <1>1

\* Each a little off, and all together as many times.
LEMMA SumNear ==
  ASSUME NEW w, NEW v, NEW S, IsFiniteSet(S), NEW a \in Nat, NEW b \in Nat,
         \A x \in S : w[x] \in Int /\ v[x] \in Int /\ -b <= a * w[x] - v[x] /\ a * w[x] - v[x] <= b
  PROVE  LET off == a * SumFunctionOnSet(w, S) - SumFunctionOnSet(v, S)
         IN  -(b * Cardinality(S)) <= off /\ off <= b * Cardinality(S)
<1> DEFINE Off(T) == a * SumFunctionOnSet(w, T) - SumFunctionOnSet(v, T)
           Near(T) == -(b * Cardinality(T)) <= Off(T) /\ Off(T) <= b * Cardinality(T)
           F == {T \in SUBSET S : ~ Near(T)}
<1>1. F = {}
  <2> SUFFICES ASSUME F # {} PROVE FALSE
    OBVIOUS
  <2>1. \A T \in F : IsFiniteSet(T)
    BY FS_Subset
  <2> HIDE DEF F
  <2>2. PICK T \in F : \A U \in F : U \subseteq T => U = T
    BY <2>1, LeastSet
  <2> DEFINE x == Pick(T)
             R == T \ {x}
             p == SumFunctionOnSet(w, R)
             q == SumFunctionOnSet(v, R)
             n == Cardinality(R)
  <2>3. T \in SUBSET S /\ IsFiniteSet(T)
    BY <2>1, <2>2 DEF F
  <2>4. T # {}
    <3>1. SumFunctionOnSet(v, {}) = 0 /\ SumFunctionOnSet(w, {}) = 0 /\ Cardinality({}) = 0
      BY <2>3, SumPick, FS_EmptySet
    <3>2. Off({}) = 0 /\ b * Cardinality({}) = 0
      BY <3>1
    <3>3. Near({})
      BY <3>2
    <3> QED
      BY <2>2, <3>3 DEF F
  <2>5. x \in T /\ SumFunctionOnSet(v, T) = v[x] + q /\ SumFunctionOnSet(w, T) = w[x] + p
    BY <2>3, <2>4, SumPick, PickIn
  <2>6. p \in Int /\ q \in Int
    BY <2>3, SumInt, FS_Subset
  <2>7. R \in SUBSET T /\ R # T /\ IsFiniteSet(R) /\ Cardinality(T) = n + 1 /\ n \in Nat
    <3>1. R \in SUBSET T /\ R # T /\ x \in T
      BY <2>5
    <3>2. IsFiniteSet(R) /\ n = Cardinality(T) - 1
      BY <2>3, <3>1, FS_RemoveElement
    <3>3. n \in Nat /\ Cardinality(T) \in Nat
      BY <2>3, <3>2, FS_CardinalityType
    <3> HIDE DEF R, n, x
    <3>4. Cardinality(T) = n + 1
      BY <3>2, <3>3
    <3> QED
      BY <3>1, <3>2, <3>3, <3>4
  <2>8. Near(R)
    <3> HIDE DEF Near, R
    <3> QED
      BY <2>2, <2>3, <2>7 DEF F
  <2>9. w[x] \in Int /\ v[x] \in Int /\ -b <= a * w[x] - v[x] /\ a * w[x] - v[x] <= b
    BY <2>3, <2>5
  <2>10. -(b * n) <= a * p - q /\ a * p - q <= b * n
    BY <2>8
  <2> HIDE DEF x, p, q, n
  <2>11. a * (w[x] + p) = a * w[x] + a * p /\ b * (n + 1) = b * n + b
    BY <2>6, <2>7, <2>9, Distributes
  <2>12. a * w[x] \in Int /\ a * p \in Int /\ b * n \in Int
    BY <2>6, <2>7, <2>9
  <2>13. Off(T) = a * (w[x] + p) - (v[x] + q)
    BY <2>5
  <2> HIDE DEF R
  <2>14. -(b * (n + 1)) <= a * (w[x] + p) - (v[x] + q) /\ a * (w[x] + p) - (v[x] + q) <= b * (n + 1)
    <3> DEFINE aw == a * w[x]
               ap == a * p
               bn == b * n
    <3>1. aw \in Int /\ ap \in Int /\ bn \in Int
      BY <2>12
    <3>2. -b <= aw - v[x] /\ aw - v[x] <= b /\ -bn <= ap - q /\ ap - q <= bn
      BY <2>9, <2>10
    <3>3. a * (w[x] + p) = aw + ap /\ b * (n + 1) = bn + b
      BY <2>11
    <3> HIDE DEF aw, ap, bn
    <3> QED
      BY <2>6, <2>9, <3>1, <3>2, <3>3
  <2>15. Near(T)
    BY <2>7, <2>13, <2>14
  <2> QED
    BY <2>2, <2>15 DEF F
<1> HIDE DEF Near
<1>2. Near(S)
  BY <1>1
<1> QED
  BY <1>2 DEF Near

LEMMA Divides ==
  ASSUME NEW n \in Nat, NEW d \in Nat \ {0}, n % d = 0
  PROVE  n \div d \in Int /\ n = d * (n \div d)
OBVIOUS

\* Rounding down.
LEMMA Division ==
  ASSUME NEW n \in Int, NEW d \in Nat \ {0}
  PROVE  /\ n \div d \in Int
         /\ d * (n \div d) <= n /\ n < d * (n \div d) + d
OBVIOUS

-----------------------------------------------------------------------------
(***************************************************************************)
(* The score of a form.                                                    *)
(***************************************************************************)
LEMMA PointsNat ==
  ASSUME NEW f \in form.fields, NEW column, FormTypeOK
  PROVE  PointsFor(form.points[f], column) \in Nat
<1>1. FormType(form)
  <2>1. form \in Forms
    BY DEF FormTypeOK
  <2> QED
    BY <2>1, FormsAssumption
<1>2. CASE form.points[f] = Nothing
  BY <1>2 DEF PointsFor, IsPer
<1>3. CASE form.points[f] # Nothing /\ IsPer(form.points[f])
  BY <1>1, <1>3 DEF PointsFor, FormType
<1>4. CASE form.points[f] # Nothing /\ ~ IsPer(form.points[f])
  BY <1>1, <1>4 DEF PointsFor, FormType
<1> QED
  BY <1>2, <1>3, <1>4

\* A whole number that is less than one away from none.
LEMMA NoneLeft ==
  ASSUME NEW d \in Nat \ {0}, NEW k \in Int, d * k < d, -d < d * k
  PROVE  k = 0
<1>1. CASE k >= 1
  <2>1. d * k >= d
    BY <1>1
  <2> QED
    BY <2>1
<1>2. CASE k <= -1
  <2>1. d * k <= -d
    BY <1>2
  <2> QED
    BY <2>1
<1> QED
  BY <1>1, <1>2

\* To the nearest whole number, a half up.
LEMMA RoundNear ==
  ASSUME NEW n \in Int, NEW d \in Nat \ {0}
  PROVE  /\ Round(n, d) \in Int
         /\ -d <= (2 * d) * Round(n, d) - 2 * n /\ (2 * d) * Round(n, d) - 2 * n <= d
         /\ \A k \in Int : n = d * k => Round(n, d) = k
<1> DEFINE m == 2 * n + d
           e == 2 * d
<1>1. m \in Int /\ e \in Nat \ {0}
  OBVIOUS
<1>2. m \div e \in Int /\ e * (m \div e) <= m /\ m < e * (m \div e) + e
  <2> HIDE DEF m, e
  <2> QED
    BY <1>1, Division
<1>3. PICK q \in Int : q = m \div e
  BY <1>2
<1>4. Round(n, d) = q
  BY <1>3 DEF Round
<1>5. e * q \in Int /\ e * q <= m /\ m < e * q + e
  BY <1>1, <1>2, <1>3
<1>6. -d <= e * q - 2 * n /\ e * q - 2 * n <= d
  <2> DEFINE eq == e * q
  <2>1. eq \in Int /\ eq <= 2 * n + d /\ 2 * n + d < eq + 2 * d
    BY <1>5
  <2> HIDE DEF eq
  <2>2. -d <= eq - 2 * n /\ eq - 2 * n <= d
    BY <2>1
  <2> QED
    BY <2>2 DEF eq
<1>7. ASSUME NEW k \in Int, n = d * k PROVE q = k
  <2> DEFINE j == q - k
             ej == e * j
  <2>1. j \in Int /\ q = k + j
    OBVIOUS
  <2>2. e * q = e * k + ej
    <3> HIDE DEF j, e
    <3> QED
      BY <1>1, <2>1, Distributes
  <2>3. e * k = 2 * n /\ ej \in Int
    BY <1>1, <1>7, <2>1
  <2>4. ej < e /\ -e < ej
    <3> DEFINE eq == e * q
    <3>1. eq = 2 * n + ej /\ -d <= eq - 2 * n /\ eq - 2 * n <= d
      BY <1>6, <2>2, <2>3
    <3> HIDE DEF eq, ej
    <3> QED
      BY <2>3, <3>1
  <2>5. j = 0
    <3> HIDE DEF j, e
    <3> QED
      BY <1>1, <2>1, <2>4, NoneLeft
  <2> QED
    BY <2>1, <2>5
<1> QED
  BY <1>4, <1>6, <1>7

\* The highest value of a scale is the one ratings are read against.
LEMMA ScaleTop ==
  ASSUME FormTypeOK, Scaled(form)
  PROVE  /\ ScaleMax(form) \in Nat \ {0} /\ Grain \in Nat \ {0}
         /\ \A v \in form.scale : Clamped(v, ScaleMax(form)) \in Nat
         /\ Clamped(ScaleMax(form), ScaleMax(form)) = ScaleMax(form)
<1> DEFINE S == form.scale
<1>1. S \subseteq Int /\ \E top \in S : \A v \in S : v <= top
  <2>1. FormType(form)
    BY FormsAssumption DEF FormTypeOK
  <2> QED
    BY <2>1 DEF FormType, Scaled
<1>2. Max(S) \in S /\ \A v \in S : v <= Max(S)
  <2>1. \E x \in S : \A y \in S : x >= y
    BY <1>1
  <2>2. Max(S) \in S /\ \A y \in S : Max(S) >= y
    BY <2>1 DEF Max
  <2> QED
    BY <1>1, <2>2
<1>3. ScaleMax(form) = Max(S) /\ Max(S) > 0 /\ Max(S) \in Int
  BY <1>1, <1>2 DEF ScaleMax, Scaled
<1>4. ASSUME NEW v \in S PROVE Clamped(v, Max(S)) = IF v < 0 THEN 0 ELSE v
  <2> DEFINE t == Max(S)
  <2>1. v \in Int /\ t \in Int /\ v <= t
    BY <1>1, <1>2, <1>3
  <2> HIDE DEF t
  <2>2. Min({v, t}) = v
    <3>1. \A x \in {v, t} : (\A y \in {v, t} : x <= y) <=> x = v
      BY <2>1
    <3> QED
      BY <3>1 DEF Min
  <2>3. Max({0, v}) = IF v < 0 THEN 0 ELSE v
    <3>1. \A x \in {0, v} : (\A y \in {0, v} : x >= y) <=> x = (IF v < 0 THEN 0 ELSE v)
      BY <2>1
    <3>2. (IF v < 0 THEN 0 ELSE v) \in {0, v}
      OBVIOUS
    <3> QED
      BY <3>1, <3>2 DEF Max
  <2> QED
    BY <2>2, <2>3 DEF Clamped, t
<1>5. Grain \in Nat \ {0}
  <2>1. Fine * Max(S) \in Nat /\ Fine * Max(S) > 0
    BY <1>3, FineAssumption
  <2> QED
    BY <1>3, <2>1 DEF Grain
<1> QED
  BY <1>1, <1>2, <1>3, <1>4, <1>5

Share(f) == IF form.type[f] = "rating" THEN Clamped(stored[f], ScaleMax(form))
            ELSE ScaleMax(form) * stored[f]

\* What one answer earns: the exact share, to half a hundredth.
LEMMA LineNear ==
  ASSUME FormTypeOK, Scaled(form), NEW f \in Answered(form, stored), NEW column,
         form.type[f] \in Scoreable
  PROVE  LET p     == PointsFor(form.points[f], column)
             line  == Line(form.type[f], stored[f], p, ScaleMax(form))
             exact == 2 * p * Share(f)
         IN  /\ line \in Int /\ exact \in Int
             /\ -Grain <= (2 * Grain) * line - exact /\ (2 * Grain) * line - exact <= Grain
             /\ stored[f] = (IF form.type[f] = "rating" THEN ScaleMax(form) ELSE 1) =>
                   \A k \in Int : p = Fine * k => line = k
<1> DEFINE p == PointsFor(form.points[f], column)
           a == stored[f]
           top == ScaleMax(form)
           c == Clamped(a, top)
<1>1. f \in form.fields /\ a # Nothing
  BY DEF Answered, Scored
<1>2. p \in Nat
  BY <1>1, PointsNat
<1>3. a \in Options(f)
  BY <1>1 DEF FormTypeOK, Sheets
<1>4. /\ top \in Nat \ {0} /\ Grain \in Nat \ {0} /\ Grain = Fine * top
      /\ Clamped(top, top) = top /\ Fine \in Nat \ {0}
  BY ScaleTop, FineAssumption DEF Grain
<1>5. CASE form.type[f] = "rating"
  <2>1. c \in Nat
    BY <1>3, <1>5, ScaleTop DEF Options
  <2>2. Share(f) = c /\ Line(form.type[f], a, p, top) = Round(p * c, Grain)
    BY <1>4, <1>5 DEF Share, Line
  <2> HIDE DEF c, p, a, top
  <2>3. p * c \in Int
    BY <1>2, <2>1
  <2> DEFINE n == p * c
             line == Round(n, Grain)
  <2>4. /\ line \in Int
        /\ -Grain <= (2 * Grain) * line - 2 * n /\ (2 * Grain) * line - 2 * n <= Grain
        /\ \A k \in Int : n = Grain * k => line = k
    <3> HIDE DEF n
    <3>1. n \in Int
      BY <2>3 DEF n
    <3> QED
      BY <1>4, <3>1, RoundNear
  <2>5. 2 * n = 2 * p * c /\ 2 * p * c \in Int
    BY <1>2, <2>1
  <2>6. ASSUME a = top, NEW k \in Int, p = Fine * k PROVE n = Grain * k
    <3>1. c = top
      BY <1>4, <2>6 DEF c
    <3>2. n = (Fine * k) * top
      BY <2>6, <3>1
    <3> QED
      BY <1>4, <3>2
  <2> HIDE DEF n, line
  <2>7. a = top => \A k \in Int : p = Fine * k => line = k
    BY <2>4, <2>6
  <2> QED
    BY <1>5, <2>2, <2>4, <2>5, <2>7 DEF n, line, p, a, top
<1>6. CASE form.type[f] = "boolean"
  <2>1. a \in {0, 1}
    BY <1>3, <1>6 DEF Options
  <2>2. Share(f) = top * a /\ Line(form.type[f], a, p, top) = Round(p * a, Fine)
    BY <1>6 DEF Share, Line
  <2> HIDE DEF p, a, top
  <2> DEFINE n == p * a
             line == Round(n, Fine)
  <2>3. n \in Int
    BY <1>2, <2>1
  <2>4. /\ line \in Int
        /\ -Fine <= (2 * Fine) * line - 2 * n /\ (2 * Fine) * line - 2 * n <= Fine
        /\ \A k \in Int : n = Fine * k => line = k
    <3> HIDE DEF n
    <3> QED
      BY <1>4, <2>3, RoundNear
  <2> DEFINE x == (2 * Fine) * line - 2 * n
  <2>5. /\ 2 * p * (top * a) \in Int
        /\ (2 * Grain) * line - 2 * p * (top * a) = top * x
    <3>1. CASE a = 0
      BY <1>2, <1>4, <2>4, <3>1
    <3>2. CASE a = 1
      BY <1>2, <1>4, <2>4, <3>2
    <3> QED
      BY <2>1, <3>1, <3>2
  <2>6. -Grain <= top * x /\ top * x <= Grain
    <3>1. x \in Int /\ -Fine <= x /\ x <= Fine
      BY <1>4, <2>3, <2>4
    <3> HIDE DEF x
    <3>2. top * x <= top * Fine /\ top * (-Fine) <= top * x
      BY <1>4, <3>1
    <3> QED
      BY <1>4, <3>2
  <2>7. a = 1 => n = p
    BY <1>2
  <2> HIDE DEF n, line, x
  <2>8. a = 1 => \A k \in Int : p = Fine * k => line = k
    BY <2>4, <2>7
  <2> QED
    BY <1>6, <2>2, <2>4, <2>5, <2>6, <2>8 DEF n, line, x, p, a, top
<1> QED
  BY <1>5, <1>6 DEF Scoreable

\* A form that scores has a total, the same in every column.
LEMMA TotalStands ==
  ASSUME FormTypeOK, form.scoring # Nothing, NEW column \in ClassificationsOf(form)
  PROVE  /\ TotalFor(form, column) = form.scoring.maxPoints
         /\ \A f \in Scored(form) : form.type[f] \in Scoreable
<1>1. ScoringValid(form)
  BY DEF FormTypeOK
<1> QED
  BY <1>1 DEF ScoringValid, SumsUp

\* ReviewForm: every form that was accepted scores out of the total it declares,
\* in each of its columns, and to half a hundredth a line, whatever fractions its
\* lines are worth; without fractions of a hundredth, best answers everywhere earn
\* exactly that total (assertScoringValid and scoreResponses, scoring.ts).
THEOREM FormScoresOutOfTotal == FormSpec => []ScoresOutOfTotal
<1>1. FormIInv => ScoresOutOfTotal
  <2> SUFFICES ASSUME FormIInv, state = "submitted", score # Nothing,
                      score.column \in ClassificationsOf(form)
               PROVE  /\ score.available = Round(form.scoring.maxPoints, Fine)
                      /\ 2 * Grain * score.earned - Exact(score.column) \in
                             -(Grain * Cardinality(Scored(form))) .. Grain * Cardinality(Scored(form))
                      /\ BestAnswers /\ WholeHundredths(score.column)
                            => score.earned = score.available
    BY DEF ScoresOutOfTotal
  <2> DEFINE A == Answered(form, stored)
             column == score.column
             points(f) == PointsFor(form.points[f], column)
             exact(f) == 2 * points(f) * Share(f)
             earn(f) == Line(form.type[f], stored[f], points(f), ScaleMax(form))
             w == [f \in A |-> earn(f)]
             v == [f \in A |-> exact(f)]
             u == [f \in form.fields |-> points(f)]
  <2>1. FormTypeOK /\ ScoreOfStored
    BY DEF FormIInv, ScoreStands
  <2>2. /\ form.scoring # Nothing /\ Scaled(form)
        /\ score = ScoreResponses(form, stored, column)
    BY <2>1 DEF ScoreOfStored
  <2>3. /\ TotalFor(form, column) = form.scoring.maxPoints
        /\ \A f \in Scored(form) : form.type[f] \in Scoreable
    BY <2>1, <2>2, TotalStands
  <2>4. /\ TotalFor(form, column) = SumFunctionOnSet(u, form.fields)
        /\ score.earned = SumFunctionOnSet(w, A)
        /\ score.available = Round(TotalFor(form, column), Fine)
        /\ Exact(column) = SumFunctionOnSet(v, A)
    <3>1. score.earned = SumFunctionOnSet(w, A)
      BY <2>2 DEF ScoreResponses, SumFunction
    <3>2. score.available = Round(TotalFor(form, column), Fine)
      BY <2>2 DEF ScoreResponses
    <3> QED
      BY <3>1, <3>2 DEF TotalFor, Exact, SumFunction, Share
  <2>5. IsFiniteSet(form.fields) /\ A \subseteq Scored(form) /\ Scored(form) \subseteq form.fields
    <3>1. form \in Forms
      BY <2>1 DEF FormTypeOK
    <3> QED
      BY <3>1, FormsAssumption DEF FormType, Answered, Scored
  <2>6. /\ IsFiniteSet(A) /\ IsFiniteSet(Scored(form))
        /\ Cardinality(A) \in Nat /\ Cardinality(Scored(form)) \in Nat
        /\ Cardinality(A) <= Cardinality(Scored(form))
    <3> HIDE DEF A
    <3> QED
      BY <2>5, FS_Subset, FS_CardinalityType
  <2>7. \A f \in A : /\ earn(f) \in Int /\ exact(f) \in Int
                     /\ -Grain <= (2 * Grain) * earn(f) - exact(f)
                     /\ (2 * Grain) * earn(f) - exact(f) <= Grain
                     /\ stored[f] = (IF form.type[f] = "rating" THEN ScaleMax(form) ELSE 1)
                           => \A k \in Int : points(f) = Fine * k => earn(f) = k
    <3> HIDE DEF column
    <3> QED
      BY <2>1, <2>2, <2>3, <2>5, LineNear
  <2>8. \A f \in form.fields : points(f) \in Nat /\ u[f] = points(f)
    BY <2>1, PointsNat
  <2>9. \A f \in A : w[f] = earn(f) /\ v[f] = exact(f)
    OBVIOUS
  <2>10. Grain \in Nat /\ 2 * Grain \in Nat /\ ScaleMax(form) \in Nat \ {0} /\ Fine \in Nat \ {0}
    BY <2>1, <2>2, ScaleTop, FineAssumption
  <2>11. score.available = Round(form.scoring.maxPoints, Fine)
    BY <2>3, <2>4
  <2> HIDE DEF w, v, u, earn, exact, points, column, A
  <2>12. 2 * Grain * score.earned - Exact(column) \in
            -(Grain * Cardinality(Scored(form))) .. Grain * Cardinality(Scored(form))
    <3> DEFINE off == (2 * Grain) * SumFunctionOnSet(w, A) - SumFunctionOnSet(v, A)
               few == Grain * Cardinality(A)
               all == Grain * Cardinality(Scored(form))
    <3>1. -few <= off /\ off <= few
      <4>1. \A f \in A : w[f] \in Int /\ v[f] \in Int
                         /\ -Grain <= (2 * Grain) * w[f] - v[f] /\ (2 * Grain) * w[f] - v[f] <= Grain
        BY <2>7, <2>9
      <4> QED
        BY <2>6, <2>10, <4>1, SumNear
    <3>2. SumFunctionOnSet(w, A) \in Int /\ SumFunctionOnSet(v, A) \in Int
      BY <2>6, <2>7, <2>9, SumInt
    <3>3. off \in Int /\ few \in Int /\ all \in Int /\ few <= all
      BY <2>6, <2>10, <3>2
    <3>4. off = 2 * Grain * score.earned - Exact(column)
      BY <2>4
    <3> HIDE DEF off, few
    <3>5. -all <= off /\ off <= all
      <4> HIDE DEF all
      <4> QED
        BY <3>1, <3>3
    <3> QED
      BY <3>3, <3>4, <3>5
  <2>13. ASSUME BestAnswers, WholeHundredths(column)
         PROVE  score.earned = score.available
    <3>1. A = Scored(form)
      <4>1. \A f \in Scored(form) : stored[f] # Nothing
        BY <2>10, <2>13, NothingAssumption DEF BestAnswers
      <4> QED
        BY <4>1 DEF A, Answered
    <3>2. \A f \in A : u[f] \in Int /\ w[f] \in Int /\ u[f] = Fine * w[f]
      <4> TAKE f \in A
      <4>1. points(f) % Fine = 0 /\ points(f) \in Nat /\ f \in form.fields
        BY <2>5, <2>8, <2>13, <3>1 DEF WholeHundredths, points
      <4>2. points(f) \div Fine \in Int /\ points(f) = Fine * (points(f) \div Fine)
        BY <2>10, <4>1, Divides
      <4>3. earn(f) = points(f) \div Fine
        BY <2>7, <2>13, <3>1, <4>2 DEF BestAnswers
      <4> QED
        <5>1. w[f] = points(f) \div Fine /\ u[f] = points(f)
          BY <2>8, <2>9, <4>1, <4>3
        <5> QED
          BY <4>1, <4>2, <5>1
    <3>3. \A f \in form.fields \ A : u[f] = 0
      <4>1. \A f \in form.fields \ A : form.points[f] = Nothing
        BY <3>1 DEF Scored
      <4>2. PointsFor(Nothing, column) = 0
        BY DEF PointsFor, IsPer
      <4> QED
        BY <2>8, <4>1, <4>2 DEF points
    <3>4. SumFunctionOnSet(u, A) = Fine * SumFunctionOnSet(w, A)
      <4>1. \A f \in A : w[f] \in Int /\ u[f] = Fine * w[f]
        BY <3>2
      <4> QED
        BY <2>6, <2>10, <4>1, SumScaled
    <3>5. SumFunctionOnSet(u, form.fields) = SumFunctionOnSet(u, A)
      <4>1. \A f \in form.fields : u[f] \in Int
        BY <2>8
      <4> QED
        BY <2>5, <3>3, <4>1, SumSupport
    <3>6. SumFunctionOnSet(w, A) \in Int
      BY <2>6, <3>2, SumInt
    <3>7. Round(TotalFor(form, column), Fine) = SumFunctionOnSet(w, A)
      <4> DEFINE n == TotalFor(form, column)
                 k == SumFunctionOnSet(w, A)
      <4>1. n = Fine * k /\ k \in Int
        BY <2>4, <3>4, <3>5, <3>6
      <4> HIDE DEF n, k
      <4>2. n \in Int
        BY <2>10, <4>1
      <4>3. Round(n, Fine) = k
        BY <2>10, <4>1, <4>2, RoundNear
      <4> QED
        BY <4>3 DEF n, k
    <3> QED
      BY <2>4, <3>7
  <2> QED
    BY <2>11, <2>12, <2>13 DEF column
<1> QED
  BY <1>1, FormInvariant, PTL
=============================================================================
