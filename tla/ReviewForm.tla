----------------------------- MODULE ReviewForm -----------------------------
(***************************************************************************)
(* The screen on which one reviewer fills in one review                    *)
(* (apps/web/src/pages/ReviewForm.tsx): what is typed, what is sent and    *)
(* what is shown, while calls overtake each other, answers are lost, the   *)
(* screen is left and opened again, and the review is returned.            *)
(*                                                                         *)
(* The server takes a call in one step here (Reviews has its transactions) *)
(* and scores what is submitted (Scoring).  The screen works on a copy of  *)
(* the review in the query cache, which is fetched again after a call has  *)
(* succeeded and when it is older than thirty seconds.                     *)
(***************************************************************************)
EXTENDS Scoring

CONSTANTS
    Forms,    \* forms that HR might publish
    Classifications, \* what a review may be opened with: free text, or Nothing
    Calls,    \* bound: the calls that are made, each once
    MaxTyped  \* bound: the answers that are typed

ASSUME TypedAssumption == MaxTyped \in Nat
ASSUME FormsAssumption == \A f \in Forms : FormType(f)

VARIABLES
    form, classification,  \* what the review was opened with
    stored,    \* form_response
    state,     \* review_instance.state
    score,     \* computed_score and computed_available
    cache,     \* the copy: what was fetched last, or NotFetched
    stale,     \* the copy must be fetched again
    fetch,     \* the query under way: none, asked, or answered with a copy
    screen,    \* "closed" or "open"
    values,    \* the answers on the screen
    dirty,     \* the button reads "Save draft", not "Saved"
    call,      \* call[c]: a save or a submission under way
    \* For the properties.
    typed,     \* how many answers were typed
    crossed,   \* a button was pressed, or an answer typed, while a call was under way
    missed,    \* a call succeeded while an older copy was on its way, or failed half done
    sent       \* the answers of the submission that was carried out last

review == <<form, classification, stored, state, score>>
query  == <<cache, stale, fetch>>
edits  == <<screen, values, dirty>>
ghosts == <<typed, crossed, missed, sent>>
formVars == <<review, query, edits, call, ghosts>>

Options(f) == IF form.type[f] = "rating" THEN form.scale ELSE {0, 1}

\* Answers to the questions of the form; Nothing where there is none.
Sheets == {sheet \in [form.fields -> form.scale \cup {0, 1, Nothing}] :
              \A f \in form.fields : sheet[f] \in Options(f) \cup {Nothing}}

Blank == [f \in form.fields |-> Nothing]

\* What GET /reviews/:id answers.
Copy == [state : {"not_started", "in_progress", "submitted", "returned"}, responses : Sheets]
NotFetched == [state |-> "unknown"]
NoFetch    == [at |-> "none"]
Asked      == [at |-> "asked"]

\* `mine`: the screen that made the call is still there.
Free == [at |-> "free"]
Over == [at |-> "over"]
CallType ==
    {Free, Over} \cup [at : {"patch", "patched", "post", "posted", "refused", "denied"},
                 submits : BOOLEAN, mine : BOOLEAN, body : Sheets]

\* Every variable holds values of its kind.
FormTypeOK ==
    /\ form \in Forms /\ ScoringValid(form)
    /\ stored \in Sheets /\ values \in Sheets /\ sent \in Sheets
    /\ state \in {"not_started", "in_progress", "submitted", "returned"}
    /\ cache \in Copy \cup {NotFetched}
    /\ fetch \in {NoFetch, Asked} \cup [at : {"served"}, copy : Copy]
    /\ screen \in {"closed", "open"}
    /\ <<stale, dirty, crossed, missed>> \in BOOLEAN \X BOOLEAN \X BOOLEAN \X BOOLEAN
    /\ call \in [Calls -> CallType]
    /\ typed \in 0..MaxTyped

Busy == {c \in Calls : call[c] \notin {Free, Over}}

Crosses == crossed' = (crossed \/ Busy # {})

-----------------------------------------------------------------------------
(***************************************************************************)
(* The query.                                                              *)
(***************************************************************************)

\* Mutant: the copy is left as it is.
InvalidateNever == UNCHANGED <<stale, fetch>>

\* What success of a call does to the copy: an open screen asks again, and gives
\* up the query that is under way; a closed one waits until it is opened.
Invalidate ==
    /\ stale' = TRUE
    /\ fetch' = IF screen = "open" THEN Asked ELSE fetch

ServeFetch ==
    /\ fetch = Asked
    /\ fetch' = [at |-> "served", copy |-> [state |-> state, responses |-> stored]]
    /\ UNCHANGED <<review, cache, stale, edits, call, ghosts>>

\* A copy that differs from the one before replaces what is on the screen,
\* whatever was typed.
Fetched ==
    /\ fetch.at = "served"
    /\ cache' = fetch.copy
    /\ values' = IF screen = "open" /\ fetch.copy # cache THEN fetch.copy.responses ELSE values
    /\ fetch' = NoFetch
    /\ stale' = FALSE
    /\ UNCHANGED <<review, screen, dirty, call, ghosts>>

\* The screen is opened: on the copy, if there is one.  A copy that is old is
\* fetched again.
Open ==
    /\ screen = "closed"
    /\ screen' = "open"
    /\ values' = IF cache = NotFetched THEN Blank ELSE cache.responses
    /\ dirty' = FALSE
    /\ \/ fetch' = IF fetch = NoFetch THEN Asked ELSE fetch
       \/ cache # NotFetched /\ ~stale /\ UNCHANGED fetch
    /\ UNCHANGED <<review, cache, stale, call, ghosts>>

\* The network is back, and the copy is old.
Reconnect ==
    /\ screen = "open"
    /\ fetch = NoFetch
    /\ fetch' = Asked
    /\ UNCHANGED <<review, cache, stale, edits, call, ghosts>>

-----------------------------------------------------------------------------
(***************************************************************************)
(* What the reviewer does.  Typing is not disabled by a call; a button is  *)
(* by a call of its own kind.                                              *)
(***************************************************************************)
MayEdit == screen = "open" /\ cache # NotFetched /\ cache.state # "submitted"

Type(f, v) ==
    /\ MayEdit
    /\ typed < MaxTyped
    /\ v # values[f]
    /\ values' = [values EXCEPT ![f] = v]
    /\ dirty' = TRUE
    /\ typed' = typed + 1
    /\ Crosses
    /\ UNCHANGED <<review, query, screen, call, missed, sent>>

Abandoned(k) == IF k \in {Free, Over} THEN k ELSE [k EXCEPT !.mine = FALSE]

Leave ==
    /\ screen = "open"
    /\ screen' = "closed"
    /\ call' = [c \in Calls |-> Abandoned(call[c])]
    /\ UNCHANGED <<review, query, values, dirty, ghosts>>

Pending(submits) == \E c \in Busy : call[c].mine /\ call[c].submits = submits

\* Both begin with the answers on the screen.
Click(c, submits) ==
    /\ MayEdit
    /\ call[c] = Free
    /\ ~Pending(submits)
    /\ ~submits => dirty
    /\ call' = [call EXCEPT ![c] = [at |-> "patch", submits |-> submits,
                                    mine |-> TRUE, body |-> values]]
    /\ Crosses
    /\ UNCHANGED <<review, query, edits, typed, missed, sent>>

\* HR, or a department head.
Return ==
    /\ state = "submitted"
    /\ state' = "returned"
    /\ sent' = Blank
    /\ UNCHANGED <<form, classification, stored, score, query, edits, call, typed, crossed, missed>>

-----------------------------------------------------------------------------
(***************************************************************************)
(* The calls: PATCH /reviews/:id, and for a submission POST .../submit     *)
(* once that has been answered.                                            *)
(***************************************************************************)
Reaches(c, at) == call' = [call EXCEPT ![c].at = at]

\* saveDraft().  What the call does not answer stays.
ServePatch(c) ==
    /\ call[c].at = "patch"
    /\ IF state = "submitted"
       THEN Reaches(c, "refused") /\ UNCHANGED <<stored, state>>
       ELSE /\ Reaches(c, "patched")
            /\ stored' = [f \in form.fields |->
                            IF call[c].body[f] = Nothing THEN stored[f] ELSE call[c].body[f]]
            /\ state' = IF state = "not_started" THEN "in_progress" ELSE state
    /\ UNCHANGED <<form, classification, score, query, edits, ghosts>>

Passed == missed' = (missed \/ (screen = "closed" /\ fetch # NoFetch))

Saved(c) ==
    /\ call[c].at = "patched"
    /\ ~call[c].submits
    /\ dirty' = (dirty /\ ~call[c].mine)
    /\ Invalidate
    /\ call' = [call EXCEPT ![c] = Over]
    /\ Passed
    /\ UNCHANGED <<review, cache, screen, values, typed, crossed, sent>>

\* Mutant: the submission does not wait for the answers to be saved.
SubmitsAtOnce(c) ==
    /\ call[c].at \in {"patch", "patched"}
    /\ call[c].submits
    /\ Reaches(c, "post")
    /\ UNCHANGED <<review, query, edits, ghosts>>

Submits(c) ==
    /\ call[c].at = "patched"
    /\ call[c].submits
    /\ Reaches(c, "post")
    /\ UNCHANGED <<review, query, edits, ghosts>>

Complete == \A f \in form.required : stored[f] # Nothing

\* submit().  A score above what is available is refused by a CHECK.  The
\* classification stays only where it has chosen a column.
Submitted == ScoreOf(form, stored, classification)
Recordable == Submitted = Nothing \/ Submitted.earned <= Submitted.available

ServePost(c) ==
    /\ call[c].at = "post"
    /\ IF Complete /\ Recordable
       THEN /\ Reaches(c, "posted")
            /\ state' = "submitted"
            /\ score' = Submitted
            /\ classification' = IF Submitted = Nothing \/ Plain(form) THEN Nothing
                                 ELSE classification
            /\ sent' = call[c].body
       ELSE Reaches(c, "denied") /\ UNCHANGED <<classification, state, score, sent>>
    /\ UNCHANGED <<form, stored, query, edits, typed, crossed, missed>>

\* The copy is asked for again, and the screen gives way to the list.
Posted(c) ==
    /\ call[c].at = "posted"
    /\ Invalidate
    /\ screen' = "closed"
    /\ call' = [o \in Calls |-> IF o = c THEN Over ELSE Abandoned(call[o])]
    /\ Passed
    /\ UNCHANGED <<review, cache, values, dirty, typed, crossed, sent>>

\* The call is refused, or it or its answer is lost: the screen shows an error.
Failed(c) ==
    /\ c \in Busy
    /\ missed' = (missed \/ call[c].at \in {"patched", "post", "posted", "denied"})
    /\ call' = [call EXCEPT ![c] = Over]
    /\ UNCHANGED <<review, query, edits, typed, crossed, sent>>

-----------------------------------------------------------------------------
FormInit ==
    /\ form \in {f \in Forms : ScoringValid(f)}
    /\ classification \in Classifications
    /\ stored = Blank /\ values = Blank /\ sent = Blank
    /\ state = "not_started"
    /\ score = Nothing
    /\ cache = NotFetched
    /\ fetch = NoFetch
    /\ screen = "closed"
    /\ stale = FALSE /\ dirty = FALSE
    /\ call = [c \in Calls |-> Free]
    /\ typed = 0 /\ crossed = FALSE /\ missed = FALSE

CallStep(c) == \/ \E submits \in BOOLEAN : Click(c, submits)
               \/ ServePatch(c) \/ Saved(c) \/ Submits(c)
               \/ ServePost(c) \/ Posted(c) \/ Failed(c)

FormNext ==
        \/ Open \/ Leave \/ Reconnect \/ ServeFetch \/ Fetched \/ Return
        \/ \E f \in form.fields : \E v \in Options(f) : Type(f, v)
        \/ \E c \in Calls : CallStep(c)

FormSpec == FormInit /\ [][FormNext]_formVars

-----------------------------------------------------------------------------
(***************************************************************************)
(* Properties.                                                             *)
(***************************************************************************)

\* The score on record is that of the stored answers, and there is one for every
\* form of one column that is scored and has a scale.
ScoreOfStored ==
    \/ score = Nothing /\ (form.scoring = Nothing \/ ~Scaled(form) \/ ~Plain(form))
    \/ /\ form.scoring # Nothing /\ Scaled(form)
       /\ score = ScoreResponses(form, stored, score.column)

\* What is submitted and scored has every answer that was on the screen when the
\* button was pressed ("Save first", ReviewForm.tsx:82), unless another call was
\* under way.
ScoredAsShown ==
    state = "submitted" /\ ~crossed =>
        /\ \A f \in form.fields : sent[f] \in {Nothing, stored[f]}
        /\ ScoreOfStored

\* When nothing is under way, and no calls were crossed or missed a copy, a screen
\* that reads "Saved" shows what is stored.
SavedMeansStored ==
    /\ screen = "open" /\ ~dirty
    /\ fetch = NoFetch /\ Busy = {} /\ ~crossed /\ ~missed
    => values = stored

\* The unit in which a line of the form is exact: halves of it are rounded up.
Grain == Fine * ScaleMax(form)

\* The exact score in hundredths, times twice the grain.
Exact(column) ==
    SumFunction([f \in Answered(form, stored) |->
                    2 * PointsFor(form.points[f], column)
                      * (IF form.type[f] = "rating" THEN Clamped(stored[f], ScaleMax(form))
                         ELSE ScaleMax(form) * stored[f])])

BestAnswers ==
    \A f \in Scored(form) : stored[f] = IF form.type[f] = "rating" THEN ScaleMax(form) ELSE 1

\* No line of the column is worth a fraction of a hundredth.
WholeHundredths(column) ==
    \A f \in Scored(form) : PointsFor(form.points[f], column) % Fine = 0

\* Every form that was accepted scores out of the total it declares, in each of
\* its columns, and to half a hundredth a line; where no line is worth a fraction
\* of a hundredth, best answers everywhere earn exactly that total.  A review
\* opened with a classification the form does not know is not meant: it gets the
\* points that are the same for everybody, and perhaps none.
ScoresOutOfTotal ==
    state = "submitted" /\ score # Nothing /\ score.column \in ClassificationsOf(form) =>
        /\ score.available = Round(form.scoring.maxPoints, Fine)
        /\ 2 * Grain * score.earned - Exact(score.column) \in
               -(Grain * Cardinality(Scored(form))) .. Grain * Cardinality(Scored(form))
        /\ BestAnswers /\ WholeHundredths(score.column) => score.earned = score.available

-----------------------------------------------------------------------------
(***************************************************************************)
(* What comments and the screen say, and the code does not do.             *)
(***************************************************************************)

\* "Save first: submitting silently discards unsaved edits otherwise"
\* (ReviewForm.tsx:82).  A draft that was being saved overtakes the submission,
\* and is submitted in its place.
SubmittedAsClicked ==
    state = "submitted" => \A f \in form.fields : sent[f] \in {Nothing, stored[f]}

\* The button reads "Saved" (ReviewForm.tsx:246) when nothing is under way.  What
\* was typed while a draft was being saved is not stored.
SavedLabel ==
    screen = "open" /\ ~dirty /\ fetch = NoFetch /\ Busy = {} => values = stored

\* "a form whose lines were left blank has a lower available than its template's
\* declared maximum" (0031_computed_scores.sql:36).  Every line counts.
BlankLowersAvailable ==
    state = "submitted" /\ score # Nothing /\ (\E f \in Scored(form) : stored[f] = Nothing)
        => score.available < Round(form.scoring.maxPoints, Fine)

\* "A form that cannot produce a correct score should never be publishable"
\* (scoring.ts:35).  Lines of 0.334 each round down: best answers earn 0.66 of
\* the 0.67 that is available.
BestEarnTotal ==
    state = "submitted" /\ score # Nothing /\ score.column \in ClassificationsOf(form)
        /\ BestAnswers => score.earned = score.available

\* "the arithmetic cannot produce this" (form-scoring-http.spec.ts:213).  Lines of
\* 0.335 and 0.665 round up to 1.01 out of 1.00, and the review cannot be submitted.
WithinAvailable ==
    \A c \in Calls : call[c].at = "post" => Recordable

\* "Which point column was used" (0031_computed_scores.sql:35).  A classification
\* the form does not know is accepted: the review is scored 0 out of 0.
ScoredByColumn ==
    state = "submitted" /\ score # Nothing => score.column \in ClassificationsOf(form)
=============================================================================
