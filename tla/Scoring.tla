------------------------------ MODULE Scoring -------------------------------
(***************************************************************************)
(* The arithmetic of a scored review form: apps/api/src/reviews/scoring.ts *)
(* and scoreOf() of reviews.service.ts.                                    *)
(*                                                                         *)
(* A form is a record: its `fields`, the `type` of each, the `required`    *)
(* ones, their `points`, the `scoring` block, and the values of its rating *)
(* `scale` ({}: it has none).  Points are Nothing, one number              *)
(* ([flat |-> n]), or a function from classifications to numbers           *)
(* ([per |-> f]).  The block is Nothing or declares `maxPoints`, perhaps   *)
(* the classifications ({} when it does not).  A boolean answer is 0 or 1. *)
(* Scores are in hundredths, the unit they are rounded to; points, which   *)
(* may be any fraction, are numbers of the Fine-th part of a hundredth.    *)
(***************************************************************************)
EXTENDS Integers, FiniteSetsExt, Functions

CONSTANTS
    Nothing,   \* no points, no scoring block, no classification, no score
    Unnamed,   \* DEFAULT_CLASSIFICATION: the one column of a plain form
    Fine       \* what a hundredth of a point is divided into

ASSUME NothingAssumption == Nothing \notin Int \cup {Unnamed}
ASSUME FineAssumption    == Fine \in Nat \ {0}

Scoreable == {"rating", "boolean"}

IsPer(points) == points # Nothing /\ "per" \in DOMAIN points

PointsFor(points, column) ==
    CASE points = Nothing -> 0
      [] IsPer(points) -> IF column \in DOMAIN points.per THEN points.per[column] ELSE 0
      [] OTHER         -> points.flat

Scored(form) == {f \in form.fields : form.points[f] # Nothing}

\* A number of points is not negative (fieldPoints); a scale has a highest value.
FormType(form) ==
    /\ form.scale \subseteq Int
    /\ form.scale # {} => \E top \in form.scale : \A v \in form.scale : v <= top
    /\ IsFiniteSet(form.fields) /\ form.required \subseteq form.fields
    /\ \A f \in form.fields :
          IF IsPer(form.points[f])
          THEN \A c \in DOMAIN form.points[f].per : form.points[f].per[c] \in Nat
          ELSE form.points[f] = Nothing \/ form.points[f].flat \in Nat

\* Declared ones win over those the fields use.
ClassificationsOf(form) ==
    LET declared == IF form.scoring = Nothing THEN {} ELSE form.scoring.classifications
        used     == UNION {DOMAIN form.points[f].per : f \in {g \in form.fields : IsPer(form.points[g])}}
    IN  CASE declared # {} -> declared
          [] declared = {} /\ used # {} -> used
          [] OTHER -> {Unnamed}

TotalFor(form, column) ==
    SumFunction([f \in form.fields |-> PointsFor(form.points[f], column)])

\* Mutant: the columns are added up together.
SumsUpOnTheWhole(form) ==
    LET columns == ClassificationsOf(form)
    IN  MapThenSumSet(LAMBDA c : TotalFor(form, c), columns)
            = Cardinality(columns) * form.scoring.maxPoints

\* Every column totals what the block declares.
SumsUp(form) ==
    \A c \in ClassificationsOf(form) : TotalFor(form, c) = form.scoring.maxPoints

\* assertScoringValid: a form that is not refused.
ScoringValid(form) ==
    IF Scored(form) = {} THEN form.scoring = Nothing
    ELSE /\ form.scoring # Nothing
         /\ \A f \in Scored(form) :
               /\ form.type[f] \in Scoreable
               /\ IsPer(form.points[f]) => DOMAIN form.points[f].per = ClassificationsOf(form)
         /\ SumsUp(form)

-----------------------------------------------------------------------------
\* n / d to the nearest whole number, a half up.
Round(n, d) == (2 * n + d) \div (2 * d)

Clamped(answer, top) == Max({0, Min({answer, top})})

\* ratingFraction() of the points in hundredths; a boolean earns all or none.
Line(type, answer, points, top) ==
    IF type = "rating" THEN Round(points * Clamped(answer, top), Fine * top)
                       ELSE Round(points * answer, Fine)

\* The value a rating is read against.
ScaleMax(form) == Max(form.scale)

Scaled(form) == form.scale # {} /\ ScaleMax(form) > 0

Answered(form, responses) == {f \in Scored(form) : responses[f] # Nothing}

\* What is not answered earns nothing and counts as available, which is kept in
\* hundredths too (computed_available).
ScoreResponses(form, responses, column) ==
    [earned |->
        SumFunction([f \in Answered(form, responses) |->
                        Line(form.type[f], responses[f], PointsFor(form.points[f], column),
                             ScaleMax(form))]),
     available |-> Round(TotalFor(form, column), Fine),
     column |-> column]

Plain(form) == ClassificationsOf(form) = {Unnamed}

\* scoreOf(): no score without a scale to read ratings against, nor where nobody
\* has said which column to use.
ScoreOf(form, responses, classification) ==
    LET column == IF classification = Nothing /\ Plain(form) THEN Unnamed ELSE classification
    IN  IF form.scoring = Nothing \/ ~Scaled(form) \/ column = Nothing THEN Nothing
        ELSE ScoreResponses(form, responses, column)
=============================================================================
