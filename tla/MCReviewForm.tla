---------------------------- MODULE MCReviewForm ----------------------------
(* ReviewForm for TLC, with forms that HR might publish: some of them are *)
(* refused. *)
EXTENDS ReviewForm, TLC

\* A rating and a yes or no, with the points they carry in thousandths.
FormOf(rating, boolean, scoring, required) ==
    [fields |-> {"mastery", "licence"}, required |-> required, scale |-> {1, 3},
     type |-> [mastery |-> "rating", licence |-> "boolean"],
     points |-> [mastery |-> rating, licence |-> boolean], scoring |-> scoring]

Of(n) == [flat |-> n]
By(technical, admin) == [per |-> [technical |-> technical, admin |-> admin]]
Totals(n) == [maxPoints |-> n, classifications |-> {}]

MCForms ==
    { FormOf(By(335, 400), By(665, 600), Totals(1000), {"mastery"}),  \* rounds up to 1.01
      FormOf(Of(334), Of(334), Totals(668), {}),                      \* and down to 0.66
      [FormOf(Of(500), Of(500), Totals(1000), {}) EXCEPT !.scale = {}],
      FormOf(By(400, 500), By(600, 400), Totals(1000), {}),           \* a column is short
      FormOf(By(500, 500), By(600, 400), Totals(1000), {}),           \* so is one, or long
      FormOf(Of(500), Nothing, Nothing, {}),                          \* no total
      FormOf(Nothing, Nothing, Totals(1000), {}) }                    \* no points

Symmetry == Permutations(Calls)
=============================================================================
