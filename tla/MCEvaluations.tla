--------------------------- MODULE MCEvaluations ----------------------------
(* Evaluations for TLC: requests, scorecards and lines are interchangeable. *)
EXTENDS Evaluations, TLC

Symmetry == Permutations(Sessions) \cup Permutations(Cards) \cup Permutations(Lines)

\* The first person is there to be evaluated, the others to be opened in a
\* batch with the first, before the first evaluation is submitted.
OnlyFirstScored ==
    \A s \in Sessions :
        /\ tx'[s].at \in {"scoring", "submitting"} => tx'[s].of[1] = 1
        /\ tx'[s].next > 1 => \A e \in Evals : e[1] = 1 => ~ Submitted(e)'
=============================================================================
