------------------------------ MODULE MCGoals -------------------------------
(* Goals for TLC: goals, people and sessions are interchangeable.           *)
EXTENDS Goals, TLC

Symmetry == Permutations(Goals) \cup Permutations(People) \cup Permutations(Sessions)

\* A goal of another weight than the full one is there for the check of the
\* weights when a period is locked: its title stays, it has no check-in, and
\* one request at a time works on it.
Small ==
    \A s \in Sessions : tx'[s].row.weight \notin {0, Full} =>
        /\ tx'[s].row.text = 0 /\ tx'[s].kind # "checkin"
        /\ \A t \in Sessions \ {s} : tx'[t].kind = "none"
=============================================================================
