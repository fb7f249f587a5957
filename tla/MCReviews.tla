----------------------------- MODULE MCReviews ------------------------------
(* Reviews for TLC: supervisors, sessions, answers and ratings are *)
(* interchangeable. *)
EXTENDS Reviews, TLC

Symmetry == Permutations(Supervisors) \cup Permutations(Sessions)
            \cup Permutations(Answers) \cup Permutations(Ratings)

\* Requests run together on the reviews by the employee and one supervisor.
\* Once a second supervisor has a review, one request runs at a time.
OneAtATime ==
    (\E s, t \in Sessions : s # t /\ tx'[s].at # "idle" /\ tx'[t].at # "idle") =>
        \A a, b \in Supervisors :
            instance'[a].state # "absent" /\ instance'[b].state # "absent" => a = b
=============================================================================
