------------------------------ MODULE MCRoles -------------------------------
(* Roles for TLC: people and hands are interchangeable. *)
EXTENDS Roles, FiniteSets, TLC

Symmetry == Permutations(People) \cup Permutations(Hands)

\* Two operators run commands together in an organisation of two that has no
\* hr_admin.  Otherwise there is one operator.
TwoInPairs ==
    LET rows      == held' \cup UNION {cmd'[h].put : h \in Hands}
        operators == Running' \cup {a.by : a \in rows}
    IN  Cardinality(operators) > 1 =>
            /\ Cardinality({p \in People : end'[p] # 0}) <= 2
            /\ \A a \in rows : a.role \in Derived
=============================================================================
