----------------------------- MODULE Lifecycle ------------------------------
(***************************************************************************)
(* The life of a plan as its state machines state it: the triggers of an   *)
(* improvement plan (0011) and of a development plan (0023) allow the same *)
(* moves.  A plan is drafted, started and then ends once, one way.  The    *)
(* detailed modules move a plan by transactions that overlap and may be    *)
(* lost; each of them implements this one.                                 *)
(***************************************************************************)
CONSTANT Plans

VARIABLE state

States == {"absent", "draft", "active", "completed", "cancelled"}

\* v_allowed of both triggers, and the INSERT that makes a draft.
Follows == [absent    |-> {"draft"},
            draft     |-> {"active", "cancelled"},
            active    |-> {"completed", "cancelled"},
            completed |-> {},
            cancelled |-> {}]

Init == state \in [Plans -> {"absent", "draft", "active"}]

Moves(p, new) == /\ new \in Follows[state[p]]
                 /\ state' = [state EXCEPT ![p] = new]

Next == \E p \in Plans, new \in States : Moves(p, new)

Spec == Init /\ [][Next]_state
=============================================================================
