------------------------------ MODULE MCSignIn ------------------------------
(* SignIn for TLC: two accounts with the same email claim. *)
EXTENDS SignIn, TLC

CONSTANTS m1, u, v, me, reports

Claims == [w \in Subjects |-> m1]

\* One has a page that asks two questions, or each has a page with one.
TwoOfOne == u :> {me, reports} @@ v :> {me}
OneOfEach == [w \in Subjects |-> {me}]
=============================================================================
