------------------------------ MODULE Register ------------------------------
(***************************************************************************)
(* What a library of numbered versions promises: the versions of a code    *)
(* are 1, 2, 3, ... without a gap, and once a version is in force exactly  *)
(* one is.  Of most codes the last version is the one in force; a code in  *)
(* Drafted takes on versions that are not in force, and any of its         *)
(* versions may be put in force, an old one too.                           *)
(***************************************************************************)
EXTENDS Naturals

CONSTANTS Codes, Drafted

VARIABLES
    last,  \* last[c]: the number of the last version of c, 0 when there is none
    live   \* live[c]: the versions of c in force

Init == last = [c \in Codes |-> 0] /\ live = [c \in Codes |-> {}]

Publish(c) ==
    /\ c \notin Drafted
    /\ last' = [last EXCEPT ![c] = @ + 1]
    /\ live' = [live EXCEPT ![c] = {last[c] + 1}]

Draft(c) ==
    /\ c \in Drafted
    /\ last' = [last EXCEPT ![c] = @ + 1]
    /\ live' = live

PutInForce(c, v) ==
    /\ c \in Drafted
    /\ live' = [live EXCEPT ![c] = {v}]
    /\ last' = last

Next ==
    \E c \in Codes :
        Publish(c) \/ Draft(c) \/ \E v \in 1..last[c] : PutInForce(c, v)

Spec == Init /\ [][Next]_<<last, live>>
=============================================================================
