------------------------------ MODULE MCOutbox ------------------------------
(* Outbox on bad days and on good ones, for TLC.  On a good day, chosen     *)
(* once, nothing external fails: the relay takes every message that has an  *)
(* address and no process or connection dies, and there are two rows.  On a *)
(* bad day there are one message and its digest, or several messages that   *)
(* carry the key and are sent at once, by one worker at a time.             *)
EXTENDS Outbox, TLC

VARIABLE goodDay

GoodStep == RelayUpNext /\ faults' = faults /\ rows' <= 2

BadStep ==
    /\ Next
    /\ LET addressed == {i \in Ids : state'[i] # "absent" /\ Addressed(i)'}
       IN  \/ Cardinality(addressed) <= 1
           \/ /\ rows' = Cardinality(addressed)
              /\ \A i \in addressed : body'[i].key \in Keys /\ body'[i].mode = "immediate"
              /\ Cardinality({w \in Workers : pc'[w] # "idle"}) <= 1

DaysInit == Init /\ goodDay \in BOOLEAN

DaysSpec ==
    /\ DaysInit
    /\ [][ (IF goodDay THEN GoodStep ELSE BadStep) /\ UNCHANGED goodDay ]_<<vars, goodDay>>
    /\ Fairness

\* With the relay up and no fault, a message queued to be sent at once is
\* sent: no row is left behind by a batch, a flag or a digest pass.
QueuedDelivered ==
    \A i \in Ids :
        (goodDay /\ state[i] = "pending" /\ Addressed(i)) ~> (accepted[i] > 0)
=============================================================================
