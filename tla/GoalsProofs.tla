---------------------------- MODULE GoalsProofs -----------------------------
(***************************************************************************)
(* What Goals.tla keeps for every number of goals, people and requests.    *)
(*                                                                         *)
(* The argument is about the transactions that are open.  A row that waits *)
(* to be committed was examined against the row it replaces, and that row  *)
(* cannot change meanwhile, because it is locked (Exclusive): so the two   *)
(* still fit together when the commit comes (Follows), however much the    *)
(* period, the gate and the other goals have changed.                      *)
(***************************************************************************)
EXTENDS Goals, TLAPS

Writers == {"edit", "approve", "submit"}

\* What the handlers and the triggers make sure of between the row of a goal
\* and the row that is to replace it.
Follows(old, row) ==
    /\ row.state # "absent"
    /\ row.state = old.state \/ row.state \in Successors(old.state)
    /\ SignaturesFit(row)
    /\ old.hcm # None => row.hcm = old.hcm
    /\ old.state = "pending_hcm" /\ row.state = "active" => row.hcm # None

Announces(messages, row) ==
    \A m \in messages : m.what = "approved" => row.state = "active"

\* What an open transaction that writes a goal has in hand.
Ready(s) ==
    tx[s].kind \in Writers =>
      /\ tx[s].goal \in Goals
      /\ Follows(goal[tx[s].goal], tx[s].row)
      /\ Announces(tx[s].mail, tx[s].row)
      /\ tx[s].saw # "closed"
      /\ tx[s].saw = "locked" => Content(tx[s].row) = Content(goal[tx[s].goal])

\* What the other transactions have in hand.
Pending(s) ==
    /\ tx[s].kind = "notify" => /\ tx[s].goal \in Goals
                                /\ \A m \in tx[s].mail : m.what # "approved"
    /\ tx[s].kind = "checkin" => /\ tx[s].goal \in Goals
                                 /\ actual[tx[s].goal] < MaxActual
                                 /\ tx[s].saw # "closed"

WritersReady == \A s \in Sessions : Ready(s)
OthersReady  == \A s \in Sessions : Pending(s)

\* Row locks: one open transaction per goal, one per target.
Exclusive ==
    \A s, r \in Sessions :
       /\ s # r
       /\ tx[s].goal = tx[r].goal
       => /\ ~(tx[s].kind \in Writers /\ tx[r].kind \in Writers)
          /\ ~(tx[s].kind = "checkin" /\ tx[r].kind = "checkin")

\* A goal that was parked stays beyond the supervisor's desk until it is sent back.
ParkedFits ==
    \A g \in Goals : parked[g] => goal[g].state \notin {"absent", "draft", "pending_approval"}

IInv == /\ TypeOK
        /\ SignaturesFitState /\ GateKept /\ ParkedFits /\ MailTruthful
        /\ WritersReady /\ OthersReady /\ Exclusive

USE DEF Writers

-----------------------------------------------------------------------------
LEMMA InitInv == Init => IInv
  BY WeightsAssumption, BoundsAssumption, NoneAssumption
  DEF Init, IInv, TypeOK, PeriodType, ChangeType, GoalType, ActualType, TxType,
      MailType, ParkedType, SignedType, SignaturesFitState, SignaturesFit,
      GateKept, Released, ParkedFits, MailTruthful, WritersReady, Ready,
      OthersReady, Pending, Exclusive, Absent, Idle, Row, Tx, GoalState,
      PeriodState, Terminal, Content

\* A column that a goal may have keeps its type when signatures are dropped.
LEMMA ClearedType ==
  ASSUME NEW old, NEW row \in Row
  PROVE  /\ Cleared(old, row) \in Row
         /\ Cleared(old, row).state = row.state
         /\ Content(Cleared(old, row)) = Content(row)
  BY DEF Cleared, Row, Content

\* A statement that writes a row which follows the one it replaces keeps the
\* invariant: only the transaction of its session changes.
LEMMA StatementKeeps ==
  ASSUME IInv, NEW s \in Sessions, NEW kind \in Writers, NEW g \in Goals,
         NEW row \in Row, NEW messages \in SUBSET Message,
         Statement(s, kind, g, row, messages),
         Follows(goal[g], Cleared(goal[g], row)),
         Announces(messages, row)
  PROVE  IInv'
<1> DEFINE new == Cleared(goal[g], row)
           t   == [kind |-> kind, goal |-> g, row |-> new,
                   saw |-> period.state, mail |-> messages]
<1>1. /\ new \in Row /\ new.state = row.state /\ Content(new) = Content(row)
  BY ClearedType
<1>2. /\ tx' = [tx EXCEPT ![s] = t]
      /\ UNCHANGED <<period, change, changes, answer, goal, actual, mail, parked, signed>>
      /\ tx[s].kind = "none"
      /\ ~Frozen(g, row)
      /\ Unlocked(g)
  BY DEF Statement, periodVars, goalVars
<1>3. TypeOK
  BY DEF IInv
<1>4. period.state \in PeriodState
  BY <1>3 DEF TypeOK, PeriodType
<1>5. t \in Tx
  BY <1>1, <1>4 DEF Tx
<1>6. TypeOK'
  BY <1>2, <1>3, <1>5 DEF TypeOK, PeriodType, ChangeType, GoalType, ActualType,
     TxType, MailType, ParkedType, SignedType
<1> HIDE DEF new
<1>7. tx'[s] = t /\ \A r \in Sessions \ {s} : tx'[r] = tx[r]
  BY <1>2, <1>3 DEF TypeOK, TxType
<1>8. (SignaturesFitState /\ GateKept /\ ParkedFits /\ MailTruthful)'
  BY <1>2 DEF IInv, SignaturesFitState, GateKept, ParkedFits, MailTruthful
<1>9. WritersReady'
  <2> SUFFICES ASSUME NEW r \in Sessions PROVE Ready(r)'
    BY DEF WritersReady
  <2>1. CASE r = s
    <3>1. Announces(messages, new)
      BY <1>1 DEF Announces
    <3>2. period.state # "closed"
      BY <1>2 DEF Frozen
    <3>3. period.state = "locked" => Content(new) = Content(goal[g])
      BY <1>1, <1>2 DEF Frozen
    <3>4. Follows(goal[g], new)
      BY DEF new
    <3> QED
      BY <2>1, <1>2, <1>7, <3>1, <3>2, <3>3, <3>4 DEF Ready
  <2>2. CASE r # s
    <3>1. Ready(r)
      BY DEF IInv, WritersReady
    <3> QED
      BY <2>2, <1>2, <1>7, <3>1 DEF Ready
  <2> QED BY <2>1, <2>2
<1>10. OthersReady'
  <2> SUFFICES ASSUME NEW r \in Sessions PROVE Pending(r)'
    BY DEF OthersReady
  <2>1. Pending(r)
    BY DEF IInv, OthersReady
  <2> QED
    BY <2>1, <1>2, <1>7 DEF Pending
<1>11. Exclusive'
  BY <1>2, <1>7 DEF IInv, Exclusive, Unlocked, Holds
<1> QED
  BY <1>6, <1>8, <1>9, <1>10, <1>11 DEF IInv

-----------------------------------------------------------------------------
(***************************************************************************)
(* The requests: each writes a row that follows.                           *)
(***************************************************************************)
LEMMA RequestKeeps ==
  ASSUME IInv, NEW s \in Sessions, Request(s)
  PROVE  IInv'
<1>1. TypeOK /\ GoalType /\ SignaturesFitState
  BY DEF IInv, TypeOK
<1>2. \A g \in Goals : goal[g] \in Row /\ SignaturesFit(goal[g])
  BY <1>1 DEF GoalType, SignaturesFitState
<1>3. CASE Create(s)
  <2>1. PICK g \in Goals, e \in People, w \in Weights :
           ~Exists(g) /\ Statement(s, "edit", g, Draft(e, w), {})
    BY <1>3 DEF Create
  <2> DEFINE row == Draft(e, w)
  <2>2. row \in Row
    BY BoundsAssumption DEF Draft, Row, GoalState
  <2>3. Follows(goal[g], Cleared(goal[g], row))
    BY <1>2, <2>1, NoneAssumption
    DEF Follows, Cleared, SignaturesFit, Successors, Exists, Draft
  <2>4. Announces({}, row) /\ {} \in SUBSET Message
    BY DEF Announces
  <2> HIDE DEF row
  <2> QED
    BY <2>1, <2>2, <2>3, <2>4, StatementKeeps DEF row
<1>4. CASE UpdateGoal(s)
  <2>1. PICK g \in Goals, w \in Weights, x \in 0..MaxEdits :
           /\ Exists(g)
           /\ Statement(s, "edit", g, [goal[g] EXCEPT !.weight = w, !.text = x], {})
    BY <1>4 DEF UpdateGoal
  <2> DEFINE row == [goal[g] EXCEPT !.weight = w, !.text = x]
  <2>2. row \in Row
    BY <1>2 DEF Row
  <2>3. Follows(goal[g], Cleared(goal[g], row))
    BY <1>2, <2>1 DEF Follows, Cleared, SignaturesFit, Exists, Row
  <2>4. Announces({}, row) /\ {} \in SUBSET Message
    BY DEF Announces
  <2> HIDE DEF row
  <2> QED
    BY <2>1, <2>2, <2>3, <2>4, StatementKeeps DEF row
<1>5. CASE Submit(s)
  <2>1. PICK g \in Goals :
           /\ Exists(g)
           /\ Statement(s, "submit", g, [goal[g] EXCEPT !.state = "pending_approval"], {})
    BY <1>5 DEF Submit
  <2> DEFINE row == [goal[g] EXCEPT !.state = "pending_approval"]
  <2>2. row \in Row
    BY <1>2 DEF Row, GoalState
  <2>3. Admits(goal[g], row)
    BY <2>1 DEF Statement
  <2>4. Follows(goal[g], Cleared(goal[g], row))
    BY <1>2, <2>1, <2>3
    DEF Follows, Cleared, SignaturesFit, Admits, Successors, Exists, Row, Terminal, GoalState
  <2>5. Announces({}, row) /\ {} \in SUBSET Message
    BY DEF Announces
  <2> HIDE DEF row
  <2> QED
    BY <2>1, <2>2, <2>4, <2>5, StatementKeeps DEF row
<1>6. CASE Approve(s)
  <2> DEFINE Signed(g, a) == [goal[g] EXCEPT !.by = a,
                    !.state = IF period.gate THEN "pending_hcm" ELSE "active"]
             Told(g) == [key |-> "goal-approved", approver |-> goal[g].owner,
                    what |-> IF period.gate THEN "awaiting_hcm" ELSE "approved"]
  <2>1. PICK g \in Goals, a \in People :
           /\ Exists(g)
           /\ a # goal[g].owner
           /\ Statement(s, "approve", g, Signed(g, a), {Told(g)})
    BY <1>6 DEF Approve
  <2> DEFINE row == Signed(g, a)
             messages == {Told(g)}
  <2>2. row \in Row
    BY <1>2 DEF Row, GoalState
  <2>3. Admits(goal[g], row)
    BY <2>1 DEF Statement
  <2>4. Follows(goal[g], Cleared(goal[g], row))
    BY <1>2, <2>1, <2>3, NoneAssumption
    DEF Follows, Cleared, SignaturesFit, Admits, Successors, Exists, Row, Terminal, GoalState
  <2>5. Announces(messages, row) /\ messages \in SUBSET Message
    BY <1>2 DEF Announces, Message, Row
  <2> HIDE DEF row, messages
  <2> QED
    BY <2>1, <2>2, <2>4, <2>5, StatementKeeps DEF row, messages
<1>7. CASE HcmApprove(s)
  <2> DEFINE Told(g) == [key |-> "goal-hcm-approved", what |-> "approved",
                         approver |-> goal[g].owner]
  <2>1. PICK g \in Goals, a \in People :
           /\ goal[g].state = "pending_hcm"
           /\ a # goal[g].owner
           /\ Statement(s, "edit", g,
                [goal[g] EXCEPT !.state = "active", !.hcm = a, !.note = FALSE], {Told(g)})
    BY <1>7 DEF HcmApprove
  <2> DEFINE row == [goal[g] EXCEPT !.state = "active", !.hcm = a, !.note = FALSE]
             messages == {Told(g)}
  <2>2. row \in Row
    BY <1>2 DEF Row, GoalState
  <2>3. Follows(goal[g], Cleared(goal[g], row))
    BY <1>2, <2>1, NoneAssumption
    DEF Follows, Cleared, SignaturesFit, Successors, Row, Terminal, GoalState
  <2>4. Announces(messages, row) /\ messages \in SUBSET Message
    BY <1>2 DEF Announces, Message, Row
  <2> HIDE DEF row, messages
  <2> QED
    BY <2>1, <2>2, <2>3, <2>4, StatementKeeps DEF row, messages
<1>8. CASE HcmRevise(s)
  <2> DEFINE Told == [key |-> "goal-revise", what |-> "revision_requested",
                      approver |-> None]
  <2>1. PICK g \in Goals :
           /\ goal[g].state = "pending_hcm"
           /\ Statement(s, "edit", g, [goal[g] EXCEPT !.state = "draft", !.note = TRUE],
                        {Told})
    BY <1>8 DEF HcmRevise
  <2> DEFINE row == [goal[g] EXCEPT !.state = "draft", !.note = TRUE]
             messages == {Told}
  <2>2. row \in Row
    BY <1>2 DEF Row, GoalState
  <2>3. Follows(goal[g], Cleared(goal[g], row))
    BY <1>2, <2>1, NoneAssumption
    DEF Follows, Cleared, SignaturesFit, Successors, Row, Terminal, GoalState
  <2>4. Announces(messages, row) /\ messages \in SUBSET Message
    BY DEF Announces, Message
  <2> HIDE DEF row, messages
  <2> QED
    BY <2>1, <2>2, <2>3, <2>4, StatementKeeps DEF row, messages
<1>9. CASE Finish(s)
  <2>1. PICK g \in Goals, outcome \in Terminal :
           /\ Exists(g)
           /\ Statement(s, "edit", g, [goal[g] EXCEPT !.state = outcome], {})
    BY <1>9 DEF Finish
  <2> DEFINE row == [goal[g] EXCEPT !.state = outcome]
  <2>2. row \in Row
    BY <1>2 DEF Row, GoalState
  <2>3. Admits(goal[g], row)
    BY <2>1 DEF Statement
  <2>4. Follows(goal[g], Cleared(goal[g], row))
    BY <1>2, <2>1, <2>3
    DEF Follows, Cleared, SignaturesFit, Admits, Successors, Exists, Row, Terminal, GoalState
  <2>5. Announces({}, row) /\ {} \in SUBSET Message
    BY DEF Announces
  <2> HIDE DEF row
  <2> QED
    BY <2>1, <2>2, <2>4, <2>5, StatementKeeps DEF row
<1>10. CASE CheckIn(s)
  <2>1. PICK g \in Goals :
           /\ tx[s].kind = "none"
           /\ \A r \in Sessions : ~(tx[r].kind = "checkin" /\ tx[r].goal = g)
           /\ period.state \notin {"draft", "closed"}
           /\ actual[g] < MaxActual
           /\ tx' = [tx EXCEPT ![s] = [kind |-> "checkin", goal |-> g, row |-> Absent,
                                       saw |-> period.state, mail |-> {}]]
    BY <1>10 DEF CheckIn
  <2>2. UNCHANGED <<period, change, changes, answer, goal, actual, mail, parked, signed>>
    BY <1>10 DEF CheckIn, periodVars, goalVars
  <2> DEFINE t == [kind |-> "checkin", goal |-> g, row |-> Absent,
                   saw |-> period.state, mail |-> {}]
  <2>3. t \in Tx
    BY <1>1, BoundsAssumption DEF Tx, Row, Absent, GoalState, TypeOK, PeriodType
  <2>4. TypeOK'
    BY <1>1, <2>1, <2>2, <2>3 DEF TypeOK, PeriodType, ChangeType, GoalType,
       ActualType, TxType, MailType, ParkedType, SignedType
  <2>5. tx'[s] = t /\ \A r \in Sessions \ {s} : tx'[r] = tx[r]
    BY <1>1, <2>1 DEF TypeOK, TxType
  <2>6. (SignaturesFitState /\ GateKept /\ ParkedFits /\ MailTruthful)'
    BY <2>2 DEF IInv, SignaturesFitState, GateKept, ParkedFits, MailTruthful
  <2>7. WritersReady'
    BY <2>2, <2>5 DEF IInv, WritersReady, Ready
  <2>8. OthersReady'
    BY <2>1, <2>2, <2>5 DEF IInv, OthersReady, Pending
  <2>9. Exclusive'
    BY <2>1, <2>5 DEF IInv, Exclusive
  <2> QED
    BY <2>4, <2>6, <2>7, <2>8, <2>9 DEF IInv
<1> QED
  BY <1>3, <1>4, <1>5, <1>6, <1>7, <1>8, <1>9, <1>10 DEF Request

-----------------------------------------------------------------------------
(***************************************************************************)
(* The ends of transactions.                                               *)
(***************************************************************************)
LEMMA SettleKeeps ==
  ASSUME IInv, NEW s \in Sessions, NEW next \in Tx,
         tx[s].kind \in Writers, Settle(s, next),
         next.kind \in {"none", "notify"},
         next.kind = "notify" => /\ next.goal \in Goals
                                 /\ \A m \in next.mail : m.what # "approved"
  PROVE  IInv'
<1> DEFINE g == tx[s].goal
           row == tx[s].row
<1>1. TypeOK /\ Ready(s) /\ tx[s] \in Tx
  BY DEF IInv, WritersReady, TypeOK, TxType
<1>2. /\ g \in Goals /\ row \in Row /\ tx[s].mail \in SUBSET Message
      /\ Follows(goal[g], row) /\ Announces(tx[s].mail, row)
      /\ goal[g] \in Row
  BY <1>1 DEF Ready, Tx, TypeOK, GoalType
<1>3. /\ goal'   = [goal EXCEPT ![g] = row]
      /\ mail'   = [mail EXCEPT ![g] = Queue(mail[g], tx[s].mail)]
      /\ parked' = [parked EXCEPT ![g] = ParkedBy(g, row)]
      /\ signed' = [signed EXCEPT ![g] = IF tx[s].kind = "approve"
                                         THEN Content(row) ELSE signed[g]]
      /\ tx'     = [tx EXCEPT ![s] = next]
      /\ UNCHANGED <<period, change, changes, answer, actual>>
  BY DEF Settle, periodVars
<1> HIDE DEF g, row
<1>4. /\ goal'[g] = row /\ \A h \in Goals \ {g} : goal'[h] = goal[h]
      /\ mail'[g] = Queue(mail[g], tx[s].mail) /\ \A h \in Goals \ {g} : mail'[h] = mail[h]
      /\ parked'[g] = ParkedBy(g, row) /\ \A h \in Goals \ {g} : parked'[h] = parked[h]
      /\ tx'[s] = next /\ \A r \in Sessions \ {s} : tx'[r] = tx[r]
  BY <1>1, <1>2, <1>3 DEF TypeOK, GoalType, MailType, ParkedType, TxType
<1>5. TypeOK'
  <2>1. GoalType' /\ TxType' /\ PeriodType' /\ ChangeType' /\ ActualType'
    BY <1>1, <1>2, <1>3 DEF TypeOK, GoalType, TxType, PeriodType, ChangeType, ActualType
  <2>2. MailType'
    BY <1>1, <1>2, <1>3 DEF TypeOK, MailType, Queue
  <2>3. ParkedBy(g, row) \in BOOLEAN
    BY <1>1, <1>2 DEF TypeOK, ParkedType, ParkedBy
  <2>4. ParkedType'
    BY <1>1, <1>3, <2>3 DEF TypeOK, ParkedType
  <2>5. SignedType'
    BY <1>1, <1>2, <1>3 DEF TypeOK, SignedType, Content, Row
  <2> QED
    BY <2>1, <2>2, <2>4, <2>5 DEF TypeOK
<1>6. SignaturesFitState'
  BY <1>2, <1>4 DEF IInv, SignaturesFitState, Follows
<1>7. (GateKept /\ ParkedFits)'
  <2> SUFFICES ASSUME NEW h \in Goals
               PROVE  /\ (parked[h] /\ Released(goal[h]) => goal[h].hcm # None)'
                      /\ (parked[h] => goal[h].state
                            \notin {"absent", "draft", "pending_approval"})'
    BY DEF GateKept, ParkedFits
  <2>1. /\ parked[h] /\ Released(goal[h]) => goal[h].hcm # None
        /\ parked[h] => goal[h].state \notin {"absent", "draft", "pending_approval"}
    BY DEF IInv, GateKept, ParkedFits
  <2>2. CASE h # g
    BY <1>4, <2>1, <2>2 DEF Released
  <2>3. CASE h = g
    <3>1. parked'[h] => \/ row.state = "pending_hcm"
                        \/ parked[h] /\ row.state # "draft"
      BY <1>4, <2>3 DEF ParkedBy
    <3> QED
      BY <1>2, <1>4, <2>1, <2>3, <3>1
      DEF Follows, Successors, Released, Terminal, Row, GoalState
  <2> QED BY <2>2, <2>3
<1>8. MailTruthful'
  <2> SUFFICES ASSUME NEW h \in Goals, NEW m \in mail'[h], m.what = "approved"
               PROVE  goal'[h].state \in {"active"} \cup Terminal
    BY DEF MailTruthful
  <2>1. CASE h # g
    BY <1>4, <2>1 DEF IInv, MailTruthful
  <2>2. CASE h = g
    <3>1. m \in mail[g] \/ m \in tx[s].mail
      BY <1>4, <2>2 DEF Queue
    <3>2. CASE m \in tx[s].mail
      BY <1>2, <1>4, <2>2, <3>2 DEF Announces
    <3>3. CASE m \in mail[g]
      <4>1. goal[g].state \in {"active"} \cup Terminal
        BY <1>2, <3>3 DEF IInv, MailTruthful
      <4> QED
        BY <1>2, <1>4, <2>2, <4>1 DEF Follows, Successors, Terminal
    <3> QED BY <3>1, <3>2, <3>3
  <2> QED BY <2>1, <2>2
<1>9. WritersReady'
  <2> SUFFICES ASSUME NEW r \in Sessions, tx'[r].kind \in Writers
               PROVE  Ready(r)'
    BY DEF WritersReady, Ready
  <2>1. r # s /\ tx'[r] = tx[r]
    BY <1>4
  <2>2. tx[r].goal # g
    BY <1>1, <2>1 DEF IInv, Exclusive, g
  <2>3. Ready(r)
    BY DEF IInv, WritersReady
  <2>4. tx[r].goal \in Goals
    BY <2>1, <2>3 DEF Ready
  <2>5. goal'[tx'[r].goal] = goal[tx[r].goal]
    BY <1>4, <2>1, <2>2, <2>4
  <2> QED
    BY <2>1, <2>3, <2>5 DEF Ready
<1>10. OthersReady'
  BY <1>3, <1>4 DEF IInv, OthersReady, Pending
<1>11. Exclusive'
  BY <1>4 DEF IInv, Exclusive
<1> QED
  BY <1>5, <1>6, <1>7, <1>8, <1>9, <1>10, <1>11 DEF IInv

LEMMA IdleType == Idle \in Tx
  BY BoundsAssumption, NoneAssumption
  DEF Idle, Tx, Row, Absent, GoalState, PeriodState

LEMMA EndKeeps ==
  ASSUME IInv, NEW s \in Sessions, End(s)
  PROVE  IInv'
<1>1. TypeOK /\ tx[s] \in Tx /\ Idle \in Tx /\ Pending(s)
  BY IdleType DEF IInv, TypeOK, TxType, OthersReady
<1>2. CASE CommitGoal(s)
  BY <1>1, <1>2, SettleKeeps DEF CommitGoal, Idle
<1>3. CASE CommitSubmit(s)
  <2> DEFINE next == [kind |-> "notify", goal |-> tx[s].goal, row |-> Absent,
                      saw |-> "draft",
                      mail |-> {[key |-> "goal-approval", what |-> "approval_requested",
                                 approver |-> None]}]
  <2>1. tx[s].kind = "submit" /\ Settle(s, next)
    BY <1>3 DEF CommitSubmit
  <2>2. tx[s].goal \in Goals
    BY <2>1 DEF IInv, WritersReady, Ready
  <2>3. next \in Tx
    BY <2>2, BoundsAssumption DEF Tx, Row, Absent, GoalState, PeriodState, Message
  <2>4. /\ next.kind = "notify" /\ next.goal \in Goals
        /\ \A m \in next.mail : m.what # "approved"
    BY <2>2
  <2> HIDE DEF next
  <2> QED
    BY <2>1, <2>3, <2>4, SettleKeeps
<1> DEFINE Ended == /\ tx' = [tx EXCEPT ![s] = Idle]
                    /\ UNCHANGED <<period, change, changes, answer, goal, parked, signed>>
                    /\ \/ UNCHANGED <<actual, mail>>
                       \/ /\ UNCHANGED actual
                          /\ tx[s].kind = "notify"
                          /\ mail' = [mail EXCEPT ![tx[s].goal] = Queue(@, tx[s].mail)]
                       \/ /\ UNCHANGED mail
                          /\ tx[s].kind = "checkin"
                          /\ actual' = [actual EXCEPT ![tx[s].goal] = @ + 1]
<1>4. ASSUME Ended PROVE IInv'
  <2>1. tx'[s] = Idle /\ \A r \in Sessions \ {s} : tx'[r] = tx[r]
    BY <1>1, <1>4 DEF TypeOK, TxType
  <2>2. TypeOK'
    <3>1. PeriodType' /\ ChangeType' /\ GoalType' /\ TxType' /\ ParkedType' /\ SignedType'
      BY <1>1, <1>4 DEF TypeOK, PeriodType, ChangeType, GoalType, TxType, ParkedType, SignedType
    <3>2. MailType'
      BY <1>1, <1>4 DEF TypeOK, MailType, Queue, Tx
    <3>3. ActualType'
      BY <1>1, <1>4, BoundsAssumption DEF TypeOK, ActualType, Pending
    <3> QED BY <3>1, <3>2, <3>3 DEF TypeOK
  <2>3. (SignaturesFitState /\ GateKept /\ ParkedFits)'
    BY <1>4 DEF IInv, SignaturesFitState, GateKept, ParkedFits
  <2>4. MailTruthful'
    BY <1>1, <1>4 DEF IInv, MailTruthful, Queue, Pending, TypeOK, MailType
  <2>5. WritersReady'
    BY <1>4, <2>1 DEF IInv, WritersReady, Ready, Idle
  <2>6. OthersReady'
    <3> SUFFICES ASSUME NEW r \in Sessions PROVE Pending(r)'
      BY DEF OthersReady
    <3>1. Pending(r)
      BY DEF IInv, OthersReady
    <3>2. CASE r = s
      BY <2>1, <3>2 DEF Pending, Idle
    <3>3. CASE r # s
      <4>1. tx'[r] = tx[r]
        BY <2>1, <3>3
      <4>2. tx[r].kind = "checkin" => actual'[tx[r].goal] = actual[tx[r].goal]
        BY <1>1, <1>4, <3>1, <3>3 DEF Pending, IInv, Exclusive, TypeOK, ActualType
      <4> QED BY <3>1, <4>1, <4>2 DEF Pending
    <3> QED BY <3>2, <3>3
  <2>7. Exclusive'
    BY <2>1 DEF IInv, Exclusive, Idle
  <2> QED
    BY <2>2, <2>3, <2>4, <2>5, <2>6, <2>7 DEF IInv
<1>5. CASE CommitNotify(s)
  BY <1>4, <1>5 DEF CommitNotify, periodVars
<1>6. CASE CommitCheckIn(s)
  BY <1>4, <1>6 DEF CommitCheckIn, periodVars
<1>7. CASE Abort(s)
  BY <1>4, <1>7 DEF Abort, periodVars, goalVars
<1> QED
  BY <1>2, <1>3, <1>5, <1>6, <1>7 DEF End

-----------------------------------------------------------------------------
\* The period, the gate and the worker touch no goal and no transaction of one.
LEMMA RestKeeps ==
  ASSUME IInv,
         \/ \E g \in Goals : Deliver(g)
         \/ \E state \in {"open", "locked", "closed"} : PeriodWrite(state)
         \/ PeriodCommit
         \/ PeriodRefused
         \/ \E gate \in BOOLEAN : SetGate(gate)
         \/ UNCHANGED vars
  PROVE  IInv'
<1>1. TypeOK
  BY DEF IInv
<1>2. /\ UNCHANGED <<goal, actual, parked, signed, tx>>
      /\ \A g \in Goals : mail'[g] \subseteq mail[g]
  BY <1>1 DEF Deliver, PeriodWrite, PeriodCommit, PeriodRefused, SetGate, vars,
     periodVars, goalVars, TypeOK, MailType
<1>3. PeriodType' /\ ChangeType' /\ MailType'
  BY <1>1, BoundsAssumption
  DEF Deliver, PeriodWrite, PeriodCommit, PeriodRefused, SetGate, vars, Explanation,
      periodVars, goalVars, TypeOK, PeriodType, ChangeType, MailType, PeriodState
<1>4. TypeOK'
  BY <1>1, <1>2, <1>3 DEF TypeOK, GoalType, ActualType, TxType, ParkedType, SignedType
<1>5. MailTruthful'
  BY <1>2 DEF IInv, MailTruthful
<1>6. (SignaturesFitState /\ GateKept /\ ParkedFits)'
  BY <1>2 DEF IInv, SignaturesFitState, GateKept, ParkedFits
<1>7. (WritersReady /\ OthersReady /\ Exclusive)'
  BY <1>2 DEF IInv, WritersReady, Ready, OthersReady, Pending, Exclusive
<1> QED
  BY <1>4, <1>5, <1>6, <1>7 DEF IInv

LEMMA NextKeeps == IInv /\ [Next]_vars => IInv'
  BY RequestKeeps, EndKeeps, RestKeeps DEF Next

-----------------------------------------------------------------------------
LEMMA Invariance == Spec => []IInv
<1>1. Init => IInv
  BY InitInv
<1>2. IInv /\ [Next]_vars => IInv'
  BY NextKeeps
<1> QED
  BY <1>1, <1>2, PTL DEF Spec

\* Every variable keeps its type, the bounds included: no two check-ins move
\* one actual value at once.
THEOREM TypeCorrect == Spec => []TypeOK
<1>1. IInv => TypeOK
  BY DEF IInv
<1> QED
  BY <1>1, Invariance, PTL

\* Whatever is released after waiting for HCM has HCM's signature: for any number
\* of concurrent requests, and however the gate is switched meanwhile.
THEOREM GateCorrect == Spec => []GateKept
<1>1. IInv => GateKept
  BY DEF IInv
<1> QED
  BY <1>1, Invariance, PTL

\* Every goal has the signatures of its state, never its owner's, however the
\* signing, editing and cancelling of it overtake each other.
THEOREM SignaturesCorrect == Spec => []SignaturesFitState
<1>1. IInv => SignaturesFitState
  BY DEF IInv
<1> QED
  BY <1>1, Invariance, PTL

\* A waiting message "approved" is about a goal that was released.
THEOREM MailCorrect == Spec => []MailTruthful
<1>1. IInv => MailTruthful
  BY DEF IInv
<1> QED
  BY <1>1, Invariance, PTL

-----------------------------------------------------------------------------
\* What a step may change: a goal changes only when a transaction that holds
\* it commits, and takes the row of that transaction.
LEMMA StepChanges ==
  ASSUME IInv, [Next]_vars
  PROVE  \/ UNCHANGED <<goal, actual>>
         \/ \E s \in Sessions :
               /\ tx[s].kind \in Writers
               /\ tx[s].goal \in Goals
               /\ goal' = [goal EXCEPT ![tx[s].goal] = tx[s].row]
               /\ tx'[s] # tx[s]
         \/ \E s \in Sessions :
               /\ tx[s].kind = "checkin"
               /\ UNCHANGED goal
               /\ tx'[s] # tx[s]
<1>1. TypeOK /\ WritersReady
  BY DEF IInv
<1>2. CASE \E s \in Sessions : CommitGoal(s) \/ CommitSubmit(s)
  BY <1>1, <1>2
  DEF CommitGoal, CommitSubmit, Settle, WritersReady, Ready, TypeOK, TxType, Idle
<1>3. CASE \E s \in Sessions : CommitCheckIn(s)
  BY <1>1, <1>3 DEF CommitCheckIn, TypeOK, TxType, Idle
<1>4. CASE \E s \in Sessions : CommitNotify(s) \/ Abort(s)
  BY <1>4 DEF CommitNotify, Abort, goalVars
<1>5. CASE \E s \in Sessions : Request(s)
  <2>1. PICK s \in Sessions : Request(s)
    BY <1>5
  <2>2. CASE Create(s)
    BY <2>2 DEF Create, Statement, goalVars
  <2>3. CASE UpdateGoal(s)
    BY <2>3 DEF UpdateGoal, Statement, goalVars
  <2>4. CASE Submit(s)
    BY <2>4 DEF Submit, Statement, goalVars
  <2>5. CASE Approve(s)
    BY <2>5 DEF Approve, Statement, goalVars
  <2>6. CASE HcmApprove(s) \/ HcmRevise(s) \/ Finish(s)
    BY <2>6 DEF HcmApprove, HcmRevise, Finish, Statement, goalVars
  <2>7. CASE CheckIn(s)
    BY <2>7 DEF CheckIn, goalVars
  <2> QED
    BY <2>1, <2>2, <2>3, <2>4, <2>5, <2>6, <2>7 DEF Request
<1>6. CASE \/ \E g \in Goals : Deliver(g)
           \/ \E state \in {"open", "locked", "closed"} : PeriodWrite(state)
           \/ PeriodCommit
           \/ PeriodRefused
           \/ \E gate \in BOOLEAN : SetGate(gate)
           \/ UNCHANGED vars
  BY <1>6 DEF Deliver, PeriodWrite, PeriodCommit, PeriodRefused, SetGate, goalVars, vars
<1> QED
  BY <1>2, <1>3, <1>4, <1>5, <1>6 DEF Next, End

\* A goal that was completed or cancelled stays so, and HCM's signature is never
\* replaced or taken back.
THEOREM OutcomeCorrect == Spec => OutcomeStands
<1>1. IInv /\ [Next]_vars =>
        \A g \in Goals :
          /\ goal[g].state \in Terminal => goal'[g].state = goal[g].state
          /\ goal[g].hcm # None => goal'[g].hcm = goal[g].hcm
  <2> SUFFICES ASSUME IInv, [Next]_vars, NEW g \in Goals
               PROVE  /\ goal[g].state \in Terminal => goal'[g].state = goal[g].state
                      /\ goal[g].hcm # None => goal'[g].hcm = goal[g].hcm
    OBVIOUS
  <2>1. CASE UNCHANGED goal
    BY <2>1
  <2>2. ASSUME NEW s \in Sessions, tx[s].kind \in Writers,
               goal' = [goal EXCEPT ![tx[s].goal] = tx[s].row]
        PROVE  /\ goal[g].state \in Terminal => goal'[g].state = goal[g].state
               /\ goal[g].hcm # None => goal'[g].hcm = goal[g].hcm
    <3>1. GoalType /\ Ready(s)
      BY <2>2 DEF IInv, TypeOK, WritersReady
    <3>2. Follows(goal[tx[s].goal], tx[s].row)
      BY <2>2, <3>1 DEF Ready
    <3> QED
      BY <2>2, <3>1, <3>2 DEF GoalType, Follows, Successors, Terminal
  <2> QED
    BY <2>1, <2>2, StepChanges
<1> QED
  BY <1>1, Invariance, PTL DEF Spec, OutcomeStands

\* Once everything that was under way has ended, a closed period changes no
\* more, nor do the weights and titles of a locked one.
THEOREM FreezeCorrect == Spec => FrozenButForLate
<1>1. IInv /\ [Next]_vars =>
        /\ ClosedStep => \E s \in Sessions : Late(s, {"closed"})
        /\ LockedStep => \E s \in Sessions : Late(s, {"locked", "closed"})
  <2> SUFFICES ASSUME IInv, [Next]_vars
               PROVE  /\ ClosedStep => \E s \in Sessions : Late(s, {"closed"})
                      /\ LockedStep => \E s \in Sessions : Late(s, {"locked", "closed"})
    OBVIOUS
  <2>1. CASE UNCHANGED <<goal, actual>>
    BY <2>1 DEF ClosedStep, LockedStep
  <2>2. ASSUME NEW s \in Sessions, tx[s].kind = "checkin", UNCHANGED goal, tx'[s] # tx[s]
        PROVE  /\ ClosedStep => \E r \in Sessions : Late(r, {"closed"})
               /\ LockedStep => \E r \in Sessions : Late(r, {"locked", "closed"})
    <3>1. Pending(s)
      BY DEF IInv, OthersReady
    <3> QED
      BY <2>2, <3>1 DEF Pending, Late, LockedStep
  <2>3. ASSUME NEW s \in Sessions, tx[s].kind \in Writers, tx[s].goal \in Goals,
               goal' = [goal EXCEPT ![tx[s].goal] = tx[s].row], tx'[s] # tx[s]
        PROVE  /\ ClosedStep => \E r \in Sessions : Late(r, {"closed"})
               /\ LockedStep => \E r \in Sessions : Late(r, {"locked", "closed"})
    <3>1. GoalType /\ Ready(s)
      BY DEF IInv, TypeOK, WritersReady
    <3>2. tx[s].saw # "closed"
      BY <2>3, <3>1 DEF Ready
    <3>3. Late(s, {"closed"})
      BY <2>3, <3>2 DEF Late
    <3>4. LockedStep => tx[s].saw # "locked"
      BY <2>3, <3>1 DEF LockedStep, Ready, GoalType
    <3>5. LockedStep => Late(s, {"locked", "closed"})
      BY <2>3, <3>2, <3>4 DEF Late
    <3> QED
      BY <3>3, <3>5
  <2> QED
    BY <2>1, <2>2, <2>3, StepChanges
<1> QED
  BY <1>1, Invariance, PTL DEF Spec, FrozenButForLate
=============================================================================
