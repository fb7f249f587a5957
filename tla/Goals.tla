------------------------------- MODULE Goals --------------------------------
(***************************************************************************)
(* The goals of one goal period: their state machine with its two          *)
(* signatures, the freezing of the period, and what people are told.       *)
(*                                                                         *)
(* The service is apps/api/src/goals/goals.service.ts (kpi.service.ts for  *)
(* the period); the rules are triggers of db/migrations/0008 and 0037.     *)
(* Transactions run at READ COMMITTED.  A handler is two steps: the UPDATE *)
(* or INSERT with its triggers, which see what is committed at that moment *)
(* and lock the row they write, and the COMMIT.  Between the two, other    *)
(* transactions work on other rows and see the old one.  The gate is read  *)
(* with the UPDATE; a statement that waited for a row lock may have read   *)
(* it earlier, which is the same as the gate being set a moment later.     *)
(***************************************************************************)
EXTENDS Integers, FiniteSets, FiniteSetsExt

CONSTANTS
    Goals,     \* the goals that may be created
    People,    \* employees: they own goals, and approve those of others
    None,      \* no employee, no goal
    Sessions,  \* concurrent requests about goals
    Weights,   \* weights a goal may be given
    Full,      \* what the weights of one employee must add up to (100)
    MaxEdits,  \* bound: how many titles a goal has in turn
    MaxActual, \* bound: how many check-ins move the actual value of a goal
    MaxChanges \* bound: how often the row of the period is written

ASSUME WeightsAssumption == Weights \subseteq Nat /\ Full \in Nat
ASSUME BoundsAssumption  == MaxEdits \in Nat /\ MaxActual \in Nat /\ MaxChanges \in Nat
ASSUME NoneAssumption    == None \notin People /\ None \notin Goals

Terminal    == {"achieved", "missed", "cancelled"}
GoalState   == {"absent", "draft", "pending_approval", "pending_hcm", "active"} \cup Terminal
PeriodState == {"draft", "open", "locked", "closed"}

\* The columns of a goal.  `text` stands for the title, `note` for
\* hcm_revision_note being there, `by` and `hcm` for the two signatures.
Row == [owner : People \cup {None}, state : GoalState,
        weight : Weights \cup {0}, text : 0..MaxEdits,
        by : People \cup {None}, hcm : People \cup {None}, note : BOOLEAN]

Absent == [owner |-> None, state |-> "absent", weight |-> 0, text |-> 0,
           by |-> None, hcm |-> None, note |-> FALSE]

\* A queued message: its dedupe key, its template and its approverName.
Message == [key : {"goal-approval", "goal-approved", "goal-hcm-approved", "goal-revise"},
            what : {"approval_requested", "awaiting_hcm", "approved", "revision_requested"},
            approver : People \cup {None}]

\* An open transaction: the row it has written and will commit, the state of
\* the period its triggers saw, and the messages it queues.  "notify" is the
\* follow-up transaction of submit().
Tx == [kind : {"none", "edit", "approve", "submit", "checkin", "notify"},
       goal : Goals \cup {None}, row : Row, saw : PeriodState,
       mail : SUBSET Message]

Idle == [kind |-> "none", goal |-> None, row |-> Absent, saw |-> "draft",
         mail |-> {}]

VARIABLES
    period,    \* the committed row of goal_period: its state and its HCM gate
    change,    \* an open UPDATE of its state: "none", the new state, "aborted"
    changes,   \* how often it was written
    answer,    \* what setPeriodState last told a caller it refused
    goal,      \* goal[g]: the committed row
    actual,    \* actual[g]: the committed actual_value of its target
    tx,        \* tx[s]: the transaction of session s
    mail,      \* mail[g]: the live outbox rows about g
    parked,    \* history: g has waited for HCM since it was last a draft
    signed     \* history: the weight and title approved_by signed

periodVars == <<period, change, changes, answer>>
goalVars   == <<goal, actual, mail, parked, signed>>
vars       == <<periodVars, goalVars, tx>>

Content(row) == [weight |-> row.weight, text |-> row.text]

PeriodType  == period \in [state : PeriodState, gate : BOOLEAN]
ChangeType  == /\ change \in {"none", "open", "locked", "closed", "aborted"}
               /\ changes \in 0..MaxChanges
               /\ answer \in {"none", "violations", "error"}
GoalType    == goal \in [Goals -> Row]
ActualType  == actual \in [Goals -> 0..MaxActual]
TxType      == tx \in [Sessions -> Tx]
MailType    == mail \in [Goals -> SUBSET Message]
ParkedType  == parked \in [Goals -> BOOLEAN]
SignedType  == signed \in [Goals -> [weight : Weights \cup {0}, text : 0..MaxEdits]]

\* Every variable holds values of its kind.
TypeOK == /\ PeriodType /\ ChangeType /\ GoalType /\ ActualType
          /\ TxType /\ MailType /\ ParkedType /\ SignedType

-----------------------------------------------------------------------------
(***************************************************************************)
(* The rules of the triggers.                                              *)
(***************************************************************************)

\* Mutant: the trigger lets a locked period's weights and titles change.
FrozenInsertOnly(g, row) ==
    \/ period.state = "closed"
    \/ period.state = "locked" /\ goal[g].state = "absent"

\* goal_period_freeze: nothing in a closed period; in a locked one no insert
\* and no new weight or title.
Frozen(g, row) ==
    \/ period.state = "closed"
    \/ /\ period.state = "locked"
       /\ goal[g].state = "absent" \/ Content(row) # Content(goal[g])

\* Mutant: what was missed may still be achieved.
SuccessorsReopen(state) ==
    CASE state = "absent"           -> {"draft"}
      [] state = "draft"            -> {"pending_approval", "active", "cancelled"}
      [] state = "pending_approval" -> {"draft", "pending_hcm", "active", "cancelled"}
      [] state = "pending_hcm"      -> {"draft", "active", "cancelled"}
      [] state = "active"           -> Terminal
      [] state = "missed"           -> {"achieved"}
      [] OTHER                      -> {}

\* goal_state_machine: where a goal may go from a state.
Successors(state) ==
    CASE state = "absent"           -> {"draft"}
      [] state = "draft"            -> {"pending_approval", "active", "cancelled"}
      [] state = "pending_approval" -> {"draft", "pending_hcm", "active", "cancelled"}
      [] state = "pending_hcm"      -> {"draft", "active", "cancelled"}
      [] state = "active"           -> Terminal
      [] OTHER                      -> {}

\* Mutant: the machine of 0008, which knows one signature only.
AdmitsUngated(old, row) ==
    \/ row.state = old.state
    \/ /\ row.state \in Successors(old.state)
       /\ row.state = "active" => row.by # None
       /\ row.by = None \/ row.by # row.owner

\* An update that leaves the state alone passes unexamined.
Admits(old, row) ==
    \/ row.state = old.state
    \/ /\ row.state \in Successors(old.state)
       /\ row.state = "active" => row.by # None
       /\ old.state = "pending_hcm" /\ row.state = "active" => row.hcm # None
       /\ row.by = None \/ row.by # row.owner

\* Mutant: a goal sent back keeps its signatures.
ClearedNever(old, row) == row

\* A goal sent back loses both signatures.
Cleared(old, row) ==
    IF row.state = "draft" /\ old.state \in {"pending_approval", "pending_hcm"}
    THEN [row EXCEPT !.by = None, !.hcm = None]
    ELSE row

\* app.goal_weight_violations: what is neither draft nor cancelled counts, and
\* an employee with nothing that counts is not looked at.
Counted(e) == {g \in Goals : goal[g].owner = e
                             /\ goal[g].state \notin {"absent", "draft", "cancelled"}}

Total(e) == MapThenSumSet(LAMBDA g : goal[g].weight, Counted(e))

Violators == {e \in People : Counted(e) # {} /\ Total(e) # Full}

-----------------------------------------------------------------------------
Holds(s, g) == tx[s].kind \in {"edit", "approve", "submit"} /\ tx[s].goal = g

Unlocked(g) == \A s \in Sessions : ~Holds(s, g)

Exists(g) == goal[g].state # "absent"

\* A statement of session s writes row to goal g: it waits for the row lock,
\* the triggers pass on what is committed, and the transaction stays open.
Statement(s, kind, g, row, messages) ==
    /\ tx[s].kind = "none"
    /\ Unlocked(g)
    /\ ~Frozen(g, row)
    /\ Admits(goal[g], row)
    /\ row.hcm = None \/ row.hcm # row.owner
    /\ tx' = [tx EXCEPT ![s] = [kind |-> kind, goal |-> g,
                                row |-> Cleared(goal[g], row),
                                saw |-> period.state, mail |-> messages]]
    /\ UNCHANGED <<periodVars, goalVars>>

\* create(): a draft of employee e.
Draft(e, w) == [owner |-> e, state |-> "draft", weight |-> w, text |-> 0,
                by |-> None, hcm |-> None, note |-> FALSE]

Create(s) ==
    \E g \in Goals, e \in People, w \in Weights :
       /\ ~Exists(g)
       /\ Statement(s, "edit", g, Draft(e, w), {})

\* update(): a new weight or title, whatever the state of the goal.
UpdateGoal(s) ==
    \E g \in Goals, w \in Weights, x \in 0..MaxEdits :
       /\ Exists(g)
       /\ x \in {goal[g].text, goal[g].text + 1}
       /\ Content(goal[g]) # [weight |-> w, text |-> x]
       /\ Statement(s, "edit", g, [goal[g] EXCEPT !.weight = w, !.text = x], {})

\* submit(): the state alone is written; the revision note stays.
Submit(s) ==
    \E g \in Goals :
       /\ Exists(g)
       /\ Statement(s, "submit", g, [goal[g] EXCEPT !.state = "pending_approval"], {})

\* Mutant: the message is written before the gate is asked.
ApproveTellsApproved(s) ==
    \E g \in Goals, a \in People :
       /\ Exists(g)
       /\ a # goal[g].owner
       /\ Statement(s, "approve", g,
                    [goal[g] EXCEPT !.by = a,
                        !.state = IF period.gate THEN "pending_hcm" ELSE "active"],
                    {[key |-> "goal-approved", what |-> "approved",
                      approver |-> goal[g].owner]})

\* approve(): whoever is not the owner; the state is what the gate says, and it
\* is written whatever it was.  The message names goal.employeeName.
Approve(s) ==
    \E g \in Goals, a \in People :
       /\ Exists(g)
       /\ a # goal[g].owner
       /\ LET row == [goal[g] EXCEPT !.by = a,
                         !.state = IF period.gate THEN "pending_hcm" ELSE "active"]
              told == [key |-> "goal-approved", approver |-> goal[g].owner,
                       what |-> IF period.gate THEN "awaiting_hcm" ELSE "approved"]
          IN  Statement(s, "approve", g, row, {told})

\* hcmApprove(): the second signature releases the goal and drops the note.
HcmApprove(s) ==
    \E g \in Goals, a \in People :
       /\ goal[g].state = "pending_hcm"
       /\ a # goal[g].owner
       /\ Statement(s, "edit", g,
                    [goal[g] EXCEPT !.state = "active", !.hcm = a, !.note = FALSE],
                    {[key |-> "goal-hcm-approved", what |-> "approved",
                      approver |-> goal[g].owner]})

\* hcmRevise(): back to draft with a note.
HcmRevise(s) ==
    \E g \in Goals :
       /\ goal[g].state = "pending_hcm"
       /\ Statement(s, "edit", g, [goal[g] EXCEPT !.state = "draft", !.note = TRUE],
                    {[key |-> "goal-revise", what |-> "revision_requested",
                      approver |-> None]})

\* complete() and cancel().
Finish(s) ==
    \E g \in Goals, outcome \in Terminal :
       /\ Exists(g)
       /\ Statement(s, "edit", g, [goal[g] EXCEPT !.state = outcome], {})

\* checkIn() with updateActual: only the state of the period is looked at.
CheckIn(s) ==
    \E g \in Goals :
       /\ tx[s].kind = "none"
       /\ Exists(g)
       /\ \A r \in Sessions : ~(tx[r].kind = "checkin" /\ tx[r].goal = g)
       /\ period.state \notin {"draft", "closed"}
       /\ actual[g] < MaxActual
       /\ tx' = [tx EXCEPT ![s] = [kind |-> "checkin", goal |-> g, row |-> Absent,
                                   saw |-> period.state, mail |-> {}]]
       /\ UNCHANGED <<periodVars, goalVars>>

-----------------------------------------------------------------------------
\* enqueue_notification: a message whose key is live is dropped.  A revision's
\* key holds the time, so it never clashes.
Queue(live, messages) ==
    live \cup {m \in messages : m.key = "goal-revise" \/ \A n \in live : n.key # m.key}

\* What the commit of a row makes of the two histories.
ParkedBy(g, row) ==
    CASE row.state = "pending_hcm" -> TRUE
      [] row.state = "draft"       -> FALSE
      [] OTHER                     -> parked[g]

Settle(s, next) ==
    LET g == tx[s].goal
        row == tx[s].row
    IN  /\ goal'   = [goal EXCEPT ![g] = row]
        /\ mail'   = [mail EXCEPT ![g] = Queue(@, tx[s].mail)]
        /\ parked' = [parked EXCEPT ![g] = ParkedBy(g, row)]
        /\ signed' = [signed EXCEPT ![g] = IF tx[s].kind = "approve"
                                           THEN Content(row) ELSE @]
        /\ tx'     = [tx EXCEPT ![s] = next]
        /\ UNCHANGED <<periodVars, actual>>

CommitGoal(s) ==
    /\ tx[s].kind \in {"edit", "approve"}
    /\ Settle(s, Idle)

\* submit() goes on to queue the approver's message in a second transaction.
CommitSubmit(s) ==
    /\ tx[s].kind = "submit"
    /\ Settle(s, [kind |-> "notify", goal |-> tx[s].goal, row |-> Absent,
                  saw |-> "draft",
                  mail |-> {[key |-> "goal-approval", what |-> "approval_requested",
                             approver |-> None]}])

CommitNotify(s) ==
    /\ tx[s].kind = "notify"
    /\ mail' = [mail EXCEPT ![tx[s].goal] = Queue(@, tx[s].mail)]
    /\ tx'   = [tx EXCEPT ![s] = Idle]
    /\ UNCHANGED <<periodVars, goal, actual, parked, signed>>

CommitCheckIn(s) ==
    /\ tx[s].kind = "checkin"
    /\ actual' = [actual EXCEPT ![tx[s].goal] = @ + 1]
    /\ tx'     = [tx EXCEPT ![s] = Idle]
    /\ UNCHANGED <<periodVars, goal, mail, parked, signed>>

\* The connection or the process is lost, or the rest of the handler throws.
Abort(s) ==
    /\ tx[s].kind # "none"
    /\ tx' = [tx EXCEPT ![s] = Idle]
    /\ UNCHANGED <<periodVars, goalVars>>

\* The worker sends a message: its key is free again.
Deliver(g) ==
    /\ \E m \in mail[g] : mail' = [mail EXCEPT ![g] = @ \ {m}]
    /\ UNCHANGED <<periodVars, goal, actual, parked, signed, tx>>

-----------------------------------------------------------------------------
(***************************************************************************)
(* setPeriodState(), and the operator's switch of requires_hcm_approval.   *)
(***************************************************************************)

Freezing(state) == state \in {"locked", "closed"} /\ period.state \notin {"locked", "closed"}

PeriodWrite(state) ==
    /\ change = "none"
    /\ changes < MaxChanges
    /\ changes' = changes + 1
    /\ change' = IF Freezing(state) /\ Violators # {} THEN "aborted" ELSE state
    /\ UNCHANGED <<period, answer, goalVars, tx>>

PeriodCommit ==
    /\ change \notin {"none", "aborted"}
    /\ period' = [period EXCEPT !.state = change]
    /\ change' = "none"
    /\ UNCHANGED <<changes, answer, goalVars, tx>>

\* The catch of setPeriodState asks for the violations with the client of the
\* failed UPDATE.  PostgreSQL answers nothing in an aborted transaction, so it
\* is that error the caller gets.
Explanation == IF change = "aborted" THEN "error" ELSE "violations"

PeriodRefused ==
    /\ change = "aborted"
    /\ answer' = Explanation
    /\ change' = "none"
    /\ UNCHANGED <<period, changes, goalVars, tx>>

SetGate(gate) ==
    /\ change = "none"
    /\ gate # period.gate
    /\ changes < MaxChanges
    /\ changes' = changes + 1
    /\ period' = [period EXCEPT !.gate = gate]
    /\ UNCHANGED <<change, answer, goalVars, tx>>

-----------------------------------------------------------------------------
Init ==
    /\ period \in [state : {"draft", "open"}, gate : BOOLEAN]
    /\ change = "none"
    /\ changes = 0
    /\ answer = "none"
    /\ goal   = [g \in Goals |-> Absent]
    /\ actual = [g \in Goals |-> 0]
    /\ tx     = [s \in Sessions |-> Idle]
    /\ mail   = [g \in Goals |-> {}]
    /\ parked = [g \in Goals |-> FALSE]
    /\ signed = [g \in Goals |-> Content(Absent)]

Request(s) == \/ Create(s) \/ UpdateGoal(s) \/ Submit(s) \/ Approve(s)
              \/ HcmApprove(s) \/ HcmRevise(s) \/ Finish(s) \/ CheckIn(s)

End(s) == \/ CommitGoal(s) \/ CommitSubmit(s) \/ CommitNotify(s)
          \/ CommitCheckIn(s) \/ Abort(s)

Next == \/ \E s \in Sessions : Request(s) \/ End(s)
        \/ \E g \in Goals : Deliver(g)
        \/ \E state \in {"open", "locked", "closed"} : PeriodWrite(state)
        \/ PeriodCommit
        \/ PeriodRefused
        \/ \E gate \in BOOLEAN : SetGate(gate)

Spec == Init /\ [][Next]_vars

-----------------------------------------------------------------------------
(***************************************************************************)
(* Properties that hold.                                                   *)
(***************************************************************************)
Released(row) == row.state \in {"active", "achieved", "missed"}

\* A goal that was parked for HCM is not released without HCM's signature,
\* even if the gate is switched off while it waits (0037, "The second gate,
\* made real").
GateKept == \A g \in Goals : parked[g] /\ Released(goal[g]) => goal[g].hcm # None

\* The signatures a row carries are those its state implies, none of them the
\* owner's: a goal sent back is unsigned, a released one is signed.
SignaturesFit(row) ==
    /\ row.state \in {"absent", "draft", "pending_approval"} => row.by = None
    /\ row.state \in {"pending_hcm", "active", "achieved", "missed"} => row.by # None
    /\ row.state \in {"absent", "draft", "pending_approval", "pending_hcm"} => row.hcm = None
    /\ row.hcm # None => row.by # None
    /\ row.state # "absent" => row.owner # None /\ row.owner \notin {row.by, row.hcm}

SignaturesFitState == \A g \in Goals : SignaturesFit(goal[g])

\* Whoever is told that a goal is approved has a goal that is: it was released,
\* and has at most been completed or cancelled since (goals.service.ts, "nobody
\* is told a goal is active unless it actually became active").
MailTruthful ==
    \A g \in Goals : \A m \in mail[g] :
       m.what = "approved" => goal[g].state \in {"active"} \cup Terminal

\* No request, however late it commits, brings back a goal that was completed
\* or cancelled, nor takes back HCM's release.
OutcomeStands ==
    [][\A g \in Goals :
         /\ goal[g].state \in Terminal => goal'[g].state = goal[g].state
         /\ goal[g].hcm # None => goal'[g].hcm = goal[g].hcm]_vars

\* What still changes in a frozen period was under way when it froze: a closed
\* period changes by a transaction whose triggers saw it open or locked, the
\* weights and titles of a locked one by a transaction that saw it open.
Late(s, states) == tx[s].kind \notin {"none", "notify"} /\ tx[s].saw \notin states
                   /\ tx'[s] # tx[s]

ClosedStep == period.state = "closed" /\ (goal' # goal \/ actual' # actual)

LockedStep == /\ period.state \in {"locked", "closed"}
              /\ \E g \in Goals : Content(goal'[g]) # Content(goal[g])

FrozenButForLate ==
    [][/\ ClosedStep => \E s \in Sessions : Late(s, {"closed"})
       /\ LockedStep => \E s \in Sessions : Late(s, {"locked", "closed"})]_vars

-----------------------------------------------------------------------------
(***************************************************************************)
(* What the documents say and the code does not keep.                      *)
(***************************************************************************)

\* "Cleared when it is resubmitted, so a stale note cannot read as a comment
\* on the current version" (0037, of hcm_revision_note): submit() and its
\* trigger leave the note.
NoteClearedOnResubmit ==
    \A g \in Goals : goal[g].state = "pending_approval" => ~goal[g].note

\* "A revised goal must not still carry the signature of somebody who approved
\* a different version of it" (goals.service.ts, hcmRevise): update() changes
\* the weight or title of a goal that waits for HCM or is active, and leaves
\* its signatures.
SignatureCurrent ==
    \A g \in Goals : goal[g].state \in {"pending_hcm", "active"}
                         => Content(goal[g]) = signed[g]

\* "Locking runs the weight-sum check" (kpi.service.ts, setPeriodState): when
\* a period locks, the weights of everybody's goals add up.  The check counts
\* what is committed when it runs, and edits under way commit before the lock
\* does.
LockedWeightsChecked ==
    [][period.state = "open" /\ period'.state = "locked" => Violators = {}]_vars

\* "locked -- goal SET is frozen" (0007, goal_period_state): no goal joins or
\* leaves what the weight check counted.  Approving a draft and cancelling a
\* goal are let through.
LockedSetFrozen ==
    [][/\ period.state = "locked"
       /\ \A s \in Sessions : ~Late(s, {"locked"})
       => \A e \in People : Counted(e)' = Counted(e)]_vars

\* "closed -- everything frozen; the historical record" (0007): a transaction
\* whose triggers saw the period open commits after it has closed.
ClosedFrozen ==
    [][period.state = "closed" => goal' = goal /\ actual' = actual]_vars

\* "Your goal was approved by {{approverName}}" (0021, 0037): the name in the
\* message is that of somebody who signed.
ApproverNamed ==
    \A g \in Goals : \A m \in mail[g] :
       m.what \in {"approved", "awaiting_hcm"} => m.approver \in {goal[g].by, goal[g].hcm}

\* "The employee is told that instead -- silence here would read as the
\* supervisor having done nothing" (goals.service.ts, approve): what the
\* approval has to say is queued.  Both outcomes share the key goal-approved,
\* and the older message, still waiting, takes the place of the newer.
ApprovalTold ==
    [][\A s \in Sessions :
         tx[s].kind = "approve" /\ goal'[tx[s].goal] # goal[tx[s].goal]
           => tx[s].mail \subseteq mail'[tx[s].goal]]_vars

\* "A failure returns the offending employees so HR can act rather than being
\* told only that it failed" (kpi.service.ts, setPeriodState).
RefusalExplained == answer # "error"
=============================================================================
