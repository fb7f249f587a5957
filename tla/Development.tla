----------------------------- MODULE Development -----------------------------
(***************************************************************************)
(* Development plans and assigned learning: DevelopmentService and the     *)
(* triggers of 0023, under the row policies of 0024.  A plan has actions;  *)
(* a resource of the library is assigned to a person once, and may be      *)
(* assigned for an action, which is completed with it by a trigger.  Every *)
(* UPDATE holds the rows it wrote until its transaction ends.              *)
(***************************************************************************)
EXTENDS Naturals

CONSTANTS
    DevPlans,
    Places,     \* the actions a plan may have
    Resources,  \* the learning library
    People,
    OwnerOf,    \* OwnerOf[p]: the employee whose plan p is
    Covers,     \* Covers[w]: the employees whose plans w holds a write grant for
    Days,       \* dates of completion
    Null,       \* no date, no action, no plan
    Requests    \* requests that run at the same time

ASSUME OwnersAssumption == OwnerOf \in [DevPlans -> People]
ASSUME CoversAssumption == Covers \in [People -> SUBSET People]
ASSUME NullAssumption == Null \notin DevPlans \cup Days \cup (DevPlans \X Places) \cup (People \X Resources)

Actions == DevPlans \X Places
Lessons == People \X Resources     \* UNIQUE (employee_id, learning_resource_id)

\* The policies on development_plan, dev_action and learning_assignment.
MayChange(who, e) == who = e \/ e \in Covers[who]

Stages   == {"absent", "draft", "active", "completed", "cancelled"}
Statuses == {"not_started", "in_progress", "completed", "deferred", "cancelled"}
Progress == {"assigned", "in_progress", "completed", "waived"}

Action == [status : Statuses \cup {"absent"}, on : Days \cup {Null}]
Lesson == [state : Progress \cup {"absent"}, of : Actions \cup {Null}, on : Days \cup {Null}]

NoAction == [status |-> "absent", on |-> Null]
NoLesson == [state |-> "absent", of |-> Null, on |-> Null]

VARIABLES
    life,      \* life[p]: development_plan.state
    action,    \* action[x]: dev_action
    lesson,    \* lesson[a]: learning_assignment
    writes,    \* writes[s]: what the transaction of session s has written
    reopened,  \* history: actions that updateAction() took back from completed
    unseen     \* history: lessons completed by who may not write their action

devHistory == <<reopened, unseen>>
devVars == <<life, action, lesson, writes, devHistory>>

\* The rows a transaction has written and holds, each with what it wrote.
Writes == [plan : DevPlans \cup {Null}, life : Stages,
           marks : Actions \cup {Null}, action : Action,
           learns : Lessons \cup {Null}, lesson : Lesson, blind : BOOLEAN]

Writing(p, to, x, mark, a, progress, blind) ==
    [plan |-> p, life |-> to, marks |-> x, action |-> mark,
     learns |-> a, lesson |-> progress, blind |-> blind]

NoWrites == Writing(Null, "absent", Null, NoAction, Null, NoLesson, FALSE)

DevTypeOK ==
    /\ life \in [DevPlans -> Stages]
    /\ action \in [Actions -> Action]
    /\ lesson \in [Lessons -> Lesson]
    /\ writes \in [Requests -> Writes]
    /\ reopened \subseteq Actions /\ unseen \subseteq Lessons

Free(p)       == \A s \in Requests : writes[s].plan # p
FreeAction(x) == \A s \in Requests : writes[s].marks # x
FreeLesson(a) == \A s \in Requests : writes[s].learns # a

HasAction(p) == \E n \in Places : action[<<p, n>>].status # "absent"

DevInit ==
    /\ life = [p \in DevPlans |-> "absent"]
    /\ action = [x \in Actions |-> NoAction]
    /\ lesson = [a \in Lessons |-> NoLesson]
    /\ writes = [s \in Requests |-> NoWrites]
    /\ reopened = {} /\ unseen = {}

\* createPlan(): the plan and its actions, in one transaction that waits for nobody.
CreatePlan(who, p, slots) ==
    /\ life[p] = "absent" /\ slots # {}
    /\ MayChange(who, OwnerOf[p])
    /\ life' = [life EXCEPT ![p] = "draft"]
    /\ action' = [x \in Actions |-> IF x[1] = p /\ x[2] \in slots
                                    THEN [status |-> "not_started", on |-> Null]
                                    ELSE action[x]]
    /\ UNCHANGED <<lesson, writes, devHistory>>

\* app.development_plan_transition: a state that stays is not looked at.
Successors == [draft     |-> {"active", "cancelled"},
               active    |-> {"completed", "cancelled"},
               completed |-> {},
               cancelled |-> {}]

\* Mutant: the row is judged without waiting for who holds it.
SetPlanStateUnlocked(s, who, p, to) ==
    /\ writes[s] = NoWrites
    /\ life[p] # "absent"
    /\ MayChange(who, OwnerOf[p])
    /\ to = life[p] \/ to \in Successors[life[p]]
    /\ writes' = [writes EXCEPT ![s] = Writing(p, to, Null, NoAction, Null, NoLesson, FALSE)]
    /\ UNCHANGED <<life, action, lesson, devHistory>>

SetPlanState(s, who, p, to) ==
    /\ writes[s] = NoWrites
    /\ life[p] # "absent" /\ Free(p)
    /\ MayChange(who, OwnerOf[p])
    /\ \/ to = life[p]
       \/ to \in Successors[life[p]] /\ (to = "active" => HasAction(p))
    /\ writes' = [writes EXCEPT ![s] = Writing(p, to, Null, NoAction, Null, NoLesson, FALSE)]
    /\ UNCHANGED <<life, action, lesson, devHistory>>

\* What updateAction() and the trigger write: the date goes with the status.
Marked(status, day) ==
    [status |-> status, on |-> IF status = "completed" THEN day ELSE Null]

\* updateAction(): any status over any other, whatever the state of the plan.
UpdateAction(s, who, x, status, day) ==
    /\ writes[s] = NoWrites
    /\ action[x].status # "absent" /\ FreeAction(x)
    /\ MayChange(who, OwnerOf[x[1]])
    /\ writes' = [writes EXCEPT ![s] =
                 Writing(Null, "absent", x, Marked(status, day), Null, NoLesson, FALSE)]
    /\ UNCHANGED <<life, action, lesson, devHistory>>

\* assign(): to anybody the caller may write, for any action there is or for none.
Assign(who, a, x) ==
    /\ lesson[a].state = "absent"
    /\ MayChange(who, a[1])
    /\ x # Null => action[x].status # "absent"
    /\ lesson' = [lesson EXCEPT ![a] = [state |-> "assigned", of |-> x, on |-> Null]]
    /\ UNCHANGED <<life, action, writes, devHistory>>

(***************************************************************************)
(* setAssignmentState() and the trigger close_dev_action_on_learning.  Its *)
(* UPDATE runs as the caller: it sees the action only through the policy,  *)
(* and passes over one that stands completed, without waiting for whoever  *)
(* may be changing it; any other it waits for.                             *)
(***************************************************************************)
\* Mutant: only a lesson that was in progress is looked at.
FiresWhenBegun(a, to) ==
    to = "completed" /\ lesson[a].state = "in_progress" /\ lesson[a].of # Null

Fires(a, to) ==
    to = "completed" /\ lesson[a].state # "completed" /\ lesson[a].of # Null

Closes(who, a, to) ==
    LET x == lesson[a].of IN
    Fires(a, to) /\ MayChange(who, OwnerOf[x[1]]) /\ action[x].status # "completed"

SetAssignmentState(s, who, a, to, day) ==
    LET x == lesson[a].of
        closes == Closes(who, a, to)
    IN
    /\ writes[s] = NoWrites
    /\ lesson[a].state # "absent" /\ FreeLesson(a)
    /\ MayChange(who, a[1])
    /\ closes => FreeAction(x)
    /\ writes' = [writes EXCEPT ![s] =
                 Writing(Null, "absent",
                     IF closes THEN x ELSE Null,
                     IF closes THEN Marked("completed", day) ELSE NoAction,
                     a,
                     [state |-> to, of |-> x, on |-> IF to = "completed" THEN day ELSE Null],
                     Fires(a, to) /\ ~MayChange(who, OwnerOf[x[1]]))]
    /\ UNCHANGED <<life, action, lesson, devHistory>>

\* The history after action x is written with this status.
ReopenedBy(x, status) ==
    IF x = Null THEN reopened
    ELSE IF status = "completed" THEN reopened \ {x}
    ELSE IF action[x].status = "completed" THEN reopened \cup {x}
    ELSE reopened

Commit(s) ==
    LET t == writes[s] IN
    /\ t # NoWrites
    /\ life' = [p \in DevPlans |-> IF p = t.plan THEN t.life ELSE life[p]]
    /\ action' = [x \in Actions |-> IF x = t.marks THEN t.action ELSE action[x]]
    /\ lesson' = [a \in Lessons |-> IF a = t.learns THEN t.lesson ELSE lesson[a]]
    /\ reopened' = ReopenedBy(t.marks, t.action.status)
    /\ unseen' = IF t.blind THEN unseen \cup {t.learns}
                 ELSE IF t.lesson.state # "completed" THEN unseen \ {t.learns}
                 ELSE unseen
    /\ writes' = [writes EXCEPT ![s] = NoWrites]

\* A statement fails, the connection is lost or the process dies.
Undo(s) ==
    /\ writes[s] # NoWrites
    /\ writes' = [writes EXCEPT ![s] = NoWrites]
    /\ UNCHANGED <<life, action, lesson, devHistory>>

DevNext ==
    \/ \E s \in Requests : Commit(s) \/ Undo(s)
    \/ \E who \in People :
          \/ \E p \in DevPlans, slots \in SUBSET Places : CreatePlan(who, p, slots)
          \/ \E a \in Lessons, x \in Actions \cup {Null} : Assign(who, a, x)
          \/ \E s \in Requests :
                \/ \E p \in DevPlans, to \in {"active", "completed", "cancelled"} :
                      SetPlanState(s, who, p, to)
                \/ \E x \in Actions, status \in Statuses, day \in Days :
                      UpdateAction(s, who, x, status, day)
                \/ \E a \in Lessons, to \in Progress, day \in Days :
                      SetAssignmentState(s, who, a, to, day)

DevSpec == DevInit /\ [][DevNext]_devVars

(***************************************************************************)
(* Properties                                                              *)
(***************************************************************************)

Course == INSTANCE Lifecycle WITH Plans <- DevPlans, state <- life

\* However setPlanState() calls overlap, wait and are lost, a development plan
\* moves as app.development_plan_transition says: it ends once, one way.
FollowsLifecycle == Course!Spec

\* A lesson that is done and an action of it that is not: somebody took the
\* action back by hand, before or after, or who completed the lesson was not
\* allowed to write the action.  The trigger leaves no other way apart.
DriftOnlyByHand ==
    \A a \in Lessons :
        /\ lesson[a].state = "completed" /\ lesson[a].of # Null
        /\ action[lesson[a].of].status # "completed"
        => lesson[a].of \in reopened \/ a \in unseen

(***************************************************************************)
(* What documents say and the code does not do                             *)
(***************************************************************************)

\* "Completing an assignment linked to a development action closes that action
\* too" (setAssignmentState): when the one who completes it may write the
\* action, it is completed from that step on.
LearningCloses ==
    [][\A a \in Lessons :
          /\ lesson[a].state # "completed" /\ lesson'[a].state = "completed"
          /\ lesson[a].of # Null /\ a \notin unseen'
          => action'[lesson[a].of].status = "completed"]_devVars
=============================================================================
