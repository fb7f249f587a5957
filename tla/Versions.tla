------------------------------ MODULE Versions ------------------------------
(***************************************************************************)
(* Publishing a version: of a KPI (KpiService), of a form template         *)
(* (FormsService) and of a competency framework (CompetenciesService).     *)
(* Each is one transaction of several statements at READ COMMITTED: it     *)
(* reads, takes the version in force out of force, and puts another in     *)
(* force; unique indexes on the version number and on the version in force *)
(* refuse what collides.  The three differ in what they read and in how    *)
(* the statement that takes a version out of force finds its row, so they  *)
(* meet another publisher each in its own way.  All callers hold the write *)
(* grant; what a version says is left out.                                 *)
(***************************************************************************)
EXTENDS Naturals

CONSTANTS
    Kpis, Templates, Frameworks,   \* codes
    NoCode,
    MaxVersion,                    \* bound: versions of one code
    Sessions                       \* requests that run at the same time

Codes == Kpis \cup Templates \cup Frameworks

ASSUME CodesAssumption ==
    /\ Kpis \cap Templates = {} /\ Kpis \cap Frameworks = {}
    /\ Templates \cap Frameworks = {}
    /\ NoCode \notin Codes
ASSUME MaxVersionAssumption == MaxVersion \in Nat \ {0}

VARIABLES
    last,    \* last[c]: versions 1..last[c] of c are in the table
    active,  \* active[c]: those with is_active
    tx,      \* tx[s]: the transaction of session s
    denied   \* history: templates of which a version was answered "Not permitted"

vars == <<last, active, tx, denied>>

\* `seen` is the version it read, `row` the one it takes out of force.
Tx == [at : {"idle", "drafting", "read", "retiring", "holding"},
       of : Codes \cup {NoCode}, seen : 0..MaxVersion, row : 0..MaxVersion]

Txn(at, c, seen, row) == [at |-> at, of |-> c, seen |-> seen, row |-> row]

Idle == Txn("idle", NoCode, 0, 0)

TypeOK ==
    /\ last \in [Codes -> 0..MaxVersion]
    /\ active \in [Codes -> SUBSET (1..MaxVersion)]
    /\ tx \in [Sessions -> Tx]
    /\ denied \subseteq Templates

\* No other transaction has updated this row and not ended yet.
Free(s, c, v) ==
    \A r \in Sessions \ {s} : ~(tx[r].at = "holding" /\ tx[r].of = c /\ tx[r].row = v)

Init ==
    /\ last = [c \in Codes |-> 0]
    /\ active = [c \in Codes |-> {}]
    /\ tx = [s \in Sessions |-> Idle]
    /\ denied = {}

\* createDefinition() and createTemplate() insert version 1, in force; a code
\* that exists is refused.
CreateFirst(c) ==
    /\ c \notin Frameworks /\ last[c] = 0
    /\ last' = [last EXCEPT ![c] = 1]
    /\ active' = [active EXCEPT ![c] = {1}]
    /\ UNCHANGED <<tx, denied>>

\* createFramework() reads the last version and inserts the next, as a draft.
ReadLast(s, c) ==
    /\ tx[s].at = "idle" /\ c \in Frameworks
    /\ tx' = [tx EXCEPT ![s] = Txn("drafting", c, last[c], 0)]
    /\ UNCHANGED <<last, active, denied>>

InsertDraft(s) ==
    LET c == tx[s].of  new == tx[s].seen + 1 IN
    /\ tx[s].at = "drafting"
    /\ last[c] < new /\ new <= MaxVersion
    /\ last' = [last EXCEPT ![c] = new]
    /\ tx' = [tx EXCEPT ![s] = Idle]
    /\ UNCHANGED <<active, denied>>

\* publishNewVersion() of a KPI: what it read is the row it will update, by id.
ReadKpi(s, c, v) ==
    /\ tx[s].at = "idle" /\ c \in Kpis /\ v \in active[c]
    /\ tx' = [tx EXCEPT ![s] = Txn("retiring", c, v, v)]
    /\ UNCHANGED <<last, active, denied>>

\* publishVersion() of a form reads the last version.
ReadTemplate(s, c) ==
    /\ tx[s].at = "idle" /\ c \in Templates /\ last[c] > 0
    /\ tx' = [tx EXCEPT ![s] = Txn("read", c, last[c], 0)]
    /\ UNCHANGED <<last, active, denied>>

\* publishFramework() is given a version, whichever it is.
ReadFramework(s, c, v) ==
    /\ tx[s].at = "idle" /\ c \in Frameworks /\ v \in 1..last[c]
    /\ tx' = [tx EXCEPT ![s] = Txn("read", c, v, 0)]
    /\ UNCHANGED <<last, active, denied>>

\* UPDATE ... WHERE is_active begins: its snapshot says which row it is after.
FindActive(s) ==
    LET c == tx[s].of IN
    /\ tx[s].at = "read"
    /\ \E v \in (IF active[c] = {} THEN {0} ELSE active[c]) :
          tx' = [tx EXCEPT ![s] = Txn("retiring", c, tx[s].seen, v)]
    /\ UNCHANGED <<last, active, denied>>

\* It gets the row once nobody else holds it.  A KPI is found by its id,
\* whether it is in force or not.  For the others the condition is looked at
\* again; a framework goes on although no row was left, a form does not.
Retire(s) ==
    LET c == tx[s].of  v == tx[s].row IN
    /\ tx[s].at = "retiring" /\ Free(s, c, v)
    /\ c \in Templates => v \in active[c]
    /\ tx' = [tx EXCEPT ![s].at = "holding"]
    /\ UNCHANGED <<last, active, denied>>

RetireNothing(s) ==
    LET c == tx[s].of  v == tx[s].row IN
    /\ tx[s].at = "retiring" /\ Free(s, c, v)
    /\ c \in Templates /\ v \notin active[c]
    /\ denied' = denied \cup {c}
    /\ tx' = [tx EXCEPT ![s] = Idle]
    /\ UNCHANGED <<last, active>>

\* Mutant: the number of the new version is taken when it is inserted.
InstallNext(s) ==
    LET c == tx[s].of  new == last[c] + 1 IN
    /\ tx[s].at = "holding" /\ c \notin Frameworks
    /\ new <= MaxVersion
    /\ last' = [last EXCEPT ![c] = new]
    /\ active' = [active EXCEPT ![c] = {new}]
    /\ tx' = [tx EXCEPT ![s] = Idle]
    /\ UNCHANGED denied

\* The next version is inserted, in force, and the transaction commits.  The
\* indexes refuse a number that is there and a second version in force.
Install(s) ==
    LET c == tx[s].of  new == tx[s].seen + 1 IN
    /\ tx[s].at = "holding" /\ c \notin Frameworks
    /\ last[c] < new /\ new <= MaxVersion
    /\ active[c] \ {tx[s].row} = {}
    /\ last' = [last EXCEPT ![c] = new]
    /\ active' = [active EXCEPT ![c] = {new}]
    /\ tx' = [tx EXCEPT ![s] = Idle]
    /\ UNCHANGED denied

\* Mutant: there is no index on the framework in force.
PutInForceUnindexed(s) ==
    LET c == tx[s].of  v == tx[s].seen IN
    /\ tx[s].at = "holding" /\ c \in Frameworks
    /\ Free(s, c, v)
    /\ active' = [active EXCEPT ![c] = (@ \ {tx[s].row}) \cup {v}]
    /\ tx' = [tx EXCEPT ![s] = Idle]
    /\ UNCHANGED <<last, denied>>

\* The framework asked for is put in force, and the transaction commits.
PutInForce(s) ==
    LET c == tx[s].of  v == tx[s].seen IN
    /\ tx[s].at = "holding" /\ c \in Frameworks
    /\ Free(s, c, v)
    /\ active[c] \ {tx[s].row} \subseteq {v}
    /\ active' = [active EXCEPT ![c] = {v}]
    /\ tx' = [tx EXCEPT ![s] = Idle]
    /\ UNCHANGED <<last, denied>>

\* An index refuses the row, two publishers wait for each other and one is
\* picked, the connection is lost or the process dies.
Abort(s) ==
    /\ tx[s].at # "idle"
    /\ tx' = [tx EXCEPT ![s] = Idle]
    /\ UNCHANGED <<last, active, denied>>

Next ==
    \/ \E c \in Codes : CreateFirst(c)
    \/ \E s \in Sessions :
          \/ FindActive(s) \/ Retire(s) \/ RetireNothing(s)
          \/ InsertDraft(s) \/ Install(s) \/ PutInForce(s) \/ Abort(s)
          \/ \E c \in Codes :
                \/ ReadLast(s, c) \/ ReadTemplate(s, c)
                \/ \E v \in 1..MaxVersion : ReadKpi(s, c, v) \/ ReadFramework(s, c, v)

Spec == Init /\ [][Next]_vars

(***************************************************************************)
(* Properties                                                              *)
(***************************************************************************)

\* However publishers overlap, wait for each other and fail, the versions of a
\* KPI and of a form are numbered without a gap and the last is in force, and
\* only it; of a framework that was ever published one version is in force.
Library == INSTANCE Register WITH live <- active, Drafted <- Frameworks

ImplementsRegister == Library!Spec

\* Nobody's version is overwritten unseen: the version an editor publishes
\* follows, by number, the one the same editor found in force.  Who read an
\* older one fails.
PublishedOverWhatWasRead ==
    [][\A c \in Kpis \cup Templates :
          last[c] > 0 /\ last'[c] # last[c]
             => \E s \in Sessions : /\ tx[s].of = c /\ tx'[s].of = NoCode
                                    /\ {tx[s].seen} = active[c]
                                    /\ active'[c] = {tx[s].seen + 1}]_vars

\* What the refusal of publishVersion() says: who is told "Not permitted to
\* modify form templates" lacks the grant; everybody here has it.
DeniedMayNot == denied = {}
=============================================================================
