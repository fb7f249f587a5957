------------------------------- MODULE Import -------------------------------
(* The organisation as the staff file and the Setup screen write it:        *)
(* ph201-import.service.ts with employee-import.service.ts inside it, and   *)
(* the units and ranks of reference-data.service.ts under the triggers of   *)
(* 0018 and 0027.                                                           *)
(*                                                                          *)
(* An import is one transaction which any error undoes, so it is one step   *)
(* or none; a dry run is none.  An update in Setup is two: its triggers     *)
(* look at other rows without a lock, and its commit comes later.           *)
(*                                                                          *)
(* Left out: names, dates and mail addresses of people, employment types,   *)
(* families and grades; people who leave, and transfers from a later day on *)
(* (Employment has both); titles: those who were first placed in a unit     *)
(* hold one position.                                                       *)
EXTENDS Integers, Sequences, FiniteSets

CONSTANTS
    Names, Codes, CodeOf,   \* names of units, and departmentCode()
    People,
    Nil,
    Files,                  \* the staff files that may be uploaded
    Levels,                 \* of the seven, those that Setup gives a unit
    Updates,                \* updates in Setup under way at once
    MaxImports, MaxChanges  \* bounds of the model

ASSUME CodeOfAssumption == CodeOf \in [Names -> Codes]
ASSUME LevelsAssumption ==
    Levels \subseteq {"holdings", "group", "division", "department", "section", "area", "branch"}
ASSUME BoundsAssumption == MaxImports \in Nat /\ MaxChanges \in Nat
ASSUME NilAssumption == Nil \notin Codes \cup People \cup (Codes \X Nat)

DepthOf ==
    [holdings |-> 1, group |-> 2, division |-> 3, department |-> 4,
     section |-> 5, area |-> 5, branch |-> 6]

VARIABLES
    org,      \* the committed tables, see OrgType
    transfer, \* transfer[p]: the unit p was transferred to, Nil before
    pending,  \* per session, the unit an open UPDATE rewrites, and its new row
    imports,  \* how many imports have been committed
    changes,  \* how many updates in Setup and transfers have begun
    lineFrom, \* history: the import that wrote a person's reporting line
    raced,    \* history: two units were moved at once
    admitted  \* history: who came to their unit while or after it was closed

importVars == <<org, transfer, pending, imports, changes, lineFrom, raced, admitted>>
history == <<lineFrom, raced, admitted>>

NoUpdate == [unit |-> Nil]

\* A unit is known by the code it was created with and a number; the code may
\* be corrected later.  ends: it has no effective_to, one after today, or one
\* that has come.
Ids == Codes \X Nat
Row == [code : Codes, name : Names, level : DOMAIN DepthOf,
        parent : Ids \cup {Nil}, ends : {"never", "later", "past"}]

\* rank: the rung of the position in a unit, or Nil.  ladder: whose code the
\* rung with this number has.
Ranks == {6, 7}

OrgType(o) ==
    /\ DOMAIN o = {"units", "place", "boss", "rank", "ladder"}
    /\ DOMAIN o.units \subseteq Ids /\ o.units \in [DOMAIN o.units -> Row]
    /\ o.place \in [People -> DOMAIN o.units \cup {Nil}]
    /\ o.boss \in [People -> People \cup {Nil}]
    /\ o.rank \in [DOMAIN o.units -> Ranks \cup {Nil}]
    /\ o.ladder \in [Ranks -> {"none", "file", "setup"}]

\* Every table keeps its type, and what is pending is about units that exist.
ImportTypeOK ==
    /\ OrgType(org)
    /\ pending \in [Updates -> {NoUpdate} \cup [unit : DOMAIN org.units, row : Row]]
    /\ imports \in 0..MaxImports /\ changes \in 0..MaxChanges
    /\ lineFrom \in [People -> 0..MaxImports] /\ raced \in BOOLEAN
    /\ transfer \in [People -> DOMAIN org.units \cup {Nil}]
    /\ admitted \subseteq People

\* The rows of a staff file, with their units in the order of UNIT_LEVELS.  A row
\* that names none is dropped.
StaffFile(f) ==
    /\ f \in Seq([who : People, units : Seq([name : Names, level : DOMAIN DepthOf]),
                  boss : People \cup {Nil}, rank : Ranks \cup {Nil}])
    /\ \A i \in DOMAIN f :
           /\ f[i].units # <<>>
           /\ \A j, k \in DOMAIN f[i].units :
                  j <= k => DepthOf[f[i].units[j].level] <= DepthOf[f[i].units[k].level]

ASSUME FilesAssumption == \A f \in Files : StaffFile(f)

Override(new, old) ==
    [x \in DOMAIN new \cup DOMAIN old |-> IF x \in DOMAIN new THEN new[x] ELSE old[x]]

----------------------------------------------------------------------------
(* Reading a file.  A row is [who, units, boss, rank]: the units it names,  *)
(* in the order of UNIT_LEVELS, with their levels.                          *)

People_(f) == {f[i].who : i \in DOMAIN f}
RowOf(f, p) == f[CHOOSE i \in DOMAIN f : f[i].who = p]
Deepest(row) == CodeOf[row.units[Len(row.units)].name]

Mentions(f) == UNION {{i} \X DOMAIN f[i].units : i \in DOMAIN f}
At(f, m) == f[m[1]].units[m[2]]
CodeAt(f, m) == CodeOf[At(f, m).name]
ParentAt(f, m) == IF m[2] = 1 THEN Nil ELSE CodeAt(f, <<m[1], m[2] - 1>>)
CodesIn(f) == {CodeAt(f, m) : m \in Mentions(f)}

\* The first row that names a unit fixes its level; no later row is compared.
First(f, c) ==
    CHOOSE m \in Mentions(f) :
        /\ CodeAt(f, m) = c
        /\ \A n \in Mentions(f) : CodeAt(f, n) = c =>
               m[1] < n[1] \/ (m[1] = n[1] /\ m[2] <= n[2])
LevelIn(f, c) == At(f, First(f, c)).level
NameIn(f, c) == At(f, First(f, c)).name
ParentIn(f, c) == ParentAt(f, First(f, c))

UnitsAgree(f) ==
    /\ \A m, n \in Mentions(f) : CodeAt(f, m) = CodeAt(f, n) =>
           At(f, m).name = At(f, n).name /\ ParentAt(f, m) = ParentAt(f, n)
    /\ \A i \in DOMAIN f :
           ~ {"section", "area"} \subseteq {f[i].units[j].level : j \in DOMAIN f[i].units}

\* One position, one rank.
RanksAgree(f) ==
    \A i, j \in DOMAIN f :
        (f[i].rank # Nil /\ f[j].rank # Nil /\ Deepest(f[i]) = Deepest(f[j]))
            => f[i].rank = f[j].rank

\* Mutant: only two people who report to each other are noticed.
LoopsOfTwo(next, start) ==
    next[start] \in DOMAIN next /\ next[next[start]] = start

\* findCycles(): from each person up the lines, until a person comes again.
Loops(next, start) ==
    LET walk[at \in (SUBSET DOMAIN next) \X (People \cup {Nil})] ==
            LET path == at[1]  node == at[2] IN
            /\ node \in DOMAIN next
            /\ node \in path \/ walk[<<path \cup {node}, next[node]>>]
    IN  walk[<<{}, start>>]

Lines(f) == [p \in {q \in People_(f) : RowOf(f, q).boss # Nil} |-> RowOf(f, p).boss]

Passes(f) ==
    /\ UnitsAgree(f) /\ RanksAgree(f)
    /\ Cardinality(People_(f)) = Len(f)
    /\ \A i \in DOMAIN f : f[i].boss \in (People_(f) \ {f[i].who}) \cup {Nil}
    /\ \A p \in DOMAIN Lines(f) : ~ Loops(Lines(f), p)

\* What the file check lets through.
ValidFiles == {f \in Files : Passes(f)}

----------------------------------------------------------------------------
(* Writing a file.  `id' says which row each code of the file stands for: a *)
(* new one, or one that has the code already.  After a correction in Setup  *)
(* a closed and an open row may share it, and the SELECT takes either.      *)

WithCode(o, c) == {i \in DOMAIN o.units : o.units[i].code = c}
\* Mutant: a unit is created whether it is there or not.
MissingAlways(o, f) == CodesIn(f)
Missing(o, f) == {c \in CodesIn(f) : WithCode(o, c) = {}}
Fresh(o, c) == <<c, 1 + Cardinality({i \in DOMAIN o.units : i[1] = c})>>

Found(o, f) ==
    {id \in [CodesIn(f) -> DOMAIN o.units \cup {Fresh(o, c) : c \in Missing(o, f)}] :
        \A c \in CodesIn(f) :
            IF c \in Missing(o, f) THEN id[c] = Fresh(o, c) ELSE id[c] \in WithCode(o, c)}

\* Mutant: the deepest first.
WrittenBeforeDeepest(f, parent, child) ==
    DepthOf[LevelIn(f, parent)] >= DepthOf[LevelIn(f, child)]

\* Units are written the shallowest first, equals in the order of the file: a
\* parent is known to its children if it is written before them.
WrittenBefore(f, parent, child) ==
    DepthOf[LevelIn(f, parent)] <= DepthOf[LevelIn(f, child)]

\* What is written to a unit that exists already: nothing.
Reshaped(o, f, id, i) == o.units[i]

UnitsAfter(o, f, id) ==
    Override(
        [i \in {id[c] : c \in Missing(o, f)} |->
            LET code == i[1]  p == ParentIn(f, code) IN
            [code |-> code, name |-> NameIn(f, code), level |-> LevelIn(f, code), ends |-> "never",
             parent |-> IF p # Nil /\ WrittenBefore(f, p, code) THEN id[p] ELSE Nil]],
        [i \in DOMAIN o.units |-> Reshaped(o, f, id, i)])

\* Mutant: the end of a unit is not looked at.
HomesEver(us, c) == {i \in DOMAIN us : us[i].code = c}

\* resolveDepartment(): the units with this code whose end has not come, one that
\* is closed with a later date among them.
Homes(us, c) == {i \in DOMAIN us : us[i].code = c /\ us[i].ends # "past"}

\* department_current_code_uq: the units that hold this code.
Holders(us, c) == {i \in DOMAIN us : us[i].code = c /\ us[i].ends = "never"}

\* Trigger department_hierarchy_valid, of the row that is written only.
LevelFits(us, i) ==
    us[i].parent # Nil => DepthOf[us[us[i].parent].level] <= DepthOf[us[i].level]

\* Nothing on the way throws: the triggers accept every new unit, every
\* person has a unit to go to, and no rung of the file has another code.
Accepts(o, f, id) ==
    LET us == UnitsAfter(o, f, id) IN
    /\ \A i \in DOMAIN us \ DOMAIN o.units : LevelFits(us, i)
    /\ \A p \in People_(f) : Homes(us, Deepest(RowOf(f, p))) # {}
    /\ \A p \in People_(f) : RowOf(f, p).rank # Nil =>
           o.ladder[RowOf(f, p).rank] # "setup"

\* A first employment and a first line are written; those that are there
\* stay.  Of several homes it is the one that started last: starts do not
\* change, so it is the same one each time.  The rank of the file goes to
\* the position in every unit with that code that has one.
Imported(o, f, id) ==
    LET us == UnitsAfter(o, f, id)
        home(p) == CHOOSE i \in Homes(us, Deepest(RowOf(f, p))) : TRUE
        place == [p \in People |->
                     IF p \in People_(f) /\ o.place[p] = Nil THEN home(p) ELSE o.place[p]]
        rows(c) == {i \in DOMAIN f : Deepest(f[i]) = c /\ f[i].rank # Nil}
        posts == {place[p] : p \in People} \cup {home(p) : p \in People_(f)}
    IN  [units |-> us,
         place |-> place,
         boss |-> [p \in People |-> IF p \in DOMAIN Lines(f) /\ o.boss[p] = Nil
                                    THEN Lines(f)[p] ELSE o.boss[p]],
         rank |-> [i \in DOMAIN us |->
                      IF i \in posts /\ rows(us[i].code) # {}
                      THEN f[CHOOSE r \in rows(us[i].code) : TRUE].rank
                      ELSE IF i \in DOMAIN o.rank THEN o.rank[i] ELSE Nil],
         ladder |-> [r \in Ranks |-> IF \E i \in DOMAIN f : f[i].rank = r
                                     THEN "file" ELSE o.ladder[r]]]

----------------------------------------------------------------------------
ImportInit ==
    /\ org = [units |-> <<>>, place |-> [p \in People |-> Nil],
              boss |-> [p \in People |-> Nil], rank |-> <<>>,
              ladder |-> [r \in Ranks |-> "none"]]
    /\ pending = [s \in Updates |-> NoUpdate]
    /\ transfer = [p \in People |-> Nil]
    /\ imports = 0 /\ changes = 0
    /\ lineFrom = [p \in People |-> 0] /\ raced = FALSE /\ admitted = {}

\* The unit of somebody's employment: where an import placed them, or a transfer.
UnitOf(p) == IF transfer[p] # Nil THEN transfer[p] ELSE org.place[p]

\* A unit that has an end, or is being given one.
Closing(i) ==
    \/ org.units[i].ends # "never"
    \/ \E s \in Updates :
           pending[s] # NoUpdate /\ pending[s].unit = i /\ pending[s].row.ends # "never"

\* import(): a code an open update is about to take makes the INSERT wait.
Upload(f) ==
    /\ imports < MaxImports /\ f \in ValidFiles
    /\ \A s \in Updates : pending[s] # NoUpdate => pending[s].row.code \notin Missing(org, f)
    /\ \E id \in Found(org, f) :
           /\ Accepts(org, f, id)
           /\ org' = Imported(org, f, id)
    /\ imports' = imports + 1
    /\ lineFrom' = [p \in People |-> IF org'.boss[p] # org.boss[p]
                                     THEN imports' ELSE lineFrom[p]]
    /\ admitted' = admitted \cup {p \in People :
                    /\ org'.place[p] # org.place[p] /\ org'.place[p] \in DOMAIN org.units
                    /\ Closing(org'.place[p]) /\ org.units[org'.place[p]].ends # "past"}
    /\ UNCHANGED <<transfer, pending, changes, raced>>

\* record_employment_event(), from today on: it takes any unit there is.
Transfer(p, i) ==
    /\ changes < MaxChanges /\ changes' = changes + 1
    /\ org.place[p] # Nil /\ UnitOf(p) # i
    /\ transfer' = [transfer EXCEPT ![p] = i]
    /\ admitted' = IF Closing(i) THEN admitted \cup {p} ELSE admitted \ {p}
    /\ UNCHANGED <<org, pending, imports, lineFrom, raced>>

\* Mutant: only the parent of the new parent is looked at.
TrappedNear(us, i, parent) == us[parent].parent = i /\ us[i].parent = parent

\* Trigger department_no_cycle: up from the new parent without meeting the
\* unit.  A walk that does not end is refused at a depth of 32.
Trapped(us, i, parent) ==
    \E T \in SUBSET DOMAIN us : parent \in T /\ \A u \in T : u = i \/ us[u].parent \in T

Begin(s, i, row) ==
    /\ changes < MaxChanges /\ changes' = changes + 1
    /\ pending[s] = NoUpdate
    /\ org.units[i].ends = "never" /\ row # org.units[i]
    /\ \A t \in Updates : pending[t].unit # i
    /\ pending' = [pending EXCEPT ![s] = [unit |-> i, row |-> row]]
    /\ UNCHANGED <<org, transfer, imports, lineFrom, admitted>>

\* updateDepartment(): code, name, level or parent.  It lists the column of
\* the parent, so both triggers look at the row whatever is changed.
UpdateUnit(s, i) ==
    LET old == org.units[i] IN
    \E code \in Codes, name \in Names, level \in Levels \cup {old.level},
       parent \in (DOMAIN org.units \ {i}) \cup {Nil} :
        LET row == [old EXCEPT !.code = code, !.name = name, !.level = level,
                               !.parent = parent]
        IN  /\ <<code, name>> = <<old.code, old.name>> \/ <<level, parent>> = <<old.level, old.parent>>
            /\ parent # Nil => ~ Trapped(org.units, i, parent)
            /\ LevelFits([org.units EXCEPT ![i] = row], i)
            /\ Holders(org.units, code) \subseteq {i}
            /\ \A t \in Updates : pending[t] # NoUpdate => pending[t].row.code # code
            /\ Begin(s, i, row)
            /\ raced' = (raced \/ (parent # Nil /\ \E t \in Updates :
                             pending[t] # NoUpdate /\ pending[t].row.parent # Nil))

\* closeDepartment(), with any date: the trigger counts who is in the unit now.
CloseUnit(s, i) ==
    /\ \A p \in People : UnitOf(p) # i
    /\ \E ends \in {"later", "past"} : Begin(s, i, [org.units[i] EXCEPT !.ends = ends])
    /\ UNCHANGED raced

\* CURRENT_DATE reaches the day a unit was closed with.
EndComes(i) ==
    /\ org.units[i].ends = "later"
    /\ org' = [org EXCEPT !.units[i].ends = "past"]
    /\ UNCHANGED <<transfer, pending, imports, changes, history>>

CommitUpdate(s) ==
    /\ pending[s] # NoUpdate
    /\ org' = [org EXCEPT !.units[pending[s].unit] = pending[s].row]
    /\ pending' = [pending EXCEPT ![s] = NoUpdate]
    /\ UNCHANGED <<transfer, imports, changes, history>>

RollBack(s) ==
    /\ pending[s] # NoUpdate
    /\ pending' = [pending EXCEPT ![s] = NoUpdate]
    /\ UNCHANGED <<org, transfer, imports, changes, history>>

\* createDepartment(), with a code that no unit without an end has.
CreateUnit(c, name, level, parent) ==
    /\ changes < MaxChanges /\ changes' = changes + 1
    /\ Holders(org.units, c) = {}
    /\ \A s \in Updates : pending[s] # NoUpdate => pending[s].row.code # c
    /\ LET i == Fresh(org, c)
           us == Override([x \in {i} |-> [code |-> c, name |-> name, level |-> level,
                                          parent |-> parent, ends |-> "never"]], org.units)
       IN  /\ LevelFits(us, i)
           /\ org' = [org EXCEPT !.units = us, !.rank = Override([x \in {i} |-> Nil], @)]
    /\ UNCHANGED <<transfer, pending, imports, history>>

\* createRank() gives the rung a code of its own.
CreateRank(r) ==
    /\ changes < MaxChanges /\ changes' = changes + 1
    /\ org.ladder[r] = "none"
    /\ org' = [org EXCEPT !.ladder[r] = "setup"]
    /\ UNCHANGED <<transfer, pending, imports, history>>

\* updatePosition() sets or clears the rank of a position.
SetRank(i, r) ==
    /\ changes < MaxChanges /\ changes' = changes + 1
    /\ \E p \in People : org.place[p] = i
    /\ r # Nil => org.ladder[r] # "none"
    /\ org.rank[i] # r /\ org' = [org EXCEPT !.rank[i] = r]
    /\ UNCHANGED <<transfer, pending, imports, history>>

ImportNext ==
    \/ \E f \in Files : Upload(f)
    \/ \E p \in People, i \in DOMAIN org.units : Transfer(p, i)
    \/ \E s \in Updates, i \in DOMAIN org.units : UpdateUnit(s, i) \/ CloseUnit(s, i)
    \/ \E s \in Updates : CommitUpdate(s) \/ RollBack(s)
    \/ \E i \in DOMAIN org.units : EndComes(i)
    \/ \E c \in Codes, name \in Names, level \in Levels,
          parent \in DOMAIN org.units \cup {Nil} : CreateUnit(c, name, level, parent)
    \/ \E r \in Ranks : CreateRank(r)
    \/ \E i \in DOMAIN org.units, r \in Ranks \cup {Nil} : SetRank(i, r)

ImportSpec == ImportInit /\ [][ImportNext]_importVars

----------------------------------------------------------------------------
(* Properties.                                                              *)

\* The same file again is accepted and changes nothing.
Repeatable ==
    [][\A f \in Files : Upload(f) =>
          \A id \in Found(org', f) : Accepts(org', f, id) /\ Imported(org', f, id) = org']_importVars

OneLevelEach(f) ==
    \A m \in Mentions(f) : At(f, m).level = LevelIn(f, CodeAt(f, m))

\* If a file gives each unit one level, every unit it creates hangs under the
\* unit that the file names above it.
LinkedAsNamed ==
    [][\A f \in Files : Upload(f) /\ OneLevelEach(f) =>
          \A i \in DOMAIN org'.units \ DOMAIN org.units :
              LET p == ParentIn(f, i[1])  q == org'.units[i].parent IN
              IF p = Nil THEN q = Nil ELSE q # Nil /\ org'.units[q].code = p]_importVars

\* A set of people or units each of which has its next one in the set: there
\* is one if and only if there is a cycle.
Circular(next, T) == T # {} /\ \A x \in T : next[x] \in T

\* People never report in a circle but through lines of different files: no
\* accepted file holds a cycle, and no import completes one by its own lines.
CyclesSpanImports ==
    \A T \in SUBSET People :
        Circular(org.boss, T) => Cardinality({lineFrom[p] : p \in T}) > 1

\* Units never form a cycle but by two moves that did not see each other.
ForestUnlessRaced ==
    \A T \in SUBSET DOMAIN org.units :
        Circular([i \in DOMAIN org.units |-> org.units[i].parent], T) => raced

\* A unit that was closed has people only whom an import placed there while it
\* was being closed or before the day came that it was closed with, or whom a
\* transfer brought while it was being closed or afterwards: nobody who was there
\* is closed upon.
ClosedUnlessAdmitted ==
    \A p \in People : UnitOf(p) # Nil =>
        org.units[UnitOf(p)].ends = "never" \/ p \in admitted

----------------------------------------------------------------------------
(* What documents and comments say and the code does not keep.              *)

\* ph201-import.service.ts:524 says of the order of writing that "getting this
\* order wrong would fail loudly rather than build a wrong tree": a unit that
\* the file first names at a lower level is written after its children, and
\* they are created without a parent.
LinkedWhateverLevels ==
    [][\A f \in Files : Upload(f) =>
          \A i \in DOMAIN org'.units \ DOMAIN org.units :
              ParentIn(f, i[1]) # Nil => org'.units[i].parent # Nil]_importVars

\* The template says of the department (ph201-import.service.ts:109) "The NAME,
\* not a code", and that the unit is created if it does not exist: a name whose
\* derived code a stored unit has puts its people in that unit, unreported.
PlacedWhereNamed ==
    [][\A f \in Files : Upload(f) =>
          \A p \in People_(f) : org.place[p] = Nil =>
              LET r == RowOf(f, p).units IN
              org'.units[org'.place[p]].name = r[Len(r)].name]_importVars

\* employee-import.service.ts:151 says cycles are caught "here, where the fix is
\* cheap": two files together make one.
NobodyReportsInACircle ==
    \A T \in SUBSET People : ~ Circular(org.boss, T)

\* 0018_reference_data_admin.sql:57 says "A department cannot become its own
\* ancestor": two moves at once make it one.
UnitsFormForest ==
    \A T \in SUBSET DOMAIN org.units :
        ~ Circular([i \in DOMAIN org.units |-> org.units[i].parent], T)

\* 0027_org_unit_type.sql:71 says "A child may not sit ABOVE its parent": the
\* trigger looks up, not down, when the level of a parent is changed.
LevelsDescend == \A i \in DOMAIN org.units : LevelFits(org.units, i)

\* 0018_reference_data_admin.sql:23 says "A department cannot be closed while
\* people are still in it": an import places somebody meanwhile, or afterwards if
\* the day lies ahead, and a transfer at any time.
ClosedAreEmpty ==
    \A p \in People : UnitOf(p) # Nil => org.units[UnitOf(p)].ends # "past"

\* reference-data.service.ts:174 says a unit is closed "as of a date. Refused if
\* anyone is still assigned": until that date the import goes on assigning people
\* to it, a transfer does even then, and nobody counts again.
ClosedTakeNobody ==
    [][\A p \in People : UnitOf(p)' # UnitOf(p) =>
          org'.units[UnitOf(p)'].ends = "never"]_importVars

\* reference-data.service.ts:81 says correcting a derived code "is safe": the
\* next import of the same file creates the unit again under the old code.
CorrectionStands ==
    [][\A f \in Files : Upload(f) =>
          \A i \in DOMAIN org'.units \ DOMAIN org.units :
              \A j \in DOMAIN org.units :
                  ~ (org.units[j].ends = "never" /\ org.units[j].name = org'.units[i].name)]_importVars
=============================================================================
