--------------------------- MODULE VersionsProofs ---------------------------
(***************************************************************************)
(* Proofs about Versions: types, that it implements Register, and that a   *)
(* version follows the one its editor read.                                *)
(***************************************************************************)
EXTENDS Versions, TLAPS

USE CodesAssumption, MaxVersionAssumption

-----------------------------------------------------------------------------
(* The inductive invariant.                                                *)

\* What a transaction has read is a version of its code.
ReadVersion ==
    \A s \in Sessions : tx[s].at # "idle" =>
        /\ tx[s].of \in Codes
        /\ tx[s].seen <= last[tx[s].of]
        /\ tx[s].at = "drafting" => tx[s].of \in Frameworks
        /\ tx[s].at # "drafting" => tx[s].seen > 0

\* Of a KPI and of a form the last version is in force, and only it.
LastInForce ==
    \A c \in Codes \ Frameworks :
        /\ last[c] = 0 => active[c] = {}
        /\ last[c] > 0 => active[c] = {last[c]}

IInv == TypeOK /\ ReadVersion /\ LastInForce

-----------------------------------------------------------------------------
(* Transactions.                                                           *)

\* The fields of a transaction, read back.
LEMMA TxnFields ==
    ASSUME NEW at, NEW c, NEW seen, NEW row
    PROVE  LET t == Txn(at, c, seen, row) IN
           t.at = at /\ t.of = c /\ t.seen = seen /\ t.row = row
BY DEF Txn

\* What a transaction must be made of.
LEMMA TxnType ==
    ASSUME NEW at \in {"idle", "drafting", "read", "retiring", "holding"},
           NEW c \in Codes \cup {NoCode},
           NEW seen \in 0..MaxVersion, NEW row \in 0..MaxVersion
    PROVE  Txn(at, c, seen, row) \in Tx
BY DEF Txn, Tx

\* The transaction that is none.
LEMMA IdleFacts == Idle \in Tx /\ Idle.at = "idle" /\ Idle.of = NoCode
BY TxnType, TxnFields DEF Idle

\* The fields of a session's transaction have their types.
LEMMA Fields ==
    ASSUME TypeOK, NEW s \in Sessions
    PROVE  /\ tx[s].at \in {"idle", "drafting", "read", "retiring", "holding"}
           /\ tx[s].of \in Codes \cup {NoCode}
           /\ tx[s].seen \in 0..MaxVersion /\ tx[s].row \in 0..MaxVersion
BY DEF TypeOK, Tx

-----------------------------------------------------------------------------
(* Every step replaces at most one transaction, and moves the versions of  *)
(* at most one code.                                                       *)

\* A step that only moves the transaction of one session keeps the invariant
\* if the new transaction has read a version of its code.
LEMMA OnlyReads ==
    ASSUME IInv, NEW s \in Sessions, NEW t \in Tx,
           t.at # "idle" => /\ t.of \in Codes /\ t.seen <= last[t.of]
                            /\ t.at = "drafting" => t.of \in Frameworks
                            /\ t.at # "drafting" => t.seen > 0,
           tx' = [tx EXCEPT ![s] = t],
           UNCHANGED <<last, active>>, denied' \subseteq Templates
    PROVE  IInv'
BY DEF IInv, TypeOK, ReadVersion, LastInForce

\* The same, for a transaction built by Txn.
LEMMA StartsReading ==
    ASSUME IInv, NEW s \in Sessions,
           NEW at \in {"drafting", "read", "retiring", "holding"}, NEW c \in Codes,
           NEW seen \in 0..MaxVersion, NEW row \in 0..MaxVersion,
           seen <= last[c],
           at = "drafting" => c \in Frameworks, at # "drafting" => seen > 0,
           tx' = [tx EXCEPT ![s] = Txn(at, c, seen, row)],
           UNCHANGED <<last, active>>, denied' \subseteq Templates
    PROVE  IInv'
<1> DEFINE t == Txn(at, c, seen, row)
<1>1. t \in Tx
    BY TxnType
<1>2. t.at = at /\ t.of = c /\ t.seen = seen
    BY TxnFields
<1>3. tx' = [tx EXCEPT ![s] = t]
    OBVIOUS
<1> HIDE DEF t
<1> QED
    BY <1>1, <1>2, <1>3, OnlyReads

\* A step that ends a transaction may raise the last version of a code, if a
\* KPI or a form then has that version in force.
LEMMA Ends ==
    ASSUME IInv, NEW c \in Codes, NEW v \in 1..MaxVersion,
           NEW live \in SUBSET (1..MaxVersion),
           last[c] <= v,
           c \notin Frameworks => live = {v},
           tx' \in [Sessions -> Tx],
           \A r \in Sessions : tx'[r] = tx[r] \/ tx'[r] = Idle,
           last' = [last EXCEPT ![c] = v], active' = [active EXCEPT ![c] = live],
           UNCHANGED denied
    PROVE  IInv'
<1> USE DEF IInv
<1>1. TypeOK'
    BY DEF TypeOK
<1>2. \A d \in Codes : last[d] \in Nat /\ last'[d] \in Nat /\ last[d] <= last'[d]
    BY DEF TypeOK
<1>4. ReadVersion'
  <2>1. ASSUME NEW r \in Sessions, tx'[r].at # "idle"
        PROVE  /\ tx'[r].of \in Codes /\ tx'[r].seen <= last'[tx'[r].of]
               /\ tx'[r].at = "drafting" => tx'[r].of \in Frameworks
               /\ tx'[r].at # "drafting" => tx'[r].seen > 0
    <3>1. tx'[r] = tx[r]
        BY <2>1, IdleFacts
    <3>2. tx[r].seen \in Nat
        BY Fields
    <3> QED
        BY <1>2, <2>1, <3>1, <3>2 DEF ReadVersion
  <2> QED
      BY <2>1 DEF ReadVersion
<1>5. LastInForce'
  <2>1. ASSUME NEW d \in Codes \ Frameworks
        PROVE  /\ last'[d] = 0 => active'[d] = {}
               /\ last'[d] > 0 => active'[d] = {last'[d]}
    <3>1. CASE d = c
        BY <2>1, <3>1 DEF TypeOK
    <3>2. CASE d # c
        BY <2>1, <3>2 DEF TypeOK, LastInForce
    <3> QED
        BY <3>1, <3>2
  <2> QED
      BY <2>1 DEF LastInForce
<1> QED
    BY <1>1, <1>4, <1>5

-----------------------------------------------------------------------------
(* One lemma per action that publishes: what it does to the library.       *)

\* The first version of a code.
LEMMA CreateFirstFacts ==
    ASSUME IInv, NEW c \in Codes, CreateFirst(c)
    PROVE  /\ c \notin Frameworks /\ last' = [last EXCEPT ![c] = @ + 1]
           /\ active' = [active EXCEPT ![c] = {last[c] + 1}]
BY DEF CreateFirst, IInv, TypeOK

\* A draft that is inserted follows the last version.
LEMMA InsertDraftFacts ==
    ASSUME IInv, NEW s \in Sessions, InsertDraft(s)
    PROVE  /\ tx[s].of \in Frameworks /\ tx[s].seen = last[tx[s].of]
           /\ last[tx[s].of] + 1 \in 1..MaxVersion
           /\ last' = [last EXCEPT ![tx[s].of] = @ + 1] /\ active' = active
<1>1. tx[s].of \in Frameworks /\ tx[s].seen <= last[tx[s].of]
    BY DEF InsertDraft, IInv, ReadVersion
<1>2. tx[s].seen \in Nat /\ last[tx[s].of] \in Nat
    BY <1>1, Fields DEF IInv, TypeOK, Codes
<1>3. last[tx[s].of] < tx[s].seen + 1 /\ tx[s].seen + 1 <= MaxVersion
    BY DEF InsertDraft
<1>4. tx[s].seen = last[tx[s].of]
    BY <1>1, <1>2, <1>3
<1> QED
    BY <1>1, <1>2, <1>3, <1>4 DEF InsertDraft, IInv, TypeOK

\* A version of a KPI or of a form that is installed follows the one read,
\* which is in force.
LEMMA InstallFacts ==
    ASSUME IInv, NEW s \in Sessions, Install(s)
    PROVE  /\ tx[s].of \in Codes \ Frameworks /\ tx[s].seen = last[tx[s].of]
           /\ active[tx[s].of] = {tx[s].seen}
           /\ last[tx[s].of] + 1 \in 1..MaxVersion
           /\ last' = [last EXCEPT ![tx[s].of] = @ + 1]
           /\ active' = [active EXCEPT ![tx[s].of] = {last[tx[s].of] + 1}]
<1>1. tx[s].of \in Codes \ Frameworks /\ tx[s].seen <= last[tx[s].of] /\ tx[s].seen > 0
    BY DEF Install, IInv, ReadVersion
<1>2. tx[s].seen \in Nat /\ last[tx[s].of] \in Nat
    BY <1>1, Fields DEF IInv, TypeOK
<1>3. last[tx[s].of] < tx[s].seen + 1 /\ tx[s].seen + 1 <= MaxVersion
    BY DEF Install
<1>4. tx[s].seen = last[tx[s].of]
    BY <1>1, <1>2, <1>3
<1>5. active[tx[s].of] = {tx[s].seen}
    BY <1>1, <1>2, <1>4 DEF IInv, LastInForce
<1> QED
    BY <1>1, <1>2, <1>3, <1>4, <1>5 DEF Install, IInv, TypeOK

\* A framework that is put in force is one of its versions.
LEMMA PutInForceFacts ==
    ASSUME IInv, NEW s \in Sessions, PutInForce(s)
    PROVE  /\ tx[s].of \in Frameworks /\ tx[s].seen \in 1..last[tx[s].of]
           /\ active' = [active EXCEPT ![tx[s].of] = {tx[s].seen}] /\ last' = last
<1>1. /\ tx[s].of \in Frameworks
      /\ tx[s].seen <= last[tx[s].of] /\ tx[s].seen > 0
    BY DEF PutInForce, IInv, ReadVersion
<1>2. tx[s].seen \in Nat /\ last[tx[s].of] \in Nat
    BY <1>1, Fields DEF IInv, TypeOK, Codes
<1> QED
    BY <1>1, <1>2 DEF PutInForce

-----------------------------------------------------------------------------
(* The invariant is inductive.                                             *)

\* It holds at the start.
LEMMA IInvInit == Init => IInv
<1> SUFFICES ASSUME Init PROVE IInv
    OBVIOUS
<1>1. TypeOK
    BY IdleFacts DEF Init, TypeOK
<1>2. ReadVersion
    BY IdleFacts DEF Init, ReadVersion
<1>3. LastInForce
    BY DEF Init, LastInForce
<1> QED
    BY <1>1, <1>2, <1>3 DEF IInv

\* Every step keeps it.
LEMMA IInvStep == IInv /\ [Next]_vars => IInv'
<1> SUFFICES ASSUME IInv, [Next]_vars PROVE IInv'
    OBVIOUS
<1>t. TypeOK /\ \A c \in Codes : last[c] \in 0..MaxVersion /\ active[c] \subseteq 1..MaxVersion
    BY DEF IInv, TypeOK
<1>1. ASSUME NEW c \in Codes, CreateFirst(c) PROVE IInv'
  <2>1. /\ c \notin Frameworks /\ last[c] = 0 /\ UNCHANGED denied
        /\ tx' \in [Sessions -> Tx] /\ \A r \in Sessions : tx'[r] = tx[r]
        /\ last' = [last EXCEPT ![c] = 1] /\ active' = [active EXCEPT ![c] = {1}]
      BY <1>1, <1>t DEF CreateFirst, TypeOK
  <2>2. 1 \in 1..MaxVersion /\ {1} \in SUBSET (1..MaxVersion) /\ last[c] <= 1
      BY <2>1
  <2> QED
      BY <2>1, <2>2, Ends
<1>2. ASSUME NEW s \in Sessions, FindActive(s) PROVE IInv'
  <2>1. tx[s].of \in Codes /\ tx[s].seen <= last[tx[s].of] /\ tx[s].seen > 0
      BY <1>2 DEF FindActive, IInv, ReadVersion
  <2>2. PICK v \in (IF active[tx[s].of] = {} THEN {0} ELSE active[tx[s].of]) :
            tx' = [tx EXCEPT ![s] = Txn("retiring", tx[s].of, tx[s].seen, v)]
      BY <1>2 DEF FindActive
  <2>3. v \in 0..MaxVersion /\ tx[s].seen \in 0..MaxVersion
      BY <1>t, <2>1, Fields
  <2>5. denied' \subseteq Templates /\ UNCHANGED <<last, active>>
      BY <1>2, <1>t DEF FindActive, TypeOK
  <2> QED
      BY <2>1, <2>2, <2>3, <2>5, StartsReading
<1>3. ASSUME NEW s \in Sessions, Retire(s) PROVE IInv'
    BY <1>3 DEF Retire, IInv, TypeOK, Tx, ReadVersion, LastInForce
<1>4. ASSUME NEW s \in Sessions, RetireNothing(s) PROVE IInv'
  <2>1. denied' \subseteq Templates /\ UNCHANGED <<last, active>>
        /\ tx' = [tx EXCEPT ![s] = Idle]
      BY <1>4, <1>t DEF RetireNothing, TypeOK
  <2> QED
      BY <2>1, OnlyReads, IdleFacts
<1>5. ASSUME NEW s \in Sessions, InsertDraft(s) PROVE IInv'
  <2> DEFINE c == tx[s].of
  <2>1. c \in Frameworks /\ last[c] + 1 \in 1..MaxVersion
        /\ last' = [last EXCEPT ![c] = last[c] + 1] /\ active' = active
      BY <1>5, InsertDraftFacts
  <2>2. active' = [active EXCEPT ![c] = active[c]]
      BY <1>t, <2>1 DEF TypeOK
  <2>3. c \in Codes /\ last[c] <= last[c] + 1 /\ active[c] \in SUBSET (1..MaxVersion)
      BY <1>t, <2>1 DEF Codes
  <2>4. /\ UNCHANGED denied /\ tx' \in [Sessions -> Tx]
        /\ \A r \in Sessions : tx'[r] = tx[r] \/ tx'[r] = Idle
      BY <1>5, <1>t, IdleFacts DEF InsertDraft, TypeOK
  <2> HIDE DEF c
  <2> QED
      BY <2>1, <2>2, <2>3, <2>4, Ends
<1>6. ASSUME NEW s \in Sessions, Install(s) PROVE IInv'
  <2> DEFINE c == tx[s].of
  <2>1. c \in Codes /\ last[c] + 1 \in 1..MaxVersion
        /\ last' = [last EXCEPT ![c] = last[c] + 1]
        /\ active' = [active EXCEPT ![c] = {last[c] + 1}]
      BY <1>6, InstallFacts
  <2>2. /\ UNCHANGED denied /\ tx' \in [Sessions -> Tx]
        /\ \A r \in Sessions : tx'[r] = tx[r] \/ tx'[r] = Idle
      BY <1>6, <1>t, IdleFacts DEF Install, TypeOK
  <2>3. last[c] <= last[c] + 1 /\ {last[c] + 1} \in SUBSET (1..MaxVersion)
      BY <1>t, <2>1
  <2> HIDE DEF c
  <2> QED
      BY <2>1, <2>2, <2>3, Ends
<1>7. ASSUME NEW s \in Sessions, PutInForce(s) PROVE IInv'
  <2> DEFINE c == tx[s].of
  <2>1. c \in Frameworks /\ c \in Codes /\ tx[s].seen \in 1..last[c]
        /\ active' = [active EXCEPT ![c] = {tx[s].seen}] /\ last' = last
      BY <1>7, PutInForceFacts DEF Codes
  <2>2. /\ UNCHANGED denied /\ tx' \in [Sessions -> Tx]
        /\ \A r \in Sessions : tx'[r] = tx[r] \/ tx'[r] = Idle
      BY <1>7, <1>t, IdleFacts DEF PutInForce, TypeOK
  <2> DEFINE v == last[c]
             live == {tx[s].seen}
  <2>3. /\ last' = [last EXCEPT ![c] = v] /\ active' = [active EXCEPT ![c] = live]
        /\ v \in 1..MaxVersion /\ last[c] <= v
        /\ live \in SUBSET (1..MaxVersion)
      BY <1>t, <2>1 DEF TypeOK
  <2> HIDE DEF c, v, live
  <2> QED
      BY <2>1, <2>2, <2>3, Ends
<1>8. ASSUME NEW s \in Sessions, Abort(s) PROVE IInv'
  <2>1. denied' \subseteq Templates /\ UNCHANGED <<last, active>>
        /\ tx' = [tx EXCEPT ![s] = Idle]
      BY <1>8, <1>t DEF Abort, TypeOK
  <2> QED
      BY <2>1, OnlyReads, IdleFacts
<1>9. ASSUME NEW s \in Sessions, NEW c \in Codes, NEW v \in 1..MaxVersion,
             ReadLast(s, c) \/ ReadTemplate(s, c) \/ ReadKpi(s, c, v) \/ ReadFramework(s, c, v)
      PROVE  IInv'
  <2>u. denied' \subseteq Templates /\ UNCHANGED <<last, active>>
      BY <1>9, <1>t DEF ReadLast, ReadTemplate, ReadKpi, ReadFramework, TypeOK
  <2>v. /\ last[c] \in 0..MaxVersion /\ last[c] <= last[c] /\ 0 \in 0..MaxVersion
        /\ v \in 0..MaxVersion
      BY <1>t
  <2>1. CASE ReadLast(s, c)
    <3>1. tx' = [tx EXCEPT ![s] = Txn("drafting", c, last[c], 0)] /\ c \in Frameworks
        BY <2>1 DEF ReadLast
    <3> QED
        BY <2>u, <2>v, <3>1, StartsReading
  <2>2. CASE ReadTemplate(s, c)
    <3>1. tx' = [tx EXCEPT ![s] = Txn("read", c, last[c], 0)] /\ last[c] > 0
        BY <2>2 DEF ReadTemplate
    <3> QED
        BY <2>u, <2>v, <3>1, StartsReading
  <2>3. CASE ReadKpi(s, c, v)
    <3>1. /\ tx' = [tx EXCEPT ![s] = Txn("retiring", c, v, v)]
          /\ c \in Kpis /\ v \in active[c]
        BY <2>3 DEF ReadKpi
    <3>2. v = last[c] /\ v <= last[c] /\ v > 0 /\ "retiring" # "drafting"
        BY <1>t, <3>1 DEF IInv, LastInForce, Codes
    <3> QED
        BY <2>u, <2>v, <3>1, <3>2, StartsReading
  <2>4. CASE ReadFramework(s, c, v)
    <3>1. tx' = [tx EXCEPT ![s] = Txn("read", c, v, 0)] /\ v \in 1..last[c]
        BY <2>4 DEF ReadFramework
    <3>2. v <= last[c] /\ v > 0
        BY <2>v, <3>1
    <3> QED
        BY <2>u, <2>v, <3>1, <3>2, StartsReading
  <2> QED
      BY <1>9, <2>1, <2>2, <2>3, <2>4
<1>10. ASSUME UNCHANGED vars PROVE IInv'
    BY <1>10 DEF vars, IInv, TypeOK, ReadVersion, LastInForce
<1> QED
    BY <1>1, <1>2, <1>3, <1>4, <1>5, <1>6, <1>7, <1>8, <1>9, <1>10 DEF Next

\* It holds always.
LEMMA IInvCorrect == Spec => []IInv
BY IInvInit, IInvStep, PTL DEF Spec

-----------------------------------------------------------------------------
(* The theorems.                                                           *)

\* Every variable keeps its type.
THEOREM TypeCorrect == Spec => []TypeOK
<1>1. IInv => TypeOK
    BY DEF IInv
<1> QED
    BY <1>1, IInvCorrect, PTL

\* A step leaves the library as it is, or is a step of the abstract library.
LEMMA LibraryStep == IInv /\ [Next]_vars => [Library!Next]_<<last, active>>
<1> SUFFICES ASSUME IInv, [Next]_vars PROVE [Library!Next]_<<last, active>>
    OBVIOUS
<1>1. ASSUME NEW c \in Codes, CreateFirst(c) PROVE Library!Next
    BY <1>1, CreateFirstFacts DEF Library!Next, Library!Publish
<1>2. ASSUME NEW s \in Sessions, InsertDraft(s) PROVE Library!Next
    BY <1>2, InsertDraftFacts DEF Library!Next, Library!Draft, Codes
<1>3. ASSUME NEW s \in Sessions, Install(s) PROVE Library!Next
    BY <1>3, InstallFacts DEF Library!Next, Library!Publish
<1>4. ASSUME NEW s \in Sessions, PutInForce(s) PROVE Library!Next
    BY <1>4, PutInForceFacts DEF Library!Next, Library!PutInForce, Codes
<1>5. ASSUME NEW s \in Sessions,
             FindActive(s) \/ Retire(s) \/ RetireNothing(s) \/ Abort(s)
      PROVE  UNCHANGED <<last, active>>
    BY <1>5 DEF FindActive, Retire, RetireNothing, Abort
<1>6. ASSUME NEW s \in Sessions, NEW c \in Codes, NEW v \in 1..MaxVersion,
             ReadLast(s, c) \/ ReadTemplate(s, c) \/ ReadKpi(s, c, v) \/ ReadFramework(s, c, v)
      PROVE  UNCHANGED <<last, active>>
    BY <1>6 DEF ReadLast, ReadTemplate, ReadKpi, ReadFramework
<1>7. ASSUME UNCHANGED vars PROVE UNCHANGED <<last, active>>
    BY <1>7 DEF vars
<1> QED
    BY <1>1, <1>2, <1>3, <1>4, <1>5, <1>6, <1>7 DEF Next

\* The transactions of the three services implement a register of versions:
\* numbers without a gap, one version in force.
THEOREM RegisterCorrect == Spec => ImplementsRegister
<1>1. Init => Library!Init
    BY DEF Init, Library!Init
<1> QED
    BY <1>1, IInvCorrect, LibraryStep, PTL DEF Spec, ImplementsRegister, Library!Spec

\* A step that adds a version to a code that has one adds it over the version
\* that its editor read.
LEMMA PublishedStep ==
    IInv /\ [Next]_vars =>
        \A c \in Kpis \cup Templates :
            last[c] > 0 /\ last'[c] # last[c]
               => \E s \in Sessions : /\ tx[s].of = c /\ tx'[s].of = NoCode
                                      /\ {tx[s].seen} = active[c]
                                      /\ active'[c] = {tx[s].seen + 1}
<1> SUFFICES ASSUME IInv, [Next]_vars, NEW c \in Kpis \cup Templates,
                    last[c] > 0, last'[c] # last[c]
             PROVE  \E s \in Sessions : /\ tx[s].of = c /\ tx'[s].of = NoCode
                                        /\ {tx[s].seen} = active[c]
                                        /\ active'[c] = {tx[s].seen + 1}
    OBVIOUS
<1>t. TypeOK /\ c \in Codes /\ c \notin Frameworks
    BY DEF IInv, Codes
<1>1. ASSUME NEW d \in Codes, CreateFirst(d) PROVE FALSE
    BY <1>1, <1>t DEF CreateFirst, TypeOK
<1>2. ASSUME NEW s \in Sessions, InsertDraft(s) PROVE FALSE
    BY <1>2, <1>t, InsertDraftFacts DEF TypeOK
<1>3. ASSUME NEW s \in Sessions, Install(s)
      PROVE  /\ tx[s].of = c /\ tx'[s].of = NoCode
             /\ {tx[s].seen} = active[c] /\ active'[c] = {tx[s].seen + 1}
  <2>1. tx[s].of = c
      BY <1>3, <1>t, InstallFacts DEF TypeOK
  <2>2. tx'[s] = Idle
      BY <1>3, <1>t DEF Install, TypeOK
  <2> QED
      BY <1>3, <1>t, <2>1, <2>2, InstallFacts, IdleFacts DEF TypeOK
<1>4. ASSUME NEW s \in Sessions, PutInForce(s) PROVE FALSE
    BY <1>4 DEF PutInForce
<1>5. ASSUME NEW s \in Sessions,
             FindActive(s) \/ Retire(s) \/ RetireNothing(s) \/ Abort(s)
      PROVE  FALSE
    BY <1>5 DEF FindActive, Retire, RetireNothing, Abort
<1>6. ASSUME NEW s \in Sessions, NEW d \in Codes, NEW v \in 1..MaxVersion,
             ReadLast(s, d) \/ ReadTemplate(s, d) \/ ReadKpi(s, d, v) \/ ReadFramework(s, d, v)
      PROVE  FALSE
    BY <1>6 DEF ReadLast, ReadTemplate, ReadKpi, ReadFramework
<1>7. ~UNCHANGED vars
    BY DEF vars
<1> QED
    BY <1>1, <1>2, <1>3, <1>4, <1>5, <1>6, <1>7 DEF Next

\* Nobody's version of a KPI or a form is overwritten unseen.
THEOREM PublishedCorrect == Spec => PublishedOverWhatWasRead
<1>1. IInv /\ [Next]_vars =>
        [\A c \in Kpis \cup Templates :
            last[c] > 0 /\ last'[c] # last[c]
               => \E s \in Sessions : /\ tx[s].of = c /\ tx'[s].of = NoCode
                                      /\ {tx[s].seen} = active[c]
                                      /\ active'[c] = {tx[s].seen + 1}]_vars
    BY PublishedStep
<1> QED
    BY <1>1, IInvCorrect, PTL DEF Spec, PublishedOverWhatWasRead
=============================================================================
